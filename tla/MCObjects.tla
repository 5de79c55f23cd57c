----------------------------- MODULE MCObjects -----------------------------
(***************************************************************************)
(* The small objects of the library that nothing of the library calls: the *)
(* queue, the stack, the heap, the block pool and the life of a semaphore. *)
(* They share no state, so one run checks them side by side and not in     *)
(* each other's product: a behaviour is about the object it begins with.   *)
(***************************************************************************)
EXTENDS Queue, Stack, Heap, BlockPool, SemLifecycle

CONSTANTS i1, i2, h1, h2, h3, h4, sem

TwoItems == {i1, i2}
FourHandles == {h1, h2, h3, h4}
MinusOne == -1

OneSem == {sem}

VARIABLE object      \* what the behaviour is about

ASSUME MCAssumption == StackAssumption /\ HeapAssumption /\ BlockPoolAssumption

MCInit ==
  /\ object \in {"queue", "stack", "heap", "pool", "semaphore"}
  /\ Init /\ StackInit /\ HeapInit /\ PoolInit /\ LifeInit
  /\ object # "heap" => prio = [o \in Objects |-> CHOOSE k \in Keys : TRUE]

MCNext ==
  \/ object = "queue" /\ Next /\ UNCHANGED <<object, stackVars, heapVars, poolVars, lifeVars>>
  \/ object = "stack" /\ StackNext /\ UNCHANGED <<object, vars, heapVars, poolVars, lifeVars>>
  \/ object = "heap" /\ HeapNext /\ UNCHANGED <<object, vars, stackVars, poolVars, lifeVars>>
  \/ object = "pool" /\ PoolNext /\ UNCHANGED <<object, vars, stackVars, heapVars, lifeVars>>
  \/ object = "semaphore" /\ LifeNext /\ UNCHANGED <<object, vars, stackVars, heapVars, poolVars>>

MCSpec == MCInit /\ [][MCNext]_<<object, vars, stackVars, heapVars, poolVars, lifeVars>>

\* Nothing the heap does depends on the slots past size, on index when no loop runs, nor
\* on the key of an object no heap_index has room for: states of it that differ only
\* there are one.
HeapView ==
  <<[i \in Used |-> heap_arr[i]], heap_index, [o \in Objects \cap 0 .. NumIndex - 1 |-> prio[o]], pc,
    IF pc = "idle" THEN 0 ELSE index, heap_out>>
View == IF object = "heap" THEN <<object, HeapView>> ELSE <<object, vars, stackVars, poolVars, lifeVars>>

-----------------------------------------------------------------------------
\* The types of the four arrays: indices stay within them, the top of the stack
\* below its capacity, the back-pointers of the heap within the array of the caller,
\* and the list of freed blocks of the pool within its array whatever is freed how
\* often.
ArraysTypeOK == TypeOK /\ StackTypeOK /\ HeapTypeOK /\ PoolTypeOK
=============================================================================
