-------------------------------- MODULE Heap --------------------------------
(***************************************************************************)
(* st_heap: a binary heap in an array, and the array of back-pointers the  *)
(* caller may give it (heap_index), through which the caller finds where   *)
(* an object is, changes its key and repairs the heap from there.          *)
(*                                                                         *)
(* An object is the integer the program stores in the pointer.  The loops  *)
(* of st_heap_fixup and st_heap_fixdown are one step an iteration: pc says *)
(* which of them runs, index where it is.                                  *)
(***************************************************************************)
EXTENDS Integers, FiniteSets

CONSTANTS
  HeapCapacity,  \* heap->capacity
  NumIndex,      \* heap->max_heap_index_num
  Objects,       \* the objects the caller inserts: those below NumIndex fit
  Keys,          \* the keys cmp compares
  Indexed,       \* whether the caller gave a heap_index
  NoObj, NoIndex

HeapAssumption ==
  /\ HeapCapacity \in Nat \ {0} /\ NumIndex \in Nat
  /\ Objects \subseteq Nat /\ Keys \subseteq Nat /\ Keys # {}
  /\ Indexed \in BOOLEAN
  /\ NoObj \notin Objects /\ NoIndex = -1

VARIABLES
  heap_arr, size, heap_index,
  prio,      \* the key cmp finds for each object, in the caller's memory
  pc,        \* "idle", or the loop that runs: "up", "down"
  index,     \* where that loop is
  heap_out   \* what the running or the last call gives back

heapVars == <<heap_arr, size, heap_index, prio, pc, index, heap_out>>

Slots == 0 .. (HeapCapacity - 1)
Used == 0 .. (size - 1)
Members == {heap_arr[i] : i \in Used}
HeapResult(code, obj) == [code |-> code, obj |-> obj]

Above(i) == (i - 1) \div 2

\* cmp(heap_arr[i], heap_arr[j]) <= 0
NotAfter(i, j) == prio[heap_arr[i]] <= prio[heap_arr[j]]

\* st_heap_create; the caller's back-pointers all say "not in the heap".
HeapInit ==
  /\ heap_arr = [i \in Slots |-> NoObj]
  /\ size = 0
  /\ heap_index = [o \in Objects |-> NoIndex]
  /\ prio \in [Objects -> Keys]
  /\ pc = "idle" /\ index = 0
  /\ heap_out = HeapResult("none", NoObj)

\* The store heap_index[o] = i, skipped when the caller gave no array.
Point(at, o, i) == IF Indexed THEN [at EXCEPT ![o] = i] ELSE at

SwapForgets(i, j) ==
  /\ heap_arr' = [heap_arr EXCEPT ![i] = heap_arr[j], ![j] = heap_arr[i]]
  /\ heap_index' = Point(heap_index, heap_arr[i], j)

\* What is at i and what is at j change places, and their back-pointers do.
Swap(i, j) ==
  /\ heap_arr' = [heap_arr EXCEPT ![i] = heap_arr[j], ![j] = heap_arr[i]]
  /\ heap_index' = Point(Point(heap_index, heap_arr[j], i), heap_arr[i], j)

\* The call of st_heap_fixup or st_heap_fixdown for position i, up to its loop.
Enter(loop, i, result) ==
  /\ index' = i
  /\ \/ size' <= i /\ pc' = "idle" /\ heap_out' = HeapResult("err", NoObj)
     \/ i < size' /\ pc' = loop /\ heap_out' = result

Finish == pc' = "idle" /\ UNCHANGED <<index, heap_out>>

UpDone == index = 0 \/ NotAfter(Above(index), index)

\* One iteration of st_heap_fixup.
FixUp ==
  /\ pc = "up"
  /\ IF UpDone
     THEN Finish /\ UNCHANGED <<heap_arr, heap_index>>
     ELSE Swap(index, Above(index)) /\ index' = Above(index) /\ UNCHANGED <<pc, heap_out>>
  /\ UNCHANGED <<size, prio>>

ChildLeft(i) == 2 * i + 1

\* The child that st_heap_fixdown compares with: the lesser, the left one of equals.
Child(i) ==
  IF 2 * i + 2 < size /\ ~NotAfter(2 * i + 1, 2 * i + 2) THEN 2 * i + 2 ELSE 2 * i + 1

DownDone == size <= 2 * index + 1 \/ NotAfter(index, Child(index))

\* One iteration of st_heap_fixdown.
FixDown ==
  /\ pc = "down"
  /\ IF DownDone
     THEN Finish /\ UNCHANGED <<heap_arr, heap_index>>
     ELSE Swap(index, Child(index)) /\ index' = Child(index) /\ UNCHANGED <<pc, heap_out>>
  /\ UNCHANGED <<size, prio>>

\* A caller with back-pointers inserts no object that is in the heap.
MayInsert(o) == pc = "idle" /\ (Indexed => o \notin Members)

InsertRefused(o) == size >= HeapCapacity \/ (Indexed /\ o >= NumIndex)

st_heap_insert(o) ==
  /\ MayInsert(o)
  /\ \/ /\ InsertRefused(o)
        /\ heap_out' = HeapResult("full", NoObj)
        /\ UNCHANGED <<heap_arr, size, heap_index, pc, index>>
     \/ /\ ~InsertRefused(o)
        /\ heap_arr' = [heap_arr EXCEPT ![size] = o]
        /\ size' = size + 1
        /\ heap_index' = Point(heap_index, o, size)
        /\ \/ size = 0 /\ heap_out' = HeapResult("ok", NoObj) /\ UNCHANGED <<pc, index>>
           \/ size # 0 /\ Enter("up", size, HeapResult("ok", NoObj))
  /\ UNCHANGED prio

st_heap_extract ==
  /\ pc = "idle"
  /\ \/ /\ size = 0
        /\ heap_out' = HeapResult("empty", NoObj)
        /\ UNCHANGED <<heap_arr, size, heap_index, pc, index>>
     \/ /\ size # 0
        /\ size' = size - 1
        /\ LET taken == heap_arr[0]
               last  == heap_arr[size - 1]
               gone  == Point(heap_index, taken, NoIndex)
           IN  \/ /\ size = 1
                  /\ heap_index' = gone
                  /\ heap_out' = HeapResult("ok", taken)
                  /\ UNCHANGED <<heap_arr, pc, index>>
               \/ /\ size > 1
                  /\ heap_arr' = [heap_arr EXCEPT ![0] = last]
                  /\ heap_index' = Point(gone, last, 0)
                  /\ Enter("down", 0, HeapResult("ok", taken))
  /\ UNCHANGED prio

\* The back-pointers are left as they are, those of the objects dropped too.
st_heap_clear ==
  /\ pc = "idle"
  /\ size' = 0
  /\ heap_out' = HeapResult("ok", NoObj)
  /\ UNCHANGED <<heap_arr, heap_index, prio, pc, index>>

\* The caller gives o another key and, if o has a back-pointer, repairs the heap
\* from there: towards the root after a decrease, towards the leaves otherwise.
Rekey(o, k) ==
  /\ pc = "idle" /\ Indexed /\ k # prio[o]
  /\ prio' = [prio EXCEPT ![o] = k]
  /\ \/ /\ heap_index[o] = NoIndex
        /\ heap_out' = HeapResult("ok", NoObj)
        /\ UNCHANGED <<pc, index, size>>
     \/ /\ heap_index[o] # NoIndex
        /\ UNCHANGED size
        /\ Enter(IF k < prio[o] THEN "up" ELSE "down", heap_index[o], HeapResult("ok", NoObj))
  /\ UNCHANGED <<heap_arr, heap_index>>

HeapNext ==
  \/ \E o \in Objects : st_heap_insert(o) \/ \E k \in Keys : Rekey(o, k)
  \/ st_heap_extract
  \/ st_heap_clear
  \/ FixUp
  \/ FixDown

HeapSpec == HeapInit /\ [][HeapNext]_heapVars

-----------------------------------------------------------------------------
(* Properties.                                                              *)

\* The types, with nothing stored past the caller's array of back-pointers.
HeapTypeOK ==
  /\ heap_arr \in [Slots -> Objects \cup {NoObj}]
  /\ size \in 0 .. HeapCapacity
  /\ heap_index \in [Objects -> Slots \cup {NoIndex}]
  /\ \A o \in Objects : o >= NumIndex => heap_index[o] = NoIndex
  /\ prio \in [Objects -> Keys]
  /\ pc \in {"idle", "up", "down"}
  /\ index \in Slots
  /\ heap_out \in [code : {"none", "ok", "full", "empty", "err"}, obj : Objects \cup {NoObj}]

\* Between calls no object stands above one of a lesser key: through inserts,
\* extracts, clears and changed keys, stale back-pointers after a clear included.
\* While a loop runs, that holds but at index, and what is above index is not after
\* what is below it.
HeapOrdered ==
  /\ pc = "idle" => \A i \in Used \ {0} : NotAfter(Above(i), i)
  /\ pc = "up" => \A i \in Used \ {0, index} : NotAfter(Above(i), i)
  /\ pc = "down" => \A i \in Used \ {0} : Above(i) # index => NotAfter(Above(i), i)
  /\ pc # "idle" /\ index # 0 =>
       \A i \in Used \ {0} : Above(i) = index => NotAfter(Above(index), i)

\* Every object in the heap has a back-pointer to where it is, in the middle of
\* a repair too; so no object is there twice.
BackPointersExact == Indexed => \A i \in Used : heap_index[heap_arr[i]] = i

\* Between calls the heap is ordered and the caller finds every object where its
\* back-pointer says, through changed keys and clears that leave stale back-pointers
\* behind; in the middle of a repair that holds but at one place.
HeapSound == HeapOrdered /\ BackPointersExact

\* The heap behaves as a priority queue: an extract gives an object of the least
\* key, nothing is lost or doubled by the moves of a repair.
HeapContent == [o \in Objects |-> Cardinality({i \in Used : heap_arr[i] = o})]
Queue == INSTANCE PriorityQueue WITH content <- HeapContent, Size <- HeapCapacity, out <- heap_out
ImplementsPriorityQueue == Queue!Spec
=============================================================================
