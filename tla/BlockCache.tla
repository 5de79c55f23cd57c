----------------------------- MODULE BlockCache -----------------------------
(***************************************************************************)
(* st_block_cache: a cache of fixed-size blocks, handed out by id, counted *)
(* by reference and grown one pool of Count blocks at a time.              *)
(*                                                                         *)
(* Threads call fetch, return and read, which run under the cache's mutex; *)
(* clear, destroy and create are not locked, so the caller runs them while *)
(* no call is in progress.  The growth of the cache is one step per table, *)
(* because its allocations fail one by one and because the unlocked        *)
(* readers of BlockCacheSize see every intermediate state.                 *)
(*                                                                         *)
(* The callers are modelled by their handles: a handle is a variable of    *)
(* the program that holds one reference to a block.                        *)
(***************************************************************************)
EXTENDS Integers, FiniteSets

CONSTANTS
  Threads,       \* threads that call the cache
  Handles,       \* places of the program that can hold a block id
  Count,         \* blocks per pool (the count given to st_block_cache_create)
  MaxBlocks,     \* past this many blocks every allocation fails (bound)
  AllocMayFail,  \* whether malloc and realloc may fail before that
  Pinning,       \* whether a shared handle is kept until the fetch from it ends
  DoubleReturn,  \* whether a caller returns ids that no handle holds
  NoThread, NoHandle

ASSUME BlockCacheAssumption ==
  /\ NoThread \notin Threads /\ NoHandle \notin Handles
  /\ IsFiniteSet(Handles)
  /\ Count \in Nat \ {0} /\ MaxBlocks \in Nat /\ MaxBlocks >= Count
  /\ AllocMayFail \in BOOLEAN /\ Pinning \in BOOLEAN /\ DoubleReturn \in BOOLEAN

VARIABLES
  numPools,      \* num_pools; 0 once destroyed
  data,          \* data[p]: what the pool pointer p points to
  refCounts,     \* ref_counts, a function on the allocated indices
  freeBlocks,    \* free_blocks, a function on the allocated indices
  numFree,       \* num_free_blocks
  lock,          \* owner of the mutex
  pc, op,        \* per thread: control point, and the call in progress
  handle,        \* the block each handle holds a reference to, or NoBlock
  failed,        \* an allocation of the cache has failed
  fault          \* the process touched memory that is not its own

cache == <<numPools, data, refCounts, freeBlocks, numFree>>
vars == <<cache, lock, pc, op, handle, failed, fault>>

NoBlock == -1
Null == [i \in {} |-> 0]     \* a NULL table: it has no entries
NoOp == [kind |-> "none", h |-> NoHandle, id |-> NoBlock, src |-> NoHandle,
         ret |-> "none"]

Capacity == numPools * Count
Free == {freeBlocks[i] : i \in 0 .. (numFree - 1)}
Holders(id) == {h \in Handles : handle[h] = id}

CurCapacityLost == 0

\* cur_capacity: the capacity before the growth that has raised num_pools.
CurCapacity == Capacity - Count

SlotByPool(id) == [pool |-> id \div Count, offset |-> id \div Count]
Slot(id) == [pool |-> id \div Count, offset |-> id % Count]

Busy(h) == \E t \in Threads : op[t].h = h
Pinned(h) == Pinning /\ \E t \in Threads : op[t].src = h
Idle == \A t \in Threads : pc[t] = "idle"

Init ==
  /\ numPools = 1
  /\ data = [p \in {0} |-> "pool"]
  /\ refCounts = [i \in 0 .. (Count - 1) |-> 0]
  /\ freeBlocks = [i \in 0 .. (Count - 1) |-> i]
  /\ numFree = Count
  /\ lock = NoThread
  /\ pc = [t \in Threads |-> "idle"]
  /\ op = [t \in Threads |-> NoOp]
  /\ handle = [h \in Handles |-> NoBlock]
  /\ failed = FALSE
  /\ fault = FALSE

-----------------------------------------------------------------------------
(* Calls: the caller picks its arguments and goes for the mutex.           *)

Call(t, kind, h, id, src) ==
  /\ pc[t] = "idle" /\ numPools > 0
  /\ pc' = [pc EXCEPT ![t] = "lock"]
  /\ op' = [op EXCEPT ![t] = [NoOp EXCEPT !.kind = kind, !.h = h, !.id = id,
                                          !.src = src]]
  /\ UNCHANGED <<cache, lock, handle, failed, fault>>

\* Fetch with a negative id: a new block for h.
CallFetchNew(t, h) ==
  handle[h] = NoBlock /\ ~Busy(h) /\ Call(t, "fetch", h, NoBlock, NoHandle)

\* Fetch with the id held by g: a second reference to that block, for h.
CallFetchShared(t, h, g) ==
  /\ handle[h] = NoBlock /\ ~Busy(h)
  /\ handle[g] # NoBlock /\ (Pinning => ~Busy(g))
  /\ Call(t, "fetch", h, handle[g], g)

\* Fetch with an id no pool ever reaches.
CallFetchInvalid(t, h) ==
  handle[h] = NoBlock /\ ~Busy(h) /\ Call(t, "fetch", h, MaxBlocks, NoHandle)

CallReturn(t, h) ==
  /\ handle[h] # NoBlock /\ ~Busy(h) /\ ~Pinned(h)
  /\ Call(t, "return", h, handle[h], NoHandle)

\* A caller's mistake: an id that no handle holds is returned once more.
CallReturnUnheld(t, id) ==
  DoubleReturn /\ Holders(id) = {} /\ Call(t, "return", NoHandle, id, NoHandle)

CallRead(t, id) == Call(t, "read", NoHandle, id, NoHandle)

Lock(t) ==
  /\ pc[t] = "lock" /\ lock = NoThread
  /\ lock' = t
  /\ pc' = [pc EXCEPT ![t] = "body"]
  /\ UNCHANGED <<cache, op, handle, failed, fault>>

FinishNoUnlock(t, r) ==
  /\ pc' = [pc EXCEPT ![t] = IF r = "ok" THEN "unlock" ELSE "idle"]
  /\ op' = [op EXCEPT ![t].ret = r]

\* The call leaves its critical section with result r.
Finish(t, r) ==
  /\ pc' = [pc EXCEPT ![t] = "unlock"]
  /\ op' = [op EXCEPT ![t].ret = r]

Unlock(t) ==
  /\ pc[t] = "unlock"
  /\ lock' = NoThread
  /\ pc' = [pc EXCEPT ![t] = "idle"]
  /\ op' = [op EXCEPT ![t] = NoOp]
  /\ UNCHANGED <<cache, handle, failed, fault>>

\* Memory outside the tables is touched: the process is lost.
Fault ==
  /\ fault' = TRUE
  /\ UNCHANGED <<cache, lock, pc, op, handle, failed>>

-----------------------------------------------------------------------------
(* fetch, under the mutex.                                                  *)

\* st_bcache_get_block is safe only for a slot of a pool that is allocated.
SlotMapped(id) == Slot(id).pool \in DOMAIN data /\ data[Slot(id).pool] = "pool"

Readable(id) == id \in DOMAIN refCounts /\ SlotMapped(id)

\* ref_counts[id]++, then the address of the block: the handle of t's call now
\* refers to id, and left blocks stay on the free list.
TakeReference(t, id, left) ==
  IF Readable(id)
  THEN /\ refCounts' = [refCounts EXCEPT ![id] = @ + 1]
       /\ numFree' = left
       /\ handle' = [handle EXCEPT ![op[t].h] = id]
       /\ Finish(t, "ok")
       /\ UNCHANGED <<numPools, data, freeBlocks, lock, failed, fault>>
  ELSE Fault

FetchBody(t) ==
  /\ pc[t] = "body" /\ op[t].kind = "fetch"
  /\ \/ /\ op[t].id >= Capacity
        /\ Finish(t, "null")
        /\ UNCHANGED <<cache, lock, handle, failed, fault>>
     \/ /\ op[t].id < Capacity /\ op[t].id >= 0
        /\ TakeReference(t, op[t].id, numFree)
     \/ /\ op[t].id < 0
        /\ pc' = [pc EXCEPT ![t] = IF numFree <= 0 THEN "grow" ELSE "pop"]
        /\ UNCHANGED <<cache, lock, op, handle, failed, fault>>

\* An allocation of the growth fails: the table it was for is left as given.
AllocFails(t) ==
  /\ failed' = TRUE
  /\ Finish(t, "null")
  /\ UNCHANGED <<lock, handle, fault>>

\* An allocation fails by choice of the environment, or at the bound.
MayFail == AllocMayFail \/ Capacity + Count > MaxBlocks

\* realloc of data; entries that were not there before are uninitialised.
GrowTable(t) ==
  /\ pc[t] = "grow"
  /\ \/ /\ Capacity + Count <= MaxBlocks
        /\ data' = [p \in 0 .. numPools |->
                      IF p \in DOMAIN data THEN data[p] ELSE "junk"]
        /\ numPools' = numPools + 1
        /\ pc' = [pc EXCEPT ![t] = "grow_pool"]
        /\ UNCHANGED <<lock, op, handle, failed, fault>>
     \/ /\ MayFail
        /\ data' = Null
        /\ AllocFails(t)
        /\ UNCHANGED numPools
  /\ UNCHANGED <<refCounts, freeBlocks, numFree>>

\* malloc of the new pool.
GrowPool(t) ==
  /\ pc[t] = "grow_pool"
  /\ \/ /\ data' = [data EXCEPT ![numPools - 1] = "pool"]
        /\ pc' = [pc EXCEPT ![t] = "grow_refs"]
        /\ UNCHANGED <<lock, op, handle, failed, fault>>
     \/ /\ AllocMayFail
        /\ data' = [data EXCEPT ![numPools - 1] = "null"]
        /\ AllocFails(t)
  /\ UNCHANGED <<numPools, refCounts, freeBlocks, numFree>>

\* realloc of ref_counts; only the counts of the last pool are cleared.
GrowRefs(t) ==
  /\ pc[t] = "grow_refs"
  /\ \/ /\ \E junk \in [(0 .. (CurCapacity - 1)) \ DOMAIN refCounts -> {0, 1}] :
             refCounts' = [i \in 0 .. (Capacity - 1) |->
                             IF i >= CurCapacity THEN 0
                             ELSE IF i \in DOMAIN refCounts THEN refCounts[i]
                             ELSE junk[i]]
        /\ pc' = [pc EXCEPT ![t] = "grow_free"]
        /\ UNCHANGED <<lock, op, handle, failed, fault>>
     \/ /\ AllocMayFail
        /\ refCounts' = Null
        /\ AllocFails(t)
  /\ UNCHANGED <<numPools, data, freeBlocks, numFree>>

\* realloc of free_blocks; the new ids fill its front, the rest is not read
\* before it is written.
GrowFree(t) ==
  /\ pc[t] = "grow_free"
  /\ \/ /\ freeBlocks' = [i \in 0 .. (Capacity - 1) |->
                            IF i < Count THEN i + CurCapacity
                            ELSE IF i \in DOMAIN freeBlocks THEN freeBlocks[i]
                            ELSE 0]
        /\ numFree' = Count
        /\ pc' = [pc EXCEPT ![t] = "pop"]
        /\ UNCHANGED <<lock, op, handle, failed, fault>>
     \/ /\ AllocMayFail
        /\ freeBlocks' = Null
        /\ AllocFails(t)
        /\ UNCHANGED numFree
  /\ UNCHANGED <<numPools, data, refCounts>>

\* free_blocks[--num_free_blocks] is the new block.
Pop(t) ==
  /\ pc[t] = "pop"
  /\ IF numFree - 1 \in DOMAIN freeBlocks
     THEN TakeReference(t, freeBlocks[numFree - 1], numFree - 1)
     ELSE Fault

-----------------------------------------------------------------------------
(* return and read, under the mutex.                                        *)

RefusedPastEnd(id) ==
  \/ id > Capacity
  \/ id \in DOMAIN refCounts /\ refCounts[id] <= 0

RefusedBelowZero(id) ==
  \/ id >= Capacity
  \/ id \in DOMAIN refCounts /\ refCounts[id] < 0

\* The checks that return and read have in common stop the call.
Refused(id) ==
  \/ id >= Capacity
  \/ id \in DOMAIN refCounts /\ refCounts[id] <= 0

LastReferenceNone(id) == refCounts[id] <= 0
LastReferenceEarly(id) == refCounts[id] <= 2

\* The count is zero or less once it is decremented.
LastReference(id) == refCounts[id] <= 1

\* The entries that giving back id touches lie inside the tables.
RoomToReturn(id) ==
  /\ id \in DOMAIN refCounts
  /\ ~LastReference(id) \/ numFree \in DOMAIN freeBlocks

ReturnBody(t) ==
  LET id == op[t].id IN
  /\ pc[t] = "body" /\ op[t].kind = "return"
  /\ \/ /\ Refused(id)
        /\ Finish(t, "err")
        /\ UNCHANGED <<cache, lock, handle, failed, fault>>
     \/ /\ ~Refused(id) /\ RoomToReturn(id)
        /\ refCounts' = [refCounts EXCEPT ![id] = @ - 1]
        /\ IF LastReference(id)      \* st_bcache_return_block
           THEN /\ freeBlocks' = [freeBlocks EXCEPT ![numFree] = id]
                /\ numFree' = numFree + 1
           ELSE UNCHANGED <<freeBlocks, numFree>>
        /\ handle' = IF op[t].h = NoHandle THEN handle
                     ELSE [handle EXCEPT ![op[t].h] = NoBlock]
        /\ Finish(t, "ok")
        /\ UNCHANGED <<numPools, data, lock, failed, fault>>
     \/ /\ ~Refused(id) /\ ~RoomToReturn(id)
        /\ Fault

ReadBody(t) ==
  LET id == op[t].id IN
  /\ pc[t] = "body" /\ op[t].kind = "read"
  /\ \/ /\ Refused(id)
        /\ Finish(t, "null")
        /\ UNCHANGED <<cache, lock, handle, failed, fault>>
     \/ /\ ~Refused(id) /\ Readable(id)
        /\ Finish(t, "ok")
        /\ UNCHANGED <<cache, lock, handle, failed, fault>>
     \/ /\ ~Refused(id) /\ ~Readable(id)
        /\ Fault

-----------------------------------------------------------------------------
(* The unlocked operations, run while no call is in progress.              *)

\* st_block_cache_clear: the caller gives up every handle.
Clear ==
  /\ Idle /\ numPools > 0
  /\ IF 0 .. (Capacity - 1) \subseteq DOMAIN refCounts \cap DOMAIN freeBlocks
     THEN /\ refCounts' = [i \in DOMAIN refCounts |->
                             IF i < Capacity THEN 0 ELSE refCounts[i]]
          /\ freeBlocks' = [i \in DOMAIN freeBlocks |->
                              IF i < Capacity THEN i ELSE freeBlocks[i]]
          /\ numFree' = Capacity
          /\ handle' = [h \in Handles |-> NoBlock]
          /\ UNCHANGED <<numPools, data, lock, pc, op, failed, fault>>
     ELSE Fault

\* Every pool pointer is freed, an uninitialised one too.
Destroy ==
  /\ Idle /\ numPools > 0
  /\ IF \A p \in DOMAIN data : data[p] # "junk"
     THEN /\ numPools' = 0 /\ numFree' = 0
          /\ data' = Null /\ refCounts' = Null /\ freeBlocks' = Null
          /\ handle' = [h \in Handles |-> NoBlock]
          /\ UNCHANGED <<lock, pc, op, failed, fault>>
     ELSE Fault

\* st_block_cache_create, when all of its allocations succeed; when one fails
\* it gives back what it took and returns NULL.
Create ==
  /\ Idle /\ numPools = 0
  /\ numPools' = 1 /\ numFree' = Count
  /\ data' = [p \in {0} |-> "pool"]
  /\ refCounts' = [i \in 0 .. (Count - 1) |-> 0]
  /\ freeBlocks' = [i \in 0 .. (Count - 1) |-> i]
  /\ failed' = FALSE
  /\ UNCHANGED <<lock, pc, op, handle, fault>>

-----------------------------------------------------------------------------
Begin(t) ==
  \/ \E h \in Handles : CallFetchNew(t, h) \/ CallFetchInvalid(t, h)
                          \/ CallReturn(t, h)
  \/ \E h, g \in Handles : CallFetchShared(t, h, g)
  \/ \E id \in 0 .. MaxBlocks : CallReturnUnheld(t, id) \/ CallRead(t, id)

Critical(t) ==
  \/ FetchBody(t) \/ GrowTable(t) \/ GrowPool(t) \/ GrowRefs(t) \/ GrowFree(t)
  \/ Pop(t) \/ ReturnBody(t) \/ ReadBody(t) \/ Unlock(t)

Step(t) == Begin(t) \/ Lock(t) \/ Critical(t)

Next ==
  /\ ~fault
  /\ \/ \E t \in Threads : Step(t)
     \/ Clear \/ Destroy \/ Create

Spec == Init /\ [][Next]_vars

\* A thread inside the critical section never waits for another one: the
\* scheduler alone keeps it going.
FairSpec == Spec /\ \A t \in Threads : WF_vars(~fault /\ Critical(t))

-----------------------------------------------------------------------------
(* Properties.                                                              *)

Ids == Nat \cup {NoBlock}
Phases == {"idle", "lock", "body", "grow", "grow_pool", "grow_refs", "grow_free",
           "pop", "unlock"}
Calls == [kind : {"none", "fetch", "return", "read"}, h : Handles \cup {NoHandle},
          id : Ids, src : Handles \cup {NoHandle}, ret : {"none", "ok", "null", "err"}]

\* The type of every variable.  A reference count is never negative: no
\* sequence of calls, double returns included, drives one below zero.
TypeOK ==
  /\ numPools \in Nat /\ numFree \in Nat
  /\ data \in [DOMAIN data -> {"pool", "null", "junk"}]
  /\ DOMAIN refCounts \subseteq Nat /\ refCounts \in [DOMAIN refCounts -> Nat]
  /\ DOMAIN freeBlocks \subseteq Nat /\ freeBlocks \in [DOMAIN freeBlocks -> Nat]
  /\ lock \in Threads \cup {NoThread}
  /\ pc \in [Threads -> Phases] /\ op \in [Threads -> Calls]
  /\ handle \in [Handles -> Ids]
  /\ failed \in BOOLEAN /\ fault \in BOOLEAN

\* The mutex is held by exactly the thread that is in the critical section,
\* on the error paths of fetch, return and read as well.
MutualExclusion ==
  \A t \in Threads : (lock = t) <=> (pc[t] \notin {"idle", "lock"})

\* ref_counts[id] is the number of handles on id, at every step of every
\* interleaving of fetch, return and growth: no reference is lost when the
\* tables are reallocated and none is counted twice.
RefsConserved ==
  ~failed =>
    /\ \A id \in DOMAIN refCounts : refCounts[id] = Cardinality(Holders(id))
    /\ \A h \in Handles : handle[h] # NoBlock => handle[h] \in DOMAIN refCounts

\* Outside the critical section the free list holds every block without a
\* handle, once, and no other: none is leaked by a growth, none can be handed
\* out twice, and st_bcache_return_block always has room for the next one.
FreeListExact ==
  (~failed /\ lock = NoThread) =>
    LET unheld == {id \in 0 .. (Capacity - 1) : Holders(id) = {}} IN
    /\ Free = unheld
    /\ numFree = Cardinality(unheld)
    /\ DOMAIN freeBlocks = 0 .. (Capacity - 1)

\* Two different blocks in use never share memory, and each lies inside a
\* pool that is allocated: growth moves no block that is in use.
HeldSlotsDisjoint ==
  ~failed =>
    \A g, h \in Handles :
      handle[g] # NoBlock =>
        /\ SlotMapped(handle[g]) /\ Slot(handle[g]).offset < Count
        /\ handle[h] \notin {handle[g], NoBlock}
             => Slot(handle[h]) # Slot(handle[g])

\* No call touches memory outside the tables unless an allocation of the
\* cache had failed before.
FaultOnlyAfterFailure == fault => failed

\* A block that no handle holds is never given back twice: the second return
\* is refused and changes neither the counts nor the free list.
DoubleReturnRefused ==
  [][\A t \in Threads :
       op[t].kind = "return" /\ op[t].h = NoHandle /\ ~failed
         => op'[t].ret # "ok" /\ (lock = t => UNCHANGED cache)]_vars

\* "Read a block in block cache ... NULL if any error": reading never faults.
ReadNeverFaults ==
  [][\A t \in Threads :
       pc[t] = "body" /\ op[t].kind = "read" /\ lock = t => ~fault']_vars

\* A thread that takes the mutex gives it back, whichever allocation fails.
CriticalSectionEnds == \A t \in Threads : lock = t ~> (lock # t \/ fault)

\* The ids that the fetches in progress for h name.
Wanted(h) ==
  {op[t].id : t \in {u \in Threads : op[u].kind = "fetch" /\ op[u].h = h}} \ {NoBlock}

Alloc == INSTANCE BlockAlloc
           WITH Blocks <- 0 .. (MaxBlocks - 1), wanted <- [h \in Handles |-> Wanted(h)]

\* What the cache promises its callers (BlockAlloc), implemented as long as no
\* allocation fails: a fetch without an id never gives a block that somebody holds.
ImplementsAlloc == Alloc!Init /\ [][~failed => Alloc!Next]_handle
=============================================================================
