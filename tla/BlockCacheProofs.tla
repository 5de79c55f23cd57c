-------------------------- MODULE BlockCacheProofs --------------------------
(***************************************************************************)
(* Proofs about BlockCache, for any number of threads, handles, blocks per *)
(* pool and pools.  The invariants are proved one layer on top of another: *)
(* types, the mutex, the calls in progress, and last the tables.           *)
(***************************************************************************)
EXTENDS BlockCacheInv, BlockCacheSize, FiniteSetTheorems, TLAPS

-----------------------------------------------------------------------------
(* Arithmetic.                                                              *)

\* A table of n pools of c blocks has n * c entries, one more pool adds c.
LEMMA PoolArithmetic ==
  ASSUME NEW n \in Nat, NEW c \in Nat
  PROVE  /\ n * c \in Nat
         /\ (n + 1) * c = n * c + c
         /\ n > 0 => n * c >= c
<1>1. n * c \in Nat
  OBVIOUS
<1>2. (n + 1) * c = n * c + c
  OBVIOUS
<1>3. ASSUME n > 0 PROVE n * c >= c
  <2>1. n - 1 \in Nat
    BY <1>3
  <2>2. (n - 1) * c \in Nat
    BY <2>1
  <2>3. ((n - 1) + 1) * c = (n - 1) * c + c
    BY <2>1
  <2> QED
    BY <2>2, <2>3
<1> QED
  BY <1>1, <1>2, <1>3

\* An id below the capacity falls into one of the pools.
LEMMA SlotBounds ==
  ASSUME NEW n \in Nat, NEW c \in Nat \ {0}, NEW i \in 0 .. (n * c - 1)
  PROVE  i \div c \in 0 .. (n - 1) /\ i % c \in 0 .. (c - 1)
<1> DEFINE q == i \div c
<1>1. n * c \in Nat
  OBVIOUS
<1>2. q \in Nat /\ i % c \in 0 .. (c - 1) /\ i = c * q + (i % c)
  BY <1>1
<1>3. ASSUME q >= n PROVE FALSE
  <2>1. PICK d \in Nat : q = n + d
    BY <1>2, <1>3
  <2>2. c * q = c * n + c * d
    BY <2>1
  <2>3. c * d \in Nat /\ c * n = n * c
    BY <2>1
  <2>4. c * q >= n * c
    BY <2>2, <2>3, <1>1
  <2> QED
    BY <2>4, <1>1, <1>2
<1> QED
  BY <1>2, <1>3

-----------------------------------------------------------------------------
(* Types.                                                                   *)

LEMMA TypeInit == Init => TypeOK
<1> SUFFICES ASSUME Init PROVE TypeOK
  OBVIOUS
<1>1. /\ DOMAIN refCounts \subseteq Nat /\ refCounts \in [DOMAIN refCounts -> Nat]
      /\ DOMAIN freeBlocks \subseteq Nat /\ freeBlocks \in [DOMAIN freeBlocks -> Nat]
      /\ data \in [DOMAIN data -> {"pool", "null", "junk"}]
  BY BlockCacheAssumption DEF Init
<1>2. NoOp \in Calls
  BY DEF NoOp, NoBlock, Ids, Calls
<1>3. pc \in [Threads -> Phases] /\ op \in [Threads -> Calls]
  BY <1>2 DEF Init, Phases
<1>4. handle \in [Handles -> Ids]
  BY DEF Init, Ids, NoBlock
<1> QED
  BY <1>1, <1>3, <1>4, BlockCacheAssumption DEF Init, TypeOK

LEMMA NullType == DOMAIN Null = {} /\ \A S : Null \in [DOMAIN Null -> S]
  BY DEF Null

LEMMA FinishType ==
  ASSUME TypeOK, NEW t \in Threads, NEW r \in {"ok", "null", "err"}, Finish(t, r)
  PROVE  pc' \in [Threads -> Phases] /\ op' \in [Threads -> Calls]
  BY DEF TypeOK, Finish, Phases, Calls

LEMMA CallType ==
  ASSUME TypeOK, NEW t \in Threads, NEW kind \in {"fetch", "return", "read"},
         NEW h \in Handles \cup {NoHandle}, NEW id \in Ids,
         NEW src \in Handles \cup {NoHandle}, Call(t, kind, h, id, src)
  PROVE  TypeOK'
  BY DEF Call, TypeOK, cache, NoOp, NoBlock, Ids, Phases, Calls

LEMMA FaultType == TypeOK /\ Fault => TypeOK'
  BY DEF Fault, TypeOK, cache

LEMMA TakeReferenceType ==
  ASSUME TypeOK, NEW t \in Threads, NEW id \in Nat, NEW left \in Nat,
         TakeReference(t, id, left)
  PROVE  TypeOK'
<1>1. CASE Readable(id)
  BY <1>1, FinishType DEF TakeReference, Readable, TypeOK, Ids
<1>2. CASE ~Readable(id)
  BY <1>2, FaultType DEF TakeReference
<1> QED
  BY <1>1, <1>2

LEMMA TypeStep == TypeOK /\ [Next]_vars => TypeOK'
<1> SUFFICES ASSUME TypeOK, [Next]_vars PROVE TypeOK'
  OBVIOUS
<1> USE BlockCacheAssumption
<1> DEFINE Typed == pc' \in [Threads -> Phases] /\ op' \in [Threads -> Calls]
<1>1. Capacity \in Nat /\ Ids = Nat \cup {-1} /\ NoBlock = -1
  BY PoolArithmetic DEF TypeOK, Capacity, Ids, NoBlock
<1>2. ASSUME NEW t \in Threads, Begin(t) PROVE TypeOK'
  <2>1. PICK kind \in {"fetch", "return", "read"}, h \in Handles \cup {NoHandle},
             id \in Ids, src \in Handles \cup {NoHandle} : Call(t, kind, h, id, src)
    <3>1. \A h \in Handles : handle[h] \in Ids
      BY DEF TypeOK
    <3>2. MaxBlocks \in Ids /\ NoBlock \in Ids /\ 0 .. MaxBlocks \subseteq Ids
      BY <1>1
    <3> QED
      BY <1>2, <3>1, <3>2 DEF Begin, CallFetchNew, CallFetchShared, CallFetchInvalid,
         CallReturn, CallReturnUnheld, CallRead
  <2> QED
    BY <2>1, CallType
<1>3. ASSUME NEW t \in Threads, Lock(t) PROVE TypeOK'
  BY <1>3 DEF Lock, TypeOK, cache, Phases
<1>4. ASSUME NEW t \in Threads, Unlock(t) PROVE TypeOK'
  <2>1. Typed
    BY <1>1, <1>4 DEF Unlock, TypeOK, NoOp, Phases, Calls
  <2> QED
    BY <1>4, <2>1 DEF Unlock, TypeOK, cache
<1>5. ASSUME NEW t \in Threads, FetchBody(t) PROVE TypeOK'
  <2>1. CASE /\ Finish(t, "null")
             /\ UNCHANGED <<cache, lock, handle, failed, fault>>
    <3>1. Typed
      BY <2>1, FinishType
    <3> QED
      BY <2>1, <3>1 DEF TypeOK, cache
  <2>2. CASE op[t].id >= 0 /\ TakeReference(t, op[t].id, numFree)
    <3>1. op[t].id \in Nat /\ numFree \in Nat
      BY <1>1, <2>2 DEF TypeOK, Calls
    <3> QED
      BY <2>2, <3>1, TakeReferenceType
  <2>3. CASE /\ pc' = [pc EXCEPT ![t] = IF numFree <= 0 THEN "grow" ELSE "pop"]
             /\ UNCHANGED <<cache, lock, op, handle, failed, fault>>
    BY <2>3 DEF TypeOK, cache, Phases
  <2> QED
    BY <1>5, <2>1, <2>2, <2>3 DEF FetchBody
<1>6. ASSUME NEW t \in Threads, GrowTable(t) PROVE TypeOK'
  <2>0. data' \in [DOMAIN data' -> {"pool", "null", "junk"}]
    BY <1>1, <1>6, NullType DEF GrowTable, TypeOK
  <2>00. numPools' \in Nat
    <3>1. numPools' = numPools \/ numPools' = numPools + 1
      BY <1>6 DEF GrowTable
    <3> QED
      BY <3>1 DEF TypeOK
  <2>1. CASE AllocFails(t)
    <3>1. Typed
      BY <2>1, FinishType DEF AllocFails
    <3> QED
      BY <1>6, <2>0, <2>00, <2>1, <3>1 DEF GrowTable, AllocFails, TypeOK
  <2>2. CASE pc' = [pc EXCEPT ![t] = "grow_pool"] /\ UNCHANGED op
    <3>1. Typed
      BY <2>2 DEF TypeOK, Phases
    <3> QED
      BY <1>6, <2>0, <2>00, <2>2, <3>1 DEF GrowTable, AllocFails, TypeOK
  <2> QED
    BY <1>6, <2>1, <2>2 DEF GrowTable
<1>7. ASSUME NEW t \in Threads, GrowPool(t) PROVE TypeOK'
  <2>1. CASE AllocFails(t)
    <3>1. Typed
      BY <2>1, FinishType DEF AllocFails
    <3> QED
      BY <1>1, <1>7, <2>1, <3>1, NullType DEF GrowPool, AllocFails, TypeOK
  <2>2. CASE pc' = [pc EXCEPT ![t] = "grow_refs"] /\ UNCHANGED op
    <3>1. Typed
      BY <2>2 DEF TypeOK, Phases
    <3> QED
      BY <1>1, <1>7, <2>2, <3>1, NullType DEF GrowPool, AllocFails, TypeOK
  <2> QED
    BY <1>7, <2>1, <2>2 DEF GrowPool
<1>8. ASSUME NEW t \in Threads, GrowRefs(t) PROVE TypeOK'
  <2> DEFINE Table == refCounts'
  <2>0. DOMAIN Table \subseteq Nat /\ Table \in [DOMAIN Table -> Nat]
    <3>1. CASE Table = Null
      BY <3>1, NullType
    <3>2. CASE Table # Null
      <4>1. DOMAIN Table = 0 .. (Capacity - 1)
        BY <1>8, <3>2 DEF GrowRefs
      <4>2. PICK junk \in [(0 .. (CurCapacity - 1)) \ DOMAIN refCounts -> {0, 1}] :
              Table = [i \in 0 .. (Capacity - 1) |->
                         IF i >= CurCapacity THEN 0
                         ELSE IF i \in DOMAIN refCounts THEN refCounts[i]
                         ELSE junk[i]]
        BY <1>8, <3>2 DEF GrowRefs
      <4>3. \A i \in DOMAIN refCounts : refCounts[i] \in Nat
        BY DEF TypeOK
      <4>4. CurCapacity \in Int
        BY <1>1 DEF CurCapacity
      <4>5. Table \in [0 .. (Capacity - 1) -> Nat]
        BY <1>1, <4>2, <4>3, <4>4
      <4> QED
        BY <1>1, <4>1, <4>5
    <3> QED
      BY <3>1, <3>2
  <2>1. CASE AllocFails(t)
    <3>1. Typed
      BY <2>1, FinishType DEF AllocFails
    <3> QED
      BY <1>1, <1>8, <2>1, <3>1, <2>0 DEF GrowRefs, AllocFails, TypeOK
  <2>2. CASE pc' = [pc EXCEPT ![t] = "grow_free"] /\ UNCHANGED op
    <3>1. Typed
      BY <2>2 DEF TypeOK, Phases
    <3> QED
      BY <1>1, <1>8, <2>2, <3>1, <2>0 DEF GrowRefs, AllocFails, TypeOK
  <2> QED
    BY <1>8, <2>1, <2>2 DEF GrowRefs
<1>9. ASSUME NEW t \in Threads, GrowFree(t) PROVE TypeOK'
  <2> DEFINE Table == freeBlocks'
  <2>0. DOMAIN Table \subseteq Nat /\ Table \in [DOMAIN Table -> Nat]
    <3>1. CASE Table = Null
      BY <3>1, NullType
    <3>2. CASE Table # Null
      <4>1. DOMAIN Table = 0 .. (Capacity - 1)
        BY <1>9, <3>2 DEF GrowFree
      <4>2. Table = [i \in 0 .. (Capacity - 1) |->
                       IF i < Count THEN i + CurCapacity
                       ELSE IF i \in DOMAIN freeBlocks THEN freeBlocks[i]
                       ELSE 0]
        BY <1>9, <3>2 DEF GrowFree
      <4>3. \A i \in DOMAIN freeBlocks : freeBlocks[i] \in Nat
        BY DEF TypeOK
      <4>4. \A i \in 0 .. (Capacity - 1) : i + CurCapacity \in Nat
        <5>1. numPools > 0 => Capacity >= Count
          BY PoolArithmetic DEF TypeOK, Capacity
        <5>2. numPools = 0 => Capacity = 0
          BY DEF Capacity
        <5> QED
          BY <1>1, <5>1, <5>2 DEF CurCapacity, TypeOK
      <4>5. Table \in [0 .. (Capacity - 1) -> Nat]
        BY <1>1, <4>2, <4>3, <4>4
      <4> QED
        BY <1>1, <4>1, <4>5
    <3> QED
      BY <3>1, <3>2
  <2>1. CASE AllocFails(t)
    <3>1. Typed
      BY <2>1, FinishType DEF AllocFails
    <3> QED
      BY <1>1, <1>9, <2>1, <3>1, <2>0 DEF GrowFree, AllocFails, TypeOK
  <2>2. CASE pc' = [pc EXCEPT ![t] = "pop"] /\ UNCHANGED op
    <3>1. Typed
      BY <2>2 DEF TypeOK, Phases
    <3> QED
      BY <1>1, <1>9, <2>2, <3>1, <2>0 DEF GrowFree, AllocFails, TypeOK
  <2> QED
    BY <1>9, <2>1, <2>2 DEF GrowFree
<1>10. ASSUME NEW t \in Threads, Pop(t) PROVE TypeOK'
  <2>1. CASE numFree - 1 \in DOMAIN freeBlocks
    <3>1. numFree - 1 \in Nat /\ freeBlocks[numFree - 1] \in Nat
      BY <2>1 DEF TypeOK
    <3> QED
      BY <1>10, <2>1, <3>1, TakeReferenceType DEF Pop
  <2>2. CASE numFree - 1 \notin DOMAIN freeBlocks
    BY <1>10, <2>2, FaultType DEF Pop
  <2> QED
    BY <2>1, <2>2
<1>11. ASSUME NEW t \in Threads, ReturnBody(t) PROVE TypeOK'
  <2> DEFINE id == op[t].id
  <2>1. CASE Refused(id)
    <3>1. Typed
      BY <1>11, <2>1, FinishType DEF ReturnBody
    <3> QED
      BY <1>11, <2>1, <3>1 DEF ReturnBody, TypeOK, cache
  <2>2. CASE ~Refused(id) /\ ~RoomToReturn(id)
    BY <1>11, <2>2, FaultType DEF ReturnBody
  <2>3. CASE ~Refused(id) /\ RoomToReturn(id)
    <3>1. id \in Nat /\ refCounts[id] \in Nat /\ refCounts[id] - 1 \in Nat
      BY <2>3 DEF Refused, RoomToReturn, TypeOK
    <3>2. /\ DOMAIN refCounts' \subseteq Nat
          /\ refCounts' \in [DOMAIN refCounts' -> Nat]
      BY <1>11, <2>3, <3>1 DEF ReturnBody, TypeOK
    <3>3. /\ DOMAIN freeBlocks' \subseteq Nat /\ numFree' \in Nat
          /\ freeBlocks' \in [DOMAIN freeBlocks' -> Nat]
      BY <1>11, <2>3, <3>1 DEF ReturnBody, TypeOK
    <3>4. handle' \in [Handles -> Ids]
      BY <1>1, <1>11, <2>3 DEF ReturnBody, TypeOK
    <3>5. Typed
      BY <1>11, <2>3, FinishType DEF ReturnBody
    <3> QED
      BY <1>11, <2>3, <3>2, <3>3, <3>4, <3>5 DEF ReturnBody, TypeOK
  <2> QED
    BY <2>1, <2>2, <2>3
<1>12. ASSUME NEW t \in Threads, ReadBody(t) PROVE TypeOK'
  <2>1. CASE \E r \in {"null", "ok"} :
               Finish(t, r) /\ UNCHANGED <<cache, lock, handle, failed, fault>>
    <3>1. Typed
      BY <2>1, FinishType
    <3> QED
      BY <2>1, <3>1 DEF TypeOK, cache
  <2> QED
    BY <1>12, <2>1, FaultType DEF ReadBody
<1>13. ASSUME Clear PROVE TypeOK'
  <2>1. CASE 0 .. (Capacity - 1) \subseteq DOMAIN refCounts \cap DOMAIN freeBlocks
    BY <1>1, <1>13, <2>1 DEF Clear, TypeOK
  <2> QED
    BY <1>13, <2>1, FaultType DEF Clear
<1>14. ASSUME Destroy PROVE TypeOK'
  <2>1. CASE \A p \in DOMAIN data : data[p] # "junk"
    <3>1. data' = Null /\ refCounts' = Null /\ freeBlocks' = Null /\ numFree' = 0
          /\ numPools' = 0 /\ handle' \in [Handles -> Ids]
      BY <1>1, <1>14, <2>1 DEF Destroy
    <3>2. UNCHANGED <<lock, pc, op, failed, fault>>
      BY <1>14, <2>1 DEF Destroy
    <3>3. DOMAIN Null \subseteq Nat
      BY NullType
    <3> QED
      BY <3>1, <3>2, <3>3, NullType DEF TypeOK
  <2> QED
    BY <1>14, <2>1, FaultType DEF Destroy
<1>15. ASSUME Create PROVE TypeOK'
  <2>1. /\ DOMAIN refCounts' \subseteq Nat
        /\ refCounts' \in [DOMAIN refCounts' -> Nat]
        /\ DOMAIN freeBlocks' \subseteq Nat
        /\ freeBlocks' \in [DOMAIN freeBlocks' -> Nat]
        /\ data' \in [DOMAIN data' -> {"pool", "null", "junk"}]
    BY <1>15 DEF Create
  <2> QED
    BY <1>15, <2>1 DEF Create, TypeOK
<1>16. CASE UNCHANGED vars
  BY <1>16 DEF vars, cache, TypeOK
<1> QED
  BY <1>2, <1>3, <1>4, <1>5, <1>6, <1>7, <1>8, <1>9, <1>10, <1>11, <1>12,
     <1>13, <1>14, <1>15, <1>16
  DEF Next, Step, Critical

\* TypeOK, for every instance: in particular no sequence of calls, with double
\* returns and failed allocations among them, drives a reference count of
\* st_block_cache below zero.
THEOREM TypeCorrect == Spec => []TypeOK
  BY TypeInit, TypeStep, PTL DEF Spec

-----------------------------------------------------------------------------
(* The mutex.                                                               *)

LEMMA MutexStep == TypeOK /\ MutualExclusion /\ [Next]_vars => MutualExclusion'
<1> SUFFICES ASSUME TypeOK, MutualExclusion, [Next]_vars PROVE MutualExclusion'
  OBVIOUS
<1> USE BlockCacheAssumption
<1>1. pc \in [Threads -> Phases] /\ lock \in Threads \cup {NoThread}
  BY DEF TypeOK
<1>2. CASE UNCHANGED <<lock, pc>>
  BY <1>2 DEF MutualExclusion
<1>3. ASSUME NEW t \in Threads, pc[t] = "idle", pc' = [pc EXCEPT ![t] = "lock"],
             UNCHANGED lock
      PROVE  MutualExclusion'
  BY <1>1, <1>3 DEF MutualExclusion
<1>4. ASSUME NEW t \in Threads, Lock(t) PROVE MutualExclusion'
  BY <1>1, <1>4 DEF Lock, MutualExclusion
<1>5. ASSUME NEW t \in Threads, Unlock(t) PROVE MutualExclusion'
  BY <1>1, <1>5 DEF Unlock, MutualExclusion
<1>6. ASSUME NEW t \in Threads, pc[t] \notin {"idle", "lock"},
             NEW x \in Phases \ {"idle", "lock"},
             pc' = [pc EXCEPT ![t] = x], UNCHANGED lock
      PROVE  MutualExclusion'
  BY Zenon, <1>1, <1>6 DEF MutualExclusion
<1>7. ASSUME NEW t \in Threads, Begin(t) PROVE MutualExclusion'
  BY <1>3, <1>7
  DEF Begin, CallFetchNew, CallFetchShared, CallFetchInvalid, CallReturn,
      CallReturnUnheld, CallRead, Call
<1>8. ASSUME NEW t \in Threads, Critical(t), ~Unlock(t) PROVE MutualExclusion'
  <2>1. CASE Fault
    BY <2>1, <1>2 DEF Fault
  <2>2. CASE ~Fault
    <3>1. pc[t] \notin {"idle", "lock"}
      BY <1>8 DEF Critical, FetchBody, GrowTable, GrowPool, GrowRefs, GrowFree, Pop,
         ReturnBody, ReadBody
    <3>2. UNCHANGED lock
      BY <1>8, <2>2 DEF Critical, FetchBody, GrowTable, GrowPool, GrowRefs, GrowFree,
         Pop, ReturnBody, ReadBody, TakeReference, AllocFails
    <3>3. \E x \in Phases \ {"idle", "lock"} : pc' = [pc EXCEPT ![t] = x]
      BY <1>8, <2>2 DEF Critical, FetchBody, GrowTable, GrowPool, GrowRefs, GrowFree,
         Pop, ReturnBody, ReadBody, TakeReference, AllocFails, Finish, Phases
    <3> QED
      BY <1>6, <3>1, <3>2, <3>3
  <2> QED
    BY <2>1, <2>2
<1>9. CASE Clear \/ Destroy \/ Create
  BY <1>2, <1>9 DEF Clear, Destroy, Create, Fault
<1>10. CASE UNCHANGED vars
  BY <1>2, <1>10 DEF vars
<1> QED
  BY <1>4, <1>5, <1>7, <1>8, <1>9, <1>10 DEF Next, Step

\* MutualExclusion, for every instance: fetch, return and read hold the mutex
\* in their critical section and give it back on every path out of it.
THEOREM MutexHeld == Spec => []MutualExclusion
<1>1. Init => MutualExclusion
  BY BlockCacheAssumption DEF Init, MutualExclusion
<1> QED
  BY <1>1, MutexStep, TypeCorrect, PTL DEF Spec

-----------------------------------------------------------------------------
(* The calls in progress.                                                   *)

\* Finish changes nothing of a call but its result.
LEMMA FinishKeeps ==
  ASSUME TypeOK, NEW t \in Threads, NEW r \in {"ok", "null", "err"}, Finish(t, r)
  PROVE  /\ pc'[t] = "unlock"
         /\ \A u \in Threads \ {t} : pc'[u] = pc[u] /\ op'[u] = op[u]
         /\ \A u \in Threads :
              /\ op'[u].kind = op[u].kind /\ op'[u].h = op[u].h
              /\ op'[u].id = op[u].id /\ op'[u].src = op[u].src
  BY DEF Finish, TypeOK, Calls

\* A call ends; if it sets a handle, that is its own.
LEMMA FinishCalls ==
  ASSUME TypeOK, CallsOK, NEW t \in Threads, pc[t] # "idle",
         NEW r \in {"ok", "null", "err"}, Finish(t, r),
         \/ UNCHANGED handle
         \/ \E b \in Ids : handle' = [handle EXCEPT ![op[t].h] = b]
  PROVE  CallsOK'
<1> USE BlockCacheAssumption
<1>1. \A h \in Handles : h # op[t].h => handle'[h] = handle[h]
  BY DEF TypeOK
<1>2. HandlesOwned'
  BY FinishKeeps DEF CallsOK, HandlesOwned
<1>3. CallOK(t)'
  <2>1. op[t].src \in Handles => handle'[op[t].src] = handle[op[t].src]
    BY <1>1 DEF CallsOK, HandlesOwned, TypeOK, Calls
  <2> QED
    BY <2>1, FinishKeeps DEF CallsOK, CallOK, Before, Growth
<1>4. ASSUME NEW u \in Threads, u # t PROVE CallOK(u)'
  <2>1. /\ op[u].src \in Handles => handle'[op[u].src] = handle[op[u].src]
        /\ op[u].h \in Handles => handle'[op[u].h] = handle[op[u].h]
    BY <1>1, <1>4 DEF CallsOK, HandlesOwned, TypeOK, Calls
  <2>2. ~SingleThread
    BY <1>4 DEF SingleThread
  <2> QED
    BY <1>4, <2>1, <2>2, FinishKeeps DEF CallsOK, CallOK
<1> QED
  BY <1>2, <1>3, <1>4 DEF CallsOK

\* A call moves on inside fetch, or takes the mutex.
LEMMA MoveCalls ==
  ASSUME TypeOK, CallsOK, NEW t \in Threads, pc[t] \in Before,
         NEW x \in Before, pc' = [pc EXCEPT ![t] = x], UNCHANGED <<op, handle>>,
         x \in Growth \cup {"pop"} => op[t].kind = "fetch" /\ op[t].id = NoBlock
  PROVE  CallsOK'
<1>1. HandlesOwned'
  BY DEF CallsOK, HandlesOwned
<1>2. \A u \in Threads \ {t} : CallOK(u)'
  BY DEF CallsOK, CallOK, TypeOK, Holders
<1>3. CallOK(t)'
  BY DEF CallsOK, CallOK, TypeOK, Before, Growth, Holders
<1> QED
  BY <1>1, <1>2, <1>3 DEF CallsOK

\* A call begins with a handle no other call uses.
LEMMA BeginCalls ==
  ASSUME Disciplined, TypeOK, CallsOK, NEW t \in Threads, Begin(t)
  PROVE  CallsOK'
<1> USE BlockCacheAssumption
<1> DEFINE Begins(kind, h, id, src) ==
        /\ Call(t, kind, h, id, src)
        /\ kind = "fetch" => h \in Handles /\ handle[h] = NoBlock
        /\ kind = "fetch" => id \in {NoBlock, MaxBlocks} \/ src \in Handles
        /\ kind = "return" =>
             /\ id \in Nat
             /\ \/ h \in Handles /\ handle[h] = id
                \/ h = NoHandle /\ Holders(id) = {} /\ SingleThread
        /\ kind = "read" => h = NoHandle /\ id \in Nat
        /\ src \in Handles =>
             kind = "fetch" /\ id \in Nat /\ handle[src] = id /\ ~Busy(src)
        /\ h \in Handles => ~Busy(h) /\ src # h /\ (handle[h] = NoBlock \/ ~Pinned(h))
<1>1. PICK kind \in {"fetch", "return", "read"}, h \in Handles \cup {NoHandle},
           id \in Ids, src \in Handles \cup {NoHandle} : Begins(kind, h, id, src)
  <2>1. \A g \in Handles : handle[g] \in Ids /\ (handle[g] # NoBlock => handle[g] \in Nat)
    BY DEF TypeOK, Ids
  <2>2. MaxBlocks \in Ids /\ NoBlock \in Ids /\ 0 .. MaxBlocks \subseteq Ids
    BY DEF Ids
  <2>3. CASE \E h \in Handles : CallFetchNew(t, h) \/ CallFetchInvalid(t, h)
    BY <2>2, <2>3 DEF CallFetchNew, CallFetchInvalid
  <2>4. CASE \E h \in Handles : CallReturn(t, h)
    <3>1. PICK g \in Handles : /\ Call(t, "return", g, handle[g], NoHandle)
                               /\ handle[g] # NoBlock /\ ~Busy(g) /\ ~Pinned(g)
      BY <2>4 DEF CallReturn
    <3>2. handle[g] \in Nat /\ handle[g] \in Ids
      BY <2>1, <3>1
    <3>3. Begins("return", g, handle[g], NoHandle)
      BY <3>1, <3>2
    <3> HIDE DEF Begins
    <3> QED
      BY <3>2, <3>3
  <2>5. CASE \E h, g \in Handles : CallFetchShared(t, h, g)
    BY <2>1, <2>5 DEF CallFetchShared, Disciplined
  <2>6. CASE \E id \in 0 .. MaxBlocks : CallRead(t, id)
    BY <2>2, <2>6 DEF CallRead
  <2>7. CASE \E id \in 0 .. MaxBlocks : CallReturnUnheld(t, id)
    BY <2>2, <2>7 DEF CallReturnUnheld, Disciplined
  <2> QED
    BY <2>3, <2>4, <2>5, <2>6, <2>7 DEF Begin
<1>2. /\ pc[t] = "idle" /\ pc'[t] = "lock" /\ UNCHANGED handle
      /\ op'[t].kind = kind /\ op'[t].h = h /\ op'[t].id = id /\ op'[t].src = src
      /\ op'[t].ret = "none"
      /\ \A u \in Threads \ {t} : pc'[u] = pc[u] /\ op'[u] = op[u]
  BY <1>1 DEF Call, TypeOK, NoOp
<1>3. \A u \in Threads \ {t} : CallOK(u)'
  BY <1>2 DEF CallsOK, CallOK, Holders
<1>4. CallOK(t)'
  BY <1>1, <1>2 DEF CallOK, Before, Growth, Holders
<1>5. h \in Handles => \A u \in Threads : op[u].h # h /\ op[u].src # h
  <2>1. ASSUME h \in Handles, NEW u \in Threads, op[u].src = h PROVE FALSE
    <3>1. op[u].id \in Nat /\ handle[h] = op[u].id
      BY <2>1 DEF CallsOK, CallOK
    <3>2. Pinned(h)
      BY <2>1 DEF Pinned, Disciplined
    <3> QED
      BY <1>1, <2>1, <3>1, <3>2 DEF NoBlock
  <2> QED
    BY <1>1, <2>1 DEF Busy
<1>6. src \in Handles => \A u \in Threads : op[u].h # src
  BY <1>1 DEF Busy
<1>7. HandlesOwned'
  BY <1>1, <1>2, <1>5, <1>6 DEF CallsOK, HandlesOwned
<1> QED
  BY <1>3, <1>4, <1>7 DEF CallsOK

LEMMA CallsStep ==
  Disciplined /\ TypeOK /\ CallsOK /\ [Next]_vars => CallsOK'
<1> SUFFICES ASSUME Disciplined, TypeOK, CallsOK, [Next]_vars PROVE CallsOK'
  OBVIOUS
<1> USE BlockCacheAssumption
<1>1. CASE UNCHANGED <<pc, op, handle>>
  BY <1>1 DEF CallsOK, CallOK, HandlesOwned, Holders
<1>2. ASSUME Fault PROVE CallsOK'
  BY <1>1, <1>2 DEF Fault
<1>3. ASSUME NEW t \in Threads, Lock(t) PROVE CallsOK'
  BY <1>3, MoveCalls DEF Lock, Before, Growth
<1>4. ASSUME NEW t \in Threads, Unlock(t) PROVE CallsOK'
  <2>1. /\ pc'[t] = "idle" /\ op'[t] = NoOp /\ UNCHANGED handle
        /\ \A u \in Threads \ {t} : pc'[u] = pc[u] /\ op'[u] = op[u]
    BY <1>4 DEF Unlock, TypeOK
  <2>2. \A u \in Threads \ {t} : CallOK(u)'
    BY <2>1 DEF CallsOK, CallOK, Holders
  <2>3. CallOK(t)'
    BY <2>1 DEF CallOK, NoOp, Growth, Before
  <2>4. HandlesOwned'
    BY <2>1 DEF CallsOK, HandlesOwned, NoOp
  <2> QED
    BY <2>2, <2>3, <2>4 DEF CallsOK
<1>5. ASSUME NEW t \in Threads, NEW id \in Nat, NEW left \in Nat, pc[t] # "idle",
             TakeReference(t, id, left)
      PROVE  CallsOK'
  BY <1>2, <1>5, FinishCalls DEF TakeReference, Ids
<1>6. ASSUME NEW t \in Threads, AllocFails(t), pc[t] # "idle" PROVE CallsOK'
  BY <1>6, FinishCalls DEF AllocFails
<1>7. ASSUME NEW t \in Threads, FetchBody(t) PROVE CallsOK'
  <2>1. op[t].id \in Ids /\ numFree \in Nat /\ Ids = Nat \cup {-1} /\ NoBlock = -1
    BY DEF TypeOK, Calls, Ids, NoBlock
  <2>2. CASE op[t].id >= 0 /\ TakeReference(t, op[t].id, numFree)
    BY <1>5, <1>7, <2>1, <2>2 DEF FetchBody
  <2>3. CASE Finish(t, "null") /\ UNCHANGED handle
    BY <1>7, <2>3, FinishCalls DEF FetchBody
  <2>4. CASE /\ op[t].id < 0 /\ UNCHANGED <<op, handle>>
             /\ \E x \in {"grow", "pop"} : pc' = [pc EXCEPT ![t] = x]
    <3>1. pc[t] = "body" /\ op[t].kind = "fetch" /\ op[t].id = NoBlock
      BY <1>7, <2>1, <2>4 DEF FetchBody
    <3>2. PICK x \in {"grow", "pop"} : pc' = [pc EXCEPT ![t] = x]
      BY <2>4
    <3>3. UNCHANGED op /\ UNCHANGED handle
      BY <2>4
    <3> QED
      BY <3>1, <3>2, <3>3, MoveCalls DEF Before, Growth
  <2> QED
    BY <1>7, <2>2, <2>3, <2>4 DEF FetchBody
<1>8. ASSUME NEW t \in Threads, NEW x \in {"grow_pool", "grow_refs", "grow_free", "pop"},
             pc[t] \in Growth, pc' = [pc EXCEPT ![t] = x], UNCHANGED <<op, handle>>
      PROVE  CallsOK'
  <2>1. op[t].kind = "fetch" /\ op[t].id = NoBlock
    BY <1>8 DEF CallsOK, CallOK
  <2> QED
    BY <1>8, <2>1, MoveCalls DEF Before, Growth
<1>9. ASSUME NEW t \in Threads, GrowTable(t) \/ GrowPool(t) \/ GrowRefs(t) \/ GrowFree(t)
      PROVE  CallsOK'
  BY <1>6, <1>8, <1>9 DEF GrowTable, GrowPool, GrowRefs, GrowFree, Growth
<1>10. ASSUME NEW t \in Threads, Pop(t) PROVE CallsOK'
  <2>1. CASE numFree - 1 \in DOMAIN freeBlocks
    <3>1. numFree - 1 \in Nat /\ freeBlocks[numFree - 1] \in Nat
      BY <2>1 DEF TypeOK
    <3> QED
      BY <1>5, <1>10, <2>1, <3>1 DEF Pop
  <2> QED
    BY <1>2, <1>10, <2>1 DEF Pop
<1>11. ASSUME NEW t \in Threads, ReturnBody(t) PROVE CallsOK'
  <2>1. CASE \E r \in {"ok", "err"} : Finish(t, r)
    <3>1. \/ UNCHANGED handle
          \/ handle' = [handle EXCEPT ![op[t].h] = NoBlock]
      BY <1>11, <2>1 DEF ReturnBody, Fault
    <3> QED
      BY <1>11, <2>1, <3>1, FinishCalls DEF ReturnBody, Ids
  <2> QED
    BY <1>2, <1>11, <2>1 DEF ReturnBody
<1>12. ASSUME NEW t \in Threads, ReadBody(t) PROVE CallsOK'
  BY <1>2, <1>12, FinishCalls DEF ReadBody
<1>13. ASSUME Clear \/ Destroy \/ Create PROVE CallsOK'
  <2>1. CASE Idle /\ UNCHANGED <<pc, op>>
    BY <2>1 DEF CallsOK, CallOK, HandlesOwned, Idle, NoOp, Growth, Before
  <2> QED
    BY <1>2, <1>13, <2>1 DEF Clear, Destroy, Create
<1>14. CASE UNCHANGED vars
  BY <1>1, <1>14 DEF vars
<1> QED
  BY BeginCalls, <1>3, <1>4, <1>7, <1>9, <1>10, <1>11, <1>12, <1>13, <1>14
  DEF Next, Step, Critical

LEMMA CallsInvariant ==
  ASSUME Disciplined
  PROVE  Spec => []CallsOK
<1>1. Init => CallsOK
  BY BlockCacheAssumption
  DEF Init, CallsOK, CallOK, HandlesOwned, NoOp, Before, Growth
<1>2. TypeOK /\ CallsOK /\ [Next]_vars => CallsOK'
  BY CallsStep
<1> QED
  BY <1>1, <1>2, TypeCorrect, PTL DEF Spec

-----------------------------------------------------------------------------
(* The tables.                                                              *)

LEMMA Sizes ==
  ASSUME TypeOK
  PROVE  /\ Capacity \in Nat /\ numPools \in Nat /\ numFree \in Nat
         /\ numPools = 0 => Capacity = 0
         /\ numPools > 0 => CurCapacity \in Nat /\ Capacity = CurCapacity + Count
         /\ CurCapacity \in Int
<1>1. numPools \in Nat /\ Count \in Nat \ {0} /\ numFree \in Nat
  BY BlockCacheAssumption DEF TypeOK
<1>2. numPools > 0 => Capacity >= Count
  BY <1>1, PoolArithmetic DEF Capacity
<1> QED
  BY <1>1, <1>2, PoolArithmetic DEF Capacity, CurCapacity

\* The thread in the critical section decides in which phase the cache is.
LEMMA OwnerPhase ==
  ASSUME TypeOK, MutualExclusion, NEW t \in Threads, pc[t] \notin {"idle", "lock"},
         NEW P, "idle" \notin P, "lock" \notin P
  PROVE  /\ At(P) <=> pc[t] \in P
         /\ ~Idle
         /\ \A x \in Phases : pc' = [pc EXCEPT ![t] = x] => (At(P)' <=> x \in P)
<1>1. \A u \in Threads : u # t => pc[u] \in {"idle", "lock"}
  BY DEF MutualExclusion
<1> QED
  BY <1>1 DEF At, TypeOK, Idle

\* A step outside the growth and the pop leaves the phase of the cache as it is.
LEMMA OtherPhase ==
  ASSUME TypeOK, NEW t \in Threads, pc[t] \notin Growth \cup {"pop"},
         NEW x \in Phases \ (Growth \cup {"pop"}), pc' = [pc EXCEPT ![t] = x],
         NEW P \in SUBSET (Growth \cup {"pop"})
  PROVE  At(P)' <=> At(P)
  BY DEF At, TypeOK

LEMMA HolderCount ==
  ASSUME TypeOK
  PROVE  \A id : /\ IsFiniteSet(Holders(id))
                 /\ Cardinality(Holders(id)) \in Nat
                 /\ Cardinality(Holders(id)) = 0 <=> Holders(id) = {}
<1>1. \A id : Holders(id) \subseteq Handles
  BY DEF Holders
<1> QED
  BY <1>1, FS_Subset, FS_EmptySet, FS_CardinalityType, BlockCacheAssumption

\* A handle that is set adds itself to the holders of one block.
LEMMA AddHolder ==
  ASSUME TypeOK, NEW h \in Handles, handle[h] = NoBlock, NEW id \in Nat,
         handle' = [handle EXCEPT ![h] = id]
  PROVE  /\ Holders(id)' = Holders(id) \cup {h}
         /\ Cardinality(Holders(id)') = Cardinality(Holders(id)) + 1
         /\ \A j \in Nat \ {id} : Holders(j)' = Holders(j)
<1>1. Holders(id)' = Holders(id) \cup {h} /\ h \notin Holders(id)
  BY DEF TypeOK, Holders, NoBlock
<1>2. \A j \in Nat \ {id} : Holders(j)' = Holders(j)
  BY DEF TypeOK, Holders, NoBlock
<1> QED
  BY <1>1, <1>2, HolderCount, FS_AddElement

\* A handle that is given up takes itself from the holders of one block.
LEMMA DropHolder ==
  ASSUME TypeOK, NEW h \in Handles, NEW id \in Nat, handle[h] = id,
         handle' = [handle EXCEPT ![h] = NoBlock]
  PROVE  /\ Holders(id)' = Holders(id) \ {h} /\ h \in Holders(id)
         /\ Cardinality(Holders(id)') = Cardinality(Holders(id)) - 1
         /\ \A j \in Nat \ {id} : Holders(j)' = Holders(j)
<1>1. Holders(id)' = Holders(id) \ {h} /\ h \in Holders(id)
  BY DEF TypeOK, Holders, NoBlock
<1>2. \A j \in Nat \ {id} : Holders(j)' = Holders(j)
  BY DEF TypeOK, Holders, NoBlock
<1> QED
  BY <1>1, <1>2, HolderCount, FS_RemoveElement

LEMMA UnheldFinite ==
  ASSUME NEW n \in Nat
  PROVE  IsFiniteSet(Unheld(n)) /\ Cardinality(Unheld(n)) \in Nat
<1>1. IsFiniteSet(0 .. (n - 1))
  BY FS_Interval
<1> QED
  BY <1>1, FS_Subset, FS_CardinalityType DEF Unheld

\* What the layers below give, and what the tables give as long as no
\* allocation has failed.
Good ==
  /\ Disciplined /\ TypeOK /\ MutualExclusion /\ CallsOK /\ Capacity <= MaxBlocks
  /\ ~failed /\ TablesOK

\* A step that leaves the tables, the handles and the phase of the cache.
LEMMA FrameTables ==
  ASSUME TablesOK, UNCHANGED <<cache, handle>>, ~Idle' => numPools > 0,
         \A P \in SUBSET (Growth \cup {"pop"}) : At(P)' <=> At(P)
  PROVE  TablesOK'
<1>1. /\ At({"grow_pool", "grow_refs"})' <=> At({"grow_pool", "grow_refs"})
      /\ At({"grow_pool", "grow_refs", "grow_free"})'
           <=> At({"grow_pool", "grow_refs", "grow_free"})
      /\ At({"grow_pool"})' <=> At({"grow_pool"})
      /\ At({"pop"})' <=> At({"pop"})
      /\ At(Growth)' <=> At(Growth)
  BY DEF Growth
<1>2. RefsLen' = RefsLen /\ FreeLen' = FreeLen
  BY <1>1 DEF RefsLen, FreeLen, Capacity, CurCapacity, cache
<1>3. \A id : Holders(id)' = Holders(id)
  BY DEF Holders
<1>4. Unheld(FreeLen)' = Unheld(FreeLen) /\ Free' = Free
  BY <1>2, <1>3 DEF Unheld, Free, cache
<1>5. PoolsOK'
  BY <1>1 DEF TablesOK, PoolsOK, cache
<1>6. RefsOK'
  BY <1>2, <1>3 DEF TablesOK, RefsOK, cache
<1>7. FreeOK'
  BY <1>1, <1>2, <1>4 DEF TablesOK, FreeOK, cache
<1> QED
  BY <1>5, <1>6, <1>7 DEF TablesOK

\* Every block in use can be read: its count and its pool are in the tables.
LEMMA HeldReadable ==
  ASSUME Good, NEW t \in Threads, pc[t] \in {"body", "pop"},
         NEW id \in 0 .. (Capacity - 1)
  PROVE  /\ RefsLen = Capacity /\ FreeLen = Capacity /\ numPools > 0
         /\ Readable(id)
         /\ id \in DOMAIN freeBlocks
<1> USE BlockCacheAssumption
<1>1. RefsLen = Capacity /\ FreeLen = Capacity /\ ~At({"grow_pool"}) /\ ~Idle
  BY OwnerPhase DEF Good, RefsLen, FreeLen
<1>2. numPools > 0
  BY <1>1 DEF Good, TablesOK, PoolsOK
<1>3. id \div Count \in 0 .. (numPools - 1)
  BY SlotBounds, Sizes DEF Good, Capacity
<1>4. SlotMapped(id)
  BY <1>1, <1>3 DEF Good, TablesOK, PoolsOK, SlotMapped, Slot
<1> QED
  BY <1>1, <1>2, <1>4 DEF Good, TablesOK, RefsOK, FreeOK, Readable

\* A call begins, takes the mutex, is refused or gives the mutex back.
LEMMA MoveTables ==
  ASSUME Good, NEW t \in Threads, pc[t] \notin Growth \cup {"pop"},
         NEW x \in Phases \ (Growth \cup {"pop"}), pc' = [pc EXCEPT ![t] = x],
         UNCHANGED <<cache, handle>>, pc[t] # "idle" \/ numPools > 0
  PROVE  TablesOK'
<1>1. \A P \in SUBSET (Growth \cup {"pop"}) : At(P)' <=> At(P)
  BY OtherPhase DEF Good
<1>2. numPools > 0
  <2>1. CASE pc[t] # "idle"
    BY <2>1 DEF Good, TablesOK, PoolsOK, Idle
  <2> QED
    BY <2>1
<1> QED
  BY <1>1, <1>2, FrameTables DEF Good

\* A second reference to a block in use.
LEMMA ShareTables ==
  ASSUME Good, NEW t \in Threads, pc[t] = "body", op[t].kind = "fetch",
         NEW id \in Nat, id = op[t].id, id < Capacity,
         NEW h, h = op[t].h, TakeReference(t, id, numFree)
  PROVE  TablesOK' /\ UNCHANGED <<failed, fault>>
<1> USE BlockCacheAssumption
<1>1. /\ h \in Handles /\ handle[h] = NoBlock
      /\ op[t].src \in Handles /\ handle[op[t].src] = id
  <2>1. id # NoBlock /\ id # MaxBlocks
    BY Sizes DEF Good, NoBlock
  <2> QED
    BY <2>1 DEF Good, CallsOK, CallOK, Before
<1>2. Capacity \in Nat /\ id \in 0 .. (Capacity - 1)
  BY Sizes DEF Good
<1>3. /\ RefsLen = Capacity /\ FreeLen = Capacity /\ numPools > 0 /\ Readable(id)
  BY <1>2, HeldReadable
<1>4. /\ refCounts' = [refCounts EXCEPT ![id] = @ + 1]
      /\ handle' = [handle EXCEPT ![h] = id]
      /\ pc' = [pc EXCEPT ![t] = "unlock"]
      /\ UNCHANGED <<numPools, data, freeBlocks, numFree, failed, fault>>
  BY <1>3 DEF TakeReference, Finish
<1>5. \A P \in SUBSET (Growth \cup {"pop"}) : ~At(P) /\ ~At(P)'
  BY <1>4, OwnerPhase DEF Good, Growth, Phases
<1>6. RefsLen' = Capacity /\ FreeLen' = Capacity /\ Capacity' = Capacity
  BY <1>4, <1>5 DEF RefsLen, FreeLen, Capacity, Growth
<1>7. /\ Cardinality(Holders(id)') = Cardinality(Holders(id)) + 1
      /\ Holders(id)' = Holders(id) \cup {h}
      /\ \A j \in Nat \ {id} : Holders(j)' = Holders(j)
  BY <1>1, <1>4, AddHolder DEF Good
<1>8. PoolsOK'
  BY <1>3, <1>4, <1>5 DEF Good, TablesOK, PoolsOK, Growth
<1>9. RefsOK'
  <2>1. DOMAIN refCounts = 0 .. (Capacity - 1)
    BY <1>3 DEF Good, TablesOK, RefsOK
  <2>2. \A j \in 0 .. (Capacity - 1) : refCounts[j] = Cardinality(Holders(j))
    BY <2>1 DEF Good, TablesOK, RefsOK
  <2>3. \A j \in 0 .. (Capacity - 1) : refCounts'[j] = Cardinality(Holders(j)')
    <3>1. refCounts'[id] = refCounts[id] + 1
      BY <1>2, <1>4, <2>1
    <3>2. \A j \in 0 .. (Capacity - 1) : j # id => refCounts'[j] = refCounts[j]
      BY <1>4, <2>1
    <3> QED
      <4>1. SUFFICES ASSUME NEW j \in 0 .. (Capacity - 1)
                     PROVE  refCounts'[j] = Cardinality(Holders(j)')
        OBVIOUS
      <4>2. CASE j = id
        BY <1>2, <1>7, <2>2, <3>1, <4>2
      <4>3. CASE j # id
        <5>1. Holders(j)' = Holders(j)
          BY <1>2, <1>7, <4>3
        <5> QED
          BY <2>2, <3>2, <4>3, <5>1
      <4> QED
        BY <4>2, <4>3
  <2>4. \A g \in Handles : handle'[g] # NoBlock => handle'[g] \in 0 .. (Capacity - 1)
    BY <1>2, <1>3, <1>4 DEF Good, TablesOK, RefsOK, TypeOK
  <2> QED
    BY <1>4, <1>6, <2>1, <2>3, <2>4 DEF RefsOK
<1>10. FreeOK'
  <2>1. op[t].src \in Holders(id)
    BY <1>1 DEF Holders
  <2>2. \A j \in Nat : (Holders(j)' = {}) <=> (Holders(j) = {})
    BY <1>7, <2>1
  <2>3. Unheld(Capacity)' = Unheld(Capacity)
    BY <1>2, <1>6, <2>2 DEF Unheld
  <2>4. Free' = Free
    BY <1>4 DEF Free
  <2> QED
    BY <1>3, <1>4, <1>5, <1>6, <2>3, <2>4 DEF Good, TablesOK, FreeOK, Growth
<1> QED
  BY <1>4, <1>8, <1>9, <1>10 DEF TablesOK

\* The last free block becomes a new one.
LEMMA PopTables ==
  ASSUME Good, NEW t \in Threads, Pop(t)
  PROVE  /\ TablesOK' /\ UNCHANGED <<failed, fault>>
         /\ LET id == freeBlocks[numFree - 1] IN
            /\ id \in 0 .. (Capacity - 1) /\ Holders(id) = {}
            /\ handle' = [handle EXCEPT ![op[t].h] = id]
            /\ op[t].h \in Handles /\ handle[op[t].h] = NoBlock
<1> USE BlockCacheAssumption
<1>0. PICK last, id, h : last = numFree - 1 /\ id = freeBlocks[last] /\ h = op[t].h
  OBVIOUS
<1>1. pc[t] = "pop" /\ h \in Handles /\ handle[h] = NoBlock
  BY <1>0 DEF Pop, Good, CallsOK, CallOK, Before, Growth
<1>2. Capacity \in Nat /\ numFree \in Nat
  BY Sizes DEF Good
<1>3. RefsLen = Capacity /\ FreeLen = Capacity
  BY <1>1, OwnerPhase DEF Good, RefsLen, FreeLen
<1>4. /\ DOMAIN freeBlocks = 0 .. (Capacity - 1) /\ DOMAIN refCounts = 0 .. (Capacity - 1)
      /\ numFree = Cardinality(Unheld(Capacity)) /\ Free = Unheld(Capacity)
      /\ \A i, j \in 0 .. (numFree - 1) : freeBlocks[i] = freeBlocks[j] => i = j
      /\ \A j \in 0 .. (Capacity - 1) : refCounts[j] = Cardinality(Holders(j))
      /\ \A g \in Handles : handle[g] # NoBlock => handle[g] \in 0 .. (Capacity - 1)
  BY <1>3 DEF Good, TablesOK, FreeOK, RefsOK
<1>5. At({"pop"})
  BY <1>1 DEF At
<1>6. numFree > 0 /\ last \in 0 .. (numFree - 1)
  BY <1>0, <1>2, <1>5 DEF Good, TablesOK, FreeOK
<1>7. id \in Unheld(Capacity)
  BY <1>0, <1>4, <1>6 DEF Free
<1>8. id \in 0 .. (Capacity - 1) /\ Holders(id) = {}
  BY <1>7 DEF Unheld
<1>9. Readable(id) /\ numPools > 0
  BY <1>1, <1>8, HeldReadable
<1>10. numFree <= Capacity
  <2>1. Unheld(Capacity) \in SUBSET (0 .. (Capacity - 1))
    BY DEF Unheld
  <2>2. IsFiniteSet(0 .. (Capacity - 1)) /\ Cardinality(0 .. (Capacity - 1)) = Capacity
    BY <1>2, FS_Interval
  <2>3. Cardinality(Unheld(Capacity)) <= Cardinality(0 .. (Capacity - 1))
    BY <2>1, <2>2, FS_Subset
  <2> QED
    BY <1>4, <2>2, <2>3
<1>11. last \in DOMAIN freeBlocks
  BY <1>0, <1>2, <1>4, <1>6, <1>10
<1>12. /\ refCounts' = [refCounts EXCEPT ![id] = @ + 1]
       /\ handle' = [handle EXCEPT ![h] = id] /\ numFree' = last
       /\ pc' = [pc EXCEPT ![t] = "unlock"]
       /\ UNCHANGED <<numPools, data, freeBlocks, failed, fault>>
  BY <1>0, <1>9, <1>11 DEF Pop, TakeReference, Finish
<1>13. \A P \in SUBSET (Growth \cup {"pop"}) : ~At(P)'
  <2>1. "unlock" \in Phases /\ pc[t] \notin {"idle", "lock"}
    BY <1>1 DEF Phases
  <2>2. \A P \in SUBSET (Growth \cup {"pop"}) :
          "idle" \notin P /\ "lock" \notin P /\ "unlock" \notin P
    BY DEF Growth
  <2> QED
    BY <1>12, <2>1, <2>2, OwnerPhase DEF Good
<1>14. RefsLen' = Capacity /\ FreeLen' = Capacity
  BY <1>12, <1>13 DEF RefsLen, FreeLen, Capacity, Growth
<1>15. /\ Cardinality(Holders(id)') = Cardinality(Holders(id)) + 1
       /\ Holders(id)' = Holders(id) \cup {h}
       /\ \A j \in Nat \ {id} : Holders(j)' = Holders(j)
  <2>1. id \in Nat
    BY <1>2, <1>8
  <2> QED
    BY <1>1, <1>12, <2>1, AddHolder DEF Good
<1>16. PoolsOK'
  <2>1. ~At({"grow_pool"})
    BY <1>1, OwnerPhase DEF Good
  <2> QED
    BY <1>9, <1>12, <1>13, <2>1 DEF Good, TablesOK, PoolsOK, Growth
<1>17. RefsOK'
  <2>1. \A j \in 0 .. (Capacity - 1) : refCounts'[j] = Cardinality(Holders(j)')
    <3>1. refCounts'[id] = refCounts[id] + 1
      BY <1>4, <1>8, <1>12
    <3>2. \A j \in 0 .. (Capacity - 1) : j # id => refCounts'[j] = refCounts[j]
      BY <1>4, <1>12
    <3> QED
      <4>1. SUFFICES ASSUME NEW j \in 0 .. (Capacity - 1)
                     PROVE  refCounts'[j] = Cardinality(Holders(j)')
        OBVIOUS
      <4>2. CASE j = id
        BY <1>4, <1>8, <1>15, <3>1, <4>2
      <4>3. CASE j # id
        <5>1. Holders(j)' = Holders(j)
          BY <1>2, <1>15, <4>3
        <5> QED
          BY <1>4, <3>2, <4>3, <5>1
      <4> QED
        BY <4>2, <4>3
  <2>2. \A g \in Handles : handle'[g] # NoBlock => handle'[g] \in 0 .. (Capacity - 1)
    BY <1>4, <1>8, <1>12 DEF Good, TypeOK
  <2> QED
    BY <1>4, <1>12, <1>14, <2>1, <2>2 DEF RefsOK
<1>18. FreeOK'
  <2>1. Unheld(FreeLen)' = Unheld(Capacity) \ {id}
    BY <1>8, <1>14, <1>15 DEF Unheld
  <2>2. numFree' = Cardinality(Unheld(FreeLen)')
    <3>1. IsFiniteSet(Unheld(Capacity)) /\ Cardinality(Unheld(Capacity)) \in Nat
      BY <1>2, UnheldFinite
    <3>2. Cardinality(Unheld(Capacity) \ {id}) = Cardinality(Unheld(Capacity)) - 1
      BY <1>7, <3>1, FS_RemoveElement
    <3> QED
      BY <1>0, <1>4, <1>12, <2>1, <3>2
  <2>3. Free' = Free \ {id}
    <3>1. Free' = {freeBlocks[i] : i \in 0 .. (last - 1)}
      BY <1>12 DEF Free
    <3>2. 0 .. (numFree - 1) = (0 .. (last - 1)) \cup {last} /\ last \notin 0 .. (last - 1)
      BY <1>0, <1>2, <1>6
    <3>3. \A i \in 0 .. (last - 1) : freeBlocks[i] # id
      BY <1>0, <1>2, <1>4, <1>6, <3>2
    <3> QED
      BY <1>0, <3>1, <3>2, <3>3 DEF Free
  <2>4. \A i, j \in 0 .. (numFree' - 1) : freeBlocks'[i] = freeBlocks'[j] => i = j
    BY <1>0, <1>2, <1>4, <1>12
  <2> QED
    BY <1>4, <1>12, <1>13, <1>14, <2>1, <2>2, <2>3, <2>4 DEF FreeOK, Growth
<1> QED
  BY <1>0, <1>1, <1>8, <1>12, <1>16, <1>17, <1>18 DEF TablesOK

\* The id of a block that no handle holds does not pass the checks of return.
LEMMA UnheldRefused ==
  ASSUME Good, NEW t \in Threads, pc[t] = "body", NEW id \in Nat, Holders(id) = {}
  PROVE  Refused(id)
<1>1. SUFFICES ASSUME id < Capacity PROVE Refused(id)
  BY Sizes DEF Refused, Good
<1>2. id \in 0 .. (Capacity - 1)
  BY <1>1, Sizes DEF Good
<1>3. id \in DOMAIN refCounts /\ refCounts[id] = Cardinality(Holders(id))
  BY <1>2, HeldReadable DEF Good, TablesOK, RefsOK
<1>4. Cardinality(Holders(id)) = 0
  BY HolderCount DEF Good
<1> QED
  BY <1>3, <1>4 DEF Refused

\* A reference is given back; the last one puts the block on the free list.
LEMMA ReturnTables ==
  ASSUME Good, NEW t \in Threads, ReturnBody(t), ~Refused(op[t].id)
  PROVE  /\ TablesOK' /\ UNCHANGED <<failed, fault>>
         /\ op[t].h \in Handles /\ handle[op[t].h] # NoBlock
         /\ handle' = [handle EXCEPT ![op[t].h] = NoBlock]
<1> USE BlockCacheAssumption
<1>0. PICK id, h : id = op[t].id /\ h = op[t].h
  OBVIOUS
<1>1. /\ pc[t] = "body" /\ op[t].kind = "return"
      /\ h \in Handles /\ id \in Nat /\ handle[h] = id /\ h # NoHandle
  <2>1. /\ pc[t] = "body" /\ op[t].kind = "return" /\ id \in Nat
        /\ (h \in Handles /\ handle[h] = id) \/ (h = NoHandle /\ Holders(id) = {})
    BY <1>0 DEF ReturnBody, Good, CallsOK, CallOK, Before
  <2>2. Holders(id) # {}
    BY <1>0, <2>1, UnheldRefused
  <2> QED
    BY <2>1, <2>2
<1>2. Capacity \in Nat /\ numFree \in Nat /\ id \in 0 .. (Capacity - 1)
  BY <1>0, <1>1, Sizes DEF Good, Refused
<1>3. RefsLen = Capacity /\ FreeLen = Capacity /\ numPools > 0
  BY <1>1, <1>2, HeldReadable
<1>4. /\ DOMAIN freeBlocks = 0 .. (Capacity - 1) /\ DOMAIN refCounts = 0 .. (Capacity - 1)
      /\ numFree = Cardinality(Unheld(Capacity)) /\ Free = Unheld(Capacity)
      /\ \A i, j \in 0 .. (numFree - 1) : freeBlocks[i] = freeBlocks[j] => i = j
      /\ \A j \in 0 .. (Capacity - 1) : refCounts[j] = Cardinality(Holders(j))
      /\ \A g \in Handles : handle[g] # NoBlock => handle[g] \in 0 .. (Capacity - 1)
  BY <1>3 DEF Good, TablesOK, FreeOK, RefsOK
<1>5. id \notin Unheld(Capacity)
  BY <1>1 DEF Unheld, Holders
<1>6. numFree < Capacity
  <2>1. Unheld(Capacity) \in SUBSET (0 .. (Capacity - 1))
    BY DEF Unheld
  <2>2. IsFiniteSet(0 .. (Capacity - 1)) /\ Cardinality(0 .. (Capacity - 1)) = Capacity
    BY <1>2, FS_Interval
  <2>3. /\ Cardinality(Unheld(Capacity)) <= Cardinality(0 .. (Capacity - 1))
        /\ Cardinality(Unheld(Capacity)) # Cardinality(0 .. (Capacity - 1))
    BY <1>2, <1>5, <2>1, <2>2, FS_Subset
  <2> QED
    BY <1>2, <1>4, <2>2, <2>3
<1>7. numFree \in DOMAIN freeBlocks /\ RoomToReturn(id)
  BY <1>2, <1>4, <1>6 DEF RoomToReturn
<1>8. /\ refCounts' = [refCounts EXCEPT ![id] = @ - 1]
      /\ IF LastReference(id)
         THEN /\ freeBlocks' = [freeBlocks EXCEPT ![numFree] = id]
              /\ numFree' = numFree + 1
         ELSE UNCHANGED <<freeBlocks, numFree>>
      /\ handle' = [handle EXCEPT ![h] = NoBlock]
      /\ pc' = [pc EXCEPT ![t] = "unlock"]
      /\ UNCHANGED <<numPools, data, failed, fault>>
  BY <1>0, <1>1, <1>7 DEF ReturnBody, Finish
<1>9. \A P \in SUBSET (Growth \cup {"pop"}) : ~At(P) /\ ~At(P)'
  BY <1>1, <1>8, OwnerPhase DEF Good, Growth, Phases
<1>10. RefsLen' = Capacity /\ FreeLen' = Capacity
  BY <1>8, <1>9 DEF RefsLen, FreeLen, Capacity, Growth
<1>11. /\ Cardinality(Holders(id)') = Cardinality(Holders(id)) - 1
       /\ Holders(id)' = Holders(id) \ {h} /\ h \in Holders(id)
       /\ \A j \in Nat \ {id} : Holders(j)' = Holders(j)
  BY <1>1, <1>8, DropHolder DEF Good
<1>12. refCounts[id] \in Nat
  BY <1>2, <1>4 DEF Good, TypeOK
<1>13. LastReference(id) <=> Holders(id)' = {}
  <2>1. IsFiniteSet(Holders(id)) /\ IsFiniteSet(Holders(id)')
    BY <1>11, HolderCount, FS_Subset DEF Good
  <2>2. Cardinality(Holders(id)') \in Nat
        /\ (Cardinality(Holders(id)') = 0 <=> Holders(id)' = {})
    BY <2>1, FS_EmptySet, FS_CardinalityType
  <2>3. refCounts[id] = Cardinality(Holders(id)') + 1
    BY <1>2, <1>4, <1>11, <1>12, <2>2
  <2> QED
    BY <1>12, <2>2, <2>3 DEF LastReference
<1>14. PoolsOK'
  BY <1>3, <1>8, <1>9 DEF Good, TablesOK, PoolsOK, Growth
<1>15. RefsOK'
  <2>1. \A j \in 0 .. (Capacity - 1) : refCounts'[j] = Cardinality(Holders(j)')
    <3>1. refCounts'[id] = refCounts[id] - 1
      BY <1>2, <1>4, <1>8
    <3>2. \A j \in 0 .. (Capacity - 1) : j # id => refCounts'[j] = refCounts[j]
      BY <1>4, <1>8
    <3>3. SUFFICES ASSUME NEW j \in 0 .. (Capacity - 1)
                   PROVE  refCounts'[j] = Cardinality(Holders(j)')
      OBVIOUS
    <3>4. CASE j = id
      BY <1>2, <1>4, <1>11, <3>1, <3>4
    <3>5. CASE j # id
      <4>1. Holders(j)' = Holders(j)
        BY <1>2, <1>11, <3>5
      <4> QED
        BY <1>4, <3>2, <3>5, <4>1
    <3> QED
      BY <3>4, <3>5
  <2>2. \A g \in Handles : handle'[g] # NoBlock => handle'[g] \in 0 .. (Capacity - 1)
    BY <1>4, <1>8 DEF Good, TypeOK
  <2> QED
    BY <1>4, <1>8, <1>10, <2>1, <2>2 DEF RefsOK
<1>16. CASE ~LastReference(id)
  <2>1. \A j \in Nat : (Holders(j)' = {}) <=> (Holders(j) = {})
    BY <1>11, <1>13, <1>16
  <2>2. Unheld(FreeLen)' = Unheld(Capacity)
    BY <1>2, <1>10, <2>1 DEF Unheld
  <2>3. Free' = Free
    BY <1>8, <1>16 DEF Free
  <2>4. FreeOK'
    BY <1>4, <1>8, <1>9, <1>10, <1>16, <2>2, <2>3 DEF FreeOK, Growth
  <2> QED
    BY <1>0, <1>1, <1>2, <1>8, <1>14, <1>15, <2>4 DEF TablesOK, NoBlock
<1>17. CASE LastReference(id)
  <2>1. Unheld(FreeLen)' = Unheld(Capacity) \cup {id}
    BY <1>2, <1>10, <1>11, <1>13, <1>17 DEF Unheld
  <2>2. numFree' = Cardinality(Unheld(FreeLen)')
    <3>1. IsFiniteSet(Unheld(Capacity)) /\ Cardinality(Unheld(Capacity)) \in Nat
      BY <1>2, UnheldFinite
    <3>2. Cardinality(Unheld(Capacity) \cup {id}) = Cardinality(Unheld(Capacity)) + 1
      BY <1>5, <3>1, FS_AddElement
    <3> QED
      BY <1>4, <1>8, <1>17, <2>1, <3>2
  <2>3. /\ 0 .. (numFree' - 1) = (0 .. (numFree - 1)) \cup {numFree}
        /\ numFree \notin 0 .. (numFree - 1)
    BY <1>2, <1>8, <1>17
  <2>4. /\ \A i \in 0 .. (numFree - 1) : freeBlocks'[i] = freeBlocks[i]
        /\ freeBlocks'[numFree] = id
    BY SMTT(30), <1>2, <1>4, <1>6, <1>8, <1>17
  <2>5. Free' = Free \cup {id}
    BY <2>3, <2>4 DEF Free
  <2>6. \A i \in 0 .. (numFree - 1) : freeBlocks[i] # id
    BY <1>4, <1>5 DEF Free
  <2>7. \A i, j \in 0 .. (numFree' - 1) : freeBlocks'[i] = freeBlocks'[j] => i = j
    BY <1>4, <2>3, <2>4, <2>6
  <2>8. FreeOK'
    BY <1>4, <1>8, <1>9, <1>10, <1>17, <2>1, <2>2, <2>5, <2>7 DEF FreeOK, Growth
  <2> QED
    BY <1>0, <1>1, <1>2, <1>8, <1>14, <1>15, <2>8 DEF TablesOK, NoBlock
<1> QED
  BY <1>16, <1>17

\* A fetch of a new block finds a free block or has to grow the cache.
LEMMA BranchTables ==
  ASSUME Good, NEW t \in Threads, pc[t] = "body", UNCHANGED <<cache, handle>>,
         pc' = [pc EXCEPT ![t] = IF numFree <= 0 THEN "grow" ELSE "pop"]
  PROVE  TablesOK'
<1>1. \A P \in SUBSET (Growth \cup {"pop"}) : ~At(P)
  BY OwnerPhase DEF Good, Growth
<1>2. PICK x \in {"grow", "pop"} :
        /\ pc' = [pc EXCEPT ![t] = x]
        /\ x = "grow" <=> numFree <= 0
  BY Zenon
<1>3. x \in Phases
  BY DEF Phases
<1>4. /\ ~At({"grow_pool", "grow_refs"})' /\ ~At({"grow_pool"})'
      /\ ~At({"grow_pool", "grow_refs", "grow_free"})'
      /\ At(Growth)' <=> x = "grow"
      /\ At({"pop"})' <=> x = "pop"
  <2>1. \A P : "idle" \notin P /\ "lock" \notin P => (At(P)' <=> x \in P)
    BY <1>2, <1>3, OwnerPhase DEF Good
  <2> QED
    BY <2>1 DEF Growth
<1>5. /\ RefsLen = Capacity /\ FreeLen = Capacity
      /\ RefsLen' = Capacity /\ FreeLen' = Capacity
  BY <1>1, <1>4 DEF RefsLen, FreeLen, Capacity, cache, Growth
<1>6. \A id : Holders(id)' = Holders(id)
  BY DEF Holders
<1>7. Unheld(FreeLen)' = Unheld(FreeLen) /\ Free' = Free
  BY <1>5, <1>6 DEF Unheld, Free, cache
<1>8. PoolsOK'
  <2>1. numPools > 0
    BY DEF Good, TablesOK, PoolsOK, Idle
  <2> QED
    BY <1>1, <1>4, <2>1 DEF Good, TablesOK, PoolsOK, cache, Growth
<1>9. RefsOK'
  BY <1>5, <1>6 DEF Good, TablesOK, RefsOK, cache
<1>10. FreeOK'
  <2>1. /\ x = "grow" => numFree = 0
        /\ x = "pop" => numFree > 0
    BY <1>2, Sizes DEF Good
  <2> QED
    BY <1>4, <1>5, <1>7, <2>1 DEF Good, TablesOK, FreeOK, cache
<1> QED
  BY <1>8, <1>9, <1>10 DEF TablesOK

\* The growth, one table after another, as long as every allocation succeeds.
LEMMA GrowTables ==
  ASSUME Good, NEW t \in Threads, ~failed',
         GrowTable(t) \/ GrowPool(t) \/ GrowRefs(t) \/ GrowFree(t)
  PROVE  TablesOK'
<1> USE BlockCacheAssumption
<1>1. ~AllocFails(t) /\ ~failed
  BY DEF AllocFails, Good
<1>2. /\ pc[t] \in Growth /\ UNCHANGED handle
      /\ \A id : Holders(id)' = Holders(id)
  BY <1>1 DEF GrowTable, GrowPool, GrowRefs, GrowFree, Growth, Holders
<1>3. /\ At({"grow_pool", "grow_refs"}) <=> pc[t] \in {"grow_pool", "grow_refs"}
      /\ At({"grow_pool"}) <=> pc[t] = "grow_pool"
      /\ At({"grow_pool", "grow_refs", "grow_free"})
           <=> pc[t] \in {"grow_pool", "grow_refs", "grow_free"}
      /\ At(Growth) /\ ~At({"pop"}) /\ ~Idle
  <2>1. \A P : "idle" \notin P /\ "lock" \notin P => (At(P) <=> pc[t] \in P)
    BY <1>2, OwnerPhase DEF Good, Growth
  <2> QED
    BY <1>2, <2>1 DEF Growth, Idle
<1>4. ASSUME NEW x \in {"grow_pool", "grow_refs", "grow_free", "pop"},
             pc' = [pc EXCEPT ![t] = x]
      PROVE  /\ At({"grow_pool", "grow_refs"})' <=> x \in {"grow_pool", "grow_refs"}
             /\ At({"grow_pool"})' <=> x = "grow_pool"
             /\ At({"grow_pool", "grow_refs", "grow_free"})' <=> x # "pop"
             /\ At(Growth)' <=> x # "pop"
             /\ At({"pop"})' <=> x = "pop"
  <2>1. x \in Phases
    BY DEF Phases
  <2>2. \A P : "idle" \notin P /\ "lock" \notin P => (At(P)' <=> x \in P)
    BY <1>2, <1>4, <2>1, OwnerPhase DEF Good, Growth
  <2> QED
    BY <2>2 DEF Growth
<1>5. /\ numPools > 0 /\ numPools \in Nat
      /\ Capacity \in Nat /\ CurCapacity \in Nat /\ Capacity = CurCapacity + Count
      /\ Count \in Nat \ {0}
  BY <1>3, Sizes DEF Good, TablesOK, PoolsOK
<1>6. numFree = 0
  BY <1>3 DEF Good, TablesOK, FreeOK
<1>7. CASE GrowTable(t)
  <2>1. /\ pc[t] = "grow" /\ pc' = [pc EXCEPT ![t] = "grow_pool"]
        /\ data' = [p \in 0 .. numPools |-> IF p \in DOMAIN data THEN data[p] ELSE "junk"]
        /\ numPools' = numPools + 1
        /\ UNCHANGED <<refCounts, freeBlocks, numFree>>
    BY <1>1, <1>7 DEF GrowTable
  <2>2. CurCapacity' = Capacity
    BY <1>5, <2>1, PoolArithmetic DEF Capacity, CurCapacity
  <2>3. RefsLen = Capacity /\ FreeLen = Capacity /\ RefsLen' = Capacity /\ FreeLen' = Capacity
    BY <1>3, <1>4, <2>1, <2>2 DEF RefsLen, FreeLen
  <2>4. PoolsOK'
    BY <1>3, <1>4, <1>5, <2>1 DEF Good, TablesOK, PoolsOK
  <2>5. RefsOK'
    BY <1>2, <2>1, <2>3 DEF Good, TablesOK, RefsOK
  <2>6. FreeOK'
    <3>1. Unheld(FreeLen)' = Unheld(FreeLen) /\ Free' = Free
      BY <1>2, <2>1, <2>3 DEF Unheld, Free
    <3> QED
      BY <1>4, <1>6, <2>1, <2>3, <3>1 DEF Good, TablesOK, FreeOK
  <2> QED
    BY <2>4, <2>5, <2>6 DEF TablesOK
<1>8. CASE GrowPool(t)
  <2>1. /\ pc[t] = "grow_pool" /\ pc' = [pc EXCEPT ![t] = "grow_refs"]
        /\ data' = [data EXCEPT ![numPools - 1] = "pool"]
        /\ UNCHANGED <<numPools, refCounts, freeBlocks, numFree>>
    BY <1>1, <1>8 DEF GrowPool
  <2>2. Capacity' = Capacity /\ CurCapacity' = CurCapacity
    BY <2>1 DEF Capacity, CurCapacity
  <2>3. RefsLen' = RefsLen /\ FreeLen' = FreeLen
    BY <1>3, <1>4, <2>1, <2>2 DEF RefsLen, FreeLen
  <2>4. PoolsOK'
    <3>1. DOMAIN data = 0 .. (numPools - 1) /\ numPools > 1
          /\ \A p \in DOMAIN data : p # numPools - 1 => data[p] = "pool"
      BY <1>3, <2>1 DEF Good, TablesOK, PoolsOK
    <3>2. DOMAIN data' = 0 .. (numPools - 1)
          /\ \A p \in DOMAIN data' : data'[p] = "pool"
      BY <1>5, <2>1, <3>1
    <3> QED
      BY <1>5, <2>1, <3>1, <3>2 DEF PoolsOK
  <2>5. RefsOK'
    BY <1>2, <2>1, <2>3 DEF Good, TablesOK, RefsOK
  <2>6. FreeOK'
    <3>1. Unheld(FreeLen)' = Unheld(FreeLen) /\ Free' = Free
      BY <1>2, <2>1, <2>3 DEF Unheld, Free
    <3> QED
      BY <1>4, <1>6, <2>1, <2>3, <3>1 DEF Good, TablesOK, FreeOK
  <2> QED
    BY <2>4, <2>5, <2>6 DEF TablesOK
<1>9. CASE GrowRefs(t)
  <2>1. PICK junk : /\ pc[t] = "grow_refs" /\ pc' = [pc EXCEPT ![t] = "grow_free"]
                    /\ refCounts' = [i \in 0 .. (Capacity - 1) |->
                                       IF i >= CurCapacity THEN 0
                                       ELSE IF i \in DOMAIN refCounts THEN refCounts[i]
                                       ELSE junk[i]]
                    /\ UNCHANGED <<numPools, data, freeBlocks, numFree>>
    BY <1>1, <1>9 DEF GrowRefs
  <2>2. Capacity' = Capacity /\ CurCapacity' = CurCapacity
    BY <2>1 DEF Capacity, CurCapacity
  <2>3. /\ RefsLen = CurCapacity /\ RefsLen' = Capacity
        /\ FreeLen = CurCapacity /\ FreeLen' = CurCapacity
    BY <1>3, <1>4, <2>1, <2>2 DEF RefsLen, FreeLen
  <2>4. PoolsOK'
    BY <1>3, <1>4, <2>1 DEF Good, TablesOK, PoolsOK
  <2>5. RefsOK'
    <3>1. \A i \in 0 .. (Capacity - 1) : refCounts'[i] = Cardinality(Holders(i))
      <4>1. SUFFICES ASSUME NEW i \in 0 .. (Capacity - 1)
                     PROVE  refCounts'[i] = Cardinality(Holders(i))
        OBVIOUS
      <4>2. CASE i < CurCapacity
        <5>1. i \in DOMAIN refCounts /\ refCounts[i] = Cardinality(Holders(i))
          BY <1>5, <2>3, <4>2 DEF Good, TablesOK, RefsOK
        <5> QED
          BY <1>5, <2>1, <4>2, <5>1
      <4>3. CASE i >= CurCapacity
        <5>1. Holders(i) = {}
          BY <1>5, <2>3, <4>3 DEF Good, TablesOK, RefsOK, Holders, NoBlock
        <5> QED
          BY <2>1, <4>3, <5>1, FS_EmptySet
      <4> QED
        BY <1>5, <4>2, <4>3
    <3> QED
      BY <1>2, <2>1, <2>3, <3>1 DEF Good, TablesOK, RefsOK
  <2>6. FreeOK'
    <3>1. Unheld(FreeLen)' = Unheld(FreeLen) /\ Free' = Free
      BY <1>2, <2>1, <2>3 DEF Unheld, Free
    <3> QED
      BY <1>4, <1>6, <2>1, <2>3, <3>1 DEF Good, TablesOK, FreeOK
  <2> QED
    BY <2>4, <2>5, <2>6 DEF TablesOK
<1>10. CASE GrowFree(t)
  <2>1. /\ pc[t] = "grow_free" /\ pc' = [pc EXCEPT ![t] = "pop"]
        /\ freeBlocks' = [i \in 0 .. (Capacity - 1) |->
                            IF i < Count THEN i + CurCapacity
                            ELSE IF i \in DOMAIN freeBlocks THEN freeBlocks[i]
                            ELSE 0]
        /\ numFree' = Count
        /\ UNCHANGED <<numPools, data, refCounts>>
    BY <1>1, <1>10 DEF GrowFree
  <2>2. Capacity' = Capacity /\ CurCapacity' = CurCapacity
    BY <2>1 DEF Capacity, CurCapacity
  <2>3. /\ RefsLen = Capacity /\ RefsLen' = Capacity
        /\ FreeLen = CurCapacity /\ FreeLen' = Capacity
    BY <1>3, <1>4, <2>1, <2>2 DEF RefsLen, FreeLen
  <2>4. PoolsOK'
    BY <1>3, <1>4, <1>5, <2>1 DEF Good, TablesOK, PoolsOK
  <2>5. RefsOK'
    BY <1>2, <1>5, <2>1, <2>3 DEF Good, TablesOK, RefsOK
  <2>6. Unheld(CurCapacity) = {}
    <3>1. Cardinality(Unheld(CurCapacity)) = 0
      BY <1>6, <2>3 DEF Good, TablesOK, FreeOK
    <3> QED
      BY <1>5, <3>1, UnheldFinite, FS_EmptySet
  <2>7. Unheld(Capacity) = CurCapacity .. (Capacity - 1)
    <3>1. \A i \in CurCapacity .. (Capacity - 1) : Holders(i) = {}
      BY <1>5, <2>3 DEF Good, TablesOK, RefsOK, Holders, NoBlock
    <3> QED
      BY <1>5, <2>6, <3>1 DEF Unheld
  <2>8. Unheld(FreeLen)' = CurCapacity .. (Capacity - 1)
    BY <1>2, <2>3, <2>7 DEF Unheld
  <2>9. Free' = CurCapacity .. (Capacity - 1)
    <3>1. Free' = {freeBlocks'[i] : i \in 0 .. (Count - 1)}
      BY <2>1 DEF Free
    <3>2. \A i \in 0 .. (Count - 1) : freeBlocks'[i] = i + CurCapacity
      BY <1>5, <2>1
    <3>3. \A j \in CurCapacity .. (Capacity - 1) :
            j - CurCapacity \in 0 .. (Count - 1) /\ (j - CurCapacity) + CurCapacity = j
      BY <1>5
    <3>4. Free' \subseteq CurCapacity .. (Capacity - 1)
      BY <1>5, <3>1, <3>2
    <3>5. CurCapacity .. (Capacity - 1) \subseteq Free'
      BY <3>1, <3>2, <3>3
    <3> QED
      BY <3>4, <3>5
  <2>10. Cardinality(CurCapacity .. (Capacity - 1)) = Count
    BY <1>5, FS_Interval
  <2>11. \A i, j \in 0 .. (numFree' - 1) : freeBlocks'[i] = freeBlocks'[j] => i = j
    BY <1>5, <2>1
  <2>12. FreeOK'
    BY <1>4, <1>5, <2>1, <2>3, <2>8, <2>9, <2>10, <2>11 DEF FreeOK
  <2> QED
    BY <2>4, <2>5, <2>12 DEF TablesOK
<1> QED
  BY <1>7, <1>8, <1>9, <1>10

\* No handle on the cache, and every block on the free list.
Fresh ==
  /\ Capacity \in Nat /\ numPools \in Nat /\ Idle /\ numFree = Capacity
  /\ DOMAIN refCounts = 0 .. (Capacity - 1) /\ DOMAIN freeBlocks = 0 .. (Capacity - 1)
  /\ \A i \in 0 .. (Capacity - 1) : refCounts[i] = 0 /\ freeBlocks[i] = i
  /\ \A h \in Handles : handle[h] = NoBlock
  /\ DOMAIN data = 0 .. (numPools - 1) /\ \A p \in DOMAIN data : data[p] = "pool"

LEMMA FreshTables == Fresh => TablesOK
<1> SUFFICES ASSUME Fresh PROVE TablesOK
  OBVIOUS
<1>1. \A P \in SUBSET (Growth \cup {"pop"}) : ~At(P)
  BY DEF At, Fresh, Idle, Growth
<1>2. RefsLen = Capacity /\ FreeLen = Capacity
  BY <1>1 DEF RefsLen, FreeLen, Growth
<1>3. \A i \in 0 .. (Capacity - 1) : Holders(i) = {}
  BY DEF Fresh, Holders, NoBlock
<1>4. Unheld(Capacity) = 0 .. (Capacity - 1)
      /\ Cardinality(0 .. (Capacity - 1)) = Capacity
  BY <1>3, FS_Interval DEF Fresh, Unheld
<1>5. Free = 0 .. (Capacity - 1)
  BY DEF Fresh, Free
<1>6. PoolsOK
  BY <1>1 DEF Fresh, PoolsOK, Growth
<1>7. RefsOK
  BY <1>2, <1>3, FS_EmptySet DEF Fresh, RefsOK
<1>8. FreeOK
  BY <1>1, <1>2, <1>4, <1>5 DEF Fresh, FreeOK, Growth
<1> QED
  BY <1>6, <1>7, <1>8 DEF TablesOK

LEMMA FreshTablesNext == Fresh' => TablesOK'
  BY FreshTables, PTL

\* The growth stops at MaxBlocks.
LEMMA BoundStep ==
  TypeOK /\ Capacity <= MaxBlocks /\ [Next]_vars => (Capacity <= MaxBlocks)'
<1> SUFFICES ASSUME TypeOK, Capacity <= MaxBlocks, [Next]_vars
             PROVE  numPools' * Count <= MaxBlocks
  BY DEF Capacity
<1> USE BlockCacheAssumption
<1>1. CASE UNCHANGED numPools
  BY <1>1 DEF Capacity
<1>2. CASE numPools' = numPools + 1 /\ Capacity + Count <= MaxBlocks
  BY <1>2, PoolArithmetic DEF Capacity, TypeOK
<1>3. CASE numPools' = 0 \/ numPools' = 1
  <2>1. Count \in Nat /\ MaxBlocks \in Nat /\ Count <= MaxBlocks
    OBVIOUS
  <2>2. 0 * Count = 0 /\ 1 * Count = Count
    BY <2>1
  <2>3. numPools' * Count \in {0, Count}
    BY Zenon, <1>3, <2>2
  <2> QED
    BY <2>1, <2>3
<1>4. ASSUME NEW t \in Threads, Step(t), ~UNCHANGED numPools
      PROVE  numPools' = numPools + 1 /\ Capacity + Count <= MaxBlocks
  BY <1>4 DEF Step, Begin, CallFetchNew, CallFetchShared, CallFetchInvalid, CallReturn,
     CallReturnUnheld, CallRead, Call, Lock, Critical, FetchBody, GrowTable, GrowPool,
     GrowRefs, GrowFree, Pop, ReturnBody, ReadBody, Unlock, TakeReference, Fault, cache
<1>5. ASSUME Clear \/ Destroy \/ Create
      PROVE  UNCHANGED numPools \/ numPools' = 0 \/ numPools' = 1
  BY <1>5 DEF Clear, Destroy, Create, Fault, cache
<1>6. UNCHANGED vars => UNCHANGED numPools
  BY DEF vars, cache
<1> QED
  BY <1>1, <1>2, <1>3, <1>4, <1>5, <1>6 DEF Next

\* Without a failed allocation no step of the cache faults and every step keeps
\* the tables.
LEMMA TablesStep ==
  ASSUME Good, [Next]_vars, ~failed'
  PROVE  TablesOK' /\ UNCHANGED fault
<1> USE BlockCacheAssumption
<1>1. /\ TypeOK /\ ~failed /\ TablesOK /\ CallsOK
      /\ pc \in [Threads -> Phases] /\ op \in [Threads -> Calls]
  BY DEF Good, TypeOK
<1>2. ASSUME NEW t \in Threads, Begin(t) PROVE TablesOK' /\ UNCHANGED fault
  <2>1. /\ pc[t] = "idle" /\ numPools > 0 /\ pc' = [pc EXCEPT ![t] = "lock"]
        /\ UNCHANGED <<cache, handle, fault>>
    BY <1>2 DEF Begin, CallFetchNew, CallFetchShared, CallFetchInvalid, CallReturn,
       CallReturnUnheld, CallRead, Call
  <2> QED
    BY <2>1, MoveTables DEF Phases, Growth
<1>3. ASSUME NEW t \in Threads, Lock(t) \/ Unlock(t) PROVE TablesOK' /\ UNCHANGED fault
  <2>1. PICK x \in {"body", "idle"} :
          /\ pc[t] \in {"lock", "unlock"} /\ pc' = [pc EXCEPT ![t] = x]
          /\ UNCHANGED <<cache, handle, fault>>
    BY <1>3 DEF Lock, Unlock
  <2> QED
    BY <2>1, MoveTables DEF Phases, Growth
<1>4. ASSUME NEW t \in Threads, pc[t] = "body", NEW r, Finish(t, r),
             UNCHANGED <<cache, lock, handle, failed, fault>>
      PROVE  TablesOK' /\ UNCHANGED fault
  BY <1>4, MoveTables DEF Finish, Phases, Growth
<1>5. ASSUME NEW t \in Threads, FetchBody(t) PROVE TablesOK' /\ UNCHANGED fault
  <2>1. op[t].id \in Nat \cup {-1}
    BY <1>1 DEF Calls, Ids, NoBlock
  <2>2. CASE op[t].id >= 0 /\ op[t].id < Capacity /\ TakeReference(t, op[t].id, numFree)
    BY <1>5, <2>1, <2>2, ShareTables DEF FetchBody
  <2>3. CASE Finish(t, "null") /\ UNCHANGED <<cache, lock, handle, failed, fault>>
    BY <1>4, <1>5, <2>3 DEF FetchBody
  <2>4. CASE /\ pc' = [pc EXCEPT ![t] = IF numFree <= 0 THEN "grow" ELSE "pop"]
             /\ UNCHANGED <<cache, lock, op, handle, failed, fault>>
    BY <1>5, <2>4, BranchTables DEF FetchBody
  <2> QED
    BY <1>5, <2>2, <2>3, <2>4 DEF FetchBody
<1>6. ASSUME NEW t \in Threads, GrowTable(t) \/ GrowPool(t) \/ GrowRefs(t) \/ GrowFree(t)
      PROVE  TablesOK' /\ UNCHANGED fault
  <2>1. UNCHANGED fault
    BY <1>6 DEF GrowTable, GrowPool, GrowRefs, GrowFree, AllocFails
  <2> QED
    BY <1>6, <2>1, GrowTables
<1>7. ASSUME NEW t \in Threads, Pop(t) PROVE TablesOK' /\ UNCHANGED fault
  BY <1>7, PopTables
<1>8. ASSUME NEW t \in Threads, ReturnBody(t) PROVE TablesOK' /\ UNCHANGED fault
  <2>1. CASE Refused(op[t].id)
    BY <1>4, <1>8, <2>1 DEF ReturnBody
  <2>2. CASE ~Refused(op[t].id)
    BY <1>8, <2>2, ReturnTables
  <2> QED
    BY <2>1, <2>2
<1>9. ASSUME NEW t \in Threads, ReadBody(t) PROVE TablesOK' /\ UNCHANGED fault
  <2>1. CASE ~Refused(op[t].id) /\ ~Readable(op[t].id)
    <3>1. pc[t] = "body" /\ op[t].id \in Nat
      BY <1>1, <1>9 DEF ReadBody, CallsOK, CallOK
    <3>2. op[t].id \in 0 .. (Capacity - 1)
      BY <1>1, <2>1, <3>1, Sizes DEF Refused
    <3> QED
      BY <2>1, <3>1, <3>2, HeldReadable
  <2> QED
    BY <1>4, <1>9, <2>1 DEF ReadBody
<1>10. ASSUME Clear PROVE TablesOK' /\ UNCHANGED fault
  <2>1. Idle /\ \A P \in SUBSET (Growth \cup {"pop"}) : ~At(P)
    BY <1>10 DEF Clear, Idle, At, Growth
  <2>2. RefsLen = Capacity /\ FreeLen = Capacity
    BY <2>1 DEF RefsLen, FreeLen, Growth
  <2>3. /\ DOMAIN refCounts = 0 .. (Capacity - 1) /\ DOMAIN freeBlocks = 0 .. (Capacity - 1)
        /\ DOMAIN data = 0 .. (numPools - 1) /\ \A p \in DOMAIN data : data[p] = "pool"
    BY <1>1, <2>1, <2>2 DEF TablesOK, PoolsOK, RefsOK, FreeOK, Growth
  <2>4. /\ refCounts' = [i \in DOMAIN refCounts |-> IF i < Capacity THEN 0 ELSE refCounts[i]]
        /\ freeBlocks' = [i \in DOMAIN freeBlocks |-> IF i < Capacity THEN i ELSE freeBlocks[i]]
        /\ numFree' = Capacity /\ handle' = [h \in Handles |-> NoBlock]
        /\ UNCHANGED <<numPools, data, pc, fault>>
    BY <1>10, <2>3 DEF Clear
  <2>5. Capacity \in Nat /\ numPools \in Nat /\ Capacity' = Capacity
    BY <1>1, <2>4, Sizes DEF Capacity
  <2>6. Fresh'
    BY <2>1, <2>3, <2>4, <2>5 DEF Fresh, Idle
  <2> QED
    BY <2>4, <2>6, FreshTablesNext
<1>11. ASSUME Destroy PROVE TablesOK' /\ UNCHANGED fault
  <2>1. Idle /\ ~At({"grow_pool"})
    BY <1>11 DEF Destroy, Idle, At
  <2>2. \A p \in DOMAIN data : data[p] # "junk"
    BY <1>1, <2>1 DEF TablesOK, PoolsOK
  <2>3. /\ numPools' = 0 /\ numFree' = 0 /\ handle' = [h \in Handles |-> NoBlock]
        /\ data' = Null /\ refCounts' = Null /\ freeBlocks' = Null
        /\ UNCHANGED <<pc, fault>>
    BY <1>11, <2>2 DEF Destroy
  <2>4. Capacity' = 0 /\ Idle'
    BY <2>1, <2>3 DEF Capacity, Idle
  <2>5. Fresh'
    BY <2>3, <2>4, NullType DEF Fresh
  <2> QED
    BY <2>3, <2>5, FreshTablesNext
<1>12. ASSUME Create PROVE TablesOK' /\ UNCHANGED fault
  <2>1. numPools = 0 /\ Idle /\ ~At({"grow_pool", "grow_refs", "grow_free"})
    BY <1>12 DEF Create, Idle, At
  <2>2. Capacity = 0 /\ FreeLen = Capacity
    BY <1>1, <2>1, Sizes DEF FreeLen
  <2>3. \A h \in Handles : handle[h] = NoBlock
    BY <1>1, <2>2 DEF TablesOK, RefsOK
  <2>4. /\ numPools' = 1 /\ numFree' = Count /\ data' = [p \in {0} |-> "pool"]
        /\ refCounts' = [i \in 0 .. (Count - 1) |-> 0]
        /\ freeBlocks' = [i \in 0 .. (Count - 1) |-> i]
        /\ UNCHANGED <<pc, handle, fault>>
    BY <1>12 DEF Create
  <2>5. Capacity' = Count /\ Idle'
    BY <2>1, <2>4 DEF Capacity, Idle
  <2>6. Fresh'
    BY <2>3, <2>4, <2>5 DEF Fresh
  <2> QED
    BY <2>4, <2>6, FreshTablesNext
<1>13. CASE UNCHANGED vars
  <2>1. UNCHANGED <<cache, pc, handle, fault>>
    BY <1>13 DEF vars
  <2>2. (Idle' <=> Idle) /\ \A P \in SUBSET (Growth \cup {"pop"}) : At(P)' <=> At(P)
    BY <2>1 DEF Idle, At
  <2> QED
    BY <1>1, <2>1, <2>2, FrameTables DEF TablesOK, PoolsOK
<1> QED
  BY <1>2, <1>3, <1>5, <1>6, <1>7, <1>8, <1>9, <1>10, <1>11, <1>12, <1>13
  DEF Next, Step, Critical

LEMMA DestroyedStep ==
  TypeOK /\ DestroyedOK /\ [Next]_vars => DestroyedOK'
<1> SUFFICES ASSUME TypeOK, DestroyedOK, [Next]_vars, numPools' = 0
             PROVE  Idle' /\ \A h \in Handles : handle'[h] = NoBlock
  BY DEF DestroyedOK
<1>1. CASE UNCHANGED <<numPools, pc, handle>>
  BY <1>1 DEF DestroyedOK, Idle
<1>2. ASSUME NEW t \in Threads, Step(t), numPools = 0 PROVE FALSE
  BY <1>2 DEF DestroyedOK, Idle, Step, Begin, CallFetchNew, CallFetchShared,
     CallFetchInvalid, CallReturn, CallReturnUnheld, CallRead, Call, Lock, Critical,
     FetchBody, GrowTable, GrowPool, GrowRefs, GrowFree, Pop, ReturnBody, ReadBody, Unlock
<1>3. ASSUME NEW t \in Threads, Step(t), numPools # 0 PROVE FALSE
  <2>1. numPools' = numPools \/ numPools' = numPools + 1
    BY <1>3 DEF Step, Begin, CallFetchNew, CallFetchShared, CallFetchInvalid, CallReturn,
       CallReturnUnheld, CallRead, Call, Lock, Critical, FetchBody, GrowTable, GrowPool,
       GrowRefs, GrowFree, Pop, ReturnBody, ReadBody, Unlock, TakeReference, Fault, cache
  <2>2. numPools \in Nat
    BY DEF TypeOK
  <2> QED
    BY <1>3, <2>1, <2>2
<1>4. CASE Clear \/ Destroy \/ Create
  BY <1>1, <1>4 DEF Clear, Destroy, Create, Fault, cache, Idle
<1>5. CASE UNCHANGED vars
  BY <1>1, <1>5 DEF vars, cache
<1> QED
  BY <1>2, <1>3, <1>4, <1>5 DEF Next

LEMMA CreateTables ==
  ASSUME TypeOK, DestroyedOK, Create
  PROVE  TablesOK'
<1>1. /\ numPools' = 1 /\ numFree' = Count /\ data' = [p \in {0} |-> "pool"]
      /\ refCounts' = [i \in 0 .. (Count - 1) |-> 0]
      /\ freeBlocks' = [i \in 0 .. (Count - 1) |-> i]
      /\ UNCHANGED <<pc, handle>>
      /\ Idle /\ \A h \in Handles : handle[h] = NoBlock
  BY DEF Create, DestroyedOK
<1>2. Capacity' = Count /\ Idle' /\ Count \in Nat
  BY <1>1, BlockCacheAssumption DEF Capacity, Idle
<1>3. Fresh'
  BY <1>1, <1>2 DEF Fresh
<1> QED
  BY <1>3, FreshTablesNext

-----------------------------------------------------------------------------
(* The theorems.                                                            *)

LEMMA InvariantStep ==
  Disciplined /\ IInv /\ [Next]_vars => IInv'
<1> SUFFICES ASSUME Disciplined, IInv, [Next]_vars PROVE IInv'
  OBVIOUS
<1>1. /\ TypeOK /\ MutualExclusion /\ CallsOK /\ Capacity <= MaxBlocks /\ DestroyedOK
      /\ FaultOnlyAfterFailure /\ (~failed => TablesOK)
  BY DEF IInv
<1>2. /\ TypeOK' /\ MutualExclusion' /\ CallsOK' /\ (Capacity <= MaxBlocks)'
      /\ DestroyedOK'
  BY <1>1, TypeStep, MutexStep, CallsStep, BoundStep, DestroyedStep
<1>3. CASE failed'
  BY <1>2, <1>3 DEF IInv, FaultOnlyAfterFailure
<1>4. CASE ~failed /\ ~failed'
  <2>1. TablesOK' /\ UNCHANGED fault
    BY <1>1, <1>4, TablesStep DEF Good
  <2> QED
    BY <1>1, <1>2, <1>4, <2>1 DEF IInv, FaultOnlyAfterFailure
<1>5. CASE failed /\ ~failed'
  <2>1. Create /\ ~fault
    BY ZenonT(40), <1>5 DEF Next, Step, Begin, CallFetchNew, CallFetchShared, CallFetchInvalid,
       CallReturn, CallReturnUnheld, CallRead, Call, Lock, Critical, FetchBody, GrowTable,
       GrowPool, GrowRefs, GrowFree, Pop, ReturnBody, ReadBody, Unlock, TakeReference,
       AllocFails, Fault, Clear, Destroy, vars
  <2>2. ~fault'
    BY <2>1 DEF Create
  <2> QED
    BY Zenon, <1>1, <1>2, <2>1, <2>2, CreateTables DEF IInv, FaultOnlyAfterFailure
<1> QED
  BY <1>3, <1>4, <1>5

LEMMA InvariantInit == Init => IInv
<1> SUFFICES ASSUME Init PROVE IInv
  OBVIOUS
<1> USE BlockCacheAssumption
<1>1. TypeOK /\ MutualExclusion /\ CallsOK
  BY TypeInit
  DEF Init, MutualExclusion, CallsOK, CallOK, HandlesOwned, NoOp, Before, Growth
<1>2. Capacity = Count /\ Count \in Nat /\ Idle
  BY DEF Init, Capacity, Idle
<1>3. Fresh
  BY <1>2 DEF Init, Fresh
<1>4. TablesOK
  BY <1>3, FreshTables
<1>5. DestroyedOK /\ FaultOnlyAfterFailure
  BY DEF Init, DestroyedOK, FaultOnlyAfterFailure
<1> QED
  BY <1>1, <1>2, <1>4, <1>5 DEF IInv

\* IInv is an invariant of every instance whose callers are disciplined: the
\* counts, the free list and the pools of the cache agree with its handles at
\* every step, the steps inside a growth included.
THEOREM InductiveInvariant ==
  ASSUME Disciplined
  PROVE  Spec => []IInv
<1>1. IInv /\ [Next]_vars => IInv'
  BY InvariantStep
<1> QED
  BY <1>1, InvariantInit, PTL DEF Spec

\* RefsConserved, for every instance: ref_counts[id] is the number of handles
\* on id, however fetches, returns and growths interleave.
THEOREM RefsAreConserved ==
  ASSUME Disciplined
  PROVE  Spec => []RefsConserved
<1>1. IInv => RefsConserved
  <2> SUFFICES ASSUME IInv, ~failed PROVE RefsOK => RefsConserved
    BY DEF IInv, TablesOK, RefsConserved
  <2>1. FreeLen \in Int /\ RefsLen \in Int /\ FreeLen <= RefsLen
    <3>1. CurCapacity \in Int /\ Capacity \in Nat /\ CurCapacity <= Capacity
      BY Sizes, BlockCacheAssumption DEF IInv, CurCapacity
    <3>2. CASE At({"grow_pool", "grow_refs"})
      <4>1. At({"grow_pool", "grow_refs", "grow_free"})
        BY <3>2 DEF At
      <4> QED
        BY <3>1, <3>2, <4>1 DEF RefsLen, FreeLen
    <3> QED
      BY <3>1, <3>2 DEF RefsLen, FreeLen
  <2> QED
    BY <2>1 DEF RefsOK, RefsConserved
<1> QED
  BY <1>1, InductiveInvariant, PTL

\* FreeListExact, for every instance: outside the critical section the free
\* list holds exactly the blocks nobody holds, each once.
THEOREM FreeListIsExact ==
  ASSUME Disciplined
  PROVE  Spec => []FreeListExact
<1>1. IInv => FreeListExact
  <2> SUFFICES ASSUME IInv, ~failed, lock = NoThread PROVE FreeListExact
    BY DEF FreeListExact
  <2>1. \A t \in Threads : pc[t] \in {"idle", "lock"}
    BY BlockCacheAssumption DEF IInv, MutualExclusion
  <2>2. FreeLen = Capacity
    BY <2>1 DEF FreeLen, At
  <2>3. FreeOK
    BY DEF IInv, TablesOK
  <2> QED
    BY <2>2, <2>3 DEF FreeOK, FreeListExact, Unheld
<1> QED
  BY <1>1, InductiveInvariant, PTL

\* HeldSlotsDisjoint, for every instance: the blocks in use lie in pools that are
\* allocated, no two of them in the same memory, at every step of a growth too.
THEOREM HeldSlotsAreDisjoint ==
  ASSUME Disciplined
  PROVE  Spec => []HeldSlotsDisjoint
<1> USE BlockCacheAssumption
<1>1. ASSUME IInv, ~failed, NEW g \in Handles, handle[g] # NoBlock
      PROVE  /\ handle[g] \in Nat /\ SlotMapped(handle[g])
             /\ Slot(handle[g]).offset < Count
  <2>1. TypeOK /\ TablesOK
    BY <1>1 DEF IInv
  <2>2. numPools \in Nat /\ Count \in Nat \ {0}
    BY <2>1 DEF TypeOK
  <2>3. handle[g] \in 0 .. (FreeLen - 1)
    BY <1>1, <2>1 DEF TablesOK, RefsOK
  <2>4. CASE At({"grow_pool", "grow_refs", "grow_free"})
    <3>1. numPools - 1 \in Nat
      BY <2>1, <2>2, <2>4 DEF TablesOK, PoolsOK
    <3>2. FreeLen = (numPools - 1) * Count
      <4>1. ((numPools - 1) + 1) * Count = (numPools - 1) * Count + Count
        BY <2>2, <3>1, PoolArithmetic
      <4>2. (numPools - 1) * Count \in Nat /\ (numPools - 1) + 1 = numPools
        BY <2>2, <3>1, PoolArithmetic
      <4>3. FreeLen = numPools * Count - Count
        BY <2>4 DEF FreeLen, CurCapacity, Capacity
      <4> QED
        BY <2>2, <4>1, <4>2, <4>3
    <3>3. /\ handle[g] \div Count \in 0 .. (numPools - 2)
          /\ handle[g] % Count \in 0 .. (Count - 1)
      BY <2>2, <2>3, <3>1, <3>2, SlotBounds
    <3> QED
      BY <2>1, <2>2, <2>3, <3>1, <3>3 DEF TablesOK, PoolsOK, SlotMapped, Slot
  <2>5. CASE ~At({"grow_pool", "grow_refs", "grow_free"})
    <3>1. ~At({"grow_pool"}) /\ FreeLen = numPools * Count
      BY <2>5 DEF At, FreeLen, Capacity
    <3>2. /\ handle[g] \div Count \in 0 .. (numPools - 1)
          /\ handle[g] % Count \in 0 .. (Count - 1)
      BY <2>2, <2>3, <3>1, SlotBounds
    <3> QED
      BY <2>1, <2>2, <2>3, <3>1, <3>2 DEF TablesOK, PoolsOK, SlotMapped, Slot
  <2> QED
    BY <2>4, <2>5
<1>2. ASSUME NEW i \in Nat, NEW j \in Nat, Slot(i) = Slot(j) PROVE i = j
  <2>1. i \div Count = j \div Count /\ i % Count = j % Count
    BY <1>2 DEF Slot
  <2>2. /\ i = Count * (i \div Count) + (i % Count)
        /\ j = Count * (j \div Count) + (j % Count)
    OBVIOUS
  <2> QED
    BY <2>1, <2>2
<1>3. IInv => HeldSlotsDisjoint
  <2> SUFFICES ASSUME IInv, ~failed,
                      NEW g \in Handles, NEW h \in Handles, handle[g] # NoBlock
               PROVE  /\ SlotMapped(handle[g]) /\ Slot(handle[g]).offset < Count
                      /\ handle[h] \notin {handle[g], NoBlock}
                           => Slot(handle[h]) # Slot(handle[g])
    BY DEF HeldSlotsDisjoint
  <2> QED
    BY <1>1, <1>2
<1> QED
  BY <1>3, InductiveInvariant, PTL

\* FaultOnlyAfterFailure, for every instance: fetch, return, read and clear
\* stay inside the tables unless an allocation of the cache has failed.
THEOREM NoFaultWithoutFailure ==
  ASSUME Disciplined
  PROVE  Spec => []FaultOnlyAfterFailure
<1>1. IInv => FaultOnlyAfterFailure
  BY DEF IInv
<1> QED
  BY <1>1, InductiveInvariant, PTL

\* The refinement: as long as no allocation fails, every step of the cache is a
\* step of BlockAlloc or leaves the handles alone.
THEOREM CacheImplementsAlloc ==
  ASSUME Disciplined
  PROVE  Spec => ImplementsAlloc
<1> USE BlockCacheAssumption
<1>1. Init => Alloc!Init
  BY DEF Init, Alloc!Init, NoBlock, Alloc!NoBlock
<1>2. IInv /\ [Next]_vars => [~failed => Alloc!Next]_handle
  <2> SUFFICES ASSUME IInv, [Next]_vars, ~failed, ~UNCHANGED handle
               PROVE  Alloc!Next
    OBVIOUS
  <2> USE DEF Alloc!NoBlock, NoBlock
  <2>1. TypeOK /\ CallsOK /\ Capacity <= MaxBlocks /\ TablesOK /\ MutualExclusion
    BY DEF IInv
  <2>2. Good
    BY <2>1 DEF Good
  <2>3. ASSUME NEW t \in Threads, Step(t)
        PROVE  \/ FetchBody(t) /\ op[t].id >= 0 /\ op[t].id < Capacity
               \/ Pop(t)
               \/ ReturnBody(t) /\ ~Refused(op[t].id)
    <3>1. CASE Begin(t)
      BY <3>1 DEF Begin, CallFetchNew, CallFetchShared, CallFetchInvalid, CallReturn,
         CallReturnUnheld, CallRead, Call
    <3>2. CASE FetchBody(t)
      BY <3>2 DEF FetchBody
    <3>3. CASE GrowTable(t) \/ GrowPool(t) \/ GrowRefs(t) \/ GrowFree(t)
      BY <3>3 DEF GrowTable, GrowPool, GrowRefs, GrowFree, AllocFails
    <3>4. CASE ReturnBody(t)
      BY <3>4 DEF ReturnBody
    <3>5. CASE Lock(t) \/ ReadBody(t) \/ Unlock(t)
      BY <3>5 DEF Lock, ReadBody, Unlock, Fault
    <3> QED
      BY Zenon, <2>3, <3>1, <3>2, <3>3, <3>4, <3>5 DEF Step, Critical
  <2>4. ASSUME NEW t \in Threads, FetchBody(t), op[t].id >= 0, op[t].id < Capacity
        PROVE  Alloc!Next
    <3>1. /\ op[t].h \in Handles /\ handle[op[t].h] = NoBlock
          /\ op[t].src \in Handles /\ handle[op[t].src] = op[t].id /\ op[t].id # NoBlock
      <4>1. op[t].id # MaxBlocks /\ op[t].id # NoBlock
        BY <2>1, <2>4, Sizes
      <4> QED
        BY <2>1, <2>4, <4>1 DEF FetchBody, CallsOK, CallOK, Before
    <3>2. handle' = [handle EXCEPT ![op[t].h] = op[t].id]
      BY <2>1, <2>4, Sizes DEF FetchBody, TakeReference, Fault
    <3>3. op[t].id \in Wanted(op[t].h)
      BY <2>4, <3>1 DEF FetchBody, Wanted
    <3>4. Alloc!Share(op[t].h)
      BY <3>1, <3>2, <3>3 DEF Alloc!Share
    <3> QED
      BY <3>1, <3>4 DEF Alloc!Next
  <2>5. ASSUME NEW t \in Threads, Pop(t) PROVE Alloc!Next
    <3>1. PICK id : /\ id \in 0 .. (Capacity - 1) /\ Holders(id) = {}
                    /\ handle' = [handle EXCEPT ![op[t].h] = id]
                    /\ op[t].h \in Handles /\ handle[op[t].h] = NoBlock
      BY <2>2, <2>5, PopTables
    <3>2. id \in 0 .. (MaxBlocks - 1)
      BY <2>1, <3>1, Sizes
    <3>3. Wanted(op[t].h) = {}
      <4>1. op[t].id = NoBlock
        BY <2>1, <2>5 DEF CallsOK, CallOK, Pop
      <4>2. \A u \in Threads : op[u].h = op[t].h => u = t
        BY <2>1, <3>1 DEF CallsOK, HandlesOwned
      <4> QED
        BY <4>1, <4>2 DEF Wanted
    <3>4. Alloc!New(op[t].h)
      BY <3>1, <3>2, <3>3 DEF Alloc!New, Holders
    <3> QED
      BY <3>1, <3>4 DEF Alloc!Next
  <2>6. ASSUME NEW t \in Threads, ReturnBody(t), ~Refused(op[t].id) PROVE Alloc!Next
    <3>1. /\ op[t].h \in Handles /\ handle[op[t].h] # NoBlock
          /\ handle' = [handle EXCEPT ![op[t].h] = NoBlock]
      BY <2>2, <2>6, ReturnTables
    <3> QED
      BY <3>1 DEF Alloc!Next, Alloc!Drop
  <2>7. CASE Clear \/ Destroy \/ Create
    BY <2>7 DEF Clear, Destroy, Create, Fault, Alloc!Next, Alloc!DropAll
  <2>8. CASE UNCHANGED vars
    BY <2>8 DEF vars
  <2> QED
    BY <2>3, <2>4, <2>5, <2>6, <2>7, <2>8 DEF Next
<1> QED
  BY <1>1, <1>2, InductiveInvariant, PTL DEF Spec, ImplementsAlloc

\* DoubleReturnRefused: in a program of one thread, an id that no handle holds is
\* refused by st_block_cache_return however often it is returned, and neither the
\* counts nor the free list change, until an allocation fails.
THEOREM DoubleReturnsAreRefused ==
  ASSUME Disciplined
  PROVE  Spec => DoubleReturnRefused
<1>1. ASSUME IInv, [Next]_vars
      PROVE  [\A t \in Threads :
                op[t].kind = "return" /\ op[t].h = NoHandle /\ ~failed
                  => op'[t].ret # "ok" /\ (lock = t => UNCHANGED cache)]_vars
  <2> SUFFICES ASSUME Next, NEW t \in Threads,
                      op[t].kind = "return", op[t].h = NoHandle, ~failed
               PROVE  op'[t].ret # "ok" /\ (lock = t => UNCHANGED cache)
    BY <1>1
  <2>1. Good /\ CallOK(t) /\ TypeOK /\ MutualExclusion
    BY <1>1 DEF IInv, Good, CallsOK
  <2>2. pc[t] # "idle" /\ ~Idle
    BY <2>1 DEF CallOK, NoOp, Idle
  <2>3. pc[t] \notin Growth \cup {"pop"}
    BY <2>1 DEF CallOK
  <2>4. ASSUME pc[t] \in Before
        PROVE  op[t].ret = "none" /\ op[t].id \in Nat /\ Holders(op[t].id) = {}
    BY <2>1, <2>4, BlockCacheAssumption DEF CallOK
  <2>5. PICK u \in Threads : Step(u)
    BY <2>1, <2>2 DEF Next, Clear, Destroy, Create
  <2>6. u = t
    BY Zenon, <2>1 DEF CallOK, SingleThread
  <2>7. CASE Begin(t)
    BY <2>2, <2>7 DEF Begin, CallFetchNew, CallFetchShared, CallFetchInvalid, CallReturn,
       CallReturnUnheld, CallRead, Call
  <2>8. CASE Lock(t)
    BY <2>1, <2>4, <2>8 DEF Lock, MutualExclusion, Before
  <2>9. CASE ReturnBody(t)
    <3>1. pc[t] = "body" /\ Refused(op[t].id)
      BY <2>1, <2>4, <2>9, UnheldRefused DEF ReturnBody, Before
    <3>2. Finish(t, "err") /\ UNCHANGED cache
      BY <2>9, <3>1 DEF ReturnBody
    <3> QED
      BY <2>1, <3>2 DEF Finish, TypeOK, Calls
  <2>10. CASE Unlock(t)
    BY <2>1, <2>10 DEF Unlock, TypeOK, NoOp
  <2>11. CASE \/ FetchBody(t) \/ ReadBody(t) \/ Pop(t)
             \/ GrowTable(t) \/ GrowPool(t) \/ GrowRefs(t) \/ GrowFree(t)
    BY <2>3, <2>11 DEF FetchBody, ReadBody, Pop, GrowTable, GrowPool, GrowRefs, GrowFree, Growth
  <2> QED
    BY <2>5, <2>6, <2>7, <2>8, <2>9, <2>10, <2>11 DEF Step, Critical
<1> QED
  BY <1>1, InductiveInvariant, PTL DEF Spec, DoubleReturnRefused

-----------------------------------------------------------------------------
(* The size call, which takes no mutex.                                     *)

\* The free list has every block of the pools that are filled and that no handle
\* holds, so the blocks in use are those of these pools less its length.
LEMMA InUseIs ==
  ASSUME IInv, ~failed
  PROVE  /\ InUse \in Int /\ FilledPools \in Int /\ numPools \in Int /\ numFree \in Int
         /\ InUse = FilledPools * Count - numFree
<1> DEFINE Slots == 0 .. (FreeLen - 1)
           Used == {handle[h] : h \in Handles} \ {NoBlock}
<1>1. /\ TypeOK /\ RefsOK /\ FreeOK /\ PoolsOK
      /\ numPools \in Nat /\ numFree \in Nat /\ Count \in Nat \ {0}
  BY BlockCacheAssumption DEF IInv, TablesOK, TypeOK
<1>2. FilledPools \in Nat
  BY <1>1 DEF FilledPools, Growing, PoolsOK, At
<1>3. FreeLen = FilledPools * Count
  <2>1. CASE Growing
    <3>1. FreeLen = numPools * Count - Count /\ FilledPools = numPools - 1
      BY <2>1 DEF FreeLen, CurCapacity, Capacity, At, Growing, FilledPools
    <3> QED
      BY <1>1, <3>1
  <2>2. CASE ~Growing
    BY <2>2 DEF FreeLen, Capacity, At, Growing, FilledPools
  <2> QED
    BY <2>1, <2>2
<1>4. FreeLen \in Nat
  BY <1>1, <1>2, <1>3
<1>5. Used \subseteq Slots
  BY <1>1 DEF RefsOK
<1>6. Unheld(FreeLen) = Slots \ Used
  BY <1>4 DEF Unheld, Holders, NoBlock
<1>7. IsFiniteSet(Slots) /\ Cardinality(Slots) = FreeLen
  BY <1>4, FS_Interval
<1>8. Cardinality(Slots \ Used) = Cardinality(Slots) - Cardinality(Slots \cap Used)
  BY <1>7, FS_Difference
<1>9. Slots \cap Used = Used
  BY <1>5
<1>10. Cardinality(Used) \in Nat
  BY <1>5, <1>7, FS_Subset, FS_CardinalityType
<1>11. numFree = FreeLen - Cardinality(Used)
  BY <1>1, <1>6, <1>7, <1>8, <1>9 DEF FreeOK
<1>12. InUse = Cardinality(Used)
  BY DEF InUse
<1> HIDE DEF Used, Slots
<1>13. InUse = FreeLen - numFree
  BY <1>1, <1>4, <1>10, <1>11, <1>12
<1> QED
  BY <1>1, <1>2, <1>3, <1>10, <1>12, <1>13

\* What a size call under way has read: a number of pools there was, and a length of
\* the free list that belongs to a number of blocks in use and to the pools filled then.
\* The histories hold what is the case now.
SizeInv ==
  /\ reading = NoCall \/ reading \subseteq {"num_pools", "num_free_blocks"}
  /\ (~failed /\ reading # NoCall) =>
       /\ InUse \in seen /\ numPools \in pools /\ FilledPools \in pools
       /\ seen \subseteq Int /\ pools \subseteq Int
       /\ "num_pools" \notin reading => gotPools \in pools
       /\ "num_free_blocks" \notin reading =>
            \E s \in seen, q \in pools : gotFree = q * Count - s

\* A step that does not touch the cache or its callers.
LEMMA SameCache ==
  ASSUME UNCHANGED vars
  PROVE  /\ InUse' = InUse /\ numPools' = numPools /\ FilledPools' = FilledPools
         /\ failed' = failed
BY DEF vars, cache, InUse, FilledPools, Growing

LEMMA SizeStep ==
  ASSUME IInv, IInv', SizeInv, [NextSize]_varsSize
  PROVE  SizeInv'
<1>1. ASSUME ~failed
      PROVE  /\ InUse \in Int /\ FilledPools \in Int /\ numPools \in Int
             /\ InUse = FilledPools * Count - numFree
  BY <1>1, InUseIs
<1>2. ASSUME ~failed' PROVE InUse' \in Int /\ FilledPools' \in Int /\ numPools' \in Int
  <2>1. (~failed => InUse \in Int /\ FilledPools \in Int /\ numPools \in Int)'
    BY InUseIs, PTL
  <2> QED
    BY <1>2, <2>1
<1>3. ASSUME CacheStep, reading # NoCall, failed PROVE failed'
  <2>1. PICK t \in Threads : pc'[t] # pc[t]
    BY <1>3 DEF CacheStep
  <2>2. Next /\ ~Create
    BY <1>3, <2>1 DEF CacheStep, Create
  <2> QED
    BY ZenonT(40), <1>3, <2>2 DEF Next, Step, Begin, Critical, CallFetchNew, CallFetchShared,
       CallFetchInvalid, CallReturn, CallReturnUnheld, CallRead, Call, Lock, Unlock,
       FetchBody, GrowTable, GrowPool, GrowRefs, GrowFree, Pop, TakeReference,
       ReturnBody, ReadBody, AllocFails, Fault, Clear, Destroy
<1>4. CASE CacheStep
  <2>1. UNCHANGED <<reading, gotPools, gotFree>>
    BY <1>4 DEF CacheStep
  <2>2. ASSUME ~failed', reading # NoCall
        PROVE  /\ ~failed /\ InUse' \in Int /\ Pools' = {numPools', FilledPools'}
               /\ seen' = seen \cup {InUse'} /\ pools' = pools \cup Pools'
    BY <1>2, <1>3, <1>4, <2>2 DEF CacheStep, Pools
  <2> QED
    BY <1>2, <2>1, <2>2 DEF SizeInv
<1>5. CASE SizeBegin
  <2>1. /\ UNCHANGED <<vars, gotPools, gotFree>> /\ seen' = {InUse}
        /\ pools' = {numPools, FilledPools} /\ reading' = {"num_pools", "num_free_blocks"}
    BY <1>5 DEF SizeBegin, Pools
  <2>2. /\ InUse' = InUse /\ numPools' = numPools /\ FilledPools' = FilledPools
        /\ failed' = failed
    BY <2>1, SameCache
  <2> QED
    BY <1>1, <2>1, <2>2 DEF SizeInv
<1>6. CASE ReadNumPools
  <2>1. /\ UNCHANGED <<vars, gotFree, seen, pools>> /\ gotPools' = numPools
        /\ "num_pools" \in reading /\ reading' = reading \ {"num_pools"}
    BY <1>6 DEF ReadNumPools
  <2>2. /\ InUse' = InUse /\ numPools' = numPools /\ FilledPools' = FilledPools
        /\ failed' = failed
    BY <2>1, SameCache
  <2> QED
    BY <2>1, <2>2 DEF SizeInv, NoCall
<1>7. CASE ReadNumFree
  <2>1. /\ UNCHANGED <<vars, gotPools, seen, pools>> /\ gotFree' = numFree
        /\ "num_free_blocks" \in reading /\ reading' = reading \ {"num_free_blocks"}
    BY <1>7 DEF ReadNumFree
  <2>2. /\ InUse' = InUse /\ numPools' = numPools /\ FilledPools' = FilledPools
        /\ failed' = failed
    BY <2>1, SameCache
  <2>3. ~failed => numFree = FilledPools * Count - InUse
    <3>1. ASSUME ~failed PROVE numFree = FilledPools * Count - InUse
      BY <3>1, InUseIs, BlockCacheAssumption
    <3> QED
      BY <3>1
  <2>4. reading # NoCall /\ (reading' = NoCall \/ reading' \subseteq {"num_pools", "num_free_blocks"})
    BY <2>1 DEF SizeInv, NoCall
  <2> QED
    BY <2>1, <2>2, <2>3, <2>4 DEF SizeInv
<1>8. CASE SizeEnd
  BY <1>8 DEF SizeEnd, SizeInv
<1>9. CASE UNCHANGED varsSize
  <2>1. UNCHANGED vars /\ UNCHANGED <<reading, gotPools, gotFree, seen, pools>>
    BY <1>9 DEF varsSize, reader
  <2> QED
    BY <2>1, SameCache DEF SizeInv
<1> QED
  BY <1>4, <1>5, <1>6, <1>7, <1>8, <1>9 DEF NextSize

\* SizeOffByGrowthOnly, for every instance with disciplined callers, up to the
\* first allocation that fails: the size that two unlocked reads give, in either
\* order and among any calls of the other threads, was the number of blocks in use
\* during the call, or is off by the pools that were added meanwhile.
THEOREM SizeIsOffByGrowthOnly ==
  ASSUME Disciplined
  PROVE  SpecSize => [](~failed => SizeOffByGrowthOnly)
<1>1. InitSize => IInv /\ SizeInv
  BY InvariantInit DEF InitSize, SizeInv
<1>2. IInv /\ SizeInv /\ [NextSize]_varsSize => IInv' /\ SizeInv'
  <2>1. [NextSize]_varsSize => [Next]_vars
    BY DEF NextSize, CacheStep, SizeBegin, ReadNumPools, ReadNumFree, SizeEnd, varsSize
  <2> QED
    BY <2>1, InvariantStep, SizeStep
<1>3. IInv /\ SizeInv => (~failed => SizeOffByGrowthOnly)
  <2> SUFFICES ASSUME SizeInv, ~failed, reading = {}
               PROVE  \E s \in seen, p, q \in pools : SizeResult = s + (p - q) * Count
    BY DEF SizeOffByGrowthOnly
  <2>1. seen \subseteq Int /\ pools \subseteq Int /\ gotPools \in pools
    BY DEF SizeInv, NoCall
  <2>2. PICK s \in seen, q \in pools : gotFree = q * Count - s
    BY DEF SizeInv, NoCall
  <2>3. gotPools * Count - (q * Count - s) = s + (gotPools - q) * Count
    BY <2>1, BlockCacheAssumption
  <2> QED
    BY <2>1, <2>2, <2>3 DEF SizeResult
<1> QED
  BY <1>1, <1>2, <1>3, PTL DEF SpecSize
=============================================================================
