---------------------------- MODULE BlockCacheInv ----------------------------
(***************************************************************************)
(* The inductive invariant behind the safety properties of BlockCache, for *)
(* callers that keep the discipline of the header: a shared handle stays   *)
(* until the fetch from it ends, and no id is returned that no handle      *)
(* holds, or by a program of one thread only: with several, the id may be  *)
(* fetched anew between the mistake and the mutex.  BlockCacheProofs       *)
(* proves it; TLC checks it on small instances.                            *)
(***************************************************************************)
EXTENDS BlockCache

SingleThread == \A t, u \in Threads : t = u
Disciplined == Pinning /\ (DoubleReturn => SingleThread)

Growth == {"grow", "grow_pool", "grow_refs", "grow_free"}
Before == {"lock", "body", "pop"} \cup Growth

At(phases) == \E t \in Threads : pc[t] \in phases

\* How far the two tables and the free list reach while the cache grows.
RefsLen == IF At({"grow_pool", "grow_refs"}) THEN CurCapacity ELSE Capacity
FreeLen == IF At({"grow_pool", "grow_refs", "grow_free"}) THEN CurCapacity
           ELSE Capacity

Unheld(n) == {id \in 0 .. (n - 1) : Holders(id) = {}}

\* A call in progress has the handle it is about to set, or to give up, and
\* the handle it shares still names the block; an id that is returned without a
\* handle is nobody's.
CallOK(t) ==
  LET o == op[t] IN
  /\ pc[t] = "idle" => o = NoOp
  /\ pc[t] # "idle" => o.kind \in {"fetch", "return", "read"}
  /\ pc[t] \in Before => o.ret = "none"
  /\ pc[t] \in Growth \cup {"pop"} => o.kind = "fetch" /\ o.id = NoBlock
  /\ o.kind = "fetch" /\ pc[t] \in Before =>
       /\ o.h \in Handles /\ handle[o.h] = NoBlock
       /\ o.id \in {NoBlock, MaxBlocks} \/ o.src \in Handles
  /\ o.kind = "return" /\ pc[t] \in Before =>
       /\ o.id \in Nat
       /\ \/ o.h \in Handles /\ handle[o.h] = o.id
          \/ o.h = NoHandle /\ Holders(o.id) = {}
  /\ o.kind = "return" /\ o.h = NoHandle => SingleThread
  /\ o.src \in Handles => o.kind = "fetch" /\ o.id \in Nat /\ handle[o.src] = o.id
  /\ o.kind = "read" => o.h = NoHandle /\ o.id \in Nat

\* No two calls use the same handle, unless both share it.
HandlesOwned ==
  \A t, u \in Threads :
    op[t].h \in Handles =>
      op[u].src # op[t].h /\ (op[u].h = op[t].h => t = u)

CallsOK == (\A t \in Threads : CallOK(t)) /\ HandlesOwned

\* The tables agree with the handles.
RefsOK ==
  /\ DOMAIN refCounts = 0 .. (RefsLen - 1)
  /\ \A id \in DOMAIN refCounts : refCounts[id] = Cardinality(Holders(id))
  /\ \A h \in Handles : handle[h] # NoBlock => handle[h] \in 0 .. (FreeLen - 1)

FreeOK ==
  /\ DOMAIN freeBlocks = 0 .. (FreeLen - 1)
  /\ numFree = Cardinality(Unheld(FreeLen))
  /\ Free = Unheld(FreeLen)
  /\ \A i, j \in 0 .. (numFree - 1) : freeBlocks[i] = freeBlocks[j] => i = j
  /\ At(Growth) => numFree = 0
  /\ At({"pop"}) => numFree > 0

PoolsOK ==
  /\ DOMAIN data = 0 .. (numPools - 1)
  /\ \A p \in DOMAIN data :
       (p # numPools - 1 \/ ~At({"grow_pool"})) => data[p] = "pool"
  /\ At({"grow_pool", "grow_refs", "grow_free"}) => numPools > 1
  /\ ~Idle => numPools > 0

\* Nobody uses a cache that is destroyed.
DestroyedOK == numPools = 0 => Idle /\ \A h \in Handles : handle[h] = NoBlock

TablesOK == PoolsOK /\ RefsOK /\ FreeOK

IInv ==
  /\ TypeOK /\ MutualExclusion /\ CallsOK
  /\ Capacity <= MaxBlocks /\ DestroyedOK
  /\ FaultOnlyAfterFailure
  /\ ~failed => TablesOK
=============================================================================
