------------------------------ MODULE BlockPool ------------------------------
(***************************************************************************)
(* st_block_pool: a fixed number of blocks handed out by index, the fresh  *)
(* ones in order and, before them, those freed last.  Nothing in the pool  *)
(* tells a block in use from a free one.  The pool is not locked: its      *)
(* calls are one step each.                                                *)
(*                                                                         *)
(* The callers are modelled by their handles, as in BlockCache.            *)
(***************************************************************************)
EXTENDS Integers, FiniteSets

CONSTANTS
  Handles,      \* places of the program that can hold a block index
  PoolCapacity  \* bpool->capacity

BlockPoolAssumption == IsFiniteSet(Handles) /\ PoolCapacity \in Nat \ {0}

VARIABLES
  index_cur,    \* the blocks below it have been handed out once
  free_cur,     \* the last entry of free_arr in use, or -1
  free_arr,
  handle,       \* the block each handle holds, or NoBlock
  misused       \* history: a block was freed that no handle held

poolVars == <<index_cur, free_cur, free_arr, handle, misused>>

NoBlock == -1
Entries == 0 .. (PoolCapacity - 1)
Free == {free_arr[i] : i \in 0 .. free_cur}
Held == {handle[h] : h \in Handles} \ {NoBlock}

\* free_arr is not initialised; what is in it is not read before it is written.
PoolInit ==
  /\ index_cur = 0 /\ free_cur = -1
  /\ free_arr = [i \in Entries |-> 0]
  /\ handle = [h \in Handles |-> NoBlock]
  /\ misused = FALSE

AllocFresh(h) ==
  /\ free_cur < 0 /\ index_cur < PoolCapacity
  /\ handle' = [handle EXCEPT ![h] = index_cur]
  /\ index_cur' = index_cur + 1
  /\ UNCHANGED <<free_cur, free_arr, misused>>

AllocFreedKeepsEntry(h) ==
  /\ free_cur >= 0
  /\ handle' = [handle EXCEPT ![h] = free_arr[free_cur]]
  /\ UNCHANGED <<index_cur, free_arr, free_cur, misused>>

AllocFreed(h) ==
  /\ free_cur >= 0
  /\ handle' = [handle EXCEPT ![h] = free_arr[free_cur]]
  /\ free_cur' = free_cur - 1
  /\ UNCHANGED <<index_cur, free_arr, misused>>

\* A pool that has nothing left answers -1 and changes nothing.
AllocRefused == free_cur < 0 /\ index_cur >= PoolCapacity /\ UNCHANGED poolVars

st_block_pool_alloc(h) ==
  handle[h] = NoBlock /\ (AllocFresh(h) \/ AllocFreed(h) \/ AllocRefused)

FreeRefusedLate == free_cur > PoolCapacity - 1

\* The indices that callers have are never out of range.
FreeRefused == free_cur >= PoolCapacity - 1

\* The list of freed blocks takes id, unless it is full.
Release(id) ==
  IF FreeRefused THEN UNCHANGED <<free_cur, free_arr>>
  ELSE free_cur' = free_cur + 1 /\ free_arr' = [free_arr EXCEPT ![free_cur'] = id]

st_block_pool_free(h) ==
  /\ handle[h] # NoBlock
  /\ Release(handle[h])
  /\ handle' = [handle EXCEPT ![h] = NoBlock]
  /\ UNCHANGED <<index_cur, misused>>

\* A caller's mistake: a block that no handle holds is freed.
FreeUnheld(id) ==
  /\ id \notin Held
  /\ Release(id)
  /\ misused' = TRUE
  /\ UNCHANGED <<index_cur, handle>>

\* The callers give up every handle: the pool is as good as new.
st_block_pool_clear ==
  /\ index_cur' = 0 /\ free_cur' = -1
  /\ handle' = [h \in Handles |-> NoBlock]
  /\ misused' = FALSE
  /\ UNCHANGED free_arr

PoolNext ==
  \/ \E h \in Handles : st_block_pool_alloc(h) \/ st_block_pool_free(h)
  \/ \E id \in Entries : FreeUnheld(id)
  \/ st_block_pool_clear

PoolSpec == PoolInit /\ [][PoolNext]_poolVars

-----------------------------------------------------------------------------
(* Properties.                                                              *)

\* The types: whatever is freed how often, the list of freed blocks stays within
\* its array and every block handed out lies within the buffer.
PoolTypeOK ==
  /\ index_cur \in 0 .. PoolCapacity
  /\ free_cur \in -1 .. (PoolCapacity - 1)
  /\ free_arr \in [Entries -> Entries]
  /\ handle \in [Handles -> Entries \cup {NoBlock}]
  /\ misused \in BOOLEAN

\* Callers that free what they hold, once: every block handed out is held by one
\* handle or is in the list of freed ones, in one place.
FreeListExact ==
  ~misused =>
    /\ Free \cap Held = {} /\ Free \cup Held = 0 .. (index_cur - 1)
    /\ \A i, j \in 0 .. free_cur : free_arr[i] = free_arr[j] => i = j

\* What the pool promises such callers is what BlockCache does, without sharing; and
\* none of their frees is refused: every call leaves the list exact, so that no block
\* is lost to it.
Alloc == INSTANCE BlockAlloc WITH Blocks <- Entries, wanted <- [h \in Handles |-> {}]
PoolImplementsAlloc ==
  Alloc!Init /\ [][~misused => Alloc!Next]_handle /\ [][FreeListExact']_poolVars
=============================================================================
