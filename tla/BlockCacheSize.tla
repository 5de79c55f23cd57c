--------------------------- MODULE BlockCacheSize ---------------------------
(***************************************************************************)
(* BlockCache composed with a thread that calls st_block_cache_size, and   *)
(* through it st_block_cache_capacity.  Neither takes the mutex: the two   *)
(* fields are read one after the other, in an order the C code leaves to   *)
(* the compiler, while other threads fetch and return blocks.              *)
(***************************************************************************)
EXTENDS BlockCache

VARIABLES
  reading,    \* the fields the call in progress has still to read
  gotPools,   \* the value of num_pools it read
  gotFree,    \* the value of num_free_blocks it read
  seen,       \* history: how many blocks were in use during the call
  pools       \* history: how many pools there were, and were filled, during it

reader == <<reading, gotPools, gotFree, seen, pools>>
varsSize == <<vars, reader>>

NoCall == {"none"}
InUse == Cardinality({handle[h] : h \in Handles} \ {NoBlock})

\* The pools whose blocks are in use or free: a growth raises num_pools before it
\* fills the list with the ids of the pool it adds.
Growing == \E t \in Threads : pc[t] \in {"grow_pool", "grow_refs", "grow_free"}
FilledPools == IF Growing THEN numPools - 1 ELSE numPools
Pools == {numPools, FilledPools}

InitSize ==
  /\ Init
  /\ reading = NoCall /\ gotPools = 0 /\ gotFree = 0
  /\ seen = {} /\ pools = {}

SizeBegin ==
  /\ reading = NoCall /\ numPools > 0
  /\ reading' = {"num_pools", "num_free_blocks"}
  /\ seen' = {InUse} /\ pools' = Pools
  /\ UNCHANGED <<vars, gotPools, gotFree>>

ReadNumPools ==
  /\ "num_pools" \in reading
  /\ gotPools' = numPools
  /\ reading' = reading \ {"num_pools"}
  /\ UNCHANGED <<vars, gotFree, seen, pools>>

ReadNumFree ==
  /\ "num_free_blocks" \in reading
  /\ gotFree' = numFree
  /\ reading' = reading \ {"num_free_blocks"}
  /\ UNCHANGED <<vars, gotPools, seen, pools>>

\* st_block_cache_capacity(bcache) - bcache->num_free_blocks
SizeResult == gotPools * Count - gotFree

SizeEnd ==
  /\ reading = {}
  /\ reading' = NoCall /\ gotPools' = 0 /\ gotFree' = 0
  /\ seen' = {} /\ pools' = {}
  /\ UNCHANGED vars

\* Any step of the cache; it is part of the history of a size call under way.
\* The unlocked clear, destroy and create stay out of it.
CacheStep ==
  /\ Next
  /\ reading # NoCall => \E t \in Threads : pc'[t] # pc[t]
  /\ seen' = IF reading = NoCall THEN seen ELSE seen \cup {InUse'}
  /\ pools' = IF reading = NoCall THEN pools ELSE pools \cup Pools'
  /\ UNCHANGED <<reading, gotPools, gotFree>>

NextSize ==
  \/ CacheStep
  \/ SizeBegin \/ ReadNumPools \/ ReadNumFree \/ SizeEnd

SpecSize == InitSize /\ [][NextSize]_varsSize

-----------------------------------------------------------------------------
\* Whatever fetches and returns overlap it, a size call in which the cache does not
\* grow answers a number of blocks that was in use at some moment of it; one that a
\* growth overlaps is off by whole pools, by no more than were added meanwhile.
SizeOffByGrowthOnly ==
  reading = {} => \E s \in seen, p, q \in pools : SizeResult = s + (p - q) * Count
=============================================================================
