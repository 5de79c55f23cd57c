-------------------------------- MODULE Dict --------------------------------
(***************************************************************************)
(* st_dict: a hash table.  A bucket keeps its first node in the table and  *)
(* chains the others, newest first, through a pool that only grows.  The   *)
(* table can be emptied bucket by bucket from a list of those in use, be   *)
(* saved to a file and be loaded from one.                                 *)
(*                                                                         *)
(* A key stands for a pair of signatures.  A node without a key has both   *)
(* signatures zero, which is how the program marks an empty one; the keys  *)
(* of HalfZero have one of the two zero.  A Lost node is one whose memory  *)
(* went with a failed reallocation: to read it is a fault.                 *)
(***************************************************************************)
EXTENDS Integers, Sequences, FiniteSets, SequencesExt

CONSTANTS
  Keys, Data,
  HalfZero,             \* keys with one signature zero
  HashNum,              \* wd->hash_num
  HashGiven,            \* the hash function of st_dict_create
  HashSimple,           \* st_dict_hash_simple
  ReallocNum,           \* wd->realloc_node_num
  NeedClear,            \* st_dict_create's need_clear
  MemoryMayFail,        \* whether a reallocation may fail
  CallbackMayFail,      \* whether a callback of clear or update may refuse
  MaxNodes,             \* bound: nodes taken from the pool in a behaviour
  NoKey, Lost, NoData, NoFile

Buckets == 0 .. (HashNum - 1)
BadNode == -1

ASSUME DictAssumption ==
  /\ HashNum \in Nat \ {0} /\ ReallocNum \in Nat \ {0} /\ MaxNodes \in Nat
  /\ HalfZero \subseteq Keys
  /\ HashGiven \in [Keys -> Buckets] /\ HashSimple \in [Keys -> Buckets]
  /\ {NeedClear, MemoryMayFail, CallbackMayFail} \subseteq BOOLEAN
  /\ NoKey \notin Keys /\ Lost \notin Keys /\ NoKey # Lost /\ NoData \notin Data
  /\ \A content \in SUBSET (Keys \X Data) : content # NoFile

VARIABLES
  first_level_node,     \* the first node of each bucket
  node_pool,
  cur_index, node_num,
  hash_func,            \* "given" or "simple"
  clear_nodes,          \* the buckets to clear, a sequence, or NoFile if there is no list
  file,                 \* the file of the last save, NoTable before the first one
  out,                  \* the last call, and what it gave
  fault                 \* "none", or why the program went wrong

table == <<first_level_node, node_pool, cur_index, node_num, hash_func, clear_nodes>>
vars == <<table, file, out, fault>>

Call(op, k, d) == [op |-> op, key |-> k, data |-> d]
Simple(op) == Call(op, NoKey, NoData)
Answer(call, code, d) == [call |-> call, code |-> code, data |-> d]
Node(k, d, n) == [key |-> k, data |-> d, next |-> n]
EmptyNode == Node(NoKey, NoData, BadNode)
NoTable == [num |-> -1]

Hash(k) == IF hash_func = "given" THEN HashGiven[k] ELSE HashSimple[k]

Init ==
  /\ first_level_node = [b \in Buckets |-> EmptyNode]
  /\ node_pool = [i \in Buckets |-> EmptyNode]
  /\ cur_index = 0 /\ node_num = 0
  /\ hash_func = "given"
  /\ clear_nodes = IF NeedClear THEN << >> ELSE NoFile
  /\ file = NoTable
  /\ out = Answer(Simple("none"), "ok", NoData) /\ fault = "none"

Fail(call) == out' = Answer(call, "err", NoData) /\ UNCHANGED <<table, file, fault>>
Crash(f) == fault' = f /\ UNCHANGED <<table, file, out>>

-----------------------------------------------------------------------------
(* The walk along a bucket.  A cell is where a node is kept: the bucket     *)
(* itself, or a place in the pool.                                          *)

HeadCell(b) == [pool |-> FALSE, at |-> b]
PoolCell(i) == [pool |-> TRUE, at |-> i]
NodeAt(c) == IF c.pool THEN node_pool[c.at] ELSE first_level_node[c.at]

\* The places in the pool from i on along the links, which lead to older nodes.
Chain(i) ==
  LET from[j \in BadNode .. i] ==
        IF j = BadNode \/ cur_index <= j THEN << >>
        ELSE <<PoolCell(j)>> \o from[node_pool[j].next]
  IN  from[i]

Cells(b) == <<HeadCell(b)>> \o Chain(first_level_node[b].next)

\* st_dict_seek looks at a bucket only if its first node is in use.
Sought(k) ==
  IF first_level_node[Hash(k)].key = NoKey THEN << >> ELSE Cells(Hash(k))

Holding(k, cells) == {i \in DOMAIN cells : NodeAt(cells[i]).key = k}

\* Where the walk meets a node with key k first, 0 if it never does.
Hit(k, cells) == SelectInSeq(cells, LAMBDA c : NodeAt(c).key = k)
ReadsLost(k, cells) ==
  LET lost == Hit(Lost, cells) IN lost # 0 /\ Hit(k, cells) \notin 1 .. lost

-----------------------------------------------------------------------------
(* Operations.                                                              *)

st_dict_seek(k) ==
  IF ReadsLost(k, Sought(k)) THEN Crash("lost")
  ELSE IF Hit(k, Sought(k)) = 0 THEN Fail(Call("seek", k, NoData))
  ELSE /\ out' = Answer(Call("seek", k, NoData), "ok",
                        NodeAt(Sought(k)[Hit(k, Sought(k))]).data)
       /\ UNCHANGED <<table, file, fault>>

\* The pool of st_dict_add_in with room for a node: as it is, or grown; what was
\* lost before stays lost.
Room ==
  IF cur_index < Cardinality(DOMAIN node_pool) THEN node_pool
  ELSE [i \in 0 .. (cur_index + ReallocNum - 1) |->
          IF i < cur_index THEN node_pool[i] ELSE EmptyNode]

\* The pool pointer is null after a failed reallocation and the nodes are gone.
LosePool(call) ==
  /\ MemoryMayFail /\ cur_index = Cardinality(DOMAIN node_pool)
  /\ node_pool' = [i \in DOMAIN node_pool |-> [EmptyNode EXCEPT !.key = Lost]]
  /\ out' = Answer(call, "err", NoData)
  /\ UNCHANGED <<first_level_node, cur_index, node_num, hash_func, clear_nodes, file, fault>>

ListFull == clear_nodes # NoFile /\ Len(clear_nodes) = HashNum

InsertFirstKeepsLink(b, k, d) ==
  /\ first_level_node' = [first_level_node EXCEPT ![b].key = k, ![b].data = d]
  /\ clear_nodes' = IF clear_nodes = NoFile THEN NoFile ELSE Append(clear_nodes, b)
  /\ UNCHANGED <<node_pool, cur_index>>

InsertFirstUnlisted(b, k, d) ==
  /\ first_level_node' = [first_level_node EXCEPT ![b] = Node(k, d, BadNode)]
  /\ UNCHANGED <<node_pool, cur_index, clear_nodes>>

\* The first node of an empty bucket: the links of a chain cleared before are cut.
InsertFirst(b, k, d) ==
  /\ first_level_node' = [first_level_node EXCEPT ![b] = Node(k, d, BadNode)]
  /\ clear_nodes' = IF clear_nodes = NoFile THEN NoFile ELSE Append(clear_nodes, b)
  /\ UNCHANGED <<node_pool, cur_index>>

InsertChainedUnlinked(b, k, d) ==
  /\ node_pool' = [Room EXCEPT ![cur_index] = Node(k, d, first_level_node[b].next)]
  /\ cur_index' = cur_index + 1
  /\ UNCHANGED <<first_level_node, clear_nodes>>

InsertChained(b, k, d) ==
  /\ node_pool' = [Room EXCEPT ![cur_index] = Node(k, d, first_level_node[b].next)]
  /\ first_level_node' = [first_level_node EXCEPT ![b].next = cur_index]
  /\ cur_index' = cur_index + 1
  /\ UNCHANGED clear_nodes

\* The insertion that st_dict_add, st_dict_add_no_seek and st_dict_update share.
Insert(op, k, d) ==
  LET b == Hash(k)
      empty == first_level_node[b].key = NoKey
  IN  \/ empty /\ ListFull /\ Crash("overrun")
      \/ ~empty /\ LosePool(Call(op, k, d))
      \/ /\ \/ empty /\ ~ListFull /\ InsertFirst(b, k, d)
            \/ ~empty /\ cur_index < MaxNodes /\ InsertChained(b, k, d)
         /\ node_num' = node_num + 1
         /\ out' = Answer(Call(op, k, d), "ok", NoData)
         /\ UNCHANGED <<hash_func, file, fault>>

st_dict_add(k, d) ==
  IF ReadsLost(k, Sought(k)) THEN Crash("lost")
  ELSE IF Hit(k, Sought(k)) # 0 THEN Fail(Call("add", k, d))
  ELSE Insert("add", k, d)

\* The caller has looked for k before: it is not in the dictionary.
st_dict_add_no_seek(k, d) ==
  ~ReadsLost(k, Sought(k)) /\ Hit(k, Sought(k)) = 0 /\ Insert("add", k, d)

\* st_dict_update walks the bucket whether or not its first node is in use.
st_dict_update(k, d) ==
  LET cells == Cells(Hash(k))
      c == cells[Hit(k, cells)]
  IN  IF ReadsLost(k, cells) THEN Crash("lost")
      ELSE IF Hit(k, cells) = 0 THEN Insert("update", k, d)
      ELSE \/ CallbackMayFail /\ Fail(Call("update", k, d))
           \/ /\ IF c.pool
                 THEN /\ node_pool' = [node_pool EXCEPT ![c.at].data = d]
                      /\ UNCHANGED first_level_node
                 ELSE /\ first_level_node' = [first_level_node EXCEPT ![c.at].data = d]
                      /\ UNCHANGED node_pool
              /\ out' = Answer(Call("update", k, d), "ok", NoData)
              /\ UNCHANGED <<cur_index, node_num, hash_func, clear_nodes, file, fault>>

\* What st_dict_traverse and st_dict_clear assert of a cell before its callback.
Unsound(c) ==
  \/ NodeAt(c).key = NoKey
  \/ c.pool /\ NodeAt(c).key \in HalfZero

\* The cells that st_dict_traverse visits, in order.
Visit ==
  FlattenSeq([j \in 1 .. HashNum |->
    IF first_level_node[j - 1].key = NoKey THEN << >> ELSE Cells(j - 1)])

\* The first cell of a walk at which it goes wrong, and how.
Stops(cells, i) == NodeAt(cells[i]).key = Lost \/ Unsound(cells[i])
Why(cells, i) ==
  IF NodeAt(cells[i]).key = Lost THEN "lost"
  ELSE IF cells[i].pool THEN "assert chained" ELSE "assert first"

\* A callback that refuses only ends the walk, which changes nothing.
st_dict_traverse ==
  LET bad == {i \in DOMAIN Visit : Stops(Visit, i)} IN
  \/ CallbackMayFail /\ Fail(Simple("traverse"))
  \/ /\ bad = {}
     /\ out' = Answer(Simple("traverse"), "ok", NoData)
     /\ UNCHANGED <<table, file, fault>>
  \/ \E i \in bad : (\A j \in bad : i <= j) /\ Crash(Why(Visit, i))

ZeroCountsBuckets(cells, n) ==
  LET done == {cells[i] : i \in 1 .. n} IN
  /\ first_level_node' = [b \in Buckets |->
       IF HeadCell(b) \in done THEN [EmptyNode EXCEPT !.next = first_level_node[b].next]
       ELSE first_level_node[b]]
  /\ node_pool' = [i \in DOMAIN node_pool |->
       IF PoolCell(i) \in done THEN EmptyNode ELSE node_pool[i]]
  /\ node_num' = node_num - Cardinality({c \in done : ~c.pool})
  /\ UNCHANGED <<cur_index, hash_func, file>>

ZeroCountsTwice(cells, n) ==
  LET done == {cells[i] : i \in 1 .. n} IN
  /\ first_level_node' = [b \in Buckets |->
       IF HeadCell(b) \in done THEN [EmptyNode EXCEPT !.next = first_level_node[b].next]
       ELSE first_level_node[b]]
  /\ node_pool' = [i \in DOMAIN node_pool |->
       IF PoolCell(i) \in done THEN EmptyNode ELSE node_pool[i]]
  /\ node_num' = node_num - n - Cardinality({c \in done : c.pool})
  /\ UNCHANGED <<cur_index, hash_func, file>>

\* st_dict_clear after the first n of the cells: the first node of a bucket keeps
\* its link, and what is chained to it does not.
Zero(cells, n) ==
  LET done == {cells[i] : i \in 1 .. n} IN
  /\ first_level_node' = [b \in Buckets |->
       IF HeadCell(b) \in done THEN [EmptyNode EXCEPT !.next = first_level_node[b].next]
       ELSE first_level_node[b]]
  /\ node_pool' = [i \in DOMAIN node_pool |->
       IF PoolCell(i) \in done THEN EmptyNode ELSE node_pool[i]]
  /\ node_num' = node_num - n
  /\ UNCHANGED <<cur_index, hash_func, file>>

\* The n-th callback may refuse; a bucket met twice is empty the second time.
st_dict_clear ==
  IF clear_nodes = NoFile THEN Fail(Simple("clear"))
  ELSE LET cells == FlattenSeq([j \in DOMAIN clear_nodes |-> Cells(clear_nodes[j])])
           Wrong(i) == Stops(cells, i) \/ \E j \in 1 .. (i - 1) : cells[j] = cells[i]
       IN  \E n \in 0 .. Len(cells) :
             /\ \A i \in 1 .. n : ~Wrong(i)
             /\ Zero(cells, n)
             /\ \/ /\ n = Len(cells)
                   /\ clear_nodes' = << >>
                   /\ out' = Answer(Simple("clear"), "ok", NoData) /\ UNCHANGED fault
                \/ /\ n < Len(cells) /\ ~Wrong(n + 1) /\ CallbackMayFail
                   /\ out' = Answer(Simple("clear"), "err", NoData)
                   /\ UNCHANGED <<clear_nodes, fault>>
                \/ /\ n < Len(cells) /\ Wrong(n + 1)
                   /\ fault' = Why(cells, n + 1)
                   /\ UNCHANGED <<clear_nodes, out>>

\* The pool is written in full: a fault while the pointer to it is null.
st_dict_save ==
  IF \A i \in DOMAIN node_pool : node_pool[i].key = Lost THEN Crash("lost")
  ELSE /\ file' = [head |-> first_level_node, pool |-> node_pool,
                   cur |-> cur_index, num |-> node_num]
       /\ out' = Answer(Simple("save"), "ok", NoData)
       /\ UNCHANGED <<table, fault>>

\* The caller goes on with the dictionary it loads, which hashes the simple way and
\* has no list of buckets to clear.
st_dict_load_from_bin ==
  /\ file # NoTable
  /\ \/ /\ first_level_node' = file.head /\ node_pool' = file.pool
        /\ cur_index' = file.cur /\ node_num' = file.num
        /\ hash_func' = "simple" /\ clear_nodes' = NoFile
        /\ out' = Answer(Simple("load"), "ok", NoData)
        /\ UNCHANGED <<file, fault>>
     \/ MemoryMayFail /\ Fail(Simple("load"))

Next ==
  /\ fault = "none"
  /\ \/ \E k \in Keys :
          \/ st_dict_seek(k)
          \/ \E d \in Data : st_dict_add(k, d) \/ st_dict_add_no_seek(k, d) \/ st_dict_update(k, d)
     \/ st_dict_traverse
     \/ st_dict_clear
     \/ st_dict_save
     \/ st_dict_load_from_bin

Spec == Init /\ [][Next]_vars

-----------------------------------------------------------------------------
(* Properties.                                                              *)

\* The keys a seek finds, each with its data.
Content ==
  UNION {LET cells == Sought(k)
             i == Hit(k, cells)
         IN  IF i = 0 THEN {} ELSE {<<k, NodeAt(cells[i]).data>>} : k \in Keys}

\* The nodes counted are the keys found: none is counted that a seek misses, none is
\* stored twice.
CountExact == node_num = Cardinality(Content)

\* A traversal visits every key once, however buckets were emptied and filled again.
TraversalComplete ==
  /\ IsInjective(Visit)
  /\ {<<NodeAt(c).key, NodeAt(c).data>> : c \in ToSet(Visit)} = Content

\* The list to clear names the buckets in use, each once: a clear misses none and
\* never meets an empty bucket.
ClearListExact ==
  clear_nodes # NoFile =>
    /\ IsInjective(clear_nodes)
    /\ ToSet(clear_nodes) = {b \in Buckets : first_level_node[b].key # NoKey}

\* The nodes in use in the file.
FileContent ==
  IF file = NoTable THEN NoFile
  ELSE {<<n.key, n.data>> :
          n \in {m \in Range(file.head) \cup Range(file.pool) : m.key # NoKey}}

\* The table behaves as a map, through chains, growth of the pool, clears, and a
\* save and load in between.
Map == INSTANCE Dictionary
         WITH map <- Content, saved <- FileContent, NoMap <- NoFile,
              MayFail <- MemoryMayFail \/ CallbackMayFail
ImplementsMap == Map!Spec

\* Whatever fails, a key that is found is counted, and found in one place: the key
\* a refused clear leaves behind an emptied bucket is out of reach of the seek.
FoundOnceAndCounted ==
  /\ Cardinality(Content) <= node_num
  /\ \A k \in Keys : Cardinality(Holding(k, Cells(Hash(k)))) <= 1

\* st_dict_traverse and st_dict_clear assert of a chained node that neither of its
\* signatures is zero.
ChainedAssertHolds == fault # "assert chained"

\* st_dict_clear asserts of the first node of a bucket it clears that it is in use.
FirstAssertHolds == fault # "assert first"
=============================================================================
