----------------------------- MODULE DictProofs -----------------------------
(***************************************************************************)
(* Proofs about Dict, for any keys, hash function and number of buckets.   *)
(* First, for any sequence of calls of which none fails half way: what a   *)
(* bucket holds is what hashes to it, in the order it was added.  Then,    *)
(* whatever fails: what is found is counted, and found once.               *)
(***************************************************************************)
EXTENDS Dict, SequenceTheorems, FunctionTheorems, FiniteSetTheorems, WellFoundedInduction, TLAPS

\* What these proofs are about: reallocations succeed, a dictionary with a list to clear
\* has no callback that refuses and no key of which one signature is zero, and the
\* dictionary was created with the hash function a load goes on with.
Sound ==
  /\ MemoryMayFail = FALSE
  /\ NeedClear => CallbackMayFail = FALSE /\ HalfZero = {}
  /\ HashSimple = HashGiven

-----------------------------------------------------------------------------
(* The inductive invariant, of a table: that in memory, and that in the     *)
(* file.                                                                     *)

Nodes == [key : Keys \cup {NoKey}, data : Data \cup {NoData}, next : Int]

\* The nodes of the pool that belong to a bucket.
Mine(pool, b) == {i \in DOMAIN pool : pool[i].key # NoKey /\ HashGiven[pool[i].key] = b}
Older(places, i) == {m \in places : m < i}

\* x leads to the newest of some nodes, or nowhere when there is none.
Newest(places, x) ==
  \/ x = BadNode /\ places = {}
  \/ x \in places /\ \A m \in places : m <= x

Shape(head, pool, cur) ==
  /\ cur \in Nat /\ \E m \in Nat : cur <= m /\ pool \in [0 .. m - 1 -> Nodes]
  /\ 0 \in DOMAIN pool /\ head \in [Buckets -> Nodes]
  /\ \A i \in DOMAIN pool : pool[i].key = NoKey \/ cur <= i => pool[i] = EmptyNode
  /\ \A i \in DOMAIN pool : pool[i].key # NoKey => pool[i].data \in Data
  /\ \A b \in Buckets : head[b].key # NoKey => head[b].data \in Data

\* A bucket in use holds a node that belongs there and leads to the newest of the others;
\* one that was emptied leads nowhere, or to a node that was emptied with it.
HeadsInPlace(head, pool, cur) ==
  \A b \in Buckets :
    /\ head[b].key # NoKey =>
         /\ HashGiven[head[b].key] = b /\ Newest(Mine(pool, b), head[b].next)
         /\ \A i \in Mine(pool, b) : pool[i].key # head[b].key
    /\ head[b].key = NoKey =>
         /\ Mine(pool, b) = {}
         /\ head[b].next # BadNode => head[b].next \in 0 .. cur - 1 /\ pool[head[b].next] = EmptyNode

LinksInPlace(pool) ==
  \A i \in DOMAIN pool : pool[i].key # NoKey =>
    Newest(Older(Mine(pool, HashGiven[pool[i].key]), i), pool[i].next)

PooledOnce(pool) ==
  \A i, j \in DOMAIN pool : pool[i].key # NoKey /\ pool[i].key = pool[j].key => i = j

Pair(n) == <<n.key, n.data>>
Pairs(head, pool) ==
  {Pair(head[b]) : b \in {x \in Buckets : head[x].key # NoKey}}
    \cup {Pair(pool[i]) : i \in {x \in DOMAIN pool : pool[x].key # NoKey}}

Counted(head, pool, num) == IsFiniteSet(Pairs(head, pool)) /\ num = Cardinality(Pairs(head, pool))

TableOK(head, pool, cur, num) ==
  /\ Shape(head, pool, cur) /\ HeadsInPlace(head, pool, cur) /\ LinksInPlace(pool) /\ PooledOnce(pool)
  /\ Counted(head, pool, num)

InUse(head) == {b \in Buckets : head[b].key # NoKey}

ListOK ==
  \/ clear_nodes = NoFile
  \/ /\ NeedClear /\ clear_nodes \in Seq(Buckets)
     /\ IsInjective(clear_nodes) /\ ToSet(clear_nodes) = InUse(first_level_node)

\* No assertion fails, no lost node is read, the list to clear is not overrun.
FaultFree == HalfZero = {} => fault = "none"

DictInv ==
  /\ TableOK(first_level_node, node_pool, cur_index, node_num)
  /\ ListOK /\ FaultFree
  /\ file = NoTable \/ TableOK(file.head, file.pool, file.cur, file.num)

-----------------------------------------------------------------------------
(* Walks: sequences that meet nothing twice.                                *)

Walks(s, S) == s \in Seq(S) /\ IsInjective(s)
Apart(s, t) == ToSet(s) \cap ToSet(t) = {}

LEMMA NoWalk == ASSUME NEW S PROVE Walks(<< >>, S) /\ ToSet(<< >>) = {}
BY DEF Walks, IsInjective, ToSet

LEMMA OneStep ==
  ASSUME NEW S, NEW x \in S
  PROVE  Walks(<<x>>, S) /\ ToSet(<<x>>) = {x}
<1>1. <<x>> \in Seq(S) /\ DOMAIN <<x>> = {1} /\ <<x>>[1] = x
  OBVIOUS
<1> QED
  BY <1>1 DEF Walks, IsInjective, ToSet

LEMMA JoinedWalk ==
  ASSUME NEW S, NEW s, NEW t, Walks(s, S), Walks(t, S), Apart(s, t)
  PROVE  /\ Walks(s \o t, S)
         /\ \A y : y \in ToSet(s \o t) <=> y \in ToSet(s) \/ y \in ToSet(t)
<1> DEFINE w == s \o t
<1>1. /\ s \in Seq(S) /\ t \in Seq(S) /\ Len(s) \in Nat /\ Len(t) \in Nat
      /\ DOMAIN s = 1 .. Len(s) /\ DOMAIN t = 1 .. Len(t)
  BY DEF Walks
<1>2. /\ w \in Seq(S) /\ Len(w) = Len(s) + Len(t) /\ DOMAIN w = 1 .. Len(s) + Len(t)
      /\ \A i \in 1 .. Len(s) + Len(t) : w[i] = IF i <= Len(s) THEN s[i] ELSE t[i - Len(s)]
  BY <1>1
<1> HIDE DEF w
<1>3. \A i \in DOMAIN w : \/ i \in DOMAIN s /\ w[i] = s[i]
                          \/ i > Len(s) /\ i - Len(s) \in DOMAIN t /\ w[i] = t[i - Len(s)]
  <2>1. ASSUME NEW i \in DOMAIN w
        PROVE  \/ i \in DOMAIN s /\ w[i] = s[i]
               \/ i > Len(s) /\ i - Len(s) \in DOMAIN t /\ w[i] = t[i - Len(s)]
    <3>1. CASE i <= Len(s)
      BY <1>1, <1>2, <3>1
    <3>2. CASE ~(i <= Len(s))
      <4>1. i - Len(s) \in 1 .. Len(t) /\ i > Len(s)
        BY <1>1, <1>2, <3>2
      <4> QED
        BY <1>1, <1>2, <3>2, <4>1
    <3> QED
      BY <3>1, <3>2
  <2> QED
    BY <2>1
<1>4. \A i \in DOMAIN s : i \in DOMAIN w /\ w[i] = s[i]
  BY <1>1, <1>2
<1>5. \A i \in DOMAIN t : i + Len(s) \in DOMAIN w /\ w[i + Len(s)] = t[i]
  <2>1. ASSUME NEW i \in DOMAIN t PROVE i + Len(s) \in DOMAIN w /\ w[i + Len(s)] = t[i]
    <3>1. i + Len(s) \in 1 .. Len(s) + Len(t) /\ ~(i + Len(s) <= Len(s)) /\ (i + Len(s)) - Len(s) = i
      BY <1>1
    <3> QED
      BY <1>2, <3>1
  <2> QED
    BY <2>1
<1>6. ASSUME NEW i \in DOMAIN w, NEW j \in DOMAIN w, w[i] = w[j] PROVE i = j
  <2>1. i \in Nat /\ j \in Nat
    BY <1>1, <1>2
  <2>2. \A m \in DOMAIN s, n \in DOMAIN t : s[m] # t[n]
    BY DEF ToSet, Apart
  <2>3. CASE i \in DOMAIN s /\ w[i] = s[i] /\ j \in DOMAIN s /\ w[j] = s[j]
    BY <1>6, <2>3 DEF Walks, IsInjective
  <2>4. CASE /\ i > Len(s) /\ i - Len(s) \in DOMAIN t /\ w[i] = t[i - Len(s)]
             /\ j > Len(s) /\ j - Len(s) \in DOMAIN t /\ w[j] = t[j - Len(s)]
    <3>1. i - Len(s) = j - Len(s)
      BY <1>6, <2>4 DEF Walks, IsInjective
    <3> QED
      BY <1>1, <2>1, <3>1
  <2> QED
    BY <1>3, <1>6, <2>2, <2>3, <2>4
<1>7. \A y : y \in ToSet(w) <=> y \in ToSet(s) \/ y \in ToSet(t)
  BY <1>3, <1>4, <1>5 DEF ToSet
<1> QED
  BY <1>2, <1>6, <1>7 DEF w, Walks, IsInjective

\* The least of some naturals.
LEMMA LeastOf ==
  ASSUME NEW T, T \subseteq Nat, T # {}
  PROVE  Min(T) \in T /\ \A n \in T : Min(T) <= n
<1>1. PICK x \in T : \A y \in T : <<y, x>> \notin OpToRel(<, Nat)
  BY NatLessThanWellFounded, WFMin, Zenon
<1>2. \A y \in T : ~(y < x)
  BY <1>1 DEF OpToRel
<1>3. \A y \in T : x <= y
  BY <1>2
<1> QED
  BY <1>3 DEF Min

\* What the recursion of FlattenSeq makes of the first m of some sequences.
Flattens(f, seqs, m) == f = [i \in 1 .. m |-> IF i = 1 THEN seqs[i] ELSE f[i - 1] \o seqs[i]]

\* Laying walks end to end: there is such a function ...
LEMMA FlatExists ==
  ASSUME NEW seqs, NEW n \in Nat
  PROVE  \A m \in 1 .. n : \E f : Flattens(f, seqs, m)
<1> DEFINE Exists(m) == \E f : Flattens(f, seqs, m)
           T == {m \in 1 .. n : ~Exists(m)}
<1> HIDE DEF Exists
<1>1. SUFFICES ASSUME T # {} PROVE FALSE
  BY DEF Exists
<1> DEFINE x == Min(T)
<1>2. x \in T /\ \A m \in T : x <= m
  <2>1. T \subseteq Nat
    OBVIOUS
  <2> HIDE DEF T
  <2> QED
    BY <1>1, <2>1, LeastOf
<1> HIDE DEF x
<1>3. CASE x = 1
  <2> DEFINE f == [i \in 1 .. 1 |-> seqs[i]]
  <2>1. f = [i \in 1 .. 1 |-> IF i = 1 THEN seqs[i] ELSE f[i - 1] \o seqs[i]]
    OBVIOUS
  <2> HIDE DEF f
  <2>2. Exists(1)
    BY <2>1 DEF Exists, Flattens
  <2> QED
    BY <1>2, <1>3, <2>2
<1>4. CASE x # 1
  <2>1. x - 1 \in 1 .. n /\ x \in Nat /\ x > 1 /\ ~(x <= x - 1)
    BY <1>2, <1>4
  <2>2. Exists(x - 1)
    BY <1>2, <2>1
  <2>3. PICK g : g = [i \in 1 .. x - 1 |-> IF i = 1 THEN seqs[i] ELSE g[i - 1] \o seqs[i]]
    BY <2>2 DEF Exists, Flattens
  <2>4. \A i \in 1 .. x - 1 : g[i] = IF i = 1 THEN seqs[i] ELSE g[i - 1] \o seqs[i]
    BY <2>3
  <2> DEFINE f == [i \in 1 .. x |-> IF i < x THEN g[i] ELSE g[x - 1] \o seqs[x]]
  <2>5. ASSUME NEW i \in 1 .. x PROVE f[i] = IF i = 1 THEN seqs[i] ELSE f[i - 1] \o seqs[i]
    <3>1. CASE i = x
      BY <2>1, <3>1
    <3>2. CASE i # x
      <4>1. i \in 1 .. x - 1 /\ i < x /\ (i # 1 => i - 1 \in 1 .. x /\ i - 1 < x)
        BY <2>1, <3>2
      <4> QED
        BY <2>4, <4>1
    <3> QED
      BY <3>1, <3>2
  <2>6. f = [i \in 1 .. x |-> f[i]]
    OBVIOUS
  <2> HIDE DEF f
  <2>7. f = [i \in 1 .. x |-> IF i = 1 THEN seqs[i] ELSE f[i - 1] \o seqs[i]]
    BY <2>5, <2>6
  <2>8. Exists(x)
    BY <2>7 DEF Exists, Flattens
  <2> QED
    BY <1>2, <2>8
<1> QED
  BY <1>3, <1>4

\* ... and gives a walk when no two of them meet.
LEMMA FlatWalk ==
  ASSUME NEW S, NEW n \in Nat, NEW seqs \in [1 .. n -> Seq(S)],
         \A i \in 1 .. n : IsInjective(seqs[i]),
         \A i, j \in 1 .. n : i # j => Apart(seqs[i], seqs[j])
  PROVE  /\ Walks(FlattenSeq(seqs), S)
         /\ \A y : y \in ToSet(FlattenSeq(seqs)) <=> \E i \in 1 .. n : y \in ToSet(seqs[i])
<1>1. Len(seqs) = n /\ DOMAIN seqs = 1 .. n
  OBVIOUS
<1>2. CASE n = 0
  <2>1. FlattenSeq(seqs) = seqs
    BY <1>1, <1>2 DEF FlattenSeq
  <2>2. seqs = << >>
    BY <1>2
  <2> QED
    BY <1>2, <2>1, <2>2, NoWalk
<1>3. CASE n # 0
  <2> DEFINE flatten == CHOOSE f : Flattens(f, seqs, n)
  <2>1. n \in 1 .. n
    BY <1>3
  <2>2. flatten = [i \in 1 .. n |-> IF i = 1 THEN seqs[i] ELSE flatten[i - 1] \o seqs[i]]
    <3>1. \E f : Flattens(f, seqs, n)
      BY <2>1, FlatExists
    <3>2. Flattens(flatten, seqs, n)
      BY <3>1, Zenon
    <3> QED
      BY <3>2 DEF Flattens
  <2>3. FlattenSeq(seqs) = flatten[n]
    BY <1>1, <1>3 DEF FlattenSeq, Flattens
  <2> HIDE DEF flatten
  <2> DEFINE Good(m) == /\ Walks(flatten[m], S)
                        /\ \A y : y \in ToSet(flatten[m]) <=> \E i \in 1 .. m : y \in ToSet(seqs[i])
             T == {m \in 1 .. n : ~Good(m)}
  <2>4. T = {}
    <3>1. SUFFICES ASSUME T # {} PROVE FALSE
      OBVIOUS
    <3> DEFINE x == Min(T)
    <3>2. x \in T /\ \A m \in T : x <= m
      <4>1. T \subseteq Nat
        OBVIOUS
      <4> HIDE DEF T
      <4> QED
        BY <3>1, <4>1, LeastOf
    <3> HIDE DEF x
    <3>3. Walks(seqs[x], S)
      BY <3>2 DEF Walks
    <3>4. CASE x = 1
      <4>1. flatten[1] = seqs[1]
        BY <2>2, <3>2, <3>4
      <4>2. \A i \in 1 .. 1 : i = 1
        OBVIOUS
      <4> QED
        BY <3>2, <3>3, <3>4, <4>1, <4>2
    <3>5. CASE x # 1
      <4>1. x - 1 \in 1 .. n /\ x \in Nat /\ x > 1 /\ ~(x <= x - 1) /\ x \in 1 .. n
        BY <3>2, <3>5
      <4>2. Good(x - 1)
        BY <3>2, <4>1
      <4>3. flatten[x] = flatten[x - 1] \o seqs[x]
        BY <2>2, <3>5, <4>1
      <4>4. \A i \in 1 .. x - 1 : i \in 1 .. n /\ i # x
        BY <4>1
      <4>5. Walks(flatten[x - 1], S) /\ Apart(flatten[x - 1], seqs[x])
        BY <4>1, <4>2, <4>4 DEF Apart
      <4>6. /\ Walks(flatten[x - 1] \o seqs[x], S)
            /\ \A y : y \in ToSet(flatten[x - 1] \o seqs[x]) <=>
                       y \in ToSet(flatten[x - 1]) \/ y \in ToSet(seqs[x])
        <5> DEFINE s == flatten[x - 1]
                   t == seqs[x]
        <5>1. Walks(s, S) /\ Walks(t, S) /\ Apart(s, t)
          BY <3>3, <4>5
        <5> HIDE DEF s, t
        <5>2. Walks(s \o t, S)
          BY <5>1, JoinedWalk
        <5>3. \A y : y \in ToSet(s \o t) <=> y \in ToSet(s) \/ y \in ToSet(t)
          BY <5>1, JoinedWalk
        <5> QED
          BY <5>2, <5>3 DEF s, t
      <4>7. \A i \in 1 .. x : i = x \/ i \in 1 .. x - 1
        BY <4>1
      <4>8. x \in 1 .. x /\ \A i \in 1 .. x - 1 : i \in 1 .. x
        BY <4>1
      <4>9. \A y : y \in ToSet(flatten[x]) <=> \E i \in 1 .. x : y \in ToSet(seqs[i])
        BY <4>2, <4>3, <4>6, <4>7, <4>8
      <4> QED
        BY <3>2, <4>3, <4>6, <4>9
    <3> QED
      BY <3>4, <3>5
  <2> QED
    BY <2>1, <2>3, <2>4
<1> QED
  BY <1>2, <1>3
-----------------------------------------------------------------------------
(* The chain of a bucket.                                                   *)

Places == [pool : BOOLEAN, at : Int]

LEMMA CellsApart ==
  /\ \A b, i \in Int : HeadCell(b) \in Places /\ PoolCell(i) \in Places /\ HeadCell(b) # PoolCell(i)
  /\ \A i, j \in Int : PoolCell(i) = PoolCell(j) => i = j
  /\ \A b, c \in Int : HeadCell(b) = HeadCell(c) => b = c
BY DEF HeadCell, PoolCell, Places

\* What the pool of a table is like; a link leads to an older node, or nowhere.
LEMMA PoolLike ==
  ASSUME NEW head, NEW pool, NEW cur, NEW num, TableOK(head, pool, cur, num)
  PROVE  /\ cur \in Nat /\ DOMAIN pool \subseteq Nat /\ 0 .. cur - 1 \subseteq DOMAIN pool
         /\ \A i \in DOMAIN pool : pool[i] \in Nodes /\ pool[i].next \in BadNode .. i - 1
         /\ \A i \in DOMAIN pool : pool[i].key # NoKey => i < cur
         /\ \A b \in Buckets : head[b] \in Nodes
<1>1. PICK m \in Nat : cur <= m /\ pool \in [0 .. m - 1 -> Nodes] /\ cur \in Nat
  BY DEF TableOK, Shape
<1>2. DOMAIN pool = 0 .. m - 1 /\ \A i \in DOMAIN pool : pool[i] \in Nodes
  BY <1>1
<1>3. ASSUME NEW i \in DOMAIN pool PROVE pool[i].next \in BadNode .. i - 1
  <2>1. CASE pool[i].key = NoKey
    <3>1. pool[i] = EmptyNode
      BY <2>1 DEF TableOK, Shape
    <3> QED
      BY <1>2, <3>1 DEF EmptyNode, Node, BadNode
  <2>2. CASE pool[i].key # NoKey
    <3>1. Newest(Older(Mine(pool, HashGiven[pool[i].key]), i), pool[i].next)
      BY <2>2 DEF TableOK, LinksInPlace
    <3>2. CASE pool[i].next = BadNode
      BY <1>2, <3>2 DEF BadNode
    <3>3. CASE pool[i].next \in DOMAIN pool /\ pool[i].next < i
      BY <1>2, <3>3 DEF BadNode
    <3> QED
      BY <3>1, <3>2, <3>3 DEF Newest, Older, Mine
  <2> QED
    BY <2>1, <2>2
<1>4. ASSUME NEW i \in DOMAIN pool, pool[i].key # NoKey PROVE i < cur
  <2>1. cur <= i => pool[i] = EmptyNode
    BY DEF TableOK, Shape
  <2> QED
    BY <1>1, <1>2, <1>4, <2>1 DEF EmptyNode, Node
<1>5. \A b \in Buckets : head[b] \in Nodes
  BY DEF TableOK, Shape
<1>6. DOMAIN pool \subseteq Nat /\ 0 .. cur - 1 \subseteq DOMAIN pool
  BY <1>1, <1>2
<1> QED
  BY <1>1, <1>2, <1>3, <1>4, <1>5, <1>6

\* What the recursion of Chain makes of the places up to i.
Follows(f, i) ==
  f = [j \in BadNode .. i |->
         IF j = BadNode \/ cur_index <= j THEN << >> ELSE <<PoolCell(j)>> \o f[node_pool[j].next]]

TableNow == TableOK(first_level_node, node_pool, cur_index, node_num)

\* The links of the pool lead from a node to an older one, or nowhere.
LinksDown == cur_index \in Nat /\ \A j \in 0 .. cur_index - 1 : node_pool[j].next \in BadNode .. j - 1

LEMMA LinksOfTable == TableNow => LinksDown
BY PoolLike DEF TableNow, LinksDown

LEMMA ChainExists ==
  ASSUME LinksDown, NEW n \in Int, BadNode <= n, n < cur_index
  PROVE  \E f : Follows(f, n)
<1> DEFINE Exists(m) == \E f : Follows(f, m - 1)
           T == {m \in 0 .. n + 1 : ~Exists(m)}
<1> HIDE DEF Exists
<1>0. /\ cur_index \in Nat /\ \A j \in 0 .. cur_index - 1 : node_pool[j].next \in BadNode .. j - 1
  BY DEF LinksDown
<1>1. SUFFICES T = {}
  <2>1. n + 1 \in 0 .. n + 1 /\ (n + 1) - 1 = n
    BY DEF BadNode
  <2> QED
    BY <2>1 DEF Exists
<1>2. SUFFICES ASSUME T # {} PROVE FALSE
  OBVIOUS
<1> DEFINE x == Min(T)
<1>3. x \in T /\ \A m \in T : x <= m
  <2>1. T \subseteq Nat
    OBVIOUS
  <2> HIDE DEF T
  <2> QED
    BY <1>2, <2>1, LeastOf
<1> HIDE DEF x
<1>4. CASE x = 0
  <2> DEFINE f == [j \in BadNode .. 0 - 1 |-> << >>]
  <2>1. \A j \in BadNode .. 0 - 1 : j = BadNode
    BY DEF BadNode
  <2>2. f = [j \in BadNode .. 0 - 1 |->
           IF j = BadNode \/ cur_index <= j THEN << >> ELSE <<PoolCell(j)>> \o f[node_pool[j].next]]
    BY <2>1
  <2> HIDE DEF f
  <2>3. Follows(f, 0 - 1)
    BY <2>2 DEF Follows
  <2>4. Exists(0)
    BY <2>3 DEF Exists
  <2> QED
    BY <1>3, <1>4, <2>4
<1>5. CASE x # 0
  <2>1. x - 1 \in 0 .. n + 1 /\ x \in Nat /\ x > 0 /\ ~(x <= x - 1) /\ x - 1 \in 0 .. cur_index - 1
    BY <1>0, <1>3, <1>5 DEF BadNode
  <2>2. Exists(x - 1)
    BY <1>3, <2>1
  <2>3. PICK g : Follows(g, x - 1 - 1)
    BY <2>2 DEF Exists
  <2> DEFINE v == x - 1
             E(h, j) == IF j = BadNode \/ cur_index <= j THEN << >>
                        ELSE <<PoolCell(j)>> \o h[node_pool[j].next]
  <2>4. g = [j \in BadNode .. v - 1 |-> E(g, j)] /\ v \in 0 .. cur_index - 1
    BY <2>1, <2>3 DEF Follows
  <2>5. \A j \in BadNode .. v - 1 : g[j] = E(g, j)
    BY <2>4
  <2> DEFINE f == [j \in BadNode .. v |-> IF j < v THEN g[j] ELSE E(g, v)]
  <2>6. ASSUME NEW j \in BadNode .. v PROVE f[j] = E(f, j)
    <3>1. ASSUME j # BadNode PROVE j \in 0 .. cur_index - 1 /\ node_pool[j].next \in BadNode .. j - 1
      <4>1. j \in 0 .. cur_index - 1
        BY <1>0, <2>4, <3>1 DEF BadNode
      <4> QED
        BY <1>0, <4>1
    <3>2. j # BadNode => f[node_pool[j].next] = g[node_pool[j].next]
      <4>1. SUFFICES ASSUME j # BadNode PROVE f[node_pool[j].next] = g[node_pool[j].next]
        OBVIOUS
      <4> DEFINE y == node_pool[j].next
      <4>2. y \in BadNode .. j - 1 /\ y \in BadNode .. v /\ y < v
        BY <2>4, <3>1, <4>1 DEF BadNode
      <4> HIDE DEF y
      <4>3. f[y] = g[y]
        BY <4>2
      <4> QED
        BY <4>3 DEF y
    <3>3. E(f, j) = E(g, j)
      BY <3>2
    <3>4. CASE j = v
      <4>1. f[v] = E(g, v)
        BY <2>4, <3>4
      <4> QED
        BY <3>3, <3>4, <4>1
    <3>5. CASE j # v
      <4>1. j < v /\ j \in BadNode .. v - 1
        BY <2>4, <3>5 DEF BadNode
      <4>2. f[j] = g[j]
        BY <4>1
      <4> QED
        BY <2>5, <3>3, <4>1, <4>2
    <3> QED
      BY <3>4, <3>5
  <2>7. f = [j \in BadNode .. v |-> f[j]]
    OBVIOUS
  <2> HIDE DEF f
  <2>8. f = [j \in BadNode .. v |-> E(f, j)]
    BY <2>6, <2>7
  <2>9. Follows(f, x - 1)
    BY <2>8 DEF Follows
  <2>10. Exists(x)
    BY <2>9 DEF Exists
  <2> QED
    BY <1>3, <2>10
<1> QED
  BY <1>4, <1>5
LEMMA ChainUnfolds ==
  ASSUME LinksDown, NEW n \in Int, BadNode <= n, n < cur_index
  PROVE  \E f : /\ Chain(n) = f[n] /\ f[BadNode] = << >>
                /\ \A j \in 0 .. n : /\ f[j] = <<PoolCell(j)>> \o f[node_pool[j].next]
                                     /\ node_pool[j].next \in BadNode .. j - 1
<1> DEFINE f == CHOOSE h : Follows(h, n)
<1>1. Follows(f, n)
  <2>1. \E h : Follows(h, n)
    BY ChainExists
  <2> QED
    BY <2>1, Zenon
<1>2. Chain(n) = f[n]
  BY DEF Chain, Follows
<1> HIDE DEF f
<1>3. \A j \in BadNode .. n :
        f[j] = IF j = BadNode \/ cur_index <= j THEN << >> ELSE <<PoolCell(j)>> \o f[node_pool[j].next]
  BY <1>1 DEF Follows
<1>4. f[BadNode] = << >>
  <2>1. BadNode \in BadNode .. n
    BY DEF BadNode
  <2> QED
    BY <1>3, <2>1
<1>5. cur_index \in Nat /\ \A j \in 0 .. cur_index - 1 : node_pool[j].next \in BadNode .. j - 1
  BY DEF LinksDown
<1>6. \A j \in 0 .. n : j # BadNode /\ ~(cur_index <= j) /\ j \in BadNode .. n /\ j \in 0 .. cur_index - 1
  BY <1>5 DEF BadNode
<1> QED
  BY <1>2, <1>3, <1>4, <1>5, <1>6

\* What is chained from the newest of a bucket's nodes in the pool is all of them.
LEMMA ChainOfMine ==
  ASSUME TableNow, NEW b \in Buckets, NEW n, Newest(Mine(node_pool, b), n)
  PROVE  /\ Walks(Chain(n), Places)
         /\ \A c : c \in ToSet(Chain(n)) <=> \E m \in Mine(node_pool, b) : c = PoolCell(m)
<1> DEFINE M == Mine(node_pool, b)
<1>1. M \subseteq 0 .. cur_index - 1
  BY PoolLike DEF TableNow, Mine
<1>2. cur_index \in Nat /\ \A j \in 0 .. cur_index - 1 : node_pool[j].next \in BadNode .. j - 1
  BY PoolLike DEF TableNow
<1>3. n \in Int /\ BadNode <= n /\ n < cur_index
  BY <1>1, <1>2 DEF Newest, BadNode
<1>4. \A j \in M : Newest(Older(M, j), node_pool[j].next)
  BY DEF TableNow, TableOK, LinksInPlace, Mine
<1>5. \A j \in M : j <= n
  BY DEF Newest
<1> HIDE DEF M
<1>6. PICK f : /\ Chain(n) = f[n] /\ f[BadNode] = << >>
               /\ \A j \in 0 .. n : /\ f[j] = <<PoolCell(j)>> \o f[node_pool[j].next]
                                    /\ node_pool[j].next \in BadNode .. j - 1
  BY <1>3, ChainUnfolds, LinksOfTable
<1> DEFINE Good(j) == /\ Walks(f[j], Places)
                      /\ \A c : c \in ToSet(f[j]) <=> \E m \in M : m <= j /\ c = PoolCell(m)
           T == {j \in M : ~Good(j)}
<1>7. T = {}
  <2>1. SUFFICES ASSUME T # {} PROVE FALSE
    OBVIOUS
  <2> DEFINE x == Min(T)
  <2>2. x \in T /\ \A j \in T : x <= j
    <3>1. T \subseteq Nat
      <4>1. 0 .. cur_index - 1 \subseteq Nat
        BY <1>2
      <4> QED
        BY <1>1, <4>1
    <3> HIDE DEF T
    <3> QED
      BY <2>1, <3>1, LeastOf
  <2> HIDE DEF x
  <2>3. x \in M /\ x \in 0 .. cur_index - 1 /\ x \in 0 .. n /\ x \in Int
    BY <1>1, <1>3, <1>5, <2>2
  <2> DEFINE y == node_pool[x].next
  <2>4. y \in BadNode .. x - 1 /\ f[x] = <<PoolCell(x)>> \o f[y] /\ Newest(Older(M, x), y)
    BY <1>4, <1>6, <2>3
  <2> HIDE DEF y
  <2>5. /\ Walks(f[y], Places)
        /\ \A c : c \in ToSet(f[y]) <=> \E m \in M : m < x /\ c = PoolCell(m)
    <3>1. CASE y = BadNode
      <4>1. Older(M, x) = {}
        BY <1>1, <2>4, <3>1 DEF Newest, Older, BadNode
      <4>2. ~\E m \in M : m < x
        BY <4>1 DEF Older
      <4>3. Walks(<< >>, Places) /\ ToSet(<< >>) = {}
        BY NoWalk
      <4> QED
        BY <1>6, <3>1, <4>2, <4>3
    <3>2. CASE y # BadNode
      <4>1. y \in M /\ y < x /\ \A m \in M : m < x => m <= y
        BY <2>4, <3>2 DEF Newest, Older
      <4>2. Good(y)
        BY <1>1, <2>2, <2>3, <4>1
      <4>3. \A m \in M : m <= y <=> m < x
        BY <1>1, <2>3, <4>1
      <4> QED
        BY <4>2, <4>3
    <3> QED
      BY <3>1, <3>2
  <2>6. PoolCell(x) \in Places /\ \A m \in M : PoolCell(m) = PoolCell(x) => m = x
    BY <1>1, <2>3, CellsApart
  <2> DEFINE s == <<PoolCell(x)>>
             t == f[y]
  <2>7. Walks(s, Places) /\ ToSet(s) = {PoolCell(x)}
    BY <2>6, OneStep
  <2>8. Walks(t, Places)
    BY <2>5
  <2>9. Apart(s, t)
    BY <1>1, <2>3, <2>5, <2>6, <2>7 DEF Apart
  <2>10. f[x] = s \o t
    BY <2>4
  <2>11. \A c : c \in ToSet(t) <=> \E m \in M : m < x /\ c = PoolCell(m)
    BY <2>5
  <2> HIDE DEF s, t
  <2>12. Walks(s \o t, Places)
    BY <2>7, <2>8, <2>9, JoinedWalk
  <2>13. \A c : c \in ToSet(s \o t) <=> c \in ToSet(s) \/ c \in ToSet(t)
    BY <2>7, <2>8, <2>9, JoinedWalk
  <2>14. \A m \in M : m <= x <=> m = x \/ m < x
    BY <1>1, <2>3
  <2>15. \A c : c \in ToSet(f[x]) <=> \E m \in M : m <= x /\ c = PoolCell(m)
    BY <2>3, <2>7, <2>10, <2>11, <2>13, <2>14
  <2>16. Good(x)
    BY <2>10, <2>12, <2>15
  <2> QED
    BY <2>2, <2>16
<1>8. CASE n = BadNode
  <2>1. M = {}
    BY <1>1, <1>8 DEF Newest, BadNode, M
  <2>2. Walks(<< >>, Places) /\ ToSet(<< >>) = {}
    BY NoWalk
  <2> QED
    BY <1>6, <1>8, <2>1, <2>2 DEF M
<1>9. CASE n \in M
  <2>1. Good(n)
    BY <1>7, <1>9
  <2> QED
    BY <1>5, <1>6, <2>1 DEF M
<1> QED
  BY <1>8, <1>9 DEF Newest, M

\* A bucket in use: its first node, and the nodes of the pool that belong to it.
LEMMA CellsInUse ==
  ASSUME TableNow, NEW b \in Buckets, first_level_node[b].key # NoKey
  PROVE  /\ Walks(Cells(b), Places)
         /\ \A c : c \in ToSet(Cells(b)) <=>
                     c = HeadCell(b) \/ \E m \in Mine(node_pool, b) : c = PoolCell(m)
<1> DEFINE n == first_level_node[b].next
           s == <<HeadCell(b)>>
           t == Chain(n)
<1>1. Newest(Mine(node_pool, b), n)
  BY DEF TableNow, TableOK, HeadsInPlace
<1>2. Walks(t, Places)
  BY <1>1, ChainOfMine
<1>3. \A c : c \in ToSet(t) <=> \E m \in Mine(node_pool, b) : c = PoolCell(m)
  BY <1>1, ChainOfMine
<1>4. b \in Int /\ Mine(node_pool, b) \subseteq Int
  BY DictAssumption, PoolLike DEF Buckets, Mine, TableNow
<1>5. Walks(s, Places) /\ ToSet(s) = {HeadCell(b)}
  BY <1>4, CellsApart, OneStep
<1>6. Apart(s, t)
  BY <1>3, <1>4, <1>5, CellsApart DEF Apart
<1>7. Cells(b) = s \o t
  BY DEF Cells
<1> HIDE DEF s, t
<1>8. Walks(s \o t, Places)
  BY <1>2, <1>5, <1>6, JoinedWalk
<1>9. \A c : c \in ToSet(s \o t) <=> c \in ToSet(s) \/ c \in ToSet(t)
  BY <1>2, <1>5, <1>6, JoinedWalk
<1> QED
  BY <1>3, <1>5, <1>7, <1>8, <1>9

\* A bucket that is not: its walk meets no key.
LEMMA CellsEmptied ==
  ASSUME TableNow, NEW b \in Buckets, first_level_node[b].key = NoKey
  PROVE  Cells(b) \in Seq(Places) /\ \A i \in DOMAIN Cells(b) : NodeAt(Cells(b)[i]).key = NoKey
<1> DEFINE n == first_level_node[b].next
<1>0. b \in Int /\ cur_index \in Nat
  BY DictAssumption, PoolLike DEF Buckets, TableNow
<1>1. HeadCell(b) \in Places /\ NodeAt(HeadCell(b)).key = NoKey
  BY <1>0, CellsApart DEF NodeAt, HeadCell
<1>2. CASE n = BadNode
  <2>1. Chain(n) = << >>
    <3>1. BadNode \in Int /\ BadNode <= BadNode /\ BadNode < cur_index
      BY <1>0 DEF BadNode
    <3> QED
      BY <1>2, <3>1, ChainUnfolds, LinksOfTable
  <2>2. Cells(b) = <<HeadCell(b)>>
    BY <2>1 DEF Cells
  <2> QED
    BY <1>1, <2>2
<1>3. CASE n # BadNode
  <2>1. n \in 0 .. cur_index - 1 /\ node_pool[n] = EmptyNode
    BY <1>3 DEF TableNow, TableOK, HeadsInPlace
  <2>2. Chain(n) = <<PoolCell(n)>>
    <3>1. n \in Int /\ BadNode <= n /\ n < cur_index /\ n \in 0 .. n
      BY <1>0, <2>1 DEF BadNode
    <3>2. node_pool[n].next = BadNode
      BY <2>1 DEF EmptyNode, Node
    <3>3. PICK f : /\ Chain(n) = f[n] /\ f[BadNode] = << >>
                   /\ \A j \in 0 .. n : f[j] = <<PoolCell(j)>> \o f[node_pool[j].next]
      BY <3>1, ChainUnfolds, LinksOfTable
    <3>4. Chain(n) = <<PoolCell(n)>> \o << >>
      BY <3>1, <3>2, <3>3
    <3> QED
      BY <3>4
  <2>3. PoolCell(n) \in Places /\ NodeAt(PoolCell(n)).key = NoKey
    BY <1>0, <2>1, CellsApart DEF NodeAt, PoolCell, EmptyNode, Node
  <2> DEFINE h == HeadCell(b)
             p == PoolCell(n)
  <2>4. Cells(b) = <<h>> \o <<p>>
    BY <2>2 DEF Cells
  <2>5. h \in Places /\ p \in Places /\ NodeAt(h).key = NoKey /\ NodeAt(p).key = NoKey
    BY <1>1, <2>3
  <2> HIDE DEF h, p
  <2> DEFINE w == <<h>> \o <<p>>
  <2>6. /\ <<h>> \in Seq(Places) /\ <<p>> \in Seq(Places) /\ Len(<<h>>) = 1 /\ Len(<<p>>) = 1
        /\ <<h>>[1] = h /\ <<p>>[1] = p
    BY <2>5
  <2>7. w \in Seq(Places) /\ DOMAIN w = 1 .. 2 /\ w[1] = h /\ w[2] = p
    BY <2>6
  <2>8. \A i \in 1 .. 2 : i = 1 \/ i = 2
    OBVIOUS
  <2> HIDE DEF w
  <2> QED
    BY <2>4, <2>5, <2>7, <2>8 DEF w
<1> QED
  BY <1>2, <1>3
-----------------------------------------------------------------------------
(* What a table holds, and what a walk meets of it.                         *)

LEMMA HitIs ==
  ASSUME NEW k, NEW cells \in Seq(Places)
  PROVE  /\ Hit(k, cells) = 0 => \A i \in DOMAIN cells : NodeAt(cells[i]).key # k
         /\ Hit(k, cells) # 0 => Hit(k, cells) \in DOMAIN cells /\ NodeAt(cells[Hit(k, cells)]).key = k
<1> DEFINE I == {i \in 1 .. Len(cells) : NodeAt(cells[i]).key = k}
<1>1. Hit(k, cells) = IF I # {} THEN Min(I) ELSE 0
  BY DEF Hit, SelectInSeq
<1>2. DOMAIN cells = 1 .. Len(cells) /\ Len(cells) \in Nat
  OBVIOUS
<1>3. CASE I = {}
  BY <1>1, <1>2, <1>3
<1>4. CASE I # {}
  <2>1. Min(I) \in I
    <3>1. I \subseteq Nat
      BY <1>2
    <3> HIDE DEF I
    <3> QED
      BY <1>4, <3>1, LeastOf
  <2> QED
    BY <1>1, <1>2, <1>4, <2>1
<1> QED
  BY <1>3, <1>4

\* The pairs of a table, of which no two have a key in common.
LEMMA PairsAre ==
  ASSUME NEW head, NEW pool, NEW cur, NEW num, TableOK(head, pool, cur, num)
  PROVE  /\ Pairs(head, pool) \subseteq Keys \X Data
         /\ \A p, q \in Pairs(head, pool) : p[1] = q[1] => p = q
<1> DEFINE P == Pairs(head, pool)
<1>1. \A i \in DOMAIN pool : pool[i].key # NoKey => pool[i].key \in Keys /\ pool[i].data \in Data
  BY PoolLike DEF Nodes, TableOK, Shape
<1>2. \A b \in Buckets : head[b].key # NoKey => head[b].key \in Keys /\ head[b].data \in Data
  BY PoolLike DEF Nodes, TableOK, Shape
<1>3. \A p \in P : \/ \E b \in Buckets : head[b].key # NoKey /\ p = Pair(head[b])
                   \/ \E i \in DOMAIN pool : pool[i].key # NoKey /\ p = Pair(pool[i])
  BY DEF Pairs
<1>4. \A n : Pair(n) = <<n.key, n.data>> /\ Pair(n)[1] = n.key
  BY DEF Pair
<1>5. P \subseteq Keys \X Data
  BY <1>1, <1>2, <1>3, <1>4
<1>6. \A b, c \in Buckets : head[b].key # NoKey /\ head[b].key = head[c].key => b = c
  BY DEF TableOK, HeadsInPlace
<1>7. \A i, j \in DOMAIN pool : pool[i].key # NoKey /\ pool[i].key = pool[j].key => i = j
  BY DEF TableOK, PooledOnce
<1>8. \A b \in Buckets, i \in DOMAIN pool : head[b].key # NoKey => head[b].key # pool[i].key
  <2>1. ASSUME NEW b \in Buckets, NEW i \in DOMAIN pool, head[b].key # NoKey, head[b].key = pool[i].key
        PROVE  FALSE
    <3>1. HashGiven[head[b].key] = b /\ \A m \in Mine(pool, b) : pool[m].key # head[b].key
      BY <2>1 DEF TableOK, HeadsInPlace
    <3>2. i \in Mine(pool, b)
      BY <2>1, <3>1 DEF Mine
    <3> QED
      BY <2>1, <3>1, <3>2
  <2> QED
    BY <2>1
<1> HIDE DEF P
<1>9. ASSUME NEW p \in P, NEW q \in P, p[1] = q[1] PROVE p = q
  <2>1. CASE /\ \E b \in Buckets : head[b].key # NoKey /\ p = Pair(head[b])
             /\ \E b \in Buckets : head[b].key # NoKey /\ q = Pair(head[b])
    BY <1>4, <1>6, <1>9, <2>1
  <2>2. CASE /\ \E i \in DOMAIN pool : pool[i].key # NoKey /\ p = Pair(pool[i])
             /\ \E i \in DOMAIN pool : pool[i].key # NoKey /\ q = Pair(pool[i])
    BY <1>4, <1>7, <1>9, <2>2
  <2>3. CASE /\ \E b \in Buckets : head[b].key # NoKey /\ p = Pair(head[b])
             /\ \E i \in DOMAIN pool : pool[i].key # NoKey /\ q = Pair(pool[i])
    BY <1>4, <1>8, <1>9, <2>3
  <2>4. CASE /\ \E b \in Buckets : head[b].key # NoKey /\ q = Pair(head[b])
             /\ \E i \in DOMAIN pool : pool[i].key # NoKey /\ p = Pair(pool[i])
    BY <1>4, <1>8, <1>9, <2>4
  <2> QED
    BY <1>3, <2>1, <2>2, <2>3, <2>4
<1> QED
  BY <1>5, <1>9 DEF P

PairsNow == Pairs(first_level_node, node_pool)
Held(k) == \E p \in PairsNow : p[1] = k

LEMMA NowHeld ==
  /\ \A b \in Buckets : first_level_node[b].key # NoKey => Pair(first_level_node[b]) \in PairsNow
  /\ \A i \in DOMAIN node_pool : node_pool[i].key # NoKey => Pair(node_pool[i]) \in PairsNow
  /\ \A p \in PairsNow :
       \/ \E b \in Buckets : first_level_node[b].key # NoKey /\ p = Pair(first_level_node[b])
       \/ \E i \in DOMAIN node_pool : node_pool[i].key # NoKey /\ p = Pair(node_pool[i])
  /\ \A n : Pair(n) = <<n.key, n.data>> /\ Pair(n)[1] = n.key
BY DEF PairsNow, Pairs, Pair

\* A cell of a bucket in use that holds a node.
InBucket(c, b) ==
  \/ c = HeadCell(b)
  \/ \E m \in Mine(node_pool, b) : c = PoolCell(m)

LEMMA BucketNodes ==
  ASSUME TableNow, NEW b \in Buckets, first_level_node[b].key # NoKey, NEW c, InBucket(c, b)
  PROVE  /\ NodeAt(c).key \in Keys /\ NodeAt(c).data \in Data /\ NodeAt(c).key # NoKey
         /\ HashGiven[NodeAt(c).key] = b /\ Pair(NodeAt(c)) \in PairsNow
<1>1. CASE c = HeadCell(b)
  <2>1. NodeAt(c) = first_level_node[b]
    BY <1>1 DEF NodeAt, HeadCell
  <2>2. first_level_node[b] \in Nodes /\ first_level_node[b].data \in Data
    BY PoolLike DEF TableNow, TableOK, Shape
  <2>3. HashGiven[first_level_node[b].key] = b
    BY DEF TableNow, TableOK, HeadsInPlace
  <2> QED
    BY <2>1, <2>2, <2>3, NowHeld DEF Nodes
<1>2. ASSUME NEW m \in Mine(node_pool, b), c = PoolCell(m)
      PROVE  /\ NodeAt(c).key \in Keys /\ NodeAt(c).data \in Data /\ NodeAt(c).key # NoKey
             /\ HashGiven[NodeAt(c).key] = b /\ Pair(NodeAt(c)) \in PairsNow
  <2>1. NodeAt(c) = node_pool[m]
    BY <1>2 DEF NodeAt, PoolCell
  <2>2. m \in DOMAIN node_pool /\ node_pool[m].key # NoKey /\ HashGiven[node_pool[m].key] = b
    BY DEF Mine
  <2>3. node_pool[m] \in Nodes /\ node_pool[m].data \in Data
    BY <2>2, PoolLike DEF TableNow, TableOK, Shape
  <2> QED
    BY <2>1, <2>2, <2>3, NowHeld DEF Nodes
<1> QED
  BY <1>1, <1>2 DEF InBucket

LEMMA OwnBucket ==
  ASSUME Sound, NEW k \in Keys
  PROVE  Hash(k) = HashGiven[k] /\ Hash(k) \in Buckets
BY DictAssumption DEF Sound, Hash

\* The walk of a seek, and the walk of an update.
LEMMA LookMeets ==
  ASSUME Sound, TableNow, NEW k \in Keys, NEW cells, cells = Sought(k) \/ cells = Cells(Hash(k))
  PROVE  /\ ~ReadsLost(k, cells)
         /\ Hit(k, cells) = 0 <=> ~Held(k)
         /\ Hit(k, cells) # 0 => /\ NodeAt(cells[Hit(k, cells)]).key = k
                                 /\ first_level_node[Hash(k)].key # NoKey
                                 /\ InBucket(cells[Hit(k, cells)], Hash(k))
<1> DEFINE b == Hash(k)
<1>0. b \in Buckets /\ b = HashGiven[k] /\ k # NoKey /\ k # Lost /\ NoKey # Lost /\ Lost \notin Keys
  BY OwnBucket, DictAssumption
<1>1. CASE first_level_node[b].key = NoKey
  <2>1. cells \in Seq(Places) /\ \A i \in DOMAIN cells : NodeAt(cells[i]).key = NoKey
    <3>1. CASE cells = << >>
      BY <3>1
    <3>2. CASE cells = Cells(b)
      BY <1>0, <1>1, <3>2, CellsEmptied
    <3> QED
      BY <1>1, <3>1, <3>2 DEF Sought
  <2>2. Hit(k, cells) = 0 /\ Hit(Lost, cells) = 0
    BY <1>0, <2>1, HitIs
  <2>3. ~Held(k)
    <3>1. ASSUME Held(k) PROVE FALSE
      <4>1. PICK p \in PairsNow : p[1] = k
        BY <3>1 DEF Held
      <4>2. ASSUME NEW a \in Buckets, first_level_node[a].key # NoKey, p = Pair(first_level_node[a])
            PROVE  FALSE
        <5>1. first_level_node[a].key = k
          BY <4>1, <4>2, NowHeld
        <5>2. HashGiven[k] = a
          BY <4>2, <5>1 DEF TableNow, TableOK, HeadsInPlace
        <5> QED
          BY <1>0, <1>1, <4>2, <5>2
      <4>3. ASSUME NEW i \in DOMAIN node_pool, node_pool[i].key # NoKey, p = Pair(node_pool[i])
            PROVE  FALSE
        <5>1. node_pool[i].key = k
          BY <4>1, <4>3, NowHeld
        <5>2. i \in Mine(node_pool, b)
          BY <1>0, <4>3, <5>1 DEF Mine
        <5> QED
          BY <1>0, <1>1, <5>2 DEF TableNow, TableOK, HeadsInPlace
      <4> QED
        BY <4>2, <4>3, NowHeld
    <3> QED
      BY <3>1
  <2> QED
    BY <2>2, <2>3 DEF ReadsLost
<1>2. CASE first_level_node[b].key # NoKey
  <2>1. cells = Cells(b)
    BY <1>2 DEF Sought
  <2>2. Walks(cells, Places) /\ \A c : c \in ToSet(cells) <=> InBucket(c, b)
    BY <1>0, <1>2, <2>1, CellsInUse DEF InBucket
  <2>3. cells \in Seq(Places) /\ \A i \in DOMAIN cells : InBucket(cells[i], b)
    BY <2>2 DEF Walks, ToSet
  <2>4. \A i \in DOMAIN cells : NodeAt(cells[i]).key \in Keys /\ Pair(NodeAt(cells[i])) \in PairsNow
    BY <1>0, <1>2, <2>3, BucketNodes
  <2>5. Hit(Lost, cells) = 0
    BY <1>0, <2>3, <2>4, HitIs
  <2>6. ASSUME Hit(k, cells) # 0
        PROVE  /\ NodeAt(cells[Hit(k, cells)]).key = k /\ InBucket(cells[Hit(k, cells)], b)
               /\ Held(k)
    <3>1. Hit(k, cells) \in DOMAIN cells /\ NodeAt(cells[Hit(k, cells)]).key = k
      BY <2>3, <2>6, HitIs
    <3> QED
      BY <2>3, <2>4, <3>1, NowHeld DEF Held
  <2>7. ASSUME Hit(k, cells) = 0, Held(k) PROVE FALSE
    <3>1. PICK p \in PairsNow : p[1] = k
      BY <2>7 DEF Held
    <3>2. \A c : InBucket(c, b) => NodeAt(c).key # k
      BY <2>2, <2>3, <2>7, HitIs DEF ToSet
    <3>3. ASSUME NEW a \in Buckets, first_level_node[a].key # NoKey, p = Pair(first_level_node[a])
          PROVE  FALSE
      <4>1. first_level_node[a].key = k
        BY <3>1, <3>3, NowHeld
      <4>2. b = a
        BY <1>0, <3>3, <4>1 DEF TableNow, TableOK, HeadsInPlace
      <4>3. InBucket(HeadCell(b), b) /\ NodeAt(HeadCell(b)) = first_level_node[b]
        BY DEF InBucket, NodeAt, HeadCell
      <4> QED
        BY <3>2, <4>1, <4>2, <4>3
    <3>4. ASSUME NEW i \in DOMAIN node_pool, node_pool[i].key # NoKey, p = Pair(node_pool[i])
          PROVE  FALSE
      <4>1. node_pool[i].key = k
        BY <3>1, <3>4, NowHeld
      <4>2. i \in Mine(node_pool, b)
        BY <1>0, <3>4, <4>1 DEF Mine
      <4>3. InBucket(PoolCell(i), b) /\ NodeAt(PoolCell(i)) = node_pool[i]
        BY <4>2 DEF InBucket, NodeAt, PoolCell
      <4> QED
        BY <3>2, <4>1, <4>3
    <3> QED
      BY <3>1, <3>3, <3>4, NowHeld
  <2> QED
    BY <1>2, <2>5, <2>6, <2>7 DEF ReadsLost
<1> QED
  BY <1>1, <1>2

\* What seeks find is what the table holds.
LEMMA ContentHeld ==
  ASSUME Sound, TableNow
  PROVE  Content = PairsNow
<1> DEFINE Found(k) == LET cells == Sought(k)
                           i == Hit(k, cells)
                       IN  IF i = 0 THEN {} ELSE {<<k, NodeAt(cells[i]).data>>}
<1>0. /\ PairsNow \subseteq Keys \X Data
      /\ \A p, q \in PairsNow : p[1] = q[1] => p = q
  BY PairsAre DEF TableNow, PairsNow
<1>1. ASSUME NEW k \in Keys, NEW p
      PROVE  p \in Found(k) <=> p \in PairsNow /\ p[1] = k
  <2> DEFINE cells == Sought(k)
             i == Hit(k, cells)
             n == NodeAt(cells[i])
  <2>1. CASE i = 0
    <3>1. ~Held(k)
      BY <2>1, LookMeets
    <3> QED
      BY <2>1, <3>1 DEF Held
  <2>2. CASE i # 0
    <3>1. n.key = k /\ first_level_node[Hash(k)].key # NoKey /\ InBucket(cells[i], Hash(k))
      BY <2>2, LookMeets
    <3>2. Pair(n) \in PairsNow
      BY <3>1, OwnBucket, BucketNodes
    <3>3. Pair(n) = <<k, n.data>> /\ Pair(n)[1] = k
      BY <3>1, NowHeld
    <3>4. Found(k) = {<<k, n.data>>}
      BY <2>2
    <3> QED
      BY <1>0, <3>2, <3>3, <3>4
  <2> QED
    BY <2>1, <2>2
<1>2. Content = UNION {Found(k) : k \in Keys}
  BY DEF Content
<1> HIDE DEF Found
<1>3. \A p \in PairsNow : p[1] \in Keys
  BY <1>0
<1> QED
  BY <1>1, <1>2, <1>3
-----------------------------------------------------------------------------
(* The walk through a whole table, of a traversal and of a clear.           *)

\* No key is in two cells.
LEMMA CellOfKey ==
  ASSUME TableNow,
         NEW a \in InUse(first_level_node), NEW b \in InUse(first_level_node),
         NEW c, NEW d, InBucket(c, a), InBucket(d, b), NodeAt(c).key = NodeAt(d).key
  PROVE  c = d
<1>0. a \in Buckets /\ b \in Buckets /\ first_level_node[a].key # NoKey /\ first_level_node[b].key # NoKey
  BY DEF InUse
<1>1. a = b /\ NodeAt(c).key # NoKey
  <2>1. HashGiven[NodeAt(c).key] = a /\ NodeAt(c).key # NoKey
    BY <1>0, BucketNodes
  <2>2. HashGiven[NodeAt(d).key] = b
    BY <1>0, BucketNodes
  <2> QED
    BY <2>1, <2>2
<1>2. NodeAt(HeadCell(a)) = first_level_node[a]
  BY DEF NodeAt, HeadCell
<1>3. \A m \in Mine(node_pool, a) : /\ NodeAt(PoolCell(m)) = node_pool[m] /\ m \in DOMAIN node_pool
                                    /\ node_pool[m].key # NoKey
                                    /\ node_pool[m].key # first_level_node[a].key
  BY <1>0 DEF NodeAt, PoolCell, Mine, TableNow, TableOK, HeadsInPlace
<1>4. CASE c = HeadCell(a) /\ d = HeadCell(a)
  BY <1>4
<1>5. ASSUME NEW m \in Mine(node_pool, a), NEW l \in Mine(node_pool, a), c = PoolCell(m), d = PoolCell(l)
      PROVE  c = d
  <2>1. node_pool[m].key = node_pool[l].key
    BY <1>3, <1>5
  <2> QED
    BY <1>3, <1>5, <2>1 DEF TableNow, TableOK, PooledOnce
<1>6. ASSUME NEW m \in Mine(node_pool, a),
             \/ c = PoolCell(m) /\ d = HeadCell(a)
             \/ d = PoolCell(m) /\ c = HeadCell(a)
      PROVE  FALSE
  BY <1>2, <1>3, <1>6
<1>7. /\ c = HeadCell(a) \/ \E m \in Mine(node_pool, a) : c = PoolCell(m)
      /\ d = HeadCell(a) \/ \E m \in Mine(node_pool, a) : d = PoolCell(m)
  BY <1>1 DEF InBucket
<1> QED
  BY <1>4, <1>5, <1>6, <1>7

WholeWalk(walk) ==
  /\ Walks(walk, Places)
  /\ \A c : c \in ToSet(walk) <=> \E b \in InUse(first_level_node) : InBucket(c, b)

\* The walks of some buckets, one after the other, of which all those in use are met once.
LEMMA TableWalk ==
  ASSUME TableNow, NEW n \in Nat, NEW order \in [1 .. n -> Buckets],
         \A i, j \in 1 .. n : order[i] = order[j] => i = j,
         \A b \in InUse(first_level_node) : \E i \in 1 .. n : order[i] = b,
         NEW seqs, seqs = [j \in 1 .. n |-> IF first_level_node[order[j]].key = NoKey THEN << >>
                                            ELSE Cells(order[j])]
  PROVE  WholeWalk(FlattenSeq(seqs))
<1>1. ASSUME NEW i \in 1 .. n
      PROVE  /\ Walks(seqs[i], Places)
             /\ \A c : c \in ToSet(seqs[i]) <=> order[i] \in InUse(first_level_node) /\ InBucket(c, order[i])
  <2>1. CASE first_level_node[order[i]].key = NoKey
    <3>1. Walks(<< >>, Places) /\ ToSet(<< >>) = {}
      BY NoWalk
    <3>2. seqs[i] = << >> /\ order[i] \notin InUse(first_level_node)
      BY <2>1 DEF InUse
    <3> QED
      BY <3>1, <3>2
  <2>2. CASE first_level_node[order[i]].key # NoKey
    <3>1. seqs[i] = Cells(order[i]) /\ order[i] \in InUse(first_level_node) /\ order[i] \in Buckets
      BY <2>2 DEF InUse
    <3>2. Walks(Cells(order[i]), Places)
      BY <2>2, <3>1, CellsInUse
    <3>3. \A c : c \in ToSet(Cells(order[i])) <=> InBucket(c, order[i])
      BY <2>2, <3>1, CellsInUse DEF InBucket
    <3> QED
      BY <3>1, <3>2, <3>3
  <2> QED
    BY <2>1, <2>2
<1>2. seqs \in [1 .. n -> Seq(Places)] /\ \A i \in 1 .. n : IsInjective(seqs[i])
  <2>1. seqs = [i \in 1 .. n |-> seqs[i]]
    OBVIOUS
  <2>2. \A i \in 1 .. n : seqs[i] \in Seq(Places) /\ IsInjective(seqs[i])
    BY <1>1 DEF Walks
  <2> QED
    BY <2>1, <2>2
<1>3. ASSUME NEW i \in 1 .. n, NEW j \in 1 .. n, i # j PROVE Apart(seqs[i], seqs[j])
  <2>1. ASSUME NEW c, c \in ToSet(seqs[i]), c \in ToSet(seqs[j]) PROVE FALSE
    <3>1. /\ order[i] \in InUse(first_level_node) /\ InBucket(c, order[i])
          /\ order[j] \in InUse(first_level_node) /\ InBucket(c, order[j])
      BY <1>1, <2>1
    <3>2. HashGiven[NodeAt(c).key] = order[i]
      BY <3>1, BucketNodes DEF InUse
    <3>3. HashGiven[NodeAt(c).key] = order[j]
      BY <3>1, BucketNodes DEF InUse
    <3> QED
      BY <1>3, <3>2, <3>3
  <2> QED
    BY <2>1 DEF Apart
<1>4. Walks(FlattenSeq(seqs), Places)
  BY <1>2, <1>3, FlatWalk
<1>5. \A c : c \in ToSet(FlattenSeq(seqs)) <=> \E i \in 1 .. n : c \in ToSet(seqs[i])
  BY <1>2, <1>3, FlatWalk
<1>6. ASSUME NEW c PROVE c \in ToSet(FlattenSeq(seqs)) <=> \E b \in InUse(first_level_node) : InBucket(c, b)
  <2>1. c \in ToSet(FlattenSeq(seqs)) <=> \E i \in 1 .. n : c \in ToSet(seqs[i])
    BY <1>5
  <2>2. \A i \in 1 .. n : c \in ToSet(seqs[i]) <=> order[i] \in InUse(first_level_node) /\ InBucket(c, order[i])
    BY <1>1
  <2> QED
    BY <2>1, <2>2
<1> QED
  BY <1>4, <1>6 DEF WholeWalk

LEMMA UsedCells ==
  ASSUME TableNow, NEW walk, WholeWalk(walk)
  PROVE  /\ \A b \in Buckets : HeadCell(b) \in ToSet(walk) <=> first_level_node[b].key # NoKey
         /\ \A i \in DOMAIN node_pool : PoolCell(i) \in ToSet(walk) <=> node_pool[i].key # NoKey
<1>1. Buckets \subseteq Int /\ DOMAIN node_pool \subseteq Int
  BY DictAssumption, PoolLike DEF Buckets, TableNow
<1>2. ASSUME NEW b \in Buckets
      PROVE  HeadCell(b) \in ToSet(walk) <=> first_level_node[b].key # NoKey
  <2>1. \A a \in Buckets : InBucket(HeadCell(b), a) <=> a = b
    <3>1. \A a \in Buckets : \A m \in Mine(node_pool, a) : HeadCell(b) # PoolCell(m)
      BY <1>1, CellsApart DEF Mine
    <3>2. \A a \in Buckets : HeadCell(b) = HeadCell(a) <=> a = b
      BY <1>1, CellsApart
    <3> QED
      BY <3>1, <3>2 DEF InBucket
  <2> QED
    BY <2>1 DEF WholeWalk, InUse
<1>3. ASSUME NEW i \in DOMAIN node_pool
      PROVE  PoolCell(i) \in ToSet(walk) <=> node_pool[i].key # NoKey
  <2>1. \A a \in Buckets : InBucket(PoolCell(i), a) <=> i \in Mine(node_pool, a)
    <3>1. \A a \in Buckets : PoolCell(i) # HeadCell(a)
      BY <1>1, CellsApart
    <3>2. \A a \in Buckets : \A m \in Mine(node_pool, a) : PoolCell(i) = PoolCell(m) <=> i = m
      BY <1>1, CellsApart DEF Mine
    <3> QED
      BY <3>1, <3>2 DEF InBucket
  <2>2. ASSUME node_pool[i].key # NoKey
        PROVE  \E a \in InUse(first_level_node) : i \in Mine(node_pool, a)
    <3> DEFINE a == HashGiven[node_pool[i].key]
    <3>1. a \in Buckets
      BY <2>2, DictAssumption, PoolLike DEF Nodes, TableNow
    <3>2. i \in Mine(node_pool, a)
      BY <2>2 DEF Mine
    <3>3. first_level_node[a].key # NoKey
      BY <3>1, <3>2 DEF TableNow, TableOK, HeadsInPlace
    <3> QED
      BY <3>1, <3>2, <3>3 DEF InUse
  <2> QED
    BY <2>1, <2>2 DEF WholeWalk, InUse, Mine
<1> QED
  BY <1>2, <1>3

LEMMA WalkHolds ==
  ASSUME TableNow, NEW walk, WholeWalk(walk)
  PROVE  /\ \A i \in DOMAIN walk : NodeAt(walk[i]).key \in Keys
         /\ {Pair(NodeAt(c)) : c \in ToSet(walk)} = PairsNow
         /\ Len(walk) = Cardinality(PairsNow)
<1>1. /\ walk \in Seq(Places) /\ Len(walk) \in Nat /\ DOMAIN walk = 1 .. Len(walk)
      /\ \A i, j \in DOMAIN walk : walk[i] = walk[j] => i = j
  BY DEF WholeWalk, Walks, IsInjective
<1>2. \A i \in DOMAIN walk : \E b \in InUse(first_level_node) : InBucket(walk[i], b)
  BY DEF WholeWalk, ToSet
<1>3. ASSUME NEW c, NEW b \in InUse(first_level_node), InBucket(c, b)
      PROVE  NodeAt(c).key \in Keys /\ Pair(NodeAt(c)) \in PairsNow
  BY <1>3, BucketNodes DEF InUse
<1>4. \A i \in DOMAIN walk : NodeAt(walk[i]).key \in Keys /\ Pair(NodeAt(walk[i])) \in PairsNow
  BY <1>2, <1>3
<1>5. ASSUME NEW p \in PairsNow PROVE \E i \in DOMAIN walk : Pair(NodeAt(walk[i])) = p
  <2>1. ASSUME NEW b \in Buckets, first_level_node[b].key # NoKey, p = Pair(first_level_node[b])
        PROVE  \E c \in ToSet(walk) : Pair(NodeAt(c)) = p
    <3>1. HeadCell(b) \in ToSet(walk)
      BY <2>1, UsedCells
    <3>2. NodeAt(HeadCell(b)) = first_level_node[b]
      BY DEF NodeAt, HeadCell
    <3> QED
      BY <2>1, <3>1, <3>2
  <2>2. ASSUME NEW i \in DOMAIN node_pool, node_pool[i].key # NoKey, p = Pair(node_pool[i])
        PROVE  \E c \in ToSet(walk) : Pair(NodeAt(c)) = p
    <3>1. PoolCell(i) \in ToSet(walk)
      BY <2>2, UsedCells
    <3>2. NodeAt(PoolCell(i)) = node_pool[i]
      BY DEF NodeAt, PoolCell
    <3> QED
      BY <2>2, <3>1, <3>2
  <2>3. \E c \in ToSet(walk) : Pair(NodeAt(c)) = p
    BY <2>1, <2>2, NowHeld
  <2> QED
    BY <2>3 DEF ToSet
<1>6. {Pair(NodeAt(c)) : c \in ToSet(walk)} = PairsNow
  BY <1>4, <1>5 DEF ToSet
<1> DEFINE f == [i \in 1 .. Len(walk) |-> Pair(NodeAt(walk[i]))]
<1>7. f \in Bijection(1 .. Len(walk), PairsNow)
  <2>1. f \in [1 .. Len(walk) -> PairsNow]
    BY <1>1, <1>4
  <2>2. ASSUME NEW i \in 1 .. Len(walk), NEW j \in 1 .. Len(walk), f[i] = f[j] PROVE i = j
    <3>1. NodeAt(walk[i]).key = NodeAt(walk[j]).key
      BY <2>2, NowHeld
    <3>2. walk[i] = walk[j]
      BY <1>1, <1>2, <3>1, CellOfKey
    <3> QED
      BY <1>1, <3>2
  <2>3. \A p \in PairsNow : \E i \in 1 .. Len(walk) : f[i] = p
    BY <1>1, <1>5
  <2> HIDE DEF f
  <2> QED
    BY <2>1, <2>2, <2>3, Fun_IsBij
<1>8. Cardinality(PairsNow) = Len(walk)
  <2>1. ExistsBijection(1 .. Len(walk), PairsNow)
    BY <1>7 DEF ExistsBijection
  <2> QED
    BY <1>1, <2>1, FS_CountingElements
<1> QED
  BY <1>4, <1>6, <1>8
LEMMA VisitWalk ==
  ASSUME TableNow
  PROVE  WholeWalk(Visit)
<1> DEFINE order == [j \in 1 .. HashNum |-> j - 1]
           seqs == [j \in 1 .. HashNum |-> IF first_level_node[order[j]].key = NoKey THEN << >>
                                           ELSE Cells(order[j])]
<1>1. HashNum \in Nat /\ Buckets = 0 .. HashNum - 1
  BY DictAssumption DEF Buckets
<1>2. order \in [1 .. HashNum -> Buckets] /\ \A i, j \in 1 .. HashNum : order[i] = order[j] => i = j
  BY <1>1
<1>3. \A b \in Buckets : \E i \in 1 .. HashNum : order[i] = b
  <2>1. \A b \in Buckets : b + 1 \in 1 .. HashNum /\ order[b + 1] = b
    BY <1>1
  <2> QED
    BY <2>1
<1>4. Visit = FlattenSeq(seqs)
  <2>1. \A j \in 1 .. HashNum : order[j] = j - 1
    OBVIOUS
  <2>2. seqs = [j \in 1 .. HashNum |-> IF first_level_node[j - 1].key = NoKey THEN << >> ELSE Cells(j - 1)]
    BY <2>1
  <2> HIDE DEF seqs
  <2> QED
    BY <2>2 DEF Visit
<1> HIDE DEF order
<1>5. seqs = [j \in 1 .. HashNum |-> IF first_level_node[order[j]].key = NoKey THEN << >>
                                     ELSE Cells(order[j])]
  OBVIOUS
<1>6. \A b \in InUse(first_level_node) : \E i \in 1 .. HashNum : order[i] = b
  BY <1>3 DEF InUse
<1> HIDE DEF seqs
<1>7. WholeWalk(FlattenSeq(seqs))
  BY <1>1, <1>2, <1>5, <1>6, TableWalk
<1> QED
  BY <1>4, <1>7

\* The cells that a clear walks through.
LEMMA ClearWalk ==
  ASSUME TableNow, ListOK, clear_nodes # NoFile,
         NEW seqs, seqs = [j \in DOMAIN clear_nodes |-> Cells(clear_nodes[j])]
  PROVE  WholeWalk(FlattenSeq(seqs))
<1> DEFINE n == Len(clear_nodes)
<1>1. /\ n \in Nat /\ DOMAIN clear_nodes = 1 .. n /\ clear_nodes \in [1 .. n -> Buckets]
      /\ ToSet(clear_nodes) = InUse(first_level_node)
      /\ \A i, j \in 1 .. n : clear_nodes[i] = clear_nodes[j] => i = j
  BY DEF ListOK, IsInjective
<1>2. \A b \in InUse(first_level_node) : \E i \in 1 .. n : clear_nodes[i] = b
  BY <1>1 DEF ToSet
<1>3. \A i \in 1 .. n : first_level_node[clear_nodes[i]].key # NoKey
  BY <1>1 DEF ToSet, InUse
<1> HIDE DEF n
<1>4. seqs = [j \in 1 .. n |-> IF first_level_node[clear_nodes[j]].key = NoKey THEN << >>
                               ELSE Cells(clear_nodes[j])]
  BY <1>1, <1>3
<1> QED
  BY <1>1, <1>2, <1>4, TableWalk

-----------------------------------------------------------------------------
(* What the operations make of a table.                                     *)

Becomes(head, pool, cur, num, pairs, used) ==
  TableOK(head, pool, cur, num) /\ Pairs(head, pool) = pairs /\ InUse(head) = used

LEMMA CountedMore ==
  ASSUME TableNow, NEW k \in Keys, NEW d \in Data, ~Held(k)
  PROVE  IsFiniteSet(PairsNow \cup {<<k, d>>}) /\ node_num + 1 = Cardinality(PairsNow \cup {<<k, d>>})
<1>1. IsFiniteSet(PairsNow) /\ node_num = Cardinality(PairsNow)
  BY DEF TableNow, TableOK, Counted, PairsNow
<1>2. <<k, d>> \notin PairsNow
  BY DEF Held
<1> QED
  BY <1>1, <1>2, FS_AddElement

LEMMA FirstInserted ==
  ASSUME TableNow, NEW b \in Buckets, NEW k \in Keys, NEW d \in Data, HashGiven[k] = b, ~Held(k),
         first_level_node[b].key = NoKey,
         NEW head, head = [first_level_node EXCEPT ![b] = Node(k, d, BadNode)]
  PROVE  Becomes(head, node_pool, cur_index, node_num + 1, PairsNow \cup {<<k, d>>},
                 InUse(first_level_node) \cup {b})
<1>1. /\ first_level_node \in [Buckets -> Nodes] /\ k # NoKey
      /\ \A a \in Buckets : first_level_node[a].key # NoKey => first_level_node[a].data \in Data
  BY DictAssumption DEF TableNow, TableOK, Shape
<1> DEFINE n == Node(k, d, BadNode)
<1>2. n \in Nodes /\ n.key = k /\ n.data = d /\ n.next = BadNode
  BY DEF Node, Nodes, BadNode
<1> HIDE DEF n
<1>3. /\ head \in [Buckets -> Nodes] /\ head[b] = n
      /\ \A a \in Buckets : a # b => head[a] = first_level_node[a]
  <2>1. head = [first_level_node EXCEPT ![b] = n]
    BY DEF n
  <2> QED
    BY <1>1, <1>2, <2>1
<1>4. Mine(node_pool, b) = {}
  BY DEF TableNow, TableOK, HeadsInPlace
<1>5. Shape(head, node_pool, cur_index)
  BY <1>1, <1>2, <1>3 DEF TableNow, TableOK, Shape
<1>6. HeadsInPlace(head, node_pool, cur_index)
  <2>1. ASSUME NEW a \in Buckets
        PROVE  /\ head[a].key # NoKey =>
                    /\ HashGiven[head[a].key] = a /\ Newest(Mine(node_pool, a), head[a].next)
                    /\ \A i \in Mine(node_pool, a) : node_pool[i].key # head[a].key
               /\ head[a].key = NoKey =>
                    /\ Mine(node_pool, a) = {}
                    /\ head[a].next # BadNode => /\ head[a].next \in 0 .. cur_index - 1
                                                 /\ node_pool[head[a].next] = EmptyNode
    <3>1. CASE a = b
      BY <1>1, <1>2, <1>3, <1>4, <3>1 DEF Newest
    <3>2. CASE a # b
      BY <1>3, <3>2 DEF TableNow, TableOK, HeadsInPlace
    <3> QED
      BY <3>1, <3>2
  <2> QED
    BY <2>1 DEF HeadsInPlace
<1>7. InUse(head) = InUse(first_level_node) \cup {b}
  BY <1>1, <1>2, <1>3 DEF InUse
<1>8. Pairs(head, node_pool) = PairsNow \cup {<<k, d>>}
  <2>1. Pair(head[b]) = <<k, d>>
    BY <1>2, <1>3 DEF Pair
  <2>2. /\ \A a \in Buckets : a # b => head[a] = first_level_node[a]
        /\ first_level_node[b].key = NoKey /\ head[b].key # NoKey
    BY <1>1, <1>2, <1>3
  <2> QED
    BY <2>1, <2>2 DEF Pairs, PairsNow
<1>9. Counted(head, node_pool, node_num + 1)
  BY <1>8, CountedMore DEF Counted
<1> QED
  BY <1>5, <1>6, <1>7, <1>8, <1>9 DEF TableNow, TableOK, Becomes

LEMMA RoomMade ==
  ASSUME TableNow
  PROVE  \E m \in Nat : /\ cur_index < m /\ Room \in [0 .. m - 1 -> Nodes]
                        /\ \A i \in 0 .. cur_index - 1 : i \in DOMAIN node_pool /\ Room[i] = node_pool[i]
                        /\ \A i \in 0 .. m - 1 : cur_index <= i => Room[i] = EmptyNode
<1>1. PICK m \in Nat : cur_index <= m /\ node_pool \in [0 .. m - 1 -> Nodes] /\ cur_index \in Nat
  BY DEF TableNow, TableOK, Shape
<1>2. DOMAIN node_pool = 0 .. m - 1 /\ Cardinality(DOMAIN node_pool) = m
  BY <1>1, FS_Interval
<1>3. \A i \in DOMAIN node_pool : cur_index <= i => node_pool[i] = EmptyNode
  BY DEF TableNow, TableOK, Shape
<1>4. CASE cur_index < m
  <2>1. Room = node_pool
    BY <1>2, <1>4 DEF Room
  <2> QED
    BY <1>1, <1>2, <1>3, <1>4, <2>1
<1>5. CASE ~(cur_index < m)
  <2> DEFINE l == cur_index + ReallocNum
  <2>1. cur_index = m /\ l \in Nat /\ cur_index < l
    BY <1>1, <1>5, DictAssumption
  <2>2. Room = [i \in 0 .. l - 1 |-> IF i < cur_index THEN node_pool[i] ELSE EmptyNode]
    <3>1. l - 1 = cur_index + ReallocNum - 1
      BY <2>1, DictAssumption
    <3> HIDE DEF l
    <3> QED
      BY <1>2, <1>5, <3>1 DEF Room
  <2> HIDE DEF l
  <2>3. EmptyNode \in Nodes
    BY DEF EmptyNode, Node, Nodes, BadNode
  <2>4. \A i \in 0 .. l - 1 : i < cur_index => i \in 0 .. m - 1 /\ node_pool[i] \in Nodes
    BY <1>1, <2>1
  <2>5. Room \in [0 .. l - 1 -> Nodes]
    BY <2>2, <2>3, <2>4
  <2>6. \A i \in 0 .. l - 1 : Room[i] = IF i < cur_index THEN node_pool[i] ELSE EmptyNode
    BY <2>2
  <2>7. \A i \in 0 .. cur_index - 1 : i \in DOMAIN node_pool /\ i < cur_index /\ i \in 0 .. l - 1
    BY <1>2, <2>1
  <2>8. \A i \in 0 .. cur_index - 1 : i \in DOMAIN node_pool /\ Room[i] = node_pool[i]
    BY <2>6, <2>7
  <2>9. \A i \in 0 .. l - 1 : cur_index <= i => Room[i] = EmptyNode
    BY <1>1, <2>6
  <2> QED
    BY <2>1, <2>5, <2>8, <2>9
<1> QED
  BY <1>4, <1>5
LEMMA ChainInserted ==
  ASSUME TableNow, NEW b \in Buckets, NEW k \in Keys, NEW d \in Data, HashGiven[k] = b, ~Held(k),
         first_level_node[b].key # NoKey,
         NEW pool, pool = [Room EXCEPT ![cur_index] = Node(k, d, first_level_node[b].next)],
         NEW head, head = [first_level_node EXCEPT ![b].next = cur_index]
  PROVE  Becomes(head, pool, cur_index + 1, node_num + 1, PairsNow \cup {<<k, d>>},
                 InUse(first_level_node))
<1> DEFINE cur == cur_index
           old == first_level_node[b].next
           n == Node(k, d, old)
<1>1. PICK m \in Nat : /\ cur < m /\ Room \in [0 .. m - 1 -> Nodes]
                       /\ \A i \in 0 .. cur - 1 : i \in DOMAIN node_pool /\ Room[i] = node_pool[i]
                       /\ \A i \in 0 .. m - 1 : cur <= i => Room[i] = EmptyNode
  BY RoomMade
<1>2. /\ cur \in Nat /\ DOMAIN node_pool \subseteq Nat /\ k # NoKey
      /\ \A i \in DOMAIN node_pool : node_pool[i].key # NoKey => i < cur
      /\ first_level_node \in [Buckets -> Nodes]
      /\ \A a \in Buckets : first_level_node[a].key # NoKey => first_level_node[a].data \in Data
  BY PoolLike, DictAssumption DEF TableNow, TableOK, Shape
<1>3. old \in Int
  BY <1>2 DEF Nodes
<1> HIDE DEF old
<1>4. n \in Nodes /\ n.key = k /\ n.data = d /\ n.next = old
  BY <1>3 DEF Node, Nodes
<1>5. pool = [Room EXCEPT ![cur] = n]
  BY DEF old
<1> HIDE DEF n
<1>6. /\ pool \in [0 .. m - 1 -> Nodes] /\ DOMAIN pool = 0 .. m - 1 /\ cur \in DOMAIN pool /\ pool[cur] = n
      /\ \A i \in 0 .. cur - 1 : i \in DOMAIN node_pool /\ pool[i] = node_pool[i] /\ i \in DOMAIN pool
      /\ \A i \in DOMAIN pool : cur < i => pool[i] = EmptyNode
  <2>1. cur \in 0 .. m - 1 /\ \A i \in 0 .. cur - 1 : i \in 0 .. m - 1 /\ i # cur
    BY <1>1, <1>2
  <2>2. \A i \in 0 .. m - 1 : i # cur => pool[i] = Room[i]
    BY <1>1, <1>5
  <2>3. \A i \in 0 .. m - 1 : cur < i => i # cur /\ cur <= i
    BY <1>2
  <2> QED
    BY <1>1, <1>4, <1>5, <2>1, <2>2, <2>3
\* A place in use is the new one, or was in use before.
<1>7. \A i : i \in DOMAIN pool /\ pool[i].key # NoKey <=>
               \/ i = cur
               \/ i \in DOMAIN node_pool /\ node_pool[i].key # NoKey
  <2>1. ASSUME NEW i \in DOMAIN pool, pool[i].key # NoKey, i # cur
        PROVE  i \in DOMAIN node_pool /\ node_pool[i].key # NoKey
    <3>1. ~(cur < i)
      BY <1>6, <2>1 DEF EmptyNode, Node
    <3>2. i \in 0 .. cur - 1
      BY <1>2, <1>6, <2>1, <3>1
    <3> QED
      BY <1>6, <2>1, <3>2
  <2>2. ASSUME NEW i \in DOMAIN node_pool, node_pool[i].key # NoKey
        PROVE  i \in DOMAIN pool /\ pool[i].key # NoKey
    <3>1. i \in 0 .. cur - 1
      BY <1>2, <2>2
    <3> QED
      BY <1>6, <2>2, <3>1
  <2> QED
    BY <1>2, <1>4, <1>6, <2>1, <2>2
<1>8. \A i \in DOMAIN node_pool : node_pool[i].key # NoKey => /\ pool[i] = node_pool[i] /\ i < cur
                                                              /\ i \in DOMAIN pool
  BY <1>2, <1>6
<1>9. \A i \in DOMAIN node_pool : node_pool[i].key # k
  <2>1. ASSUME NEW i \in DOMAIN node_pool, node_pool[i].key = k PROVE FALSE
    BY <1>2, <2>1, NowHeld DEF Held
  <2> QED
    BY <2>1
<1>10. first_level_node[b].key # k
  BY NowHeld DEF Held
<1>11. /\ head \in [Buckets -> Nodes] /\ head[b].next = cur
       /\ \A a \in Buckets : /\ head[a].key = first_level_node[a].key
                             /\ head[a].data = first_level_node[a].data
                             /\ a # b => head[a] = first_level_node[a]
  <2>1. cur \in Int /\ first_level_node[b] \in Nodes
    BY <1>2
  <2> DEFINE h == [first_level_node[b] EXCEPT !.next = cur]
  <2>2. h \in Nodes /\ h.next = cur /\ h.key = first_level_node[b].key /\ h.data = first_level_node[b].data
    BY <2>1 DEF Nodes
  <2>3. head = [first_level_node EXCEPT ![b] = h]
    OBVIOUS
  <2> HIDE DEF h
  <2> QED
    BY <1>2, <2>2, <2>3
<1>12. /\ Mine(pool, b) = Mine(node_pool, b) \cup {cur}
       /\ \A a \in Buckets : a # b => Mine(pool, a) = Mine(node_pool, a)
  BY <1>4, <1>6, <1>7, <1>8 DEF Mine
<1>13. Shape(head, pool, cur + 1)
  <2>1. cur + 1 \in Nat /\ cur + 1 <= m
    BY <1>1, <1>2
  <2>2. ASSUME NEW i \in DOMAIN pool, pool[i].key = NoKey \/ cur + 1 <= i PROVE pool[i] = EmptyNode
    <3>1. CASE i <= cur
      <4>1. pool[i].key = NoKey /\ i # cur
        BY <1>2, <1>4, <1>6, <2>2, <3>1
      <4>2. i \in 0 .. cur - 1
        BY <1>2, <1>6, <3>1, <4>1
      <4> QED
        BY <1>6, <4>1, <4>2 DEF TableNow, TableOK, Shape
    <3>2. CASE ~(i <= cur)
      BY <1>2, <1>6, <3>2
    <3> QED
      BY <3>1, <3>2
  <2>3. \A i \in DOMAIN pool : pool[i].key # NoKey => pool[i].data \in Data
    BY <1>4, <1>6, <1>7, <1>8 DEF TableNow, TableOK, Shape
  <2>4. \A a \in Buckets : head[a].key # NoKey => head[a].data \in Data
    BY <1>2, <1>11
  <2> QED
    <3>1. 0 \in DOMAIN pool
      BY <1>1, <1>2, <1>6
    <3> QED
      BY <1>6, <1>11, <2>1, <2>2, <2>3, <2>4, <3>1 DEF Shape
<1>14. HeadsInPlace(head, pool, cur + 1)
  <2>1. ASSUME NEW a \in Buckets
        PROVE  /\ head[a].key # NoKey =>
                    /\ HashGiven[head[a].key] = a /\ Newest(Mine(pool, a), head[a].next)
                    /\ \A i \in Mine(pool, a) : pool[i].key # head[a].key
               /\ head[a].key = NoKey =>
                    /\ Mine(pool, a) = {}
                    /\ head[a].next # BadNode => /\ head[a].next \in 0 .. (cur + 1) - 1
                                                 /\ pool[head[a].next] = EmptyNode
    <3>0. \A i \in Mine(node_pool, a) : pool[i] = node_pool[i] /\ i \in Nat /\ i < cur
      BY <1>2, <1>8 DEF Mine
    <3>1. CASE a = b
      <4>0. \A i \in Mine(pool, b) : i = cur \/ i \in Mine(node_pool, b)
        BY <1>12
      <4>1. Newest(Mine(pool, b), cur)
        <5>1. cur \in Mine(pool, b) /\ \A i \in Mine(pool, b) : i <= cur
          <6>1. cur \in Mine(pool, b) /\ cur <= cur
            <7>1. cur \in Mine(node_pool, b) \cup {cur}
              OBVIOUS
            <7>2. cur \in Mine(pool, b)
              BY <1>12, <7>1, Zenon
            <7>3. cur <= cur
              BY <1>2
            <7> QED
              BY <7>2, <7>3
          <6>2. \A i \in Mine(node_pool, b) : i <= cur
            BY <1>2, <3>0, <3>1
          <6> QED
            BY <4>0, <6>1, <6>2
        <5> QED
          BY <5>1 DEF Newest
      <4>2. HashGiven[head[b].key] = b
        BY <1>11 DEF TableNow, TableOK, HeadsInPlace
      <4>3. \A i \in Mine(pool, b) : pool[i].key # head[b].key
        <5>1. \A i \in Mine(node_pool, b) : node_pool[i].key # first_level_node[b].key
          BY DEF TableNow, TableOK, HeadsInPlace
        <5> QED
          BY <1>4, <1>6, <1>10, <1>11, <3>0, <3>1, <4>0, <5>1
      <4>4. head[b].next = cur /\ head[b].key # NoKey
        BY <1>11
      <4>5. Newest(Mine(pool, b), head[b].next)
        BY <4>1, <4>4
      <4> QED
        BY <3>1, <4>2, <4>3, <4>4, <4>5
    <3>2. CASE a # b
      <4>1. head[a] = first_level_node[a] /\ Mine(pool, a) = Mine(node_pool, a)
        BY <1>11, <1>12, <3>2
      <4>2. CASE head[a].key # NoKey
        <5>1. /\ HashGiven[head[a].key] = a /\ Newest(Mine(node_pool, a), head[a].next)
              /\ \A i \in Mine(node_pool, a) : node_pool[i].key # head[a].key
          <6>1. first_level_node[a].key # NoKey =>
                  /\ HashGiven[first_level_node[a].key] = a
                  /\ Newest(Mine(node_pool, a), first_level_node[a].next)
                  /\ \A i \in Mine(node_pool, a) : node_pool[i].key # first_level_node[a].key
            BY DEF TableNow, TableOK, HeadsInPlace
          <6>2. head[a] = first_level_node[a]
            BY <4>1
          <6> QED
            BY <4>2, <6>1, <6>2
        <5>2. Newest(Mine(pool, a), head[a].next)
          BY <4>1, <5>1
        <5>3. \A i \in Mine(pool, a) : pool[i].key # head[a].key
          BY <3>0, <4>1, <5>1
        <5> QED
          BY <4>2, <5>1, <5>2, <5>3
      <4>3. CASE head[a].key = NoKey
        <5>1. Mine(pool, a) = {}
          BY <4>1, <4>3 DEF TableNow, TableOK, HeadsInPlace
        <5>2. ASSUME head[a].next # BadNode
              PROVE  head[a].next \in 0 .. (cur + 1) - 1 /\ pool[head[a].next] = EmptyNode
          <6>1. head[a].next \in 0 .. cur - 1 /\ node_pool[head[a].next] = EmptyNode
            BY <4>1, <4>3, <5>2 DEF TableNow, TableOK, HeadsInPlace
          <6> QED
            BY <1>2, <1>6, <6>1
        <5> QED
          BY <4>3, <5>1, <5>2
      <4> QED
        BY <4>2, <4>3
    <3> QED
      BY <3>1, <3>2
  <2> QED
    BY <2>1 DEF HeadsInPlace
<1>15. LinksInPlace(pool)
  <2>1. ASSUME NEW i \in DOMAIN pool, pool[i].key # NoKey
        PROVE  Newest(Older(Mine(pool, HashGiven[pool[i].key]), i), pool[i].next)
    <3> DEFINE a == HashGiven[pool[i].key]
    <3>1. a \in Buckets
      BY <1>6, <2>1, DictAssumption DEF Nodes
    <3>2. \A j \in Mine(node_pool, a) : j \in Nat /\ j < cur
      BY <1>2, <1>8 DEF Mine
    <3>3. CASE i = cur
      <4>1. a = b /\ pool[i].next = old
        BY <1>4, <1>6, <3>3
      <4>2. Older(Mine(pool, b), cur) = Mine(node_pool, b)
        <5>1. ~(cur < cur) /\ \A j \in Mine(node_pool, b) : j < cur
          BY <1>2, <3>2, <4>1
        <5> QED
          BY <1>12, <5>1 DEF Older
      <4>3. Newest(Mine(node_pool, b), old)
        BY DEF old, TableNow, TableOK, HeadsInPlace
      <4> QED
        BY <3>3, <4>1, <4>2, <4>3
    <3>4. CASE i # cur
      <4>1. i \in DOMAIN node_pool /\ node_pool[i].key # NoKey
        BY <1>7, <2>1, <3>4
      <4>2. i < cur /\ i \in Nat /\ pool[i] = node_pool[i]
        BY <1>2, <1>8, <4>1
      <4>3. ~(cur < i)
        BY <1>2, <4>2
      <4>4. Older(Mine(pool, a), i) = Older(Mine(node_pool, a), i)
        BY <1>12, <3>1, <4>3 DEF Older
      <4> QED
        BY <4>1, <4>2, <4>4 DEF TableNow, TableOK, LinksInPlace
    <3> QED
      BY <3>3, <3>4
  <2> QED
    BY <2>1 DEF LinksInPlace
<1>16. PooledOnce(pool)
  <2>1. ASSUME NEW i \in DOMAIN pool, NEW j \in DOMAIN pool, pool[i].key # NoKey, pool[i].key = pool[j].key
        PROVE  i = j
    <3>1. /\ i = cur \/ (i \in DOMAIN node_pool /\ node_pool[i].key # NoKey /\ pool[i] = node_pool[i])
          /\ j = cur \/ (j \in DOMAIN node_pool /\ node_pool[j].key # NoKey /\ pool[j] = node_pool[j])
      BY <1>7, <1>8, <2>1
    <3> QED
      BY <1>4, <1>6, <1>9, <2>1, <3>1 DEF TableNow, TableOK, PooledOnce
  <2> QED
    BY <2>1 DEF PooledOnce
<1>17. Pairs(head, pool) = PairsNow \cup {<<k, d>>}
  <2>1. Pair(pool[cur]) = <<k, d>> /\ \A a \in Buckets : Pair(head[a]) = Pair(first_level_node[a])
    BY <1>4, <1>6, <1>11 DEF Pair
  <2>2. {Pair(head[a]) : a \in {x \in Buckets : head[x].key # NoKey}} =
          {Pair(first_level_node[a]) : a \in {x \in Buckets : first_level_node[x].key # NoKey}}
    BY <1>11, <2>1
  <2>3. {x \in DOMAIN pool : pool[x].key # NoKey} =
          {x \in DOMAIN node_pool : node_pool[x].key # NoKey} \cup {cur}
    BY <1>7
  <2>4. {Pair(pool[i]) : i \in {x \in DOMAIN pool : pool[x].key # NoKey}} =
          {Pair(node_pool[i]) : i \in {x \in DOMAIN node_pool : node_pool[x].key # NoKey}} \cup {<<k, d>>}
    BY <1>8, <2>1, <2>3
  <2> QED
    BY <2>2, <2>4 DEF Pairs, PairsNow
<1>18. Counted(head, pool, node_num + 1)
  BY <1>17, CountedMore DEF Counted
<1>19. InUse(head) = InUse(first_level_node)
  BY <1>11 DEF InUse
<1> QED
  BY <1>13, <1>14, <1>15, <1>16, <1>17, <1>18, <1>19 DEF TableOK, Becomes

\* The data of a key that the table holds.
LEMMA DataSet ==
  ASSUME TableNow, NEW k \in Keys, NEW d \in Data, Held(k),
         NEW head, head = [b \in Buckets |-> IF first_level_node[b].key = k
                                             THEN [first_level_node[b] EXCEPT !.data = d]
                                             ELSE first_level_node[b]],
         NEW pool, pool = [i \in DOMAIN node_pool |-> IF node_pool[i].key = k
                                                      THEN [node_pool[i] EXCEPT !.data = d]
                                                      ELSE node_pool[i]]
  PROVE  Becomes(head, pool, cur_index, node_num, {p \in PairsNow : p[1] # k} \cup {<<k, d>>},
                 InUse(first_level_node))
<1>0. /\ k # NoKey /\ first_level_node \in [Buckets -> Nodes]
      /\ \A i \in DOMAIN node_pool : node_pool[i] \in Nodes
      /\ cur_index \in Nat
  BY PoolLike, DictAssumption DEF TableNow, TableOK, Shape
<1>1. \A n \in Nodes : LET w == [n EXCEPT !.data = d] IN
        w \in Nodes /\ w.key = n.key /\ w.next = n.next /\ w.data = d
  BY DEF Nodes
<1>2. /\ head \in [Buckets -> Nodes]
      /\ \A b \in Buckets : /\ head[b].key = first_level_node[b].key
                            /\ head[b].next = first_level_node[b].next
                            /\ first_level_node[b].key # k => head[b] = first_level_node[b]
                            /\ first_level_node[b].key = k => head[b].data = d
  <2>1. ASSUME NEW b \in Buckets
        PROVE  /\ head[b] \in Nodes /\ head[b].key = first_level_node[b].key
               /\ head[b].next = first_level_node[b].next
               /\ first_level_node[b].key # k => head[b] = first_level_node[b]
               /\ first_level_node[b].key = k => head[b].data = d
    <3>1. first_level_node[b] \in Nodes
      BY <1>0
    <3> QED
      BY <1>1, <3>1
  <2> QED
    BY <2>1
<1>3. /\ DOMAIN pool = DOMAIN node_pool
      /\ \A i \in DOMAIN node_pool : /\ pool[i] \in Nodes /\ pool[i].key = node_pool[i].key
                                     /\ pool[i].next = node_pool[i].next
                                     /\ node_pool[i].key # k => pool[i] = node_pool[i]
                                     /\ node_pool[i].key = k => pool[i].data = d
  BY <1>0, <1>1
<1>4. Shape(head, pool, cur_index)
  <2>1. PICK m \in Nat : cur_index <= m /\ node_pool \in [0 .. m - 1 -> Nodes]
    BY DEF TableNow, TableOK, Shape
  <2>2. pool \in [0 .. m - 1 -> Nodes]
    <3>1. DOMAIN node_pool = 0 .. m - 1 /\ pool = [i \in 0 .. m - 1 |-> pool[i]]
      BY <2>1
    <3> QED
      BY <1>3, <3>1
  <2>3. \A i \in DOMAIN pool : pool[i].key = NoKey \/ cur_index <= i => pool[i] = EmptyNode
    <3>1. \A i \in DOMAIN node_pool : node_pool[i].key = NoKey \/ cur_index <= i => node_pool[i] = EmptyNode
      BY DEF TableNow, TableOK, Shape
    <3> QED
      BY <1>0, <1>3, <3>1 DEF EmptyNode, Node
  <2>4. \A i \in DOMAIN pool : pool[i].key # NoKey => pool[i].data \in Data
    BY <1>3 DEF TableNow, TableOK, Shape
  <2>5. \A b \in Buckets : head[b].key # NoKey => head[b].data \in Data
    BY <1>2 DEF TableNow, TableOK, Shape
  <2> QED
    <3>1. 0 \in DOMAIN pool
      BY <1>3 DEF TableNow, TableOK, Shape
    <3> QED
      BY <1>0, <1>2, <2>1, <2>2, <2>3, <2>4, <2>5, <3>1 DEF Shape
<1>5. \A b \in Buckets : Mine(pool, b) = Mine(node_pool, b)
  BY <1>3 DEF Mine
<1>6. HeadsInPlace(head, pool, cur_index)
  <2>1. ASSUME NEW a \in Buckets
        PROVE  /\ head[a].key # NoKey =>
                    /\ HashGiven[head[a].key] = a /\ Newest(Mine(pool, a), head[a].next)
                    /\ \A i \in Mine(pool, a) : pool[i].key # head[a].key
               /\ head[a].key = NoKey =>
                    /\ Mine(pool, a) = {}
                    /\ head[a].next # BadNode => /\ head[a].next \in 0 .. cur_index - 1
                                                 /\ pool[head[a].next] = EmptyNode
    <3>1. CASE head[a].key # NoKey
      <4>1. \A i \in Mine(node_pool, a) : pool[i].key = node_pool[i].key
        BY <1>3 DEF Mine
      <4> QED
        BY <1>2, <1>5, <3>1, <4>1 DEF TableNow, TableOK, HeadsInPlace
    <3>2. CASE head[a].key = NoKey
      <4>1. /\ Mine(node_pool, a) = {}
            /\ head[a].next # BadNode => /\ head[a].next \in 0 .. cur_index - 1
                                         /\ node_pool[head[a].next] = EmptyNode
        BY <1>2, <3>2 DEF TableNow, TableOK, HeadsInPlace
      <4>2. head[a].next \in 0 .. cur_index - 1 => head[a].next \in DOMAIN node_pool
        BY PoolLike DEF TableNow
      <4>3. EmptyNode.key # k
        BY <1>0 DEF EmptyNode, Node
      <4> QED
        BY <1>3, <1>5, <3>2, <4>1, <4>2, <4>3
    <3> QED
      BY <3>1, <3>2
  <2> QED
    BY <2>1 DEF HeadsInPlace
<1>7. LinksInPlace(pool)
  <2>1. ASSUME NEW i \in DOMAIN pool, pool[i].key # NoKey
        PROVE  Newest(Older(Mine(pool, HashGiven[pool[i].key]), i), pool[i].next)
    <3>1. HashGiven[pool[i].key] \in Buckets
      BY <1>3, <2>1, DictAssumption DEF Nodes
    <3> QED
      BY <1>3, <1>5, <2>1, <3>1 DEF TableNow, TableOK, LinksInPlace
  <2> QED
    BY <2>1 DEF LinksInPlace
<1>8. PooledOnce(pool)
  BY <1>3 DEF TableNow, TableOK, PooledOnce
<1>9. Pairs(head, pool) = {p \in PairsNow : p[1] # k} \cup {<<k, d>>}
  <2> DEFINE P == Pairs(head, pool)
             Q == {p \in PairsNow : p[1] # k} \cup {<<k, d>>}
  <2>1. \A b \in Buckets : Pair(head[b]) = IF first_level_node[b].key = k THEN <<k, d>>
                                           ELSE Pair(first_level_node[b])
    BY <1>2 DEF Pair
  <2>2. \A i \in DOMAIN node_pool : Pair(pool[i]) = IF node_pool[i].key = k THEN <<k, d>>
                                                    ELSE Pair(node_pool[i])
    BY <1>3 DEF Pair
  <2>3. \A p : p \in P <=>
          \/ \E b \in Buckets : first_level_node[b].key # NoKey /\ p = Pair(head[b])
          \/ \E i \in DOMAIN node_pool : node_pool[i].key # NoKey /\ p = Pair(pool[i])
    <3>1. \A p : p \in P <=>
            \/ \E b \in Buckets : head[b].key # NoKey /\ p = Pair(head[b])
            \/ \E i \in DOMAIN pool : pool[i].key # NoKey /\ p = Pair(pool[i])
      BY DEF Pairs
    <3> HIDE DEF P
    <3> QED
      BY <1>2, <1>3, <3>1
  <2> HIDE DEF P
  <2>4. ASSUME NEW p \in P PROVE p \in Q
    <3>1. ASSUME NEW b \in Buckets, first_level_node[b].key # NoKey, p = Pair(head[b]) PROVE p \in Q
      <4>1. first_level_node[b].key # k => p \in PairsNow /\ p[1] # k
        BY <2>1, <3>1, NowHeld
      <4>2. first_level_node[b].key = k => p = <<k, d>>
        BY <2>1, <3>1
      <4> QED
        BY <4>1, <4>2
    <3>2. ASSUME NEW i \in DOMAIN node_pool, node_pool[i].key # NoKey, p = Pair(pool[i]) PROVE p \in Q
      <4>1. node_pool[i].key # k => p \in PairsNow /\ p[1] # k
        BY <2>2, <3>2, NowHeld
      <4>2. node_pool[i].key = k => p = <<k, d>>
        BY <2>2, <3>2
      <4> QED
        BY <4>1, <4>2
    <3> QED
      BY <2>3, <3>1, <3>2
  <2>5. <<k, d>> \in P
    <3>1. PICK p \in PairsNow : p[1] = k
      BY DEF Held
    <3>2. \/ \E b \in Buckets : first_level_node[b].key = k
          \/ \E i \in DOMAIN node_pool : node_pool[i].key = k
      BY <3>1, NowHeld
    <3> QED
      BY <1>0, <2>1, <2>2, <2>3, <3>2
  <2>6. ASSUME NEW p \in PairsNow, p[1] # k PROVE p \in P
    <3>1. ASSUME NEW b \in Buckets, first_level_node[b].key # NoKey, p = Pair(first_level_node[b])
          PROVE  p \in P
      BY <2>1, <2>3, <2>6, <3>1, NowHeld
    <3>2. ASSUME NEW i \in DOMAIN node_pool, node_pool[i].key # NoKey, p = Pair(node_pool[i])
          PROVE  p \in P
      BY <2>2, <2>3, <2>6, <3>2, NowHeld
    <3> QED
      BY <3>1, <3>2, NowHeld
  <2> QED
    BY <2>4, <2>5, <2>6 DEF P
<1>10. Counted(head, pool, node_num)
  <2>1. PICK p \in PairsNow : p[1] = k
    BY DEF Held
  <2> DEFINE R == {q \in PairsNow : q[1] # k}
  <2>2. R = PairsNow \ {p}
    <3>1. \A q \in PairsNow : q[1] = k => q = p
      BY <2>1, PairsAre DEF TableNow, PairsNow
    <3> QED
      BY <2>1, <3>1
  <2>3. IsFiniteSet(PairsNow) /\ node_num = Cardinality(PairsNow) /\ node_num \in Nat
    BY FS_CardinalityType DEF TableNow, TableOK, Counted, PairsNow
  <2>4. IsFiniteSet(R) /\ Cardinality(R) = node_num - 1
    BY <2>1, <2>2, <2>3, FS_RemoveElement
  <2>5. <<k, d>> \notin R
    OBVIOUS
  <2> HIDE DEF R
  <2>6. IsFiniteSet(R \cup {<<k, d>>}) /\ Cardinality(R \cup {<<k, d>>}) = node_num
    <3>1. (node_num - 1) + 1 = node_num
      BY <2>3
    <3> QED
      BY <2>4, <2>5, <3>1, FS_AddElement
  <2> QED
    BY <1>9, <2>6 DEF Counted, R
<1>11. InUse(head) = InUse(first_level_node)
  BY <1>2 DEF InUse
<1> QED
  BY <1>4, <1>6, <1>7, <1>8, <1>9, <1>10, <1>11 DEF TableOK, Becomes

LEMMA AllCleared ==
  ASSUME TableNow, NEW walk, WholeWalk(walk),
         NEW head, head = [b \in Buckets |-> IF HeadCell(b) \in ToSet(walk)
                                             THEN [EmptyNode EXCEPT !.next = first_level_node[b].next]
                                             ELSE first_level_node[b]],
         NEW pool, pool = [i \in DOMAIN node_pool |-> IF PoolCell(i) \in ToSet(walk) THEN EmptyNode
                                                      ELSE node_pool[i]]
  PROVE  Becomes(head, pool, cur_index, node_num - Len(walk), {}, {})
<1>0. /\ first_level_node \in [Buckets -> Nodes] /\ cur_index \in Nat
      /\ DOMAIN node_pool \subseteq Nat /\ 0 .. cur_index - 1 \subseteq DOMAIN node_pool
      /\ \A i \in DOMAIN node_pool : node_pool[i].key # NoKey => i < cur_index
      /\ \A i \in DOMAIN node_pool : node_pool[i].key = NoKey => node_pool[i] = EmptyNode
  BY PoolLike DEF TableNow, TableOK, Shape
<1>1. EmptyNode \in Nodes /\ EmptyNode.key = NoKey
  BY DEF EmptyNode, Node, Nodes, BadNode
<1>2. DOMAIN pool = DOMAIN node_pool /\ \A i \in DOMAIN pool : pool[i] = EmptyNode
  BY <1>0, UsedCells
<1>3. /\ head \in [Buckets -> Nodes]
      /\ \A b \in Buckets : head[b].key = NoKey /\ head[b].next = first_level_node[b].next
  <2>1. ASSUME NEW b \in Buckets
        PROVE  head[b] \in Nodes /\ head[b].key = NoKey /\ head[b].next = first_level_node[b].next
    <3>1. first_level_node[b] \in Nodes /\ first_level_node[b].next \in Int
      BY <1>0 DEF Nodes
    <3> DEFINE w == [EmptyNode EXCEPT !.next = first_level_node[b].next]
    <3>2. w \in Nodes /\ w.key = NoKey /\ w.next = first_level_node[b].next
      BY <3>1 DEF EmptyNode, Node, Nodes
    <3>3. head[b] = IF first_level_node[b].key # NoKey THEN w ELSE first_level_node[b]
      BY UsedCells
    <3> HIDE DEF w
    <3> QED
      BY <3>1, <3>2, <3>3
  <2> QED
    BY <2>1
<1>4. Pairs(head, pool) = {} /\ InUse(head) = {}
  BY <1>1, <1>2, <1>3 DEF Pairs, InUse
<1>5. Shape(head, pool, cur_index)
  <2>1. PICK m \in Nat : cur_index <= m /\ node_pool \in [0 .. m - 1 -> Nodes]
    BY DEF TableNow, TableOK, Shape
  <2>2. pool \in [0 .. m - 1 -> Nodes]
    <3>1. DOMAIN node_pool = 0 .. m - 1 /\ pool = [i \in 0 .. m - 1 |-> pool[i]]
      BY <2>1
    <3> QED
      BY <1>1, <1>2, <3>1
  <2> QED
    <3>1. 0 \in DOMAIN pool
      BY <1>2 DEF TableNow, TableOK, Shape
    <3> QED
      BY <1>0, <1>1, <1>2, <1>3, <2>1, <2>2, <3>1 DEF Shape
<1>6. \A b : Mine(pool, b) = {}
  BY <1>1, <1>2 DEF Mine
<1>7. HeadsInPlace(head, pool, cur_index)
  <2>1. ASSUME NEW a \in Buckets, head[a].next # BadNode
        PROVE  head[a].next \in 0 .. cur_index - 1 /\ pool[head[a].next] = EmptyNode
    <3>1. CASE first_level_node[a].key = NoKey
      BY <1>0, <1>2, <1>3, <2>1, <3>1 DEF TableNow, TableOK, HeadsInPlace
    <3>2. CASE first_level_node[a].key # NoKey
      <4>1. head[a].next \in Mine(node_pool, a)
        BY <1>3, <2>1, <3>2 DEF TableNow, TableOK, HeadsInPlace, Newest
      <4> QED
        BY <1>0, <1>2, <4>1 DEF Mine
    <3> QED
      BY <3>1, <3>2
  <2> QED
    BY <1>3, <1>6, <2>1 DEF HeadsInPlace
<1>8. LinksInPlace(pool) /\ PooledOnce(pool)
  BY <1>1, <1>2 DEF LinksInPlace, PooledOnce
<1>9. Counted(head, pool, node_num - Len(walk))
  <2>1. node_num = Cardinality(PairsNow) /\ Len(walk) = Cardinality(PairsNow)
    BY WalkHolds DEF TableNow, TableOK, Counted, PairsNow
  <2>2. Cardinality(PairsNow) \in Nat
    BY FS_CardinalityType DEF TableNow, TableOK, Counted, PairsNow
  <2>3. node_num - Len(walk) = 0
    BY <2>1, <2>2
  <2> QED
    BY <1>4, <2>3, FS_EmptySet DEF Counted
<1> QED
  BY <1>4, <1>5, <1>7, <1>8, <1>9 DEF TableOK, Becomes
-----------------------------------------------------------------------------
(* What the operations do.                                                  *)

LEMMA DictInvSays == DictInv => TableNow /\ ListOK /\ FaultFree
BY DEF DictInv, TableNow

\* A step that leaves the table alone.
LEMMA TableStays ==
  ASSUME DictInv, UNCHANGED <<table, file>>, HalfZero = {} => fault' = fault
  PROVE  DictInv' /\ PairsNow' = PairsNow
<1>1. /\ first_level_node' = first_level_node /\ node_pool' = node_pool /\ cur_index' = cur_index
      /\ node_num' = node_num /\ clear_nodes' = clear_nodes /\ file' = file
  BY DEF table
<1>2. TableOK(first_level_node, node_pool, cur_index, node_num)'
  BY <1>1 DEF DictInv
<1>3. (file = NoTable \/ TableOK(file.head, file.pool, file.cur, file.num))'
  BY <1>1 DEF DictInv
<1>4. ListOK'
  BY <1>1 DEF DictInv, ListOK
<1>5. FaultFree'
  BY DEF DictInv, FaultFree
<1>6. PairsNow' = PairsNow
  BY <1>1 DEF PairsNow
<1> QED
  BY <1>2, <1>3, <1>4, <1>5, <1>6 DEF DictInv

LEMMA FileStays ==
  ASSUME DictInv, file' = file
  PROVE  (file = NoTable \/ TableOK(file.head, file.pool, file.cur, file.num))'
BY DEF DictInv

\* While a bucket is empty the list to clear has room.
LEMMA ListHasRoom ==
  ASSUME DictInv, NEW b \in Buckets, first_level_node[b].key = NoKey
  PROVE  ~ListFull
<1> SUFFICES ASSUME clear_nodes # NoFile, Len(clear_nodes) = HashNum PROVE FALSE
  BY DEF ListFull
<1>1. /\ clear_nodes \in Seq(Buckets) /\ IsInjective(clear_nodes)
      /\ ToSet(clear_nodes) = InUse(first_level_node)
  BY DEF DictInv, ListOK
<1>2. HashNum \in Nat /\ Buckets = 0 .. HashNum - 1
  BY DictAssumption DEF Buckets
<1>3. clear_nodes \in Injection(1 .. HashNum, Buckets)
  BY SMTT(30), <1>1, <1>2 DEF Injection, IsInjective
<1>4. /\ IsFiniteSet(Buckets) /\ Cardinality(Buckets) = HashNum
      /\ IsFiniteSet(1 .. HashNum) /\ Cardinality(1 .. HashNum) = HashNum
  <2>1. HashNum - 1 \in Int /\ ~(0 > HashNum - 1) /\ (HashNum - 1) - 0 + 1 = HashNum
    BY <1>2, DictAssumption
  <2>2. IsFiniteSet(0 .. HashNum - 1) /\ Cardinality(0 .. HashNum - 1) = HashNum
    BY <2>1, FS_Interval
  <2>3. ~(1 > HashNum) /\ HashNum \in Int /\ HashNum - 1 + 1 = HashNum
    BY <1>2, DictAssumption
  <2>4. IsFiniteSet(1 .. HashNum) /\ Cardinality(1 .. HashNum) = HashNum
    BY <2>3, FS_Interval
  <2> QED
    BY <1>2, <2>2, <2>4
<1>5. clear_nodes \in Surjection(1 .. HashNum, Buckets)
  BY <1>3, <1>4, FS_Injection
<1>6. \E i \in 1 .. HashNum : clear_nodes[i] = b
  BY <1>5 DEF Surjection
<1>7. b \in ToSet(clear_nodes)
  BY <1>1, <1>6 DEF ToSet
<1> QED
  BY <1>1, <1>7 DEF InUse

LEMMA InsertDoes ==
  ASSUME Sound, DictInv, NEW op, NEW k \in Keys, NEW d \in Data, ~Held(k), Insert(op, k, d)
  PROVE  /\ DictInv' /\ file' = file /\ fault' = fault
         /\ PairsNow' = PairsNow \cup {<<k, d>>}
         /\ out' = Answer(Call(op, k, d), "ok", NoData)
<1> DEFINE b == Hash(k)
<1>0. b \in Buckets /\ HashGiven[k] = b /\ TableNow /\ ListOK /\ FaultFree /\ ~MemoryMayFail
  BY OwnBucket, DictInvSays DEF Sound
<1>1. CASE first_level_node[b].key = NoKey
  <2>1. /\ InsertFirst(b, k, d) /\ node_num' = node_num + 1
        /\ out' = Answer(Call(op, k, d), "ok", NoData) /\ file' = file /\ fault' = fault
    BY <1>0, <1>1, ListHasRoom DEF Insert
  <2>2. /\ first_level_node' = [first_level_node EXCEPT ![b] = Node(k, d, BadNode)]
        /\ clear_nodes' = IF clear_nodes = NoFile THEN NoFile ELSE Append(clear_nodes, b)
        /\ node_pool' = node_pool /\ cur_index' = cur_index
    BY <2>1 DEF InsertFirst
  <2>3. Becomes(first_level_node', node_pool, cur_index, node_num + 1, PairsNow \cup {<<k, d>>},
                InUse(first_level_node) \cup {b})
    BY <1>0, <1>1, <2>2, FirstInserted
  <2>4. Pairs(first_level_node', node_pool) = PairsNow \cup {<<k, d>>}
    BY <2>3 DEF Becomes
  <2>5. InUse(first_level_node') = InUse(first_level_node) \cup {b}
    BY <2>3 DEF Becomes
  <2>6. TableOK(first_level_node, node_pool, cur_index, node_num)'
    BY <2>1, <2>2, <2>3 DEF Becomes
  <2>7. ListOK'
    <3>1. CASE clear_nodes = NoFile
      BY <2>2, <3>1 DEF ListOK
    <3>2. CASE clear_nodes # NoFile
      <4>1. /\ NeedClear /\ clear_nodes \in Seq(Buckets) /\ IsInjective(clear_nodes)
            /\ ToSet(clear_nodes) = InUse(first_level_node) /\ clear_nodes' = Append(clear_nodes, b)
        BY <1>0, <2>2, <3>2 DEF ListOK
      <4>2. b \notin ToSet(clear_nodes)
        BY <1>1, <4>1 DEF InUse
      <4> DEFINE s == clear_nodes
                 t == clear_nodes'
      <4>3. /\ t \in Seq(Buckets) /\ DOMAIN t = 1 .. Len(s) + 1 /\ t[Len(s) + 1] = b
            /\ DOMAIN s = 1 .. Len(s) /\ Len(s) \in Nat
            /\ \A i \in 1 .. Len(s) : t[i] = s[i]
        BY <1>0, <4>1
      <4> HIDE DEF s, t
      <4>4. \A i \in DOMAIN t : i = Len(s) + 1 \/ i \in DOMAIN s
        BY <4>3
      <4>5. \A i \in DOMAIN s : i \in DOMAIN t /\ t[i] = s[i]
        BY <4>3
      <4>6. IsInjective(s) /\ \A i \in DOMAIN s : s[i] # b
        BY <4>1, <4>2 DEF ToSet, s
      <4>7. IsInjective(t)
        BY <4>3, <4>4, <4>5, <4>6 DEF IsInjective
      <4>8. \A x : x \in ToSet(t) <=> x \in ToSet(s) \/ x = b
        <5>1. Len(s) + 1 \in DOMAIN t
          BY <4>3
        <5> QED
          BY <4>3, <4>4, <4>5, <5>1 DEF ToSet
      <4>9. ToSet(t) = ToSet(s) \cup {b}
        BY <4>8
      <4> QED
        BY <2>5, <4>1, <4>3, <4>7, <4>9 DEF ListOK, s, t
    <3> QED
      BY <3>1, <3>2
  <2>8. FaultFree'
    BY <1>0, <2>1 DEF FaultFree
  <2>9. PairsNow' = PairsNow \cup {<<k, d>>}
    BY <2>2, <2>4 DEF PairsNow
  <2> QED
    BY <2>1, <2>6, <2>7, <2>8, <2>9, FileStays DEF DictInv
<1>2. CASE first_level_node[b].key # NoKey
  <2>1. /\ InsertChained(b, k, d) /\ node_num' = node_num + 1
        /\ out' = Answer(Call(op, k, d), "ok", NoData) /\ file' = file /\ fault' = fault
    BY <1>0, <1>2 DEF Insert, LosePool
  <2>2. /\ node_pool' = [Room EXCEPT ![cur_index] = Node(k, d, first_level_node[b].next)]
        /\ first_level_node' = [first_level_node EXCEPT ![b].next = cur_index]
        /\ cur_index' = cur_index + 1 /\ clear_nodes' = clear_nodes
    BY <2>1 DEF InsertChained
  <2>3. Becomes(first_level_node', node_pool', cur_index + 1, node_num + 1, PairsNow \cup {<<k, d>>},
                InUse(first_level_node))
    BY <1>0, <1>2, <2>2, ChainInserted
  <2>4. Pairs(first_level_node', node_pool') = PairsNow \cup {<<k, d>>}
    BY <2>3 DEF Becomes
  <2>5. InUse(first_level_node') = InUse(first_level_node)
    BY <2>3 DEF Becomes
  <2>6. TableOK(first_level_node, node_pool, cur_index, node_num)'
    BY <2>1, <2>2, <2>3 DEF Becomes
  <2>7. ListOK'
    BY <1>0, <2>2, <2>5 DEF ListOK
  <2>8. FaultFree'
    BY <1>0, <2>1 DEF FaultFree
  <2>9. PairsNow' = PairsNow \cup {<<k, d>>}
    BY <2>4 DEF PairsNow
  <2> QED
    BY <2>1, <2>6, <2>7, <2>8, <2>9, FileStays DEF DictInv
<1> QED
  BY <1>1, <1>2

LEMMA SeekDoes ==
  ASSUME Sound, DictInv, NEW k \in Keys, st_dict_seek(k)
  PROVE  /\ UNCHANGED <<table, file, fault>>
         /\ \/ ~Held(k) /\ out' = Answer(Call("seek", k, NoData), "err", NoData)
            \/ \E d \in Data : /\ <<k, d>> \in PairsNow
                               /\ out' = Answer(Call("seek", k, NoData), "ok", d)
<1> DEFINE cells == Sought(k)
           n == NodeAt(cells[Hit(k, cells)])
<1>1. TableNow
  BY DictInvSays
<1>2. ~ReadsLost(k, cells) /\ (Hit(k, cells) = 0 <=> ~Held(k))
  BY <1>1, LookMeets
<1>3. CASE Hit(k, cells) = 0
  BY <1>2, <1>3 DEF st_dict_seek, Fail
<1>4. CASE Hit(k, cells) # 0
  <2>1. n.key = k /\ first_level_node[Hash(k)].key # NoKey /\ InBucket(cells[Hit(k, cells)], Hash(k))
    BY <1>1, <1>4, LookMeets
  <2>2. Pair(n) \in PairsNow /\ n.data \in Data
    BY <1>1, <2>1, OwnBucket, BucketNodes
  <2>3. <<k, n.data>> \in PairsNow
    BY <2>1, <2>2, NowHeld
  <2>4. /\ out' = Answer(Call("seek", k, NoData), "ok", n.data)
        /\ UNCHANGED <<table, file, fault>>
    BY <1>2, <1>4 DEF st_dict_seek
  <2> QED
    BY <2>2, <2>3, <2>4
<1> QED
  BY <1>3, <1>4

LEMMA AddDoes ==
  ASSUME Sound, DictInv, NEW k \in Keys, NEW d \in Data,
         st_dict_add(k, d) \/ st_dict_add_no_seek(k, d)
  PROVE  /\ DictInv' /\ file' = file /\ fault' = fault
         /\ \/ /\ Held(k) /\ PairsNow' = PairsNow
               /\ UNCHANGED table /\ out' = Answer(Call("add", k, d), "err", NoData)
            \/ /\ ~Held(k) /\ PairsNow' = PairsNow \cup {<<k, d>>}
               /\ out' = Answer(Call("add", k, d), "ok", NoData)
<1>1. ~ReadsLost(k, Sought(k)) /\ (Hit(k, Sought(k)) = 0 <=> ~Held(k))
  BY DictInvSays, LookMeets
<1>2. CASE Held(k)
  <2>1. Fail(Call("add", k, d))
    BY <1>1, <1>2 DEF st_dict_add, st_dict_add_no_seek
  <2>2. UNCHANGED <<table, file>> /\ fault' = fault /\ out' = Answer(Call("add", k, d), "err", NoData)
    BY <2>1 DEF Fail
  <2> QED
    BY <1>2, <2>2, TableStays
<1>3. CASE ~Held(k)
  <2>1. Insert("add", k, d)
    BY <1>1, <1>3 DEF st_dict_add, st_dict_add_no_seek
  <2> QED
    BY <1>3, <2>1, InsertDoes
<1> QED
  BY <1>2, <1>3
LEMMA UpdateDoes ==
  ASSUME Sound, DictInv, NEW k \in Keys, NEW d \in Data, st_dict_update(k, d)
  PROVE  /\ DictInv' /\ file' = file /\ fault' = fault
         /\ \/ /\ CallbackMayFail /\ PairsNow' = PairsNow
               /\ UNCHANGED table /\ out' = Answer(Call("update", k, d), "err", NoData)
            \/ /\ PairsNow' = {p \in PairsNow : p[1] # k} \cup {<<k, d>>}
               /\ out' = Answer(Call("update", k, d), "ok", NoData)
<1> DEFINE b == Hash(k)
           cells == Cells(b)
           c == cells[Hit(k, cells)]
<1>0. TableNow /\ ListOK /\ FaultFree /\ b \in Buckets /\ HashGiven[k] = b /\ k # NoKey
  BY DictInvSays, OwnBucket, DictAssumption
<1>1. ~ReadsLost(k, cells) /\ (Hit(k, cells) = 0 <=> ~Held(k))
  BY <1>0, LookMeets
<1>2. CASE ~Held(k)
  <2>1. Insert("update", k, d)
    BY <1>1, <1>2 DEF st_dict_update
  <2>2. {p \in PairsNow : p[1] # k} = PairsNow
    BY <1>2 DEF Held
  <2> QED
    BY <1>2, <2>1, <2>2, InsertDoes
<1>3. CASE Held(k)
  <2>1. Hit(k, cells) # 0
    BY <1>1, <1>3
  <2>2. NodeAt(c).key = k /\ first_level_node[b].key # NoKey /\ InBucket(c, b)
    BY <1>0, <2>1, LookMeets
  <2> HIDE DEF c
  <2>3. \/ CallbackMayFail /\ Fail(Call("update", k, d))
        \/ /\ IF c.pool
              THEN /\ node_pool' = [node_pool EXCEPT ![c.at].data = d]
                   /\ UNCHANGED first_level_node
              ELSE /\ first_level_node' = [first_level_node EXCEPT ![c.at].data = d]
                   /\ UNCHANGED node_pool
           /\ out' = Answer(Call("update", k, d), "ok", NoData)
           /\ UNCHANGED <<cur_index, node_num, hash_func, clear_nodes, file, fault>>
    BY <1>1, <2>1 DEF st_dict_update, c
  <2>4. CASE CallbackMayFail /\ Fail(Call("update", k, d))
    <3>1. UNCHANGED <<table, file>> /\ fault' = fault /\ out' = Answer(Call("update", k, d), "err", NoData)
      BY <2>4 DEF Fail
    <3> QED
      BY <2>4, <3>1, TableStays
  <2>5. CASE /\ IF c.pool
                THEN /\ node_pool' = [node_pool EXCEPT ![c.at].data = d]
                     /\ UNCHANGED first_level_node
                ELSE /\ first_level_node' = [first_level_node EXCEPT ![c.at].data = d]
                     /\ UNCHANGED node_pool
             /\ out' = Answer(Call("update", k, d), "ok", NoData)
             /\ UNCHANGED <<cur_index, node_num, hash_func, clear_nodes, file, fault>>
    <3> DEFINE head == [a \in Buckets |-> IF first_level_node[a].key = k
                                          THEN [first_level_node[a] EXCEPT !.data = d]
                                          ELSE first_level_node[a]]
               pool == [i \in DOMAIN node_pool |-> IF node_pool[i].key = k
                                                   THEN [node_pool[i] EXCEPT !.data = d]
                                                   ELSE node_pool[i]]
    <3>1. /\ first_level_node \in [Buckets -> Nodes]
          /\ node_pool = [i \in DOMAIN node_pool |-> node_pool[i]]
          /\ first_level_node = [a \in Buckets |-> first_level_node[a]]
      BY <1>0 DEF TableNow, TableOK, Shape
    <3>2. \A a \in Buckets : first_level_node[a].key = k => a = b
      BY <1>0 DEF TableNow, TableOK, HeadsInPlace
    <3>3. \A i \in DOMAIN node_pool : node_pool[i].key = k => i \in Mine(node_pool, b)
      BY <1>0 DEF Mine
    <3>4. \A i \in Mine(node_pool, b) : node_pool[i].key # first_level_node[b].key
      BY <1>0, <2>2 DEF TableNow, TableOK, HeadsInPlace
    <3>5. ASSUME c = HeadCell(b)
          PROVE  first_level_node' = head /\ node_pool' = pool
      <4>1. ~c.pool /\ c.at = b /\ first_level_node[b].key = k
        BY <2>2, <3>5 DEF HeadCell, NodeAt
      <4>2. \A i \in DOMAIN node_pool : node_pool[i].key # k
        BY <3>3, <3>4, <4>1
      <4>3. node_pool' = pool
        BY <2>5, <3>1, <4>1, <4>2
      <4>4. first_level_node' = [first_level_node EXCEPT ![b] = [first_level_node[b] EXCEPT !.data = d]]
        BY <2>5, <4>1
      <4>5. first_level_node' = head
        BY <3>1, <3>2, <4>1, <4>4
      <4> QED
        BY <4>3, <4>5
    <3>6. ASSUME NEW m \in Mine(node_pool, b), c = PoolCell(m)
          PROVE  first_level_node' = head /\ node_pool' = pool
      <4>1. c.pool /\ c.at = m /\ node_pool[m].key = k /\ m \in DOMAIN node_pool
        BY <2>2, <3>6 DEF PoolCell, NodeAt, Mine
      <4>2. \A a \in Buckets : first_level_node[a].key # k
        BY <3>2, <3>4, <4>1
      <4>3. first_level_node' = head
        BY <2>5, <3>1, <4>1, <4>2
      <4>4. \A i \in DOMAIN node_pool : node_pool[i].key = k <=> i = m
        BY <1>0, <4>1 DEF TableNow, TableOK, PooledOnce
      <4>5. node_pool' = [node_pool EXCEPT ![m] = [node_pool[m] EXCEPT !.data = d]]
        BY <2>5, <4>1
      <4>6. node_pool' = pool
        BY <3>1, <4>1, <4>4, <4>5
      <4> QED
        BY <4>3, <4>6
    <3>7. first_level_node' = head /\ node_pool' = pool
      <4> HIDE DEF head, pool
      <4> QED
        BY <2>2, <3>5, <3>6 DEF InBucket
    <3>8. Becomes(first_level_node', node_pool', cur_index, node_num,
                  {p \in PairsNow : p[1] # k} \cup {<<k, d>>}, InUse(first_level_node))
      BY <1>0, <1>3, <3>7, DataSet
    <3>9. /\ cur_index' = cur_index /\ node_num' = node_num /\ clear_nodes' = clear_nodes
          /\ file' = file /\ fault' = fault /\ out' = Answer(Call("update", k, d), "ok", NoData)
      BY <2>5
    <3>10. TableOK(first_level_node, node_pool, cur_index, node_num)'
      BY <3>8, <3>9 DEF Becomes
    <3>11. ListOK'
      <4>1. InUse(first_level_node)' = InUse(first_level_node)
        BY <3>8 DEF Becomes
      <4> QED
        BY <1>0, <3>9, <4>1 DEF ListOK
    <3>12. FaultFree'
      BY <1>0, <3>9 DEF FaultFree
    <3>13. PairsNow' = {p \in PairsNow : p[1] # k} \cup {<<k, d>>}
      BY <3>8 DEF Becomes, PairsNow
    <3> QED
      BY <3>9, <3>10, <3>11, <3>12, <3>13, FileStays DEF DictInv
  <2> QED
    BY <2>3, <2>4, <2>5
<1> QED
  BY <1>2, <1>3

\* A walk through the table stops nowhere.
LEMMA NothingWrong ==
  ASSUME TableNow, NEW walk, WholeWalk(walk), NEW i \in DOMAIN walk, HalfZero = {}
  PROVE  /\ ~Stops(walk, i)
         /\ \A j \in 1 .. (i - 1) : walk[j] # walk[i]
<1>1. NodeAt(walk[i]).key \in Keys
  BY WalkHolds
<1>2. ~Stops(walk, i)
  BY <1>1, DictAssumption DEF Stops, Unsound
<1>3. /\ walk \in Seq(Places) /\ DOMAIN walk = 1 .. Len(walk) /\ Len(walk) \in Nat
      /\ \A j, l \in DOMAIN walk : walk[j] = walk[l] => j = l
  BY DEF WholeWalk, Walks, IsInjective
<1>4. ASSUME NEW j \in 1 .. (i - 1) PROVE walk[j] # walk[i]
  <2>1. j \in DOMAIN walk /\ j # i
    BY <1>3
  <2> QED
    BY <1>3, <2>1
<1> QED
  BY <1>2, <1>4

LEMMA TraverseDoes ==
  ASSUME Sound, DictInv, st_dict_traverse
  PROVE  /\ UNCHANGED <<table, file>> /\ (HalfZero = {} => fault' = fault)
         /\ \/ out' = Answer(Simple("traverse"), "ok", NoData)
            \/ CallbackMayFail /\ out' = Answer(Simple("traverse"), "err", NoData)
            \/ out' = out
<1>1. TableNow
  BY DictInvSays
<1>2. HalfZero = {} => \A i \in DOMAIN Visit : ~Stops(Visit, i)
  BY <1>1, VisitWalk, NothingWrong
<1>3. CASE CallbackMayFail /\ Fail(Simple("traverse"))
  BY <1>3 DEF Fail
<1>4. CASE out' = Answer(Simple("traverse"), "ok", NoData) /\ UNCHANGED <<table, file, fault>>
  BY <1>4
<1>5. ASSUME NEW i \in DOMAIN Visit, Stops(Visit, i), Crash(Why(Visit, i))
      PROVE  UNCHANGED <<table, file>> /\ (HalfZero = {} => fault' = fault) /\ out' = out
  BY <1>2, <1>5 DEF Crash
<1> QED
  BY <1>3, <1>4, <1>5 DEF st_dict_traverse

LEMMA ClearDoes ==
  ASSUME Sound, DictInv, st_dict_clear
  PROVE  /\ DictInv' /\ file' = file /\ fault' = fault
         /\ \/ /\ PairsNow' = PairsNow
               /\ UNCHANGED table /\ out' = Answer(Simple("clear"), "err", NoData)
            \/ PairsNow' = {} /\ out' = Answer(Simple("clear"), "ok", NoData)
<1>0. TableNow /\ ListOK /\ FaultFree
  BY DictInvSays
<1>1. CASE clear_nodes = NoFile
  <2>1. Fail(Simple("clear"))
    BY <1>1 DEF st_dict_clear
  <2>2. UNCHANGED <<table, file>> /\ fault' = fault /\ out' = Answer(Simple("clear"), "err", NoData)
    BY <2>1 DEF Fail
  <2> QED
    BY <2>2, TableStays
<1>2. CASE clear_nodes # NoFile
  <2> DEFINE cells == FlattenSeq([j \in DOMAIN clear_nodes |-> Cells(clear_nodes[j])])
             Wrong(i) == Stops(cells, i) \/ \E j \in 1 .. (i - 1) : cells[j] = cells[i]
  <2>1. WholeWalk(cells)
    BY <1>0, <1>2, ClearWalk
  <2>2. HalfZero = {} /\ CallbackMayFail = FALSE
    BY <1>0, <1>2 DEF ListOK, Sound
  <2>3. PICK n \in 0 .. Len(cells) :
          /\ Zero(cells, n)
          /\ \/ /\ n = Len(cells)
                /\ clear_nodes' = << >>
                /\ out' = Answer(Simple("clear"), "ok", NoData) /\ UNCHANGED fault
             \/ /\ n < Len(cells) /\ ~Wrong(n + 1) /\ CallbackMayFail
                /\ out' = Answer(Simple("clear"), "err", NoData)
                /\ UNCHANGED <<clear_nodes, fault>>
             \/ /\ n < Len(cells) /\ Wrong(n + 1)
                /\ fault' = Why(cells, n + 1)
                /\ UNCHANGED <<clear_nodes, out>>
    BY <1>2, Zenon DEF st_dict_clear
  <2> HIDE DEF cells
  <2>4. DOMAIN cells = 1 .. Len(cells) /\ Len(cells) \in Nat
    BY <2>1 DEF WholeWalk, Walks
  <2>5. \A i \in DOMAIN cells : ~Wrong(i)
    BY <1>0, <2>1, <2>2, NothingWrong
  <2>6. n < Len(cells) => ~Wrong(n + 1)
    <3>1. n < Len(cells) => n + 1 \in DOMAIN cells
      BY <2>4
    <3> QED
      BY <2>5, <3>1
  <2> HIDE DEF Wrong
  <2>7. /\ n = Len(cells) /\ Zero(cells, Len(cells)) /\ clear_nodes' = << >>
        /\ out' = Answer(Simple("clear"), "ok", NoData) /\ fault' = fault
    BY <2>2, <2>3, <2>6
  <2>8. {cells[i] : i \in 1 .. Len(cells)} = ToSet(cells)
    BY <2>4 DEF ToSet
  <2>9. /\ first_level_node' = [b \in Buckets |-> IF HeadCell(b) \in ToSet(cells)
                                                  THEN [EmptyNode EXCEPT !.next = first_level_node[b].next]
                                                  ELSE first_level_node[b]]
        /\ node_pool' = [i \in DOMAIN node_pool |-> IF PoolCell(i) \in ToSet(cells) THEN EmptyNode
                                                    ELSE node_pool[i]]
        /\ node_num' = node_num - Len(cells) /\ cur_index' = cur_index /\ file' = file
    BY <2>7, <2>8 DEF Zero
  <2>10. Becomes(first_level_node', node_pool', cur_index, node_num - Len(cells), {}, {})
    BY <1>0, <2>1, <2>9, AllCleared
  <2>11. TableOK(first_level_node, node_pool, cur_index, node_num)'
    BY <2>9, <2>10 DEF Becomes
  <2>12. ListOK'
    <3>1. NeedClear
      BY <1>0, <1>2 DEF ListOK
    <3>2. << >> \in Seq(Buckets) /\ IsInjective(<< >>) /\ ToSet(<< >>) = {}
      BY NoWalk DEF Walks
    <3>3. InUse(first_level_node)' = {}
      BY <2>10 DEF Becomes
    <3> QED
      BY <2>7, <3>1, <3>2, <3>3 DEF ListOK
  <2>13. FaultFree'
    BY <1>0, <2>7 DEF FaultFree
  <2>14. PairsNow' = {}
    BY <2>10 DEF Becomes, PairsNow
  <2> QED
    BY <2>7, <2>9, <2>11, <2>12, <2>13, <2>14, FileStays DEF DictInv
<1> QED
  BY <1>1, <1>2

\* The nodes in use of a table, as a file keeps them.
FilePairs(head, pool) ==
  {<<n.key, n.data>> : n \in {m \in Range(head) \cup Range(pool) : m.key # NoKey}}

LEMMA FilePairsAre ==
  ASSUME NEW head, NEW pool, DOMAIN head = Buckets
  PROVE  FilePairs(head, pool) = Pairs(head, pool)
BY DEF FilePairs, Pairs, Pair, Range

LEMMA SaveDoes ==
  ASSUME Sound, DictInv, st_dict_save
  PROVE  /\ UNCHANGED table /\ fault' = fault /\ DictInv' /\ PairsNow' = PairsNow
         /\ file' # NoTable /\ FilePairs(file'.head, file'.pool) = PairsNow
         /\ out' = Answer(Simple("save"), "ok", NoData)
<1>0. TableNow /\ ListOK /\ FaultFree
  BY DictInvSays
<1>1. ~\A i \in DOMAIN node_pool : node_pool[i].key = Lost
  <2>1. 0 \in DOMAIN node_pool
    BY <1>0 DEF TableNow, TableOK, Shape
  <2>2. node_pool[0] \in Nodes
    BY <1>0, <2>1, PoolLike DEF TableNow
  <2>3. node_pool[0].key # Lost
    BY <2>2, DictAssumption DEF Nodes
  <2> QED
    BY <2>1, <2>3
<1>2. /\ file' = [head |-> first_level_node, pool |-> node_pool, cur |-> cur_index, num |-> node_num]
      /\ out' = Answer(Simple("save"), "ok", NoData)
      /\ UNCHANGED <<table, fault>>
  BY <1>1 DEF st_dict_save
<1>3. /\ file'.head = first_level_node /\ file'.pool = node_pool
      /\ file'.cur = cur_index /\ file'.num = node_num
  BY <1>2
<1>4. file' # NoTable
  <2>1. DOMAIN file' = {"head", "pool", "cur", "num"} /\ DOMAIN NoTable = {"num"}
    BY <1>2 DEF NoTable
  <2> QED
    BY <2>1
<1>5. /\ first_level_node' = first_level_node /\ node_pool' = node_pool /\ cur_index' = cur_index
      /\ node_num' = node_num /\ clear_nodes' = clear_nodes /\ fault' = fault
  BY <1>2 DEF table
<1>6. TableOK(first_level_node, node_pool, cur_index, node_num)' /\ ListOK' /\ FaultFree'
  BY <1>0, <1>5 DEF TableNow, ListOK, FaultFree
<1>7. TableOK(file.head, file.pool, file.cur, file.num)'
  BY <1>0, <1>3 DEF TableNow
<1>8. FilePairs(file'.head, file'.pool) = PairsNow
  <2>1. DOMAIN first_level_node = Buckets
    BY <1>0 DEF TableNow, TableOK, Shape
  <2> QED
    BY <1>3, <2>1, FilePairsAre DEF PairsNow
<1>9. PairsNow' = PairsNow
  BY <1>5 DEF PairsNow
<1> QED
  BY <1>2, <1>4, <1>5, <1>6, <1>7, <1>8, <1>9 DEF DictInv

LEMMA LoadDoes ==
  ASSUME Sound, DictInv, st_dict_load_from_bin
  PROVE  /\ DictInv' /\ file' = file /\ fault' = fault /\ file # NoTable
         /\ PairsNow' = FilePairs(file.head, file.pool) /\ PairsNow' \subseteq Keys \X Data
         /\ out' = Answer(Simple("load"), "ok", NoData)
<1>1. /\ first_level_node' = file.head /\ node_pool' = file.pool
      /\ cur_index' = file.cur /\ node_num' = file.num /\ clear_nodes' = NoFile
      /\ out' = Answer(Simple("load"), "ok", NoData)
      /\ file' = file /\ fault' = fault /\ file # NoTable
  BY DEF st_dict_load_from_bin, Sound
<1>2. TableOK(file.head, file.pool, file.cur, file.num)
  BY <1>1 DEF DictInv
<1>3. TableOK(first_level_node, node_pool, cur_index, node_num)'
  BY <1>1, <1>2
<1>4. ListOK' /\ FaultFree'
  BY <1>1, DictInvSays DEF ListOK, FaultFree
<1>5. PairsNow' = Pairs(file.head, file.pool)
  BY <1>1 DEF PairsNow
<1>6. FilePairs(file.head, file.pool) = Pairs(file.head, file.pool)
  BY <1>2, FilePairsAre DEF TableOK, Shape
<1>7. Pairs(file.head, file.pool) \subseteq Keys \X Data
  BY <1>2, PairsAre
<1> QED
  BY <1>1, <1>3, <1>4, <1>5, <1>6, <1>7, FileStays DEF DictInv
-----------------------------------------------------------------------------
(* The invariant holds, and what follows from it.                           *)

LEMMA DictInvInit ==
  ASSUME Init
  PROVE  DictInv /\ PairsNow = {}
<1>1. /\ first_level_node = [b \in Buckets |-> EmptyNode] /\ node_pool = [i \in Buckets |-> EmptyNode]
      /\ cur_index = 0 /\ node_num = 0 /\ file = NoTable /\ fault = "none"
      /\ clear_nodes = IF NeedClear THEN << >> ELSE NoFile
  BY DEF Init
<1>2. HashNum \in Nat /\ HashNum > 0 /\ Buckets = 0 .. HashNum - 1 /\ 0 \in Buckets
  BY DictAssumption DEF Buckets
<1>3. EmptyNode \in Nodes /\ EmptyNode.key = NoKey /\ EmptyNode.next = BadNode
  BY DEF EmptyNode, Node, Nodes, BadNode
<1>4. PairsNow = {} /\ InUse(first_level_node) = {}
  BY <1>1, <1>3 DEF PairsNow, Pairs, InUse
<1>5. \A b : Mine(node_pool, b) = {}
  BY <1>1, <1>3 DEF Mine
<1>6. Shape(first_level_node, node_pool, cur_index)
  <2>1. node_pool \in [0 .. HashNum - 1 -> Nodes] /\ DOMAIN node_pool = Buckets
    BY <1>1, <1>2, <1>3
  <2>2. cur_index \in Nat /\ cur_index <= HashNum
    BY <1>1, <1>2
  <2> QED
    BY <1>1, <1>2, <1>3, <2>1, <2>2 DEF Shape
<1>7. HeadsInPlace(first_level_node, node_pool, cur_index)
  BY <1>1, <1>3, <1>5 DEF HeadsInPlace
<1>8. LinksInPlace(node_pool) /\ PooledOnce(node_pool)
  BY <1>1, <1>3 DEF LinksInPlace, PooledOnce
<1>9. Counted(first_level_node, node_pool, node_num)
  BY <1>1, <1>4, FS_EmptySet DEF Counted, PairsNow
<1>10. ListOK
  <2>1. << >> \in Seq(Buckets) /\ IsInjective(<< >>) /\ ToSet(<< >>) = {}
    BY NoWalk DEF Walks
  <2> QED
    BY <1>1, <1>4, <2>1 DEF ListOK
<1> QED
  BY <1>1, <1>4, <1>6, <1>7, <1>8, <1>9, <1>10 DEF DictInv, TableOK, FaultFree

LEMMA DictInvStep ==
  ASSUME Sound, DictInv, [Next]_vars
  PROVE  DictInv'
<1>1. ASSUME NEW k \in Keys, st_dict_seek(k) PROVE DictInv'
  BY <1>1, SeekDoes, TableStays
<1>2. ASSUME NEW k \in Keys, NEW d \in Data, st_dict_add(k, d) \/ st_dict_add_no_seek(k, d)
      PROVE  DictInv'
  BY <1>2, AddDoes
<1>3. ASSUME NEW k \in Keys, NEW d \in Data, st_dict_update(k, d) PROVE DictInv'
  BY <1>3, UpdateDoes
<1>4. CASE st_dict_traverse
  BY <1>4, TraverseDoes, TableStays
<1>5. CASE st_dict_clear
  BY <1>5, ClearDoes
<1>6. CASE st_dict_save
  BY <1>6, SaveDoes
<1>7. CASE st_dict_load_from_bin
  BY <1>7, LoadDoes
<1>8. CASE UNCHANGED vars
  BY <1>8, TableStays DEF vars
<1> QED
  BY <1>1, <1>2, <1>3, <1>4, <1>5, <1>6, <1>7, <1>8 DEF Next

LEMMA DictInvAlways == ASSUME Sound PROVE Spec => []DictInv
<1>1. Init => DictInv
  BY DictInvInit
<1>2. DictInv /\ [Next]_vars => DictInv'
  BY DictInvStep
<1> QED
  BY <1>1, <1>2, PTL DEF Spec

\* The nodes counted are the keys that a seek finds, whatever was added, chained, cleared,
\* saved and loaded before.
THEOREM CountIsExact == ASSUME Sound PROVE Spec => []CountExact
<1>1. DictInv => CountExact
  BY ContentHeld, DictInvSays DEF CountExact, TableNow, TableOK, Counted, PairsNow
<1> QED
  BY <1>1, DictInvAlways, PTL

\* A traversal visits every key that a seek finds, once.
THEOREM TraversalIsComplete == ASSUME Sound PROVE Spec => []TraversalComplete
<1>1. DictInv => TraversalComplete
  <2> SUFFICES ASSUME DictInv PROVE TraversalComplete
    OBVIOUS
  <2>1. TableNow /\ WholeWalk(Visit)
    BY DictInvSays, VisitWalk
  <2>2. {Pair(NodeAt(c)) : c \in ToSet(Visit)} = PairsNow
    BY <2>1, WalkHolds
  <2>3. {<<NodeAt(c).key, NodeAt(c).data>> : c \in ToSet(Visit)} = Content
    BY <2>1, <2>2, ContentHeld DEF Pair
  <2> QED
    BY <2>1, <2>3 DEF TraversalComplete, WholeWalk, Walks
<1> QED
  BY <1>1, DictInvAlways, PTL

\* A clear misses no bucket in use and meets no empty one.
THEOREM ClearListIsExact == ASSUME Sound PROVE Spec => []ClearListExact
<1>1. DictInv => ClearListExact
  BY DEF DictInv, ListOK, ClearListExact, InUse
<1> QED
  BY <1>1, DictInvAlways, PTL

\* When both signatures of every key are set, no assertion of a traversal or of a clear
\* fails, and no write goes past the end of the list to clear.
THEOREM NothingGoesWrong == ASSUME Sound, HalfZero = {} PROVE Spec => [](fault = "none")
<1>1. DictInv => fault = "none"
  BY DEF DictInv, FaultFree
<1> QED
  BY <1>1, DictInvAlways, PTL

\* The table is a map, and its file the map that was saved.
THEOREM DictImplementsMap == ASSUME Sound PROVE Spec => ImplementsMap
<1> DEFINE Maps == Content = PairsNow
<1>1. Init => Map!Init
  <2> SUFFICES ASSUME Init PROVE Map!Init
    OBVIOUS
  <2>1. Content = {}
    BY DictInvInit, DictInvSays, ContentHeld
  <2>2. FileContent = NoFile
    BY DEF Init, FileContent
  <2> QED
    BY <2>1, <2>2 DEF Init, Answer, Simple, Call, Map!Init, Map!Answer, Map!Simple, Map!Call
<1>2. DictInv => Maps
  BY ContentHeld, DictInvSays
<1>3. DictInv /\ Maps /\ Maps' /\ [Next]_vars => [Map!Next]_<<Content, FileContent, out>>
  <2> SUFFICES ASSUME DictInv, Maps, Maps', [Next]_vars
               PROVE  [Map!Next]_<<Content, FileContent, out>>
    OBVIOUS
  <2> USE DEF Map!Answer, Map!Simple, Map!Call, Answer, Simple, Call
  <2>1. Content = PairsNow /\ Content' = PairsNow'
    OBVIOUS
  <2> HIDE DEF Maps
  <2>2. \A k : Map!Has(k) <=> Held(k)
    BY <2>1 DEF Map!Has, Held
  <2>3. \A k, d : Map!With(k, d) = {p \in PairsNow : p[1] # k} \cup {<<k, d>>}
    BY <2>1 DEF Map!With
  <2>4. ASSUME UNCHANGED table PROVE Content' = Content
    BY <2>1, <2>4 DEF table, PairsNow
  <2>5. ASSUME file' = file PROVE FileContent' = FileContent
    BY <2>5 DEF FileContent
  <2>6. ASSUME NEW k \in Keys, st_dict_seek(k) PROVE Map!Seek(k)
    <3>1. UNCHANGED table /\ file' = file
      BY <2>6, SeekDoes
    <3>2. \/ ~Held(k) /\ out' = Answer(Call("seek", k, NoData), "err", NoData)
          \/ \E d \in Data : /\ <<k, d>> \in PairsNow
                             /\ out' = Answer(Call("seek", k, NoData), "ok", d)
      BY <2>6, SeekDoes
    <3>3. Content' = Content /\ FileContent' = FileContent
      BY <2>4, <2>5, <3>1
    <3> QED
      BY <2>1, <2>2, <3>2, <3>3 DEF Map!Seek, Map!Refused
  <2>7. ASSUME NEW k \in Keys, NEW d \in Data, st_dict_add(k, d) \/ st_dict_add_no_seek(k, d)
        PROVE  Map!Add(k, d)
    <3>1. file' = file
      BY <2>7, AddDoes
    <3>2. \/ /\ Held(k) /\ PairsNow' = PairsNow
             /\ UNCHANGED table /\ out' = Answer(Call("add", k, d), "err", NoData)
          \/ /\ ~Held(k) /\ PairsNow' = PairsNow \cup {<<k, d>>}
             /\ out' = Answer(Call("add", k, d), "ok", NoData)
      BY <2>7, AddDoes
    <3>3. ~Held(k) => Map!With(k, d) = PairsNow \cup {<<k, d>>}
      <4>1. ~Held(k) => {p \in PairsNow : p[1] # k} = PairsNow
        BY DEF Held
      <4> QED
        BY <2>3, <4>1
    <3> QED
      BY <2>1, <2>2, <2>5, <3>1, <3>2, <3>3 DEF Map!Add, Map!Done, Map!Refused
  <2>8. ASSUME NEW k \in Keys, NEW d \in Data, st_dict_update(k, d) PROVE Map!Update(k, d)
    <3>1. file' = file
      BY <2>8, UpdateDoes
    <3>2. \/ /\ CallbackMayFail /\ PairsNow' = PairsNow
             /\ UNCHANGED table /\ out' = Answer(Call("update", k, d), "err", NoData)
          \/ /\ PairsNow' = {p \in PairsNow : p[1] # k} \cup {<<k, d>>}
             /\ out' = Answer(Call("update", k, d), "ok", NoData)
      BY <2>8, UpdateDoes
    <3> QED
      BY <2>1, <2>3, <2>5, <3>1, <3>2 DEF Map!Update, Map!Done, Map!Refused
  <2>9. CASE st_dict_traverse
    <3>1. UNCHANGED table /\ file' = file
      BY <2>9, TraverseDoes
    <3>2. \/ out' = Answer(Simple("traverse"), "ok", NoData)
          \/ CallbackMayFail /\ out' = Answer(Simple("traverse"), "err", NoData)
          \/ out' = out
      BY <2>9, TraverseDoes
    <3>3. Content' = Content /\ FileContent' = FileContent
      BY <2>4, <2>5, <3>1
    <3> QED
      BY <3>2, <3>3 DEF Map!Next, Map!Traverse, Map!Done, Map!Refused
  <2>10. CASE st_dict_clear
    <3>1. file' = file
      BY <2>10, ClearDoes
    <3>2. \/ /\ PairsNow' = PairsNow
             /\ UNCHANGED table /\ out' = Answer(Simple("clear"), "err", NoData)
          \/ PairsNow' = {} /\ out' = Answer(Simple("clear"), "ok", NoData)
      BY <2>10, ClearDoes
    <3> QED
      BY <2>1, <2>5, <3>1, <3>2 DEF Map!Next, Map!Clear, Map!Done, Map!Refused
  <2>11. CASE st_dict_save
    <3>1. PairsNow' = PairsNow /\ file' # NoTable /\ out' = Answer(Simple("save"), "ok", NoData)
      BY <2>11, SaveDoes
    <3>2. FilePairs(file'.head, file'.pool) = PairsNow
      BY <2>11, SaveDoes
    <3>3. FileContent' = PairsNow
      BY <3>1, <3>2 DEF FileContent, FilePairs
    <3> QED
      BY <2>1, <3>1, <3>3 DEF Map!Next, Map!Save, Map!Done
  <2>12. CASE st_dict_load_from_bin
    <3>1. file' = file /\ file # NoTable /\ out' = Answer(Simple("load"), "ok", NoData)
      BY <2>12, LoadDoes
    <3>2. PairsNow' = FilePairs(file.head, file.pool)
      BY <2>12, LoadDoes
    <3>3. PairsNow' \subseteq Keys \X Data
      BY <2>12, LoadDoes
    <3>4. FileContent = PairsNow'
      BY <3>1, <3>2 DEF FileContent, FilePairs
    <3>5. FileContent # NoFile
      BY <3>3, <3>4, DictAssumption
    <3> QED
      BY <2>1, <2>5, <3>1, <3>4, <3>5 DEF Map!Next, Map!Load, Map!Done
  <2>13. CASE UNCHANGED vars
    BY <2>4, <2>5, <2>13 DEF vars
  <2> QED
    BY <2>6, <2>7, <2>8, <2>9, <2>10, <2>11, <2>12, <2>13 DEF Next, Map!Next
<1> QED
  BY <1>1, <1>2, <1>3, DictInvAlways, PTL DEF Spec, ImplementsMap, Map!Spec

-----------------------------------------------------------------------------
(* A dictionary of which calls fail half way, and a load that goes on with  *)
(* another hash function: nothing more is assumed of the constants here.    *)
(* A bucket may have lost nodes, a key may be in two buckets, an emptied    *)
(* bucket may still lead to nodes in use: what is left is that no bucket    *)
(* holds a key twice and that what is in use is counted.                    *)

AnyNodes == [key : Keys \cup {NoKey, Lost}, data : Data \cup {NoData}, next : Int]

Formed(head, pool, cur) ==
  /\ cur \in Nat /\ \E m \in Nat : cur <= m /\ pool \in [0 .. m - 1 -> AnyNodes]
  /\ head \in [Buckets -> AnyNodes]
  /\ \A i \in DOMAIN pool : pool[i].next \in BadNode .. i - 1

\* Some places that a bucket leads to and that lead to each other alone.
Closed(head, pool, b, S) ==
  /\ head[b].next \in S \cup {BadNode}
  /\ \A i \in S : pool[i].next \in S \cup {BadNode}

\* No key is met twice on them and the first node.
OneEach(head, pool, b, S) ==
  /\ \A i \in S : pool[i].key \in Keys => pool[i].key # head[b].key
  /\ \A i, j \in S : pool[i].key \in Keys /\ pool[i].key = pool[j].key => i = j

Bucket(head, pool, cur, b) ==
  \E S \in SUBSET (0 .. cur - 1) : Closed(head, pool, b, S) /\ OneEach(head, pool, b, S)

AllCells(cur) == {HeadCell(b) : b \in Buckets} \cup {PoolCell(i) : i \in 0 .. cur - 1}
At(head, pool, c) == IF c.pool THEN pool[c.at] ELSE head[c.at]
Used(head, pool, cur) == {c \in AllCells(cur) : At(head, pool, c).key \in Keys}

UsedCounted(head, pool, cur, num) ==
  /\ IsFiniteSet(Used(head, pool, cur)) /\ num \in Int
  /\ Cardinality(Used(head, pool, cur)) <= num

Loose(head, pool, cur, num) ==
  /\ Formed(head, pool, cur)
  /\ \A b \in Buckets : Bucket(head, pool, cur, b)
  /\ UsedCounted(head, pool, cur, num)

LooseNow == Loose(first_level_node, node_pool, cur_index, node_num)
LooseList == clear_nodes = NoFile \/ clear_nodes \in Seq(Buckets)
LooseFile == file = NoTable \/ Loose(file.head, file.pool, file.cur, file.num)

LooseInv == LooseNow /\ LooseList /\ LooseFile

LEMMA BucketsAreNumbers == Buckets \subseteq Nat
BY DictAssumption DEF Buckets

\* The parts of a table that is formed.
LEMMA FormedSays ==
  ASSUME NEW head, NEW pool, NEW cur, Formed(head, pool, cur)
  PROVE  /\ cur \in Nat /\ DOMAIN pool \subseteq Nat /\ 0 .. cur - 1 \subseteq DOMAIN pool
         /\ \A i \in DOMAIN pool : pool[i] \in AnyNodes /\ pool[i].next \in BadNode .. i - 1
         /\ \A b \in Buckets : head[b] \in AnyNodes
<1>1. PICK m \in Nat : cur <= m /\ pool \in [0 .. m - 1 -> AnyNodes] /\ cur \in Nat
  BY DEF Formed
<1>2. DOMAIN pool = 0 .. m - 1 /\ \A i \in DOMAIN pool : pool[i] \in AnyNodes
  BY <1>1
<1>3. DOMAIN pool \subseteq Nat /\ 0 .. cur - 1 \subseteq DOMAIN pool
  BY <1>1, <1>2
<1> QED
  BY <1>1, <1>2, <1>3 DEF Formed

LEMMA CellFields ==
  /\ \A b : HeadCell(b).pool = FALSE /\ HeadCell(b).at = b
  /\ \A i : PoolCell(i).pool = TRUE /\ PoolCell(i).at = i
BY DEF HeadCell, PoolCell

LEMMA CellsWithin ==
  ASSUME NEW cur \in Nat
  PROVE  /\ AllCells(cur) \subseteq Places
         /\ \A c \in AllCells(cur) : \/ c.pool = FALSE /\ c.at \in Buckets /\ c = HeadCell(c.at)
                                     \/ c.pool = TRUE /\ c.at \in 0 .. cur - 1 /\ c = PoolCell(c.at)
<1>1. \A b \in Buckets : b \in Int
  BY BucketsAreNumbers
<1>2. \A i \in 0 .. cur - 1 : i \in Int
  OBVIOUS
<1>3. AllCells(cur) \subseteq Places
  BY <1>1, <1>2, CellsApart DEF AllCells
<1> QED
  BY <1>3, CellFields DEF AllCells

\* What a chain meets: places that lead to each other, and nothing twice.
LEMMA ChainCloses ==
  ASSUME LinksDown, NEW n \in Int, BadNode <= n, n < cur_index
  PROVE  /\ Walks(Chain(n), Places)
         /\ n # BadNode => PoolCell(n) \in ToSet(Chain(n))
         /\ \A c \in ToSet(Chain(n)) :
              \E i \in 0 .. cur_index - 1 :
                /\ c = PoolCell(i)
                /\ node_pool[i].next # BadNode => PoolCell(node_pool[i].next) \in ToSet(Chain(n))
<1>1. PICK f : /\ Chain(n) = f[n] /\ f[BadNode] = << >>
               /\ \A j \in 0 .. n : /\ f[j] = <<PoolCell(j)>> \o f[node_pool[j].next]
                                    /\ node_pool[j].next \in BadNode .. j - 1
  BY ChainUnfolds
<1>2. cur_index \in Nat
  BY DEF LinksDown
<1> DEFINE Good(j) ==
      /\ Walks(f[j], Places)
      /\ j # BadNode => PoolCell(j) \in ToSet(f[j])
      /\ \A c \in ToSet(f[j]) :
           \E i \in 0 .. cur_index - 1 :
             /\ i <= j /\ c = PoolCell(i)
             /\ node_pool[i].next # BadNode => PoolCell(node_pool[i].next) \in ToSet(f[j])
           T == {j \in 0 .. n : ~Good(j)}
<1>3. Good(BadNode)
  BY <1>1, NoWalk
<1>4. ASSUME NEW x \in 0 .. n, \A j \in BadNode .. x - 1 : Good(j)
      PROVE  Good(x)
  <2>1. x \in Nat /\ x \in 0 .. cur_index - 1
    BY <1>2
  <2>2. PICK y \in BadNode .. x - 1 : y = node_pool[x].next /\ f[x] = <<PoolCell(x)>> \o f[y]
    BY <1>1
  <2>3. y \in Int /\ y < x
    BY <2>1, <2>2 DEF BadNode
  <2>4. Good(y)
    BY <1>4, <2>2
  <2> DEFINE s == <<PoolCell(x)>>
             t == f[y]
  <2>5. Walks(s, Places) /\ ToSet(s) = {PoolCell(x)}
    BY <2>1, CellsApart, OneStep
  <2>6. Apart(s, t)
    BY <2>1, <2>3, <2>4, <2>5, CellsApart DEF Apart
  <2>7. Walks(t, Places)
    BY <2>4
  <2>8. f[x] = s \o t /\ f[y] = t
    BY <2>2
  <2> HIDE DEF s, t
  <2>9. Walks(s \o t, Places) /\ \A c : c \in ToSet(s \o t) <=> c \in ToSet(s) \/ c \in ToSet(t)
    BY <2>5, <2>6, <2>7, JoinedWalk
  <2>10. \A c : c \in ToSet(f[x]) <=> c = PoolCell(x) \/ c \in ToSet(f[y])
    BY <2>5, <2>8, <2>9
  <2>11. ASSUME NEW c \in ToSet(f[x])
         PROVE  \E i \in 0 .. cur_index - 1 :
                  /\ i <= x /\ c = PoolCell(i)
                  /\ node_pool[i].next # BadNode => PoolCell(node_pool[i].next) \in ToSet(f[x])
    <3>1. CASE c = PoolCell(x)
      <4>1. y # BadNode => PoolCell(y) \in ToSet(f[x])
        BY <2>4, <2>10
      <4> QED
        BY <2>1, <2>2, <3>1, <4>1
    <3>2. CASE c \in ToSet(f[y])
      <4>1. PICK i \in 0 .. cur_index - 1 :
              /\ i <= y /\ c = PoolCell(i)
              /\ node_pool[i].next # BadNode => PoolCell(node_pool[i].next) \in ToSet(f[y])
        BY <2>4, <3>2
      <4>2. i <= x
        BY <2>1, <2>3, <4>1
      <4> QED
        BY <2>10, <4>1, <4>2
    <3> QED
      BY <2>10, <3>1, <3>2
  <2> QED
    BY <2>8, <2>9, <2>10, <2>11
<1> HIDE DEF Good
<1>5. T = {}
  <2>1. SUFFICES ASSUME T # {} PROVE FALSE
    OBVIOUS
  <2>2. PICK x : x \in T /\ \A j \in T : x <= j
    <3>1. T \subseteq Nat
      OBVIOUS
    <3> HIDE DEF T
    <3> QED
      BY <2>1, <3>1, LeastOf
  <2>3. \A j \in BadNode .. x - 1 : j = BadNode \/ (j \in 0 .. n /\ ~(x <= j))
    BY <2>2 DEF BadNode
  <2> QED
    BY <1>3, <1>4, <2>2, <2>3
<1>6. Good(n)
  BY <1>3, <1>5 DEF BadNode
<1> QED
  BY <1>1, <1>6 DEF Good

LEMMA JoinedSet ==
  ASSUME NEW S, NEW s \in Seq(S), NEW t \in Seq(S)
  PROVE  /\ s \o t \in Seq(S)
         /\ \A y \in ToSet(s \o t) : y \in ToSet(s) \/ y \in ToSet(t)
<1>1. /\ s \o t \in Seq(S) /\ DOMAIN s = 1 .. Len(s) /\ DOMAIN t = 1 .. Len(t)
      /\ DOMAIN (s \o t) = 1 .. Len(s) + Len(t) /\ Len(s) \in Nat /\ Len(t) \in Nat
  OBVIOUS
<1>2. ASSUME NEW i \in 1 .. Len(s) + Len(t)
      PROVE  \/ i \in 1 .. Len(s) /\ (s \o t)[i] = s[i]
             \/ i - Len(s) \in 1 .. Len(t) /\ (s \o t)[i] = t[i - Len(s)]
  <2>1. (s \o t)[i] = IF i <= Len(s) THEN s[i] ELSE t[i - Len(s)]
    OBVIOUS
  <2> QED
    BY <1>1, <2>1
<1> QED
  BY <1>1, <1>2 DEF ToSet

\* It meets nothing else: any places that lead to each other hold all of it.
LEMMA ChainWithin ==
  ASSUME LinksDown, NEW n \in Int, BadNode <= n, n < cur_index, NEW S \in SUBSET (0 .. cur_index - 1),
         n \in S \cup {BadNode},
         \A i \in S : node_pool[i].next \in S \cup {BadNode}
  PROVE  \A c \in ToSet(Chain(n)) : \E i \in S : c = PoolCell(i)
<1>1. PICK f : /\ Chain(n) = f[n] /\ f[BadNode] = << >>
               /\ \A j \in 0 .. n : /\ f[j] = <<PoolCell(j)>> \o f[node_pool[j].next]
                                    /\ node_pool[j].next \in BadNode .. j - 1
  BY ChainUnfolds
<1>2. cur_index \in Nat
  BY DEF LinksDown
<1> DEFINE Good(j) == f[j] \in Seq(Places) /\ \A c \in ToSet(f[j]) : \E i \in S : c = PoolCell(i)
           T == {j \in S : j <= n /\ ~Good(j)}
<1>3. Good(BadNode)
  BY <1>1, NoWalk
<1>4. ASSUME NEW x \in S, x <= n, \A j \in S \cup {BadNode} : j < x => Good(j)
      PROVE  Good(x)
  <2>1. x \in 0 .. n /\ x \in Nat /\ x \in 0 .. cur_index - 1
    BY <1>2, <1>4
  <2>2. PICK y \in BadNode .. x - 1 : y = node_pool[x].next /\ f[x] = <<PoolCell(x)>> \o f[y]
    BY <1>1, <2>1
  <2>3. Good(y) /\ y < x
    <3>1. y \in S \cup {BadNode} /\ y < x
      BY <1>4, <2>1, <2>2 DEF BadNode
    <3> QED
      BY <1>4, <3>1
  <2> DEFINE s == <<PoolCell(x)>>
             t == f[y]
  <2>4. Walks(s, Places) /\ ToSet(s) = {PoolCell(x)}
    BY <2>1, CellsApart, OneStep
  <2>5. s \in Seq(Places) /\ t \in Seq(Places)
    BY <2>3, <2>4 DEF Walks
  <2>6. f[x] = s \o t
    BY <2>2
  <2> HIDE DEF s, t
  <2>7. s \o t \in Seq(Places) /\ \A c \in ToSet(s \o t) : c \in ToSet(s) \/ c \in ToSet(t)
    BY <2>5, JoinedSet
  <2>8. f[x] \in Seq(Places) /\ \A c \in ToSet(f[x]) : c = PoolCell(x) \/ c \in ToSet(f[y])
    BY <2>4, <2>6, <2>7 DEF t
  <2> QED
    BY <1>4, <2>3, <2>8
<1> HIDE DEF Good
<1>5. T = {}
  <2>1. SUFFICES ASSUME T # {} PROVE FALSE
    OBVIOUS
  <2>2. PICK x : x \in T /\ \A j \in T : x <= j
    <3>1. T \subseteq Nat
      <4>1. 0 .. cur_index - 1 \subseteq Nat
        BY <1>2
      <4> QED
        BY <4>1
    <3> HIDE DEF T
    <3> QED
      BY <2>1, <3>1, LeastOf
  <2>3. x \in S /\ x <= n /\ x \in Nat
    BY <1>2, <2>2
  <2>4. \A j \in S : j \in Nat /\ (j < x => j <= n /\ ~(x <= j))
    BY <1>2, <2>3
  <2> QED
    BY <1>3, <1>4, <2>2, <2>3, <2>4
<1>6. Good(n)
  BY <1>3, <1>5
<1> QED
  BY <1>1, <1>6 DEF Good

LEMMA LinksOfLoose == LooseNow => LinksDown
<1> SUFFICES ASSUME LooseNow PROVE LinksDown
  OBVIOUS
<1>1. Formed(first_level_node, node_pool, cur_index)
  BY DEF LooseNow, Loose
<1> QED
  BY <1>1, FormedSays DEF LinksDown

\* The places in the pool that the walk along a bucket meets.
Met(b) == {i \in 0 .. cur_index - 1 : PoolCell(i) \in ToSet(Cells(b))}

LEMMA CellsMet ==
  ASSUME LooseNow, NEW b \in Buckets
  PROVE  /\ Walks(Cells(b), Places) /\ HeadCell(b) \in ToSet(Cells(b))
         /\ \A c \in ToSet(Cells(b)) : c = HeadCell(b) \/ \E i \in Met(b) : c = PoolCell(i)
         /\ Closed(first_level_node, node_pool, b, Met(b))
         /\ OneEach(first_level_node, node_pool, b, Met(b))
<1> DEFINE n == first_level_node[b].next
           s == <<HeadCell(b)>>
           t == Chain(n)
<1>1. PICK S \in SUBSET (0 .. cur_index - 1) :
        Closed(first_level_node, node_pool, b, S) /\ OneEach(first_level_node, node_pool, b, S)
  BY DEF LooseNow, Loose, Bucket
<1>2. LinksDown /\ cur_index \in Nat /\ b \in Int
  BY LinksOfLoose, BucketsAreNumbers DEF LinksDown
<1>3. n \in S \cup {BadNode} /\ \A i \in S : node_pool[i].next \in S \cup {BadNode}
  BY <1>1 DEF Closed
<1>4. n \in Int /\ BadNode <= n /\ n < cur_index
  <2>1. \A i \in S : i \in Int /\ BadNode <= i /\ i < cur_index
    BY <1>2 DEF BadNode
  <2>2. BadNode \in Int /\ BadNode <= BadNode /\ BadNode < cur_index
    BY <1>2 DEF BadNode
  <2> QED
    BY <1>3, <2>1, <2>2
<1> HIDE DEF n
<1>5. /\ Walks(t, Places)
      /\ n # BadNode => PoolCell(n) \in ToSet(t)
      /\ \A c \in ToSet(t) :
           \E i \in 0 .. cur_index - 1 :
             /\ c = PoolCell(i)
             /\ node_pool[i].next # BadNode => PoolCell(node_pool[i].next) \in ToSet(t)
  BY <1>2, <1>4, ChainCloses
<1>6. \A c \in ToSet(t) : \E i \in S : c = PoolCell(i)
  BY <1>2, <1>3, <1>4, ChainWithin
<1>7. Walks(s, Places) /\ ToSet(s) = {HeadCell(b)}
  BY <1>2, CellsApart, OneStep
<1>8. Apart(s, t)
  BY <1>2, <1>5, <1>7, CellFields DEF Apart
<1>9. Cells(b) = s \o t
  BY DEF Cells, n
<1> HIDE DEF s, t
<1>10. Walks(s \o t, Places) /\ \A c : c \in ToSet(s \o t) <=> c \in ToSet(s) \/ c \in ToSet(t)
  BY <1>5, <1>7, <1>8, JoinedWalk
<1>11. \A c : c \in ToSet(Cells(b)) <=> c = HeadCell(b) \/ c \in ToSet(t)
  BY <1>7, <1>9, <1>10
<1>12. \A i : PoolCell(i) # HeadCell(b)
  BY CellFields
<1>13. \A i \in 0 .. cur_index - 1 : i \in Met(b) <=> PoolCell(i) \in ToSet(t)
  BY <1>11, <1>12 DEF Met
<1>14. \A i, j : PoolCell(i) = PoolCell(j) => i = j
  BY CellFields
<1>15. Met(b) \subseteq S
  BY <1>6, <1>11, <1>12, <1>14 DEF Met
<1>16. OneEach(first_level_node, node_pool, b, Met(b))
  BY <1>1, <1>15 DEF OneEach
<1>17. \A j \in S : PoolCell(j) \in ToSet(t) => j \in Met(b)
  BY <1>13
<1>18. Closed(first_level_node, node_pool, b, Met(b))
  <2>1. n \in Met(b) \cup {BadNode}
    BY <1>3, <1>5, <1>17
  <2>2. ASSUME NEW i \in Met(b) PROVE node_pool[i].next \in Met(b) \cup {BadNode}
    <3>1. i \in S /\ PoolCell(i) \in ToSet(t)
      BY <1>13, <1>15, <2>2 DEF Met
    <3>2. node_pool[i].next # BadNode => PoolCell(node_pool[i].next) \in ToSet(t)
      BY <1>5, <1>14, <3>1
    <3>3. node_pool[i].next \in S \cup {BadNode}
      BY <1>3, <3>1
    <3> QED
      BY <1>17, <3>2, <3>3
  <2> QED
    BY <2>1, <2>2 DEF Closed, n
<1>19. \A c \in ToSet(t) : \E i \in Met(b) : c = PoolCell(i)
  BY <1>5, <1>13
<1> QED
  BY <1>9, <1>10, <1>11, <1>16, <1>18, <1>19

\* A node that is emptied, lost or given other data: links and keys go, none is new.
Weaker(head, pool, h, p) ==
  /\ DOMAIN p = DOMAIN pool /\ p \in [DOMAIN pool -> AnyNodes] /\ h \in [Buckets -> AnyNodes]
  /\ \A i \in DOMAIN pool : p[i].next \in {pool[i].next, BadNode}
  /\ \A i \in DOMAIN pool : p[i].key = pool[i].key \/ p[i].key \notin Keys
  /\ \A b \in Buckets : h[b].next = head[b].next
  /\ \A b \in Buckets : h[b].key = head[b].key \/ h[b].key \notin Keys

LEMMA WeakerForms ==
  ASSUME NEW head, NEW pool, NEW cur, NEW h, NEW p, Weaker(head, pool, h, p), Formed(head, pool, cur)
  PROVE  Formed(h, p, cur)
<1>1. PICK m \in Nat : cur <= m /\ pool \in [0 .. m - 1 -> AnyNodes] /\ cur \in Nat
  BY DEF Formed
<1>2. DOMAIN pool = 0 .. m - 1 /\ p \in [0 .. m - 1 -> AnyNodes] /\ DOMAIN p = 0 .. m - 1
  BY <1>1 DEF Weaker
<1>3. \A i \in DOMAIN p : p[i].next \in BadNode .. i - 1
  <2>1. ASSUME NEW i \in DOMAIN p PROVE p[i].next \in BadNode .. i - 1
    <3>1. p[i].next \in {pool[i].next, BadNode} /\ pool[i].next \in BadNode .. i - 1 /\ i \in Nat
      BY <1>2, <2>1 DEF Weaker, Formed
    <3> QED
      BY <3>1 DEF BadNode
  <2> QED
    BY <2>1
<1>4. h \in [Buckets -> AnyNodes]
  BY DEF Weaker
<1> QED
  BY <1>1, <1>2, <1>3, <1>4 DEF Formed

LEMMA WeakerBucket ==
  ASSUME NEW head, NEW pool, NEW cur, NEW h, NEW p, Weaker(head, pool, h, p), Formed(head, pool, cur),
         NEW b \in Buckets, Bucket(head, pool, cur, b)
  PROVE  Bucket(h, p, cur, b)
<1>1. PICK S \in SUBSET (0 .. cur - 1) : Closed(head, pool, b, S) /\ OneEach(head, pool, b, S)
  BY DEF Bucket
<1>2. S \subseteq DOMAIN pool
  BY FormedSays
<1>3. Closed(h, p, b, S)
  BY <1>1, <1>2 DEF Closed, Weaker
<1>4. OneEach(h, p, b, S)
  BY <1>1, <1>2 DEF OneEach, Weaker
<1> QED
  BY <1>3, <1>4 DEF Bucket

LEMMA WeakerUsed ==
  ASSUME NEW head, NEW pool, NEW cur, NEW h, NEW p, Weaker(head, pool, h, p), Formed(head, pool, cur)
  PROVE  Used(h, p, cur) \subseteq Used(head, pool, cur)
<1>1. ASSUME NEW c \in AllCells(cur), At(h, p, c).key \in Keys PROVE At(head, pool, c).key \in Keys
  <2>1. \/ c.pool = FALSE /\ c.at \in Buckets
        \/ c.pool = TRUE /\ c.at \in DOMAIN pool
    BY FormedSays, CellsWithin
  <2> QED
    BY <1>1, <2>1 DEF At, Weaker
<1> QED
  BY <1>1 DEF Used

\* With cells gone from those in use, and as many taken from the count, it stays a table.
LEMMA WeakerIsLoose ==
  ASSUME NEW head, NEW pool, NEW cur, NEW num, NEW h, NEW p, Weaker(head, pool, h, p),
         Loose(head, pool, cur, num), NEW gone, NEW n \in Nat,
         gone \subseteq Used(head, pool, cur), IsFiniteSet(gone), Cardinality(gone) = n,
         \A c \in gone : At(h, p, c).key \notin Keys
  PROVE  Loose(h, p, cur, num - n)
<1>1. Formed(head, pool, cur) /\ \A b \in Buckets : Bucket(head, pool, cur, b)
  BY DEF Loose
<1>2. IsFiniteSet(Used(head, pool, cur)) /\ num \in Int /\ Cardinality(Used(head, pool, cur)) <= num
  BY DEF Loose, UsedCounted
<1> DEFINE U == Used(head, pool, cur)
           V == Used(h, p, cur)
<1>3. V \subseteq U
  BY <1>1, WeakerUsed
<1>4. V \subseteq U \ gone
  BY <1>3 DEF Used
<1> HIDE DEF U, V
<1>5. IsFiniteSet(U) /\ Cardinality(U) <= num /\ gone \subseteq U
  BY <1>2 DEF U
<1>6. U \cap gone = gone
  BY <1>5
<1>7. IsFiniteSet(U \ gone) /\ Cardinality(U \ gone) = Cardinality(U) - n
  BY <1>5, <1>6, FS_Difference
<1>8. IsFiniteSet(V) /\ Cardinality(V) <= Cardinality(U \ gone)
  BY <1>4, <1>7, FS_Subset
<1>9. Cardinality(U) \in Nat /\ Cardinality(V) \in Nat
  BY <1>5, <1>8, FS_CardinalityType
<1>10. Cardinality(V) <= num - n
  BY <1>2, <1>5, <1>7, <1>8, <1>9
<1>11. UsedCounted(h, p, cur, num - n)
  BY <1>2, <1>8, <1>10 DEF UsedCounted, V
<1> QED
  BY <1>1, <1>11, WeakerForms, WeakerBucket DEF Loose

LEMMA WeakerStays ==
  ASSUME NEW head, NEW pool, NEW cur, NEW num, NEW h, NEW p, Weaker(head, pool, h, p),
         Loose(head, pool, cur, num)
  PROVE  Loose(h, p, cur, num)
<1>1. Loose(h, p, cur, num - 0)
  <2>1. {} \subseteq Used(head, pool, cur) /\ IsFiniteSet({}) /\ Cardinality({}) = 0 /\ 0 \in Nat
    BY FS_EmptySet
  <2> QED
    BY <2>1, WeakerIsLoose
<1>2. num \in Int
  BY DEF Loose, UsedCounted
<1> QED
  BY <1>1, <1>2

\* One cell more in use, counted.
LEMMA OneMoreUsed ==
  ASSUME NEW head, NEW pool, NEW cur, NEW num, UsedCounted(head, pool, cur, num),
         NEW h, NEW p, NEW m, NEW x, Used(h, p, m) \subseteq Used(head, pool, cur) \cup {x}
  PROVE  UsedCounted(h, p, m, num + 1)
<1> DEFINE U == Used(head, pool, cur)
           V == Used(h, p, m)
<1>1. IsFiniteSet(U) /\ num \in Int /\ Cardinality(U) <= num /\ V \subseteq U \cup {x}
  BY DEF UsedCounted
<1> HIDE DEF U, V
<1>2. IsFiniteSet(U \cup {x}) /\ Cardinality(U) \in Nat /\ Cardinality(U \cup {x}) \in Nat
      /\ Cardinality(U \cup {x}) <= Cardinality(U) + 1
  <2>1. IsFiniteSet(U \cup {x})
        /\ Cardinality(U \cup {x}) = IF x \in U THEN Cardinality(U) ELSE Cardinality(U) + 1
    BY <1>1, FS_AddElement
  <2>2. Cardinality(U) \in Nat
    BY <1>1, FS_CardinalityType
  <2> QED
    BY <2>1, <2>2
<1>3. IsFiniteSet(V) /\ Cardinality(V) <= Cardinality(U \cup {x})
  BY <1>1, <1>2, FS_Subset
<1>4. Cardinality(V) \in Nat
  BY <1>3, FS_CardinalityType
<1> QED
  BY <1>1, <1>2, <1>3, <1>4 DEF UsedCounted, V

LEMMA LooseFirst ==
  ASSUME LooseNow, NEW b \in Buckets, NEW k \in Keys, NEW d \in Data,
         NEW h, h = [first_level_node EXCEPT ![b] = Node(k, d, BadNode)]
  PROVE  Loose(h, node_pool, cur_index, node_num + 1)
<1>1. Formed(first_level_node, node_pool, cur_index)
  BY DEF LooseNow, Loose
<1>2. h \in [Buckets -> AnyNodes] /\ h[b] = Node(k, d, BadNode)
      /\ \A x \in Buckets \ {b} : h[x] = first_level_node[x]
  <2>1. Node(k, d, BadNode) \in AnyNodes
    BY DEF Node, AnyNodes, BadNode
  <2> QED
    BY <1>1, <2>1 DEF Formed
<1>3. Formed(h, node_pool, cur_index)
  BY <1>1, <1>2 DEF Formed
<1>4. ASSUME NEW x \in Buckets PROVE Bucket(h, node_pool, cur_index, x)
  <2>1. CASE x = b
    <3>1. Closed(h, node_pool, b, {}) /\ OneEach(h, node_pool, b, {})
      BY <1>2 DEF Closed, OneEach, Node
    <3> QED
      BY <2>1, <3>1 DEF Bucket
  <2>2. CASE x # b
    <3>1. PICK S \in SUBSET (0 .. cur_index - 1) :
            Closed(first_level_node, node_pool, x, S) /\ OneEach(first_level_node, node_pool, x, S)
      BY DEF LooseNow, Loose, Bucket
    <3>2. Closed(h, node_pool, x, S) /\ OneEach(h, node_pool, x, S)
      BY <1>2, <2>2, <3>1 DEF Closed, OneEach
    <3> QED
      BY <3>2 DEF Bucket
  <2> QED
    BY <2>1, <2>2
<1>5. Used(h, node_pool, cur_index) \subseteq Used(first_level_node, node_pool, cur_index) \cup {HeadCell(b)}
  <2>1. ASSUME NEW c \in AllCells(cur_index), At(h, node_pool, c).key \in Keys, c # HeadCell(b)
        PROVE  At(first_level_node, node_pool, c).key \in Keys
    <3>1. \/ c.pool = FALSE /\ c.at \in Buckets /\ c = HeadCell(c.at)
          \/ c.pool = TRUE
      BY <1>1, FormedSays, CellsWithin
    <3> QED
      BY <1>2, <2>1, <3>1 DEF At
  <2> QED
    BY <2>1 DEF Used
<1>6. UsedCounted(h, node_pool, cur_index, node_num + 1)
  <2>1. UsedCounted(first_level_node, node_pool, cur_index, node_num)
    BY DEF LooseNow, Loose
  <2> QED
    BY <1>5, <2>1, OneMoreUsed
<1> QED
  BY <1>3, <1>4, <1>6 DEF Loose

LEMMA RoomForOne ==
  ASSUME Formed(first_level_node, node_pool, cur_index)
  PROVE  \E m \in Nat : /\ cur_index < m /\ Room \in [0 .. m - 1 -> AnyNodes]
                        /\ \A i \in 0 .. m - 1 : Room[i].next \in BadNode .. i - 1
                        /\ \A i \in 0 .. cur_index - 1 : i \in DOMAIN node_pool /\ Room[i] = node_pool[i]
<1>1. PICK m \in Nat : cur_index <= m /\ node_pool \in [0 .. m - 1 -> AnyNodes] /\ cur_index \in Nat
  BY DEF Formed
<1>2. DOMAIN node_pool = 0 .. m - 1 /\ Cardinality(DOMAIN node_pool) = m
  BY <1>1, FS_Interval
<1>3. \A i \in DOMAIN node_pool : node_pool[i].next \in BadNode .. i - 1
  BY DEF Formed
<1>4. CASE cur_index < m
  <2>1. Room = node_pool
    BY <1>2, <1>4 DEF Room
  <2>2. \A i \in 0 .. cur_index - 1 : i \in DOMAIN node_pool /\ Room[i] = node_pool[i]
    BY <1>1, <1>2, <2>1
  <2>3. Room \in [0 .. m - 1 -> AnyNodes] /\ \A i \in 0 .. m - 1 : Room[i].next \in BadNode .. i - 1
    BY <1>1, <1>2, <1>3, <2>1
  <2> QED
    BY <1>4, <2>2, <2>3
<1>5. CASE ~(cur_index < m)
  <2>0. PICK l \in Nat : l = cur_index + ReallocNum /\ cur_index < l
    BY <1>1, DictAssumption
  <2>1. cur_index = m /\ l - 1 = cur_index + ReallocNum - 1
    BY <1>1, <1>5, <2>0, DictAssumption
  <2>2. Room = [i \in 0 .. l - 1 |-> IF i < cur_index THEN node_pool[i] ELSE EmptyNode]
    BY <1>2, <1>5, <2>1 DEF Room
  <2>3. EmptyNode \in AnyNodes /\ EmptyNode.next = BadNode
    BY DEF EmptyNode, Node, AnyNodes, BadNode
  <2>4. \A i \in 0 .. l - 1 : i < cur_index => i \in 0 .. m - 1 /\ node_pool[i] \in AnyNodes
    BY <1>1, <2>1
  <2>5. Room \in [0 .. l - 1 -> AnyNodes]
    BY <2>2, <2>3, <2>4
  <2>6. \A i \in 0 .. l - 1 : Room[i] = IF i < cur_index THEN node_pool[i] ELSE EmptyNode
    BY <2>2
  <2>7. \A i \in 0 .. cur_index - 1 : i \in DOMAIN node_pool /\ i < cur_index /\ i \in 0 .. l - 1
    BY <1>2, <2>0, <2>1
  <2>8. \A i \in 0 .. cur_index - 1 : i \in DOMAIN node_pool /\ Room[i] = node_pool[i]
    BY <2>6, <2>7
  <2>9. ASSUME NEW i \in 0 .. l - 1 PROVE Room[i].next \in BadNode .. i - 1
    <3>1. CASE i < cur_index
      BY <1>2, <1>3, <2>4, <2>6, <3>1
    <3>2. CASE ~(i < cur_index)
      BY <2>3, <2>6, <3>2 DEF BadNode
    <3> QED
      BY <3>1, <3>2
  <2> QED
    BY <2>0, <2>5, <2>8, <2>9
<1> QED
  BY <1>4, <1>5

LEMMA LooseChained ==
  ASSUME LooseNow, NEW b \in Buckets, NEW k \in Keys, NEW d \in Data,
         \A c \in ToSet(Cells(b)) : NodeAt(c).key # k,
         NEW h, h = [first_level_node EXCEPT ![b].next = cur_index],
         NEW p, p = [Room EXCEPT ![cur_index] = Node(k, d, first_level_node[b].next)]
  PROVE  Loose(h, p, cur_index + 1, node_num + 1)
<1>1. Formed(first_level_node, node_pool, cur_index) /\ cur_index \in Nat
  BY DEF LooseNow, Loose, Formed
<1>2. PICK m \in Nat : /\ cur_index < m /\ Room \in [0 .. m - 1 -> AnyNodes]
                       /\ \A i \in 0 .. m - 1 : Room[i].next \in BadNode .. i - 1
                       /\ \A i \in 0 .. cur_index - 1 : i \in DOMAIN node_pool /\ Room[i] = node_pool[i]
  BY <1>1, RoomForOne
<1>3. PICK n \in BadNode .. cur_index - 1 : n = first_level_node[b].next
  <2>1. PICK S \in SUBSET (0 .. cur_index - 1) : Closed(first_level_node, node_pool, b, S)
    BY DEF LooseNow, Loose, Bucket
  <2>2. first_level_node[b].next \in BadNode .. cur_index - 1
    <3>1. \A i \in S : i \in BadNode .. cur_index - 1
      BY DEF BadNode
    <3>2. BadNode \in BadNode .. cur_index - 1
      BY <1>1 DEF BadNode
    <3> QED
      BY <2>1, <3>1, <3>2 DEF Closed
  <2> QED
    BY <2>2
<1>4. Node(k, d, n) \in AnyNodes
  BY <1>3 DEF Node, AnyNodes, BadNode
<1>5. /\ p \in [0 .. m - 1 -> AnyNodes] /\ DOMAIN p = 0 .. m - 1
      /\ p[cur_index] = Node(k, d, n) /\ \A i \in 0 .. m - 1 : i # cur_index => p[i] = Room[i]
  <2>1. cur_index \in 0 .. m - 1
    BY <1>1, <1>2
  <2>2. p = [Room EXCEPT ![cur_index] = Node(k, d, n)]
    BY <1>3
  <2> QED
    BY <1>2, <1>4, <2>1, <2>2
<1>6. /\ h \in [Buckets -> AnyNodes]
      /\ h[b].next = cur_index /\ h[b].key = first_level_node[b].key
      /\ \A x \in Buckets \ {b} : h[x] = first_level_node[x]
  <2>1. first_level_node \in [Buckets -> AnyNodes]
    BY <1>1 DEF Formed
  <2>2. h[b] = [first_level_node[b] EXCEPT !.next = cur_index] /\ first_level_node[b] \in AnyNodes
        /\ DOMAIN h = Buckets /\ h = [x \in Buckets |-> h[x]]
    BY <2>1
  <2>3. h[b] \in AnyNodes /\ h[b].next = cur_index /\ h[b].key = first_level_node[b].key
    BY <1>1, <2>2 DEF AnyNodes
  <2>4. \A x \in Buckets \ {b} : h[x] = first_level_node[x]
    BY <2>1
  <2> QED
    BY <2>1, <2>2, <2>3, <2>4
<1>7. \A i \in 0 .. cur_index - 1 : i \in DOMAIN node_pool /\ i \in 0 .. m - 1 /\ p[i] = node_pool[i]
  BY <1>1, <1>2, <1>5
<1>8. Formed(h, p, cur_index + 1)
  <2>1. \A i \in DOMAIN p : p[i].next \in BadNode .. i - 1
    <3>1. p[cur_index].next = n
      BY <1>5 DEF Node
    <3> QED
      BY <1>2, <1>3, <1>5, <3>1
  <2>2. cur_index + 1 \in Nat /\ cur_index + 1 <= m
    BY <1>1, <1>2
  <2> QED
    BY <1>5, <1>6, <2>1, <2>2 DEF Formed
<1>9. ASSUME NEW x \in Buckets, x # b PROVE Bucket(h, p, cur_index + 1, x)
  <2>1. PICK S \in SUBSET (0 .. cur_index - 1) :
          Closed(first_level_node, node_pool, x, S) /\ OneEach(first_level_node, node_pool, x, S)
    BY DEF LooseNow, Loose, Bucket
  <2>2. S \in SUBSET (0 .. (cur_index + 1) - 1) /\ \A i \in S : p[i] = node_pool[i]
    BY <1>1, <1>7
  <2>3. Closed(h, p, x, S) /\ OneEach(h, p, x, S)
    BY <1>6, <1>9, <2>1, <2>2 DEF Closed, OneEach
  <2> QED
    BY <2>2, <2>3 DEF Bucket
<1>10. Bucket(h, p, cur_index + 1, b)
  <2>1. /\ Closed(first_level_node, node_pool, b, Met(b)) /\ OneEach(first_level_node, node_pool, b, Met(b))
        /\ HeadCell(b) \in ToSet(Cells(b))
    BY CellsMet
  <2>2. PICK S \in SUBSET (0 .. cur_index - 1) : S = Met(b)
    BY DEF Met
  <2>3. \A i \in S : PoolCell(i) \in ToSet(Cells(b)) /\ p[i] = node_pool[i] /\ i # cur_index
    BY <1>1, <1>7, <2>2 DEF Met
  <2>4. \A i \in S : p[i].key # k
    <3>1. \A i : NodeAt(PoolCell(i)) = node_pool[i]
      BY CellFields DEF NodeAt
    <3> QED
      BY <2>3, <3>1
  <2>5. h[b].key # k
    <3>1. NodeAt(HeadCell(b)) = first_level_node[b]
      BY CellFields DEF NodeAt
    <3> QED
      BY <1>6, <2>1, <3>1
  <2>6. p[cur_index].key = k /\ p[cur_index].next = n
    BY <1>5 DEF Node
  <2> DEFINE R == S \cup {cur_index}
  <2>7. R \in SUBSET (0 .. (cur_index + 1) - 1)
    BY <1>1
  <2>8. Closed(h, p, b, R)
    <3>1. n \in S \cup {BadNode}
      BY <1>3, <2>1, <2>2 DEF Closed
    <3>2. \A i \in S : p[i].next \in S \cup {BadNode}
      BY <2>1, <2>2, <2>3 DEF Closed
    <3> QED
      BY <1>6, <2>6, <3>1, <3>2 DEF Closed
  <2>9. OneEach(h, p, b, R)
    <3>1. \A i \in S : p[i].key \in Keys => p[i].key # h[b].key
      BY <1>6, <2>1, <2>2, <2>3 DEF OneEach
    <3>2. \A i, j \in S : p[i].key \in Keys /\ p[i].key = p[j].key => i = j
      BY <2>1, <2>2, <2>3 DEF OneEach
    <3> QED
      BY <2>4, <2>5, <2>6, <3>1, <3>2 DEF OneEach
  <2> QED
    BY <2>7, <2>8, <2>9 DEF Bucket
<1>11. Used(h, p, cur_index + 1) \subseteq Used(first_level_node, node_pool, cur_index) \cup {PoolCell(cur_index)}
  <2>1. ASSUME NEW c \in AllCells(cur_index + 1), At(h, p, c).key \in Keys, c # PoolCell(cur_index)
        PROVE  c \in AllCells(cur_index) /\ At(first_level_node, node_pool, c).key \in Keys
    <3>1. CASE c.pool = FALSE /\ c.at \in Buckets /\ c = HeadCell(c.at)
      <4>1. h[c.at].key = first_level_node[c.at].key
        BY <1>6, <3>1
      <4> QED
        BY <2>1, <3>1, <4>1 DEF At, AllCells
    <3>2. CASE c.pool = TRUE /\ c.at \in 0 .. (cur_index + 1) - 1 /\ c = PoolCell(c.at)
      <4>1. c.at \in 0 .. cur_index - 1
        BY <1>1, <2>1, <3>2
      <4> QED
        BY <1>7, <2>1, <3>2, <4>1 DEF At, AllCells
    <3>3. cur_index + 1 \in Nat
      BY <1>1
    <3> QED
      BY <3>1, <3>2, <3>3, CellsWithin
  <2> QED
    BY <2>1 DEF Used
<1>12. UsedCounted(h, p, cur_index + 1, node_num + 1)
  <2>1. UsedCounted(first_level_node, node_pool, cur_index, node_num)
    BY DEF LooseNow, Loose
  <2> QED
    BY <1>11, <2>1, OneMoreUsed
<1> QED
  BY <1>8, <1>9, <1>10, <1>12 DEF Loose

-----------------------------------------------------------------------------
(* Every call keeps it.                                                     *)

LEMMA LooseStays == ASSUME LooseInv, UNCHANGED <<table, file>> PROVE LooseInv'
BY DEF LooseInv, LooseNow, LooseList, LooseFile, table

LEMMA HashIsBucket == ASSUME NEW k \in Keys PROVE Hash(k) \in Buckets
BY DictAssumption DEF Hash

\* An insertion: of a key that the bucket does not hold, if the bucket is in use.
LEMMA LooseInsert ==
  ASSUME LooseInv, NEW op, NEW k \in Keys, NEW d \in Data, Insert(op, k, d),
         first_level_node[Hash(k)].key # NoKey => \A c \in ToSet(Cells(Hash(k))) : NodeAt(c).key # k
  PROVE  LooseInv'
<1>0. PICK b \in Buckets : b = Hash(k)
  BY HashIsBucket
<1>1. LooseNow /\ LooseList /\ LooseFile
  BY DEF LooseInv
<1>2. CASE Crash("overrun")
  BY <1>2, LooseStays DEF Crash
<1>3. CASE LosePool(Call(op, k, d))
  <2>1. /\ node_pool' = [i \in DOMAIN node_pool |-> [EmptyNode EXCEPT !.key = Lost]]
        /\ UNCHANGED <<first_level_node, cur_index, node_num, clear_nodes, file>>
    BY <1>3 DEF LosePool
  <2>2. Formed(first_level_node, node_pool, cur_index)
    BY <1>1 DEF LooseNow, Loose
  <2>3. /\ [EmptyNode EXCEPT !.key = Lost] \in AnyNodes /\ [EmptyNode EXCEPT !.key = Lost].next = BadNode
        /\ [EmptyNode EXCEPT !.key = Lost].key \notin Keys
    BY DictAssumption DEF EmptyNode, Node, AnyNodes, BadNode
  <2>4. Weaker(first_level_node, node_pool, first_level_node, node_pool')
    BY <2>1, <2>2, <2>3 DEF Weaker, Formed
  <2>5. Loose(first_level_node, node_pool', cur_index, node_num)
    BY <1>1, <2>4, WeakerStays DEF LooseNow
  <2> QED
    BY <1>1, <2>1, <2>5 DEF LooseInv, LooseNow, LooseList, LooseFile
<1>4. CASE /\ \/ first_level_node[b].key = NoKey /\ InsertFirst(b, k, d)
              \/ first_level_node[b].key # NoKey /\ InsertChained(b, k, d)
           /\ node_num' = node_num + 1 /\ file' = file
  <2>1. CASE first_level_node[b].key = NoKey /\ InsertFirst(b, k, d)
    <3>1. /\ first_level_node' = [first_level_node EXCEPT ![b] = Node(k, d, BadNode)]
          /\ clear_nodes' = IF clear_nodes = NoFile THEN NoFile ELSE Append(clear_nodes, b)
          /\ node_pool' = node_pool /\ cur_index' = cur_index
      BY <2>1 DEF InsertFirst
    <3>2. Loose(first_level_node', node_pool, cur_index, node_num + 1)
      BY <1>1, <3>1, LooseFirst
    <3>3. LooseList'
      BY <1>1, <3>1 DEF LooseList
    <3> QED
      BY <1>1, <1>4, <3>1, <3>2, <3>3 DEF LooseInv, LooseNow, LooseFile
  <2>2. CASE first_level_node[b].key # NoKey /\ InsertChained(b, k, d)
    <3>1. /\ first_level_node' = [first_level_node EXCEPT ![b].next = cur_index]
          /\ node_pool' = [Room EXCEPT ![cur_index] = Node(k, d, first_level_node[b].next)]
          /\ clear_nodes' = clear_nodes /\ cur_index' = cur_index + 1
      BY <2>2 DEF InsertChained
    <3>2. \A c \in ToSet(Cells(b)) : NodeAt(c).key # k
      BY <1>0, <2>2
    <3>3. Loose(first_level_node', node_pool', cur_index + 1, node_num + 1)
      BY <1>1, <3>1, <3>2, LooseChained
    <3> QED
      BY <1>1, <1>4, <3>1, <3>3 DEF LooseInv, LooseNow, LooseList, LooseFile
  <2> QED
    BY <1>4, <2>1, <2>2
<1> QED
  BY <1>0, <1>2, <1>3, <1>4 DEF Insert

LEMMA HitMisses ==
  ASSUME LooseNow, NEW b \in Buckets, NEW k
  PROVE  /\ Hit(k, Cells(b)) = 0 => \A c \in ToSet(Cells(b)) : NodeAt(c).key # k
         /\ Hit(k, Cells(b)) # 0 => /\ Hit(k, Cells(b)) \in DOMAIN Cells(b)
                                    /\ Cells(b)[Hit(k, Cells(b))] \in ToSet(Cells(b))
                                    /\ NodeAt(Cells(b)[Hit(k, Cells(b))]).key = k
<1>1. PICK w \in Seq(Places) : w = Cells(b)
  BY CellsMet DEF Walks
<1>2. /\ Hit(k, w) = 0 => \A i \in DOMAIN w : NodeAt(w[i]).key # k
      /\ Hit(k, w) # 0 => Hit(k, w) \in DOMAIN w /\ NodeAt(w[Hit(k, w)]).key = k
  BY HitIs
<1>3. \A c \in ToSet(w) : \E i \in DOMAIN w : c = w[i]
  BY DEF ToSet
<1>4. \A i \in DOMAIN w : w[i] \in ToSet(w)
  BY DEF ToSet
<1> QED
  BY <1>1, <1>2, <1>3, <1>4

LEMMA LooseAdd ==
  ASSUME LooseInv, NEW k \in Keys, NEW d \in Data, st_dict_add(k, d) \/ st_dict_add_no_seek(k, d)
  PROVE  LooseInv'
<1>1. CASE UNCHANGED <<table, file>>
  BY <1>1, LooseStays
<1>2. CASE Hit(k, Sought(k)) = 0 /\ Insert("add", k, d)
  <2>1. PICK b \in Buckets : b = Hash(k)
    BY HashIsBucket
  <2>2. first_level_node[b].key # NoKey => \A c \in ToSet(Cells(b)) : NodeAt(c).key # k
    BY <1>2, <2>1, HitMisses DEF Sought, LooseInv
  <2> QED
    BY <1>2, <2>1, <2>2, LooseInsert
<1> QED
  BY <1>1, <1>2 DEF st_dict_add, st_dict_add_no_seek, Crash, Fail

\* The data of a node in use, set.
LEMMA LooseSet ==
  ASSUME LooseNow, NEW d \in Data
  PROVE  /\ \A b \in Buckets :
              Weaker(first_level_node, node_pool, [first_level_node EXCEPT ![b].data = d], node_pool)
         /\ \A i \in DOMAIN node_pool :
              Weaker(first_level_node, node_pool, first_level_node, [node_pool EXCEPT ![i].data = d])
<1>1. Formed(first_level_node, node_pool, cur_index)
  BY DEF LooseNow, Loose
<1>2. /\ first_level_node \in [Buckets -> AnyNodes]
      /\ node_pool \in [DOMAIN node_pool -> AnyNodes]
  BY <1>1 DEF Formed
<1>3. \A n \in AnyNodes : /\ [n EXCEPT !.data = d] \in AnyNodes
                          /\ [n EXCEPT !.data = d].next = n.next /\ [n EXCEPT !.data = d].key = n.key
  BY DEF AnyNodes
<1>4. ASSUME NEW b \in Buckets
      PROVE  Weaker(first_level_node, node_pool, [first_level_node EXCEPT ![b].data = d], node_pool)
  <2>1. PICK h : h = [first_level_node EXCEPT ![b].data = d]
    OBVIOUS
  <2>2. h = [x \in Buckets |-> IF x = b THEN [first_level_node[b] EXCEPT !.data = d] ELSE first_level_node[x]]
    BY <1>2, <2>1
  <2>3. \A x \in Buckets : h[x] \in AnyNodes /\ h[x].next = first_level_node[x].next
                           /\ h[x].key = first_level_node[x].key
    BY <1>2, <1>3, <2>2
  <2>4. h \in [Buckets -> AnyNodes]
    BY <2>2, <2>3
  <2>5. Weaker(first_level_node, node_pool, h, node_pool)
    BY <1>2, <2>3, <2>4 DEF Weaker
  <2> QED
    BY <2>1, <2>5
<1>5. ASSUME NEW i \in DOMAIN node_pool
      PROVE  Weaker(first_level_node, node_pool, first_level_node, [node_pool EXCEPT ![i].data = d])
  <2>1. PICK p : p = [node_pool EXCEPT ![i].data = d]
    OBVIOUS
  <2>2. p = [x \in DOMAIN node_pool |-> IF x = i THEN [node_pool[i] EXCEPT !.data = d] ELSE node_pool[x]]
    BY <2>1
  <2>3. \A x \in DOMAIN node_pool : p[x] \in AnyNodes /\ p[x].next = node_pool[x].next
                                    /\ p[x].key = node_pool[x].key
    BY <1>2, <1>3, <2>2
  <2>4. p \in [DOMAIN node_pool -> AnyNodes] /\ DOMAIN p = DOMAIN node_pool
    BY <2>2, <2>3
  <2>5. Weaker(first_level_node, node_pool, first_level_node, p)
    BY <1>2, <2>3, <2>4 DEF Weaker
  <2> QED
    BY <2>1, <2>5
<1> QED
  BY <1>4, <1>5

LEMMA LooseUpdate ==
  ASSUME LooseInv, NEW k \in Keys, NEW d \in Data, st_dict_update(k, d)
  PROVE  LooseInv'
<1>0. PICK b \in Buckets : b = Hash(k)
  BY HashIsBucket
<1>1. LooseNow /\ LooseList /\ LooseFile
  BY DEF LooseInv
<1> DEFINE cells == Cells(b)
           c == cells[Hit(k, cells)]
<1>2. CASE UNCHANGED <<table, file>>
  BY <1>2, LooseStays
<1>3. CASE Hit(k, cells) = 0 /\ Insert("update", k, d)
  <2>1. \A x \in ToSet(Cells(b)) : NodeAt(x).key # k
    BY <1>1, <1>3, HitMisses
  <2> QED
    BY <1>0, <1>3, <2>1, LooseInsert
<1>4. CASE /\ Hit(k, cells) # 0
           /\ IF c.pool
              THEN /\ node_pool' = [node_pool EXCEPT ![c.at].data = d]
                   /\ UNCHANGED first_level_node
              ELSE /\ first_level_node' = [first_level_node EXCEPT ![c.at].data = d]
                   /\ UNCHANGED node_pool
           /\ UNCHANGED <<cur_index, node_num, hash_func, clear_nodes, file, fault>>
  <2>1. c \in ToSet(Cells(b))
    BY <1>1, <1>4, HitMisses
  <2>2. PICK x : x = c
    OBVIOUS
  <2>3. x = HeadCell(b) \/ \E i \in Met(b) : x = PoolCell(i)
    BY <1>1, <2>1, <2>2, CellsMet
  <2>4. Weaker(first_level_node, node_pool, first_level_node', node_pool')
    <3>1. CASE x = HeadCell(b)
      BY <1>1, <1>4, <2>2, <3>1, CellFields, LooseSet
    <3>2. CASE \E i \in Met(b) : x = PoolCell(i)
      <4>1. PICK i \in Met(b) : x = PoolCell(i)
        BY <3>2
      <4>2. i \in DOMAIN node_pool
        BY <1>1, <4>1, FormedSays DEF Met, LooseNow, Loose
      <4> QED
        BY <1>1, <1>4, <2>2, <4>1, <4>2, CellFields, LooseSet
    <3> QED
      BY <2>3, <3>1, <3>2
  <2>5. Loose(first_level_node', node_pool', cur_index, node_num)
    BY <1>1, <2>4, WeakerStays DEF LooseNow
  <2> QED
    BY <1>1, <1>4, <2>5 DEF LooseInv, LooseNow, LooseList, LooseFile
<1> QED
  BY <1>0, <1>2, <1>3, <1>4 DEF st_dict_update, Crash, Fail

\* Sequences laid end to end hold nothing new.
LEMMA FlatIn ==
  ASSUME NEW S, NEW n \in Nat, NEW seqs \in [1 .. n -> Seq(S)]
  PROVE  FlattenSeq(seqs) \in Seq(S)
<1>1. Len(seqs) = n /\ DOMAIN seqs = 1 .. n
  OBVIOUS
<1>2. CASE n = 0
  <2>1. FlattenSeq(seqs) = seqs
    BY <1>1, <1>2 DEF FlattenSeq
  <2>2. seqs = << >>
    BY <1>2
  <2> QED
    BY <2>1, <2>2
<1>3. CASE n # 0
  <2> DEFINE flatten == CHOOSE f : Flattens(f, seqs, n)
  <2>1. n \in 1 .. n
    BY <1>3
  <2>2. flatten = [i \in 1 .. n |-> IF i = 1 THEN seqs[i] ELSE flatten[i - 1] \o seqs[i]]
    <3>1. \E f : Flattens(f, seqs, n)
      BY <2>1, FlatExists
    <3>2. Flattens(flatten, seqs, n)
      BY <3>1, Zenon
    <3> QED
      BY <3>2 DEF Flattens
  <2>3. FlattenSeq(seqs) = flatten[n]
    BY <1>1, <1>3 DEF FlattenSeq, Flattens
  <2> HIDE DEF flatten
  <2> DEFINE T == {m \in 1 .. n : flatten[m] \notin Seq(S)}
  <2>4. T = {}
    <3>1. SUFFICES ASSUME T # {} PROVE FALSE
      OBVIOUS
    <3>2. PICK x : x \in T /\ \A m \in T : x <= m
      <4>1. T \subseteq Nat
        OBVIOUS
      <4> HIDE DEF T
      <4> QED
        BY <3>1, <4>1, LeastOf
    <3>3. seqs[x] \in Seq(S)
      BY <3>2
    <3>4. CASE x = 1
      BY <2>2, <3>2, <3>3, <3>4
    <3>5. CASE x # 1
      <4>1. x - 1 \in 1 .. n /\ ~(x <= x - 1) /\ x \in 1 .. n
        BY <3>2, <3>5
      <4>2. flatten[x - 1] \in Seq(S)
        BY <3>2, <4>1
      <4>3. flatten[x] = flatten[x - 1] \o seqs[x]
        BY <2>2, <3>5, <4>1
      <4>4. flatten[x] \in Seq(S)
        BY <3>3, <4>2, <4>3
      <4> QED
        BY <3>2, <4>4
    <3> QED
      BY <3>4, <3>5
  <2> QED
    BY <2>1, <2>3, <2>4
<1> QED
  BY <1>2, <1>3

\* As many cells as are met, none twice.
LEMMA CellsDone ==
  ASSUME NEW S, NEW cells \in Seq(S), NEW n \in 0 .. Len(cells),
         \A i \in 1 .. n : \A j \in 1 .. (i - 1) : cells[j] # cells[i],
         NEW D, D = {cells[i] : i \in 1 .. n}
  PROVE  D \subseteq S /\ IsFiniteSet(D) /\ Cardinality(D) = n
<1> DEFINE f == [i \in 1 .. n |-> cells[i]]
<1>1. n \in Nat /\ \A i \in 1 .. n : cells[i] \in S
  OBVIOUS
<1>2. ASSUME NEW i \in 1 .. n, NEW j \in 1 .. n, cells[i] = cells[j] PROVE i = j
  <2>1. ~(i < j)
    <3>1. i < j => i \in 1 .. (j - 1)
      BY <1>1
    <3> QED
      BY <1>2, <3>1
  <2>2. ~(j < i)
    <3>1. j < i => j \in 1 .. (i - 1)
      BY <1>1
    <3> QED
      BY <1>2, <3>1
  <2> QED
    BY <2>1, <2>2
<1>3. f \in Bijection(1 .. n, D)
  <2>1. /\ f \in [1 .. n -> D]
        /\ \A i, j \in 1 .. n : f[i] = f[j] => i = j
        /\ \A y \in D : \E i \in 1 .. n : f[i] = y
    BY <1>2
  <2> HIDE DEF f
  <2> QED
    BY <2>1, Fun_IsBij
<1>4. IsFiniteSet(1 .. n) /\ Cardinality(1 .. n) = n
  BY <1>1, FS_Interval
<1>5. ExistsBijection(1 .. n, D)
  BY <1>3 DEF ExistsBijection
<1>6. IsFiniteSet(D) /\ Cardinality(D) = n
  BY <1>4, <1>5, FS_Bijection
<1>7. D \subseteq S
  BY <1>1
<1> QED
  BY <1>6, <1>7

\* A clear that stops half way has emptied what it counted, each node once.
LEMMA LooseZero ==
  ASSUME LooseNow, NEW cells \in Seq(AllCells(cur_index)), NEW n \in 0 .. Len(cells),
         \A i \in 1 .. n : ~Stops(cells, i) /\ \A j \in 1 .. (i - 1) : cells[j] # cells[i],
         Zero(cells, n)
  PROVE  LooseNow' /\ file' = file
<1>1. PICK done : done = {cells[i] : i \in 1 .. n}
  OBVIOUS
<1>2. done \subseteq AllCells(cur_index) /\ IsFiniteSet(done) /\ Cardinality(done) = n
  <2>1. \A i \in 1 .. n : \A j \in 1 .. (i - 1) : cells[j] # cells[i]
    OBVIOUS
  <2> QED
    BY <1>1, <2>1, CellsDone
<1>3. /\ first_level_node' = [b \in Buckets |->
           IF HeadCell(b) \in done THEN [EmptyNode EXCEPT !.next = first_level_node[b].next]
           ELSE first_level_node[b]]
      /\ node_pool' = [i \in DOMAIN node_pool |-> IF PoolCell(i) \in done THEN EmptyNode ELSE node_pool[i]]
      /\ node_num' = node_num - n /\ cur_index' = cur_index /\ file' = file
  BY <1>1 DEF Zero
<1>4. Formed(first_level_node, node_pool, cur_index) /\ cur_index \in Nat
  BY DEF LooseNow, Loose, Formed
<1>5. /\ \A b \in Buckets : first_level_node[b] \in AnyNodes
      /\ \A i \in DOMAIN node_pool : node_pool[i] \in AnyNodes
      /\ 0 .. cur_index - 1 \subseteq DOMAIN node_pool
  BY <1>4, FormedSays
<1>6. \A n1 \in AnyNodes : n1.key \in Keys \cup {NoKey, Lost} /\ n1.next \in Int
  BY DEF AnyNodes
<1>7. done \subseteq Used(first_level_node, node_pool, cur_index)
  <2>1. ASSUME NEW c \in done PROVE At(first_level_node, node_pool, c).key \in Keys
    <3>1. PICK i \in 1 .. n : c = cells[i]
      BY <1>1
    <3>2. NodeAt(c).key # Lost /\ NodeAt(c).key # NoKey
      BY <3>1 DEF Stops, Unsound
    <3>3. NodeAt(c) = At(first_level_node, node_pool, c)
      BY DEF NodeAt, At
    <3>4. At(first_level_node, node_pool, c) \in AnyNodes
      BY <1>2, <1>4, <1>5, CellsWithin DEF At
    <3> QED
      BY <1>6, <3>2, <3>3, <3>4
  <2> QED
    BY <1>2, <2>1 DEF Used
<1>8. /\ EmptyNode \in AnyNodes /\ EmptyNode.next = BadNode /\ EmptyNode.key \notin Keys
      /\ \A x \in Int : /\ [EmptyNode EXCEPT !.next = x] \in AnyNodes
                        /\ [EmptyNode EXCEPT !.next = x].next = x
                        /\ [EmptyNode EXCEPT !.next = x].key \notin Keys
  BY DictAssumption DEF EmptyNode, Node, AnyNodes, BadNode
<1>9. Weaker(first_level_node, node_pool, first_level_node', node_pool')
  <2>1. \A b \in Buckets : /\ first_level_node'[b] \in AnyNodes
                           /\ first_level_node'[b].next = first_level_node[b].next
                           /\ \/ first_level_node'[b].key = first_level_node[b].key
                              \/ first_level_node'[b].key \notin Keys
    <3>1. ASSUME NEW b \in Buckets
          PROVE  /\ first_level_node'[b] \in AnyNodes
                 /\ first_level_node'[b].next = first_level_node[b].next
                 /\ \/ first_level_node'[b].key = first_level_node[b].key
                    \/ first_level_node'[b].key \notin Keys
      <4>1. PICK x \in Int : x = first_level_node[b].next
        BY <1>5, <1>6
      <4>2. first_level_node'[b] =
              IF HeadCell(b) \in done THEN [EmptyNode EXCEPT !.next = x] ELSE first_level_node[b]
        BY <1>3, <4>1
      <4> QED
        BY <1>5, <1>8, <4>1, <4>2
    <3> QED
      BY <3>1
  <2>2. \A i \in DOMAIN node_pool : /\ node_pool'[i] \in AnyNodes
                                    /\ node_pool'[i].next \in {node_pool[i].next, BadNode}
                                    /\ \/ node_pool'[i].key = node_pool[i].key
                                       \/ node_pool'[i].key \notin Keys
    BY <1>3, <1>5, <1>8
  <2>3. /\ DOMAIN node_pool' = DOMAIN node_pool /\ node_pool' \in [DOMAIN node_pool -> AnyNodes]
        /\ first_level_node' \in [Buckets -> AnyNodes]
    BY <1>3, <2>1, <2>2
  <2> QED
    BY <2>1, <2>2, <2>3 DEF Weaker
<1>10. \A c \in done : At(first_level_node', node_pool', c).key \notin Keys
  <2>1. ASSUME NEW c \in done PROVE At(first_level_node', node_pool', c).key \notin Keys
    <3>1. CASE c.pool = FALSE /\ c.at \in Buckets /\ c = HeadCell(c.at)
      <4>1. PICK x \in Int : x = first_level_node[c.at].next
        BY <1>5, <1>6, <3>1
      <4>2. first_level_node'[c.at] = [EmptyNode EXCEPT !.next = x]
        BY <1>3, <3>1, <4>1
      <4> QED
        BY <1>8, <3>1, <4>2 DEF At
    <3>2. CASE c.pool = TRUE /\ c.at \in 0 .. cur_index - 1 /\ c = PoolCell(c.at)
      BY <1>3, <1>5, <1>8, <3>2 DEF At
    <3> QED
      BY <1>2, <1>4, <3>1, <3>2, CellsWithin
  <2> QED
    BY <2>1
<1>11. n \in Nat
  OBVIOUS
<1>12. Loose(first_level_node', node_pool', cur_index, node_num - n)
  BY <1>2, <1>7, <1>9, <1>10, <1>11, WeakerIsLoose DEF LooseNow
<1> QED
  BY <1>3, <1>12 DEF LooseNow

LEMMA LooseClear ==
  ASSUME LooseInv, st_dict_clear
  PROVE  LooseInv'
<1>0. LooseNow /\ LooseList /\ LooseFile
  BY DEF LooseInv
<1>1. CASE clear_nodes = NoFile
  BY <1>1, LooseStays DEF st_dict_clear, Fail
<1>2. CASE clear_nodes # NoFile
  <2>1. clear_nodes \in Seq(Buckets)
    BY <1>0, <1>2 DEF LooseList
  <2>2. PICK seqs : seqs = [j \in DOMAIN clear_nodes |-> Cells(clear_nodes[j])]
    OBVIOUS
  <2>3. \A b \in Buckets : Cells(b) \in Seq(AllCells(cur_index))
    <3>1. ASSUME NEW b \in Buckets PROVE Cells(b) \in Seq(AllCells(cur_index))
      <4>1. PICK w \in Seq(Places) : w = Cells(b)
        BY <1>0, CellsMet DEF Walks
      <4>2. \A c \in ToSet(w) : c \in AllCells(cur_index)
        BY <1>0, <4>1, CellsMet DEF Met, AllCells
      <4>3. \A i \in 1 .. Len(w) : w[i] \in AllCells(cur_index)
        BY <4>2 DEF ToSet
      <4> QED
        BY <4>1, <4>3
    <3> QED
      BY <3>1
  <2>4. PICK m \in Nat : m = Len(clear_nodes) /\ DOMAIN clear_nodes = 1 .. m
    BY <2>1
  <2>5. seqs \in [1 .. m -> Seq(AllCells(cur_index))]
    BY <2>1, <2>2, <2>3, <2>4
  <2>6. PICK cells \in Seq(AllCells(cur_index)) : cells = FlattenSeq(seqs)
    BY <2>4, <2>5, FlatIn
  <2>7. PICK n \in 0 .. Len(cells) :
          /\ \A i \in 1 .. n : ~(Stops(cells, i) \/ \E j \in 1 .. (i - 1) : cells[j] = cells[i])
          /\ Zero(cells, n)
          /\ clear_nodes' = << >> \/ clear_nodes' = clear_nodes
    BY <1>2, <2>2, <2>6 DEF st_dict_clear
  <2>8. LooseNow' /\ file' = file
    BY <1>0, <2>7, LooseZero
  <2>9. LooseList'
    <3>1. << >> \in Seq(Buckets)
      OBVIOUS
    <3>2. clear_nodes' \in Seq(Buckets)
      BY <2>1, <2>7, <3>1
    <3> QED
      BY <3>2 DEF LooseList
  <2> QED
    BY <1>0, <2>8, <2>9 DEF LooseInv, LooseFile
<1> QED
  BY <1>1, <1>2

LEMMA LooseSave ==
  ASSUME LooseInv, st_dict_save
  PROVE  LooseInv'
<1>1. CASE UNCHANGED <<table, file>>
  BY <1>1, LooseStays
<1>2. CASE /\ file' = [head |-> first_level_node, pool |-> node_pool, cur |-> cur_index, num |-> node_num]
           /\ UNCHANGED table
  <2>1. /\ file'.head = first_level_node /\ file'.pool = node_pool
        /\ file'.cur = cur_index /\ file'.num = node_num
    BY <1>2
  <2>2. Loose(file'.head, file'.pool, file'.cur, file'.num)
    BY <2>1 DEF LooseInv, LooseNow
  <2> QED
    BY <1>2, <2>2 DEF LooseInv, LooseNow, LooseList, LooseFile, table
<1> QED
  BY <1>1, <1>2 DEF st_dict_save, Crash

LEMMA LooseLoad ==
  ASSUME LooseInv, st_dict_load_from_bin
  PROVE  LooseInv'
<1>1. CASE UNCHANGED <<table, file>>
  BY <1>1, LooseStays
<1>2. CASE /\ first_level_node' = file.head /\ node_pool' = file.pool
           /\ cur_index' = file.cur /\ node_num' = file.num
           /\ clear_nodes' = NoFile /\ file' = file /\ file # NoTable
  <2>1. Loose(file.head, file.pool, file.cur, file.num)
    BY <1>2 DEF LooseInv, LooseFile
  <2> QED
    BY <1>2, <2>1 DEF LooseInv, LooseNow, LooseList, LooseFile
<1> QED
  BY <1>1, <1>2 DEF st_dict_load_from_bin, Fail

LEMMA LooseInit == Init => LooseInv
<1> SUFFICES ASSUME Init PROVE LooseInv
  OBVIOUS
<1>1. /\ first_level_node = [b \in Buckets |-> EmptyNode] /\ node_pool = [i \in Buckets |-> EmptyNode]
      /\ cur_index = 0 /\ node_num = 0 /\ file = NoTable
      /\ clear_nodes = IF NeedClear THEN << >> ELSE NoFile
  BY DEF Init
<1>2. HashNum \in Nat /\ Buckets = 0 .. HashNum - 1
  BY DictAssumption DEF Buckets
<1>3. EmptyNode \in AnyNodes /\ EmptyNode.key \notin Keys /\ EmptyNode.next = BadNode
  BY DictAssumption DEF EmptyNode, Node, AnyNodes, BadNode
<1>4. Formed(first_level_node, node_pool, cur_index)
  <2>1. node_pool \in [0 .. HashNum - 1 -> AnyNodes] /\ 0 <= HashNum
    BY <1>1, <1>2, <1>3
  <2>2. \A i \in DOMAIN node_pool : node_pool[i].next \in BadNode .. i - 1
    BY <1>1, <1>2, <1>3 DEF BadNode
  <2> QED
    BY <1>1, <1>2, <1>3, <2>1, <2>2 DEF Formed
<1>5. ASSUME NEW b \in Buckets PROVE Bucket(first_level_node, node_pool, cur_index, b)
  <2>1. Closed(first_level_node, node_pool, b, {}) /\ OneEach(first_level_node, node_pool, b, {})
    BY <1>1, <1>3 DEF Closed, OneEach
  <2> QED
    BY <2>1 DEF Bucket
<1>6. Used(first_level_node, node_pool, cur_index) = {}
  <2>1. ASSUME NEW c \in AllCells(cur_index) PROVE At(first_level_node, node_pool, c).key \notin Keys
    <3>1. \/ c.pool = FALSE /\ c.at \in Buckets
          \/ c.pool = TRUE /\ c.at \in 0 .. cur_index - 1
      <4>1. cur_index \in Nat
        BY <1>1
      <4> QED
        BY <4>1, CellsWithin
    <3> QED
      BY <1>1, <1>3, <3>1 DEF At
  <2> QED
    BY <2>1 DEF Used
<1>7. UsedCounted(first_level_node, node_pool, cur_index, node_num)
  BY <1>1, <1>6, FS_EmptySet DEF UsedCounted
<1>8. LooseList /\ LooseFile
  BY <1>1 DEF LooseList, LooseFile
<1> QED
  BY <1>4, <1>5, <1>7, <1>8 DEF LooseInv, LooseNow, Loose

LEMMA LooseStep == LooseInv /\ [Next]_vars => LooseInv'
<1> SUFFICES ASSUME LooseInv, [Next]_vars PROVE LooseInv'
  OBVIOUS
<1>1. ASSUME NEW k \in Keys, st_dict_seek(k) PROVE LooseInv'
  BY <1>1, LooseStays DEF st_dict_seek, Crash, Fail
<1>2. ASSUME NEW k \in Keys, NEW d \in Data, st_dict_add(k, d) \/ st_dict_add_no_seek(k, d)
      PROVE  LooseInv'
  BY <1>2, LooseAdd
<1>3. ASSUME NEW k \in Keys, NEW d \in Data, st_dict_update(k, d) PROVE LooseInv'
  BY <1>3, LooseUpdate
<1>4. CASE st_dict_traverse
  BY <1>4, LooseStays DEF st_dict_traverse, Crash, Fail
<1>5. CASE st_dict_clear
  BY <1>5, LooseClear
<1>6. CASE st_dict_save
  BY <1>6, LooseSave
<1>7. CASE st_dict_load_from_bin
  BY <1>7, LooseLoad
<1>8. CASE UNCHANGED vars
  BY <1>8, LooseStays DEF vars
<1> QED
  BY <1>1, <1>2, <1>3, <1>4, <1>5, <1>6, <1>7, <1>8 DEF Next

\* What is found is in use, and no two keys are found in one cell.
LEMMA FoundIsUsed ==
  ASSUME LooseNow
  PROVE  Cardinality(Content) <= node_num
<1> DEFINE U == Used(first_level_node, node_pool, cur_index)
           Of(c) == <<NodeAt(c).key, NodeAt(c).data>>
<1>1. Content \subseteq {Of(c) : c \in U}
  <2>1. ASSUME NEW p \in Content PROVE p \in {Of(c) : c \in U}
    <3>1. PICK k \in Keys : /\ Hit(k, Sought(k)) # 0
                            /\ p = <<k, NodeAt(Sought(k)[Hit(k, Sought(k))]).data>>
      BY <2>1 DEF Content
    <3>2. PICK b \in Buckets : b = Hash(k)
      BY HashIsBucket
    <3>3. Sought(k) = Cells(b)
      <4>1. Hit(k, << >>) = 0
        BY DEF Hit, SelectInSeq
      <4> QED
        BY <3>1, <3>2, <4>1 DEF Sought
    <3>4. PICK c : c = Sought(k)[Hit(k, Sought(k))]
      OBVIOUS
    <3>5. c \in ToSet(Cells(b)) /\ NodeAt(c).key = k
      BY <3>1, <3>3, <3>4, HitMisses
    <3>6. c \in AllCells(cur_index)
      BY <3>5, CellsMet DEF Met, AllCells
    <3>7. NodeAt(c) = At(first_level_node, node_pool, c)
      BY DEF NodeAt, At
    <3>8. c \in U
      BY <3>5, <3>6, <3>7 DEF Used
    <3>9. p = Of(c)
      BY <3>1, <3>4, <3>5
    <3> QED
      BY <3>8, <3>9
  <2> QED
    BY <2>1
<1>2. IsFiniteSet(U) /\ Cardinality(U) <= node_num /\ node_num \in Int
  BY DEF LooseNow, Loose, UsedCounted
<1> HIDE DEF U, Of
<1>3. IsFiniteSet({Of(c) : c \in U}) /\ Cardinality({Of(c) : c \in U}) <= Cardinality(U)
  <2> DEFINE T == {Of(c) : c \in U}
             f == [c \in U |-> Of(c)]
  <2>1. f \in [U -> T] /\ \A y \in T : \E c \in U : f[c] = y
    OBVIOUS
  <2> HIDE DEF f, T
  <2>2. f \in Surjection(U, T)
    BY <2>1, Fun_IsSurj
  <2>3. IsFiniteSet(T) /\ Cardinality(T) <= Cardinality(U)
    BY <1>2, <2>2, FS_Surjection
  <2> QED
    BY <2>3 DEF T
<1>4. IsFiniteSet(Content) /\ Cardinality(Content) <= Cardinality({Of(c) : c \in U})
  BY <1>1, <1>3, FS_Subset
<1>5. Cardinality(Content) \in Nat /\ Cardinality({Of(c) : c \in U}) \in Nat /\ Cardinality(U) \in Nat
  BY <1>2, <1>3, <1>4, FS_CardinalityType
<1> QED
  BY <1>2, <1>3, <1>4, <1>5

LEMMA HeldInOneCell ==
  ASSUME LooseNow, NEW k \in Keys
  PROVE  Cardinality(Holding(k, Cells(Hash(k)))) <= 1
<1>1. PICK b \in Buckets : b = Hash(k)
  BY HashIsBucket
<1>2. PICK w : w = Cells(b)
  OBVIOUS
<1>3. Walks(w, Places) /\ \A c \in ToSet(w) : c = HeadCell(b) \/ \E i \in Met(b) : c = PoolCell(i)
  BY <1>2, CellsMet
<1>4. \A i \in DOMAIN w : w[i] \in ToSet(w)
  BY DEF ToSet
<1>5. /\ NodeAt(HeadCell(b)) = first_level_node[b]
      /\ \A i : NodeAt(PoolCell(i)) = node_pool[i]
  BY CellFields DEF NodeAt
<1>6. OneEach(first_level_node, node_pool, b, Met(b))
  BY CellsMet
<1>7. \A c, e \in ToSet(w) : NodeAt(c).key = k /\ NodeAt(e).key = k => c = e
  BY <1>3, <1>5, <1>6 DEF OneEach
<1> DEFINE H == Holding(k, w)
<1>8. \A i, j \in H : i = j
  BY <1>3, <1>4, <1>7 DEF Holding, Walks, IsInjective
<1>9. Cardinality(H) <= 1
  <2>1. CASE H = {}
    BY <2>1, FS_EmptySet
  <2>2. CASE H # {}
    <3>1. PICK i : H = {i}
      BY <1>8, <2>2
    <3> HIDE DEF H
    <3> QED
      BY <3>1, FS_Singleton
  <2> QED
    BY <2>1, <2>2
<1> QED
  BY <1>1, <1>2, <1>9

\* Whatever fails half way - a reallocation, a clear or an update refused by a callback, an
\* assertion, a load that hashes another way - a key that a seek finds is counted, and its
\* bucket holds it once.
THEOREM FoundKeysAreCounted == Spec => []FoundOnceAndCounted
<1>1. LooseInv => FoundOnceAndCounted
  BY FoundIsUsed, HeldInOneCell DEF LooseInv, FoundOnceAndCounted
<1> QED
  BY <1>1, LooseInit, LooseStep, PTL DEF Spec
=============================================================================
