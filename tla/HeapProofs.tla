----------------------------- MODULE HeapProofs -----------------------------
(***************************************************************************)
(* Proofs about Heap, for any capacity, objects and keys: the order and    *)
(* the back-pointers through inserts, extracts, clears and changed keys,   *)
(* one iteration of a repair at a time.                                    *)
(***************************************************************************)
EXTENDS Heap, FiniteSetTheorems, WellFoundedInduction, TLAPS

\* What the order and the back-pointers rest on: the used part of the array holds
\* objects, and a loop runs within it.
Filled == \A i \in Used : heap_arr[i] \in Objects
Running == pc # "idle" => index < size

HeapInv == HeapTypeOK /\ Filled /\ Running /\ HeapSound

\* The key of what is at a position.
Key(i) == prio[heap_arr[i]]

-----------------------------------------------------------------------------
(* Positions: who is above whom.                                            *)

LEMMA AboveIsBefore ==
  ASSUME NEW i \in Nat, i # 0
  PROVE  /\ Above(i) \in Nat /\ Above(i) < i
         /\ i = 2 * Above(i) + 1 \/ i = 2 * Above(i) + 2
BY DEF Above

LEMMA AboveChildren ==
  ASSUME NEW k \in Nat
  PROVE  Above(2 * k + 1) = k /\ Above(2 * k + 2) = k
BY DEF Above

LEMMA Positions ==
  ASSUME HeapAssumption, HeapTypeOK
  PROVE  /\ size \in Nat /\ Used \subseteq Slots /\ Used \subseteq Nat
         /\ \A i \in Nat : i \in Used <=> i < size
         /\ \A i \in Used : \A j \in Nat : j < i => j \in Used
BY DEF HeapAssumption, HeapTypeOK, Used, Slots

LEMMA KeysCompare ==
  ASSUME HeapAssumption, HeapTypeOK, Filled
  PROVE  /\ \A i \in Used : Key(i) \in Nat
         /\ \A i, j : NotAfter(i, j) <=> Key(i) <= Key(j)
BY DEF HeapAssumption, HeapTypeOK, Filled, Key, NotAfter

-----------------------------------------------------------------------------
\* What a swap does: two keys change places, and everything else that is promised is kept.
LEMMA SwapKeeps ==
  ASSUME HeapAssumption, HeapTypeOK, Filled, BackPointersExact,
         NEW i \in Used, NEW j \in Used, i # j, Swap(i, j), UNCHANGED <<size, prio>>
  PROVE  /\ heap_arr' \in [Slots -> Objects \cup {NoObj}]
         /\ heap_index' \in [Objects -> Slots \cup {NoIndex}]
         /\ \A o \in Objects : o >= NumIndex => heap_index'[o] = NoIndex
         /\ Filled' /\ BackPointersExact'
         /\ Used' = Used
         /\ \A n \in Used : Key(n)' = IF n = i THEN Key(j) ELSE IF n = j THEN Key(i) ELSE Key(n)
<1>1. /\ Used \subseteq Slots /\ Used' = Used
      /\ heap_arr \in [Slots -> Objects \cup {NoObj}]
      /\ heap_index \in [Objects -> Slots \cup {NoIndex}]
  BY Positions DEF HeapTypeOK, Used
<1>2. heap_arr' = [heap_arr EXCEPT ![i] = heap_arr[j], ![j] = heap_arr[i]]
  BY DEF Swap
<1>3. \A n \in Slots : heap_arr'[n] = IF n = i THEN heap_arr[j] ELSE IF n = j THEN heap_arr[i] ELSE heap_arr[n]
  BY <1>1, <1>2
<1>4. heap_arr' \in [Slots -> Objects \cup {NoObj}]
  BY <1>1, <1>2
<1>5. heap_arr[i] \in Objects /\ heap_arr[j] \in Objects
  BY DEF Filled
<1>6. Filled'
  BY <1>1, <1>3 DEF Filled
<1>7. \A n \in Used : Key(n)' = IF n = i THEN Key(j) ELSE IF n = j THEN Key(i) ELSE Key(n)
  BY <1>1, <1>3 DEF Key
<1>8. CASE ~Indexed
  BY <1>1, <1>4, <1>6, <1>7, <1>8 DEF HeapTypeOK, Swap, Point, BackPointersExact
<1>9. CASE Indexed
  <2>1. heap_index[heap_arr[i]] = i /\ heap_index[heap_arr[j]] = j /\ heap_arr[i] # heap_arr[j]
    BY <1>9 DEF BackPointersExact
  <2>2. heap_index' = [heap_index EXCEPT ![heap_arr[j]] = i, ![heap_arr[i]] = j]
    BY <1>9 DEF Swap, Point
  <2>3. \A o \in Objects : heap_index'[o] = IF o = heap_arr[i] THEN j
                                             ELSE IF o = heap_arr[j] THEN i ELSE heap_index[o]
    BY <1>1, <1>5, <2>2
  <2>4. heap_index' \in [Objects -> Slots \cup {NoIndex}]
    BY <1>1, <1>5, <2>2
  <2>5. i # NoIndex /\ j # NoIndex
    BY <1>1, Positions DEF HeapAssumption
  <2>6. \A o \in Objects : o >= NumIndex => heap_index'[o] = NoIndex
    BY <1>5, <2>1, <2>3, <2>5 DEF HeapTypeOK
  <2>7. \A n \in Used : n # i /\ n # j => heap_arr[n] # heap_arr[i] /\ heap_arr[n] # heap_arr[j]
    BY <1>9, <2>1 DEF BackPointersExact
  <2>8. BackPointersExact'
    BY <1>1, <1>3, <1>5, <2>3, <2>7 DEF BackPointersExact, Filled
  <2> QED
    BY <1>1, <1>4, <1>6, <1>7, <2>4, <2>6, <2>8
<1> QED
  BY <1>8, <1>9

-----------------------------------------------------------------------------
(* The two loops.                                                           *)

LEMMA UpKeeps == ASSUME HeapAssumption, HeapInv, FixUp PROVE HeapInv'
<1>1. HeapTypeOK /\ Filled /\ Running /\ HeapOrdered /\ BackPointersExact
  BY DEF HeapInv, HeapSound
<1>2. pc = "up" /\ UNCHANGED <<size, prio>> /\ index \in Used /\ index \in Nat /\ Used' = Used
  BY <1>1, Positions DEF FixUp, Running, HeapTypeOK, Used, Slots
<1>3. \A i \in Used \ {0, index} : Key(Above(i)) <= Key(i)
  BY <1>1, <1>2, KeysCompare DEF HeapOrdered
<1>4. index # 0 => \A i \in Used \ {0} : Above(i) = index => Key(Above(index)) <= Key(i)
  BY <1>1, <1>2, KeysCompare DEF HeapOrdered
<1>5. CASE UpDone
  <2>1. pc' = "idle" /\ UNCHANGED <<index, heap_out, heap_arr, heap_index>>
    BY <1>5 DEF FixUp, Finish
  <2>2. HeapTypeOK' /\ Filled' /\ Running' /\ BackPointersExact'
    BY <1>1, <1>2, <2>1 DEF HeapTypeOK, Filled, Running, BackPointersExact, Used
  <2>3. \A i \in Used \ {0} : Key(Above(i)) <= Key(i)
    BY <1>1, <1>3, <1>5, KeysCompare DEF UpDone
  <2>4. \A i \in Used' \ {0} : NotAfter(Above(i), i)'
    BY <1>1, <1>2, <2>1, <2>3, KeysCompare DEF NotAfter
  <2> QED
    BY <2>1, <2>2, <2>4 DEF HeapInv, HeapSound, HeapOrdered
<1>6. CASE ~UpDone
  <2>1. PICK k \in Used, p \in Nat : k = index /\ p = Above(index)
    BY <1>2, AboveIsBefore, <1>6 DEF UpDone
  <2>2. k \in Nat /\ k # 0 /\ p < k /\ p \in Used
    BY <1>1, <1>2, <1>6, <2>1, AboveIsBefore, Positions DEF UpDone
  <2>3. Swap(k, p) /\ index' = p /\ pc' = "up" /\ heap_out' = heap_out
    BY <1>2, <1>6, <2>1 DEF FixUp
  <2>4. Key(k) < Key(p) /\ Key(k) \in Nat /\ Key(p) \in Nat
    BY <1>1, <1>6, <2>1, <2>2, KeysCompare DEF UpDone
  <2>5. /\ heap_arr' \in [Slots -> Objects \cup {NoObj}]
        /\ heap_index' \in [Objects -> Slots \cup {NoIndex}]
        /\ \A o \in Objects : o >= NumIndex => heap_index'[o] = NoIndex
        /\ Filled' /\ BackPointersExact'
        /\ \A n \in Used : Key(n)' = IF n = k THEN Key(p) ELSE IF n = p THEN Key(k) ELSE Key(n)
    BY <1>1, <1>2, <2>2, <2>3, SwapKeeps
  <2>6. HeapTypeOK'
    BY <1>1, <1>2, <2>2, <2>3, <2>5, Positions DEF HeapTypeOK
  <2>7. Running'
    BY <1>1, <1>2, <2>2, <2>3, Positions DEF Running
  <2>8. ASSUME NEW i \in Used, i # 0
        PROVE  /\ i \in Nat /\ Above(i) \in Used /\ Above(i) < i
               /\ Key(i) \in Nat /\ Key(Above(i)) \in Nat
    BY <1>1, <2>8, AboveIsBefore, Positions, KeysCompare
  <2>9. ASSUME NEW i \in Used \ {0, p} PROVE NotAfter(Above(i), i)'
    <3>1. /\ i \in Nat /\ Above(i) \in Used /\ Above(i) < i
          /\ Key(i) \in Nat /\ Key(Above(i)) \in Nat
      BY <2>8
    <3>2. NotAfter(Above(i), i)' <=> Key(Above(i))' <= Key(i)'
      BY DEF NotAfter, Key
    <3>3. CASE i = k
      BY <2>1, <2>2, <2>4, <2>5, <3>1, <3>2, <3>3
    <3>4. CASE i # k
      <4>1. Key(i)' = Key(i)
        BY <2>5, <3>4
      <4>2. CASE Above(i) = k
        <5>1. Key(p) <= Key(i) /\ Key(Above(i))' = Key(p)
          BY <1>4, <2>1, <2>2, <2>5, <4>2
        <5> QED
          BY <3>2, <4>1, <5>1
      <4>3. CASE Above(i) = p
        <5>1. Key(p) <= Key(i) /\ Key(Above(i))' = Key(k)
          BY <1>3, <2>1, <2>2, <2>5, <3>4, <4>3
        <5> QED
          BY <2>4, <3>1, <3>2, <4>1, <5>1
      <4>4. CASE Above(i) # k /\ Above(i) # p
        <5>1. Key(Above(i)) <= Key(i) /\ Key(Above(i))' = Key(Above(i))
          BY <1>3, <2>1, <2>5, <3>1, <3>4, <4>4
        <5> QED
          BY <3>2, <4>1, <5>1
      <4> QED
        BY <4>2, <4>3, <4>4
    <3> QED
      BY <3>3, <3>4
  <2>10. ASSUME p # 0, NEW i \in Used \ {0}, Above(i) = p PROVE NotAfter(Above(p), i)'
    <3>1. i # p /\ Above(p) # p /\ Above(p) # k /\ Above(p) \in Used /\ Key(i) \in Nat /\ Key(Above(p)) \in Nat
      BY <2>2, <2>8, <2>10
    <3>2. Key(Above(p)) <= Key(p) /\ (i # k => Key(p) <= Key(i))
      BY <1>3, <2>1, <2>2, <2>10
    <3>3. Key(Above(p))' <= Key(i)'
      BY <2>4, <2>5, <3>1, <3>2
    <3> QED
      BY <3>3 DEF NotAfter, Key
  <2>11. HeapOrdered'
    BY <1>2, <2>3, <2>9, <2>10 DEF HeapOrdered
  <2> QED
    BY <2>5, <2>6, <2>7, <2>11 DEF HeapInv, HeapSound
<1> QED
  BY <1>5, <1>6

\* Of the positions below one, the least is its Child.
LEMMA ChildIsLeast ==
  ASSUME HeapAssumption, HeapTypeOK, Filled, NEW k \in Used, 2 * k + 1 < size
  PROVE  /\ Child(k) \in Used \ {0} /\ Above(Child(k)) = k
         /\ \A i \in Used \ {0} : Above(i) = k => Key(Child(k)) <= Key(i)
<1>1. k \in Nat /\ size \in Nat /\ 2 * k + 1 \in Used
  BY Positions
<1>2. 2 * k + 2 < size => 2 * k + 2 \in Used
  BY <1>1, Positions
<1>3. Child(k) \in Used \ {0} /\ Above(Child(k)) = k
  BY <1>1, <1>2, AboveChildren DEF Child
<1>4. ASSUME NEW i \in Used \ {0}, Above(i) = k PROVE Key(Child(k)) <= Key(i)
  <2>1. i \in Nat /\ i < size /\ (i = 2 * k + 1 \/ i = 2 * k + 2)
    BY <1>4, Positions, AboveIsBefore
  <2>2. /\ NotAfter(2 * k + 1, 2 * k + 2) <=> Key(2 * k + 1) <= Key(2 * k + 2)
        /\ Key(2 * k + 1) \in Nat /\ (2 * k + 2 < size => Key(2 * k + 2) \in Nat)
    BY <1>1, <1>2, KeysCompare
  <2> QED
    BY <1>1, <2>1, <2>2 DEF Child
<1> QED
  BY <1>3, <1>4

LEMMA DownKeeps == ASSUME HeapAssumption, HeapInv, FixDown PROVE HeapInv'
<1>1. HeapTypeOK /\ Filled /\ Running /\ HeapOrdered /\ BackPointersExact
  BY DEF HeapInv, HeapSound
<1>2. pc = "down" /\ UNCHANGED <<size, prio>> /\ index \in Used /\ index \in Nat /\ Used' = Used
  BY <1>1, Positions DEF FixDown, Running, HeapTypeOK, Used, Slots
<1>3. \A i \in Used \ {0} : Above(i) # index => Key(Above(i)) <= Key(i)
  BY <1>1, <1>2, KeysCompare DEF HeapOrdered
<1>4. index # 0 => \A i \in Used \ {0} : Above(i) = index => Key(Above(index)) <= Key(i)
  BY <1>1, <1>2, KeysCompare DEF HeapOrdered
<1>5. ASSUME NEW i \in Used, i # 0
      PROVE  /\ i \in Nat /\ Above(i) \in Used /\ Above(i) < i
             /\ Key(i) \in Nat /\ Key(Above(i)) \in Nat
  BY <1>1, <1>5, AboveIsBefore, Positions, KeysCompare
<1>6. CASE DownDone
  <2>1. pc' = "idle" /\ UNCHANGED <<index, heap_out, heap_arr, heap_index>>
    BY <1>6 DEF FixDown, Finish
  <2>2. HeapTypeOK' /\ Filled' /\ Running' /\ BackPointersExact'
    BY <1>1, <1>2, <2>1 DEF HeapTypeOK, Filled, Running, BackPointersExact, Used
  <2>3. ASSUME NEW i \in Used \ {0}, Above(i) = index PROVE Key(index) <= Key(i)
    <3>1. i \in Nat /\ i < size /\ size \in Nat /\ 2 * index + 1 <= i
      BY <1>1, <1>2, <2>3, AboveIsBefore, Positions
    <3>2. 2 * index + 1 < size
      BY <1>2, <3>1
    <3>3. NotAfter(index, Child(index))
      BY <1>2, <1>6, <3>1, <3>2 DEF DownDone
    <3>4. Key(index) <= Key(Child(index)) /\ Key(Child(index)) <= Key(i)
      BY <1>1, <1>2, <2>3, <3>2, <3>3, ChildIsLeast, KeysCompare
    <3>5. Key(index) \in Nat /\ Key(Child(index)) \in Nat /\ Key(i) \in Nat
      BY <1>1, <1>2, <3>2, ChildIsLeast, KeysCompare
    <3> QED
      BY <3>4, <3>5
  <2>4. \A i \in Used \ {0} : Key(Above(i)) <= Key(i)
    BY <1>3, <2>3
  <2>5. \A i \in Used' \ {0} : NotAfter(Above(i), i)'
    BY <1>1, <1>2, <2>1, <2>4, KeysCompare DEF NotAfter
  <2> QED
    BY <2>1, <2>2, <2>5 DEF HeapInv, HeapSound, HeapOrdered
<1>7. CASE ~DownDone
  <2>1. 2 * index + 1 < size
    BY <1>1, <1>2, <1>7 DEF DownDone, HeapTypeOK, HeapAssumption
  <2>2. PICK k \in Used, c \in Used \ {0} : k = index /\ c = Child(index)
    BY <1>1, <1>2, <2>1, ChildIsLeast
  <2>3. /\ Above(c) = k /\ c # k
        /\ \A i \in Used \ {0} : Above(i) = k => Key(c) <= Key(i)
    BY <1>1, <1>2, <1>5, <2>1, <2>2, ChildIsLeast
  <2>4. Swap(k, c) /\ index' = c /\ pc' = "down" /\ heap_out' = heap_out
    BY <1>2, <1>7, <2>2 DEF FixDown
  <2>5. Key(c) < Key(k) /\ Key(k) \in Nat /\ Key(c) \in Nat
    BY <1>1, <1>7, <2>2, KeysCompare DEF DownDone
  <2>6. /\ heap_arr' \in [Slots -> Objects \cup {NoObj}]
        /\ heap_index' \in [Objects -> Slots \cup {NoIndex}]
        /\ \A o \in Objects : o >= NumIndex => heap_index'[o] = NoIndex
        /\ Filled' /\ BackPointersExact'
        /\ \A n \in Used : Key(n)' = IF n = k THEN Key(c) ELSE IF n = c THEN Key(k) ELSE Key(n)
    BY <1>1, <1>2, <2>3, <2>4, SwapKeeps
  <2>7. HeapTypeOK'
    BY <1>1, <1>2, <2>4, <2>6, Positions DEF HeapTypeOK
  <2>8. Running'
    BY <1>1, <1>2, <2>4, Positions DEF Running
  <2>9. ASSUME NEW i \in Used \ {0}, Above(i) # c PROVE NotAfter(Above(i), i)'
    <3>1. /\ Above(i) \in Used /\ Above(i) # i
          /\ Key(i) \in Nat /\ Key(Above(i)) \in Nat
      BY <1>5
    <3>2. NotAfter(Above(i), i)' <=> Key(Above(i))' <= Key(i)'
      BY DEF NotAfter, Key
    <3>3. CASE i = k
      <4>1. Key(i)' = Key(c) /\ Key(Above(i))' = Key(Above(k)) /\ Key(Above(k)) <= Key(c)
        BY <1>4, <2>2, <2>3, <2>6, <2>9, <3>1, <3>3
      <4> QED
        BY <3>2, <4>1
    <3>4. CASE i = c
      <4>1. Key(i)' = Key(k) /\ Key(Above(i))' = Key(c)
        BY <2>3, <2>6, <3>1, <3>4
      <4> QED
        BY <2>5, <3>2, <4>1
    <3>5. CASE i # k /\ i # c /\ Above(i) = k
      <4>1. Key(i)' = Key(i) /\ Key(Above(i))' = Key(c) /\ Key(c) <= Key(i)
        BY <2>3, <2>6, <3>5
      <4> QED
        BY <3>2, <4>1
    <3>6. CASE i # k /\ i # c /\ Above(i) # k
      <4>1. Key(i)' = Key(i) /\ Key(Above(i))' = Key(Above(i)) /\ Key(Above(i)) <= Key(i)
        BY <1>3, <2>2, <2>6, <2>9, <3>1, <3>6
      <4> QED
        BY <3>2, <4>1
    <3> QED
      BY <3>3, <3>4, <3>5, <3>6
  <2>10. ASSUME NEW i \in Used \ {0}, Above(i) = c PROVE NotAfter(Above(c), i)'
    <3>1. i # c /\ i # k /\ c \in Nat /\ k \in Nat
      BY <1>5, <2>3, <2>10, Positions, <1>1
    <3>2. Key(i)' = Key(i) /\ Key(k)' = Key(c) /\ Key(c) <= Key(i)
      BY <1>3, <2>2, <2>3, <2>6, <2>10, <3>1
    <3> QED
      BY <2>3, <3>2 DEF NotAfter, Key
  <2>11. HeapOrdered'
    BY <1>2, <2>4, <2>9, <2>10 DEF HeapOrdered
  <2> QED
    BY <2>6, <2>7, <2>8, <2>11 DEF HeapInv, HeapSound
<1> QED
  BY <1>6, <1>7

-----------------------------------------------------------------------------
(* The calls, up to their loops.                                            *)

LEMMA HeapInvInit == ASSUME HeapAssumption, HeapInit PROVE HeapInv
<1>1. HeapCapacity \in Nat \ {0} /\ NoIndex = -1 /\ size = 0 /\ index = 0 /\ pc = "idle"
  BY DEF HeapAssumption, HeapInit
<1>2. Used = {} /\ 0 \in Slots
  BY <1>1 DEF Used, Slots
<1>3. /\ heap_arr \in [Slots -> Objects \cup {NoObj}]
      /\ heap_index \in [Objects -> Slots \cup {NoIndex}]
      /\ \A o \in Objects : o >= NumIndex => heap_index[o] = NoIndex
      /\ prio \in [Objects -> Keys]
  BY DEF HeapInit
<1>4. heap_out \in [code : {"none", "ok", "full", "empty", "err"}, obj : Objects \cup {NoObj}]
  BY DEF HeapInit, HeapResult
<1>5. HeapTypeOK
  BY <1>1, <1>2, <1>3, <1>4 DEF HeapTypeOK
<1> QED
  BY <1>1, <1>2, <1>5 DEF HeapInv, HeapSound, Filled, Running, HeapOrdered, BackPointersExact

LEMMA InsertKeeps ==
  ASSUME HeapAssumption, HeapInv, NEW o \in Objects, st_heap_insert(o)
  PROVE  HeapInv'
<1>1. HeapTypeOK /\ Filled /\ Running /\ HeapOrdered /\ BackPointersExact
  BY DEF HeapInv, HeapSound
<1>2. pc = "idle" /\ (Indexed => o \notin Members) /\ prio' = prio
  BY DEF st_heap_insert, MayInsert
<1>3. CASE InsertRefused(o)
  <2>1. heap_out' = HeapResult("full", NoObj) /\ UNCHANGED <<heap_arr, size, heap_index, pc, index>>
    BY <1>3 DEF st_heap_insert
  <2>2. HeapTypeOK'
    BY <1>1, <1>2, <2>1 DEF HeapTypeOK, HeapResult
  <2> QED
    BY <1>1, <1>2, <2>1, <2>2
       DEF HeapInv, HeapSound, Filled, Running, HeapOrdered, BackPointersExact, Used, NotAfter
<1>4. CASE ~InsertRefused(o)
  <2>1. /\ heap_arr' = [heap_arr EXCEPT ![size] = o] /\ size' = size + 1
        /\ heap_index' = Point(heap_index, o, size)
    BY <1>4 DEF st_heap_insert
  <2>2. /\ size \in Nat /\ HeapCapacity \in Nat /\ size < HeapCapacity /\ size \in Slots /\ NumIndex \in Nat
        /\ Indexed \in BOOLEAN /\ Objects \subseteq Nat /\ 0 \in Slots
    BY <1>1, <1>4 DEF HeapTypeOK, HeapAssumption, InsertRefused, Slots
  <2>3. Indexed => o < NumIndex
    BY <1>4, <2>2 DEF InsertRefused
  <2>4. heap_out' = HeapResult("ok", NoObj) /\ pc' \in {"idle", "up"} /\ index' \in {index, size}
        /\ (pc' = "up" => index' = size) /\ (pc' = "idle" => size = 0)
    BY <1>2, <1>4, <2>1, <2>2 DEF st_heap_insert, Enter
  <2>5. /\ Used' = 0 .. size /\ Used = 0 .. (size - 1) /\ Used \subseteq Slots
        /\ size \notin Used /\ Used' = Used \cup {size}
    BY <1>1, <2>1, <2>2, Positions DEF Used
  <2>6. heap_arr' \in [Slots -> Objects \cup {NoObj}]
    BY <1>1, <2>1, <2>2 DEF HeapTypeOK
  <2>7. \A i \in Used' : heap_arr'[i] = IF i = size THEN o ELSE heap_arr[i]
    BY <1>1, <2>1, <2>2, <2>5 DEF HeapTypeOK
  <2>8. heap_index' \in [Objects -> Slots \cup {NoIndex}]
    BY <1>1, <2>1, <2>2 DEF HeapTypeOK, Point
  <2>9. \A q \in Objects : heap_index'[q] = IF q = o /\ Indexed THEN size ELSE heap_index[q]
    BY <1>1, <2>1 DEF HeapTypeOK, Point
  <2>10. HeapTypeOK'
    <3>1. size' \in 0 .. HeapCapacity /\ index' \in Slots /\ pc' \in {"idle", "up", "down"}
      BY <1>1, <2>1, <2>2, <2>4 DEF HeapTypeOK
    <3>2. \A q \in Objects : q >= NumIndex => heap_index'[q] = NoIndex
      BY <1>1, <2>2, <2>3, <2>9 DEF HeapTypeOK
    <3>3. heap_out' \in [code : {"none", "ok", "full", "empty", "err"}, obj : Objects \cup {NoObj}]
      BY <2>4 DEF HeapResult
    <3> QED
      BY <1>1, <1>2, <2>6, <2>8, <3>1, <3>2, <3>3 DEF HeapTypeOK
  <2>11. Filled' /\ Running'
    BY <1>1, <2>1, <2>2, <2>4, <2>5, <2>7 DEF Filled, Running
  <2>12. BackPointersExact'
    <3> SUFFICES ASSUME Indexed, NEW i \in Used' PROVE heap_index'[heap_arr'[i]] = i
      BY DEF BackPointersExact
    <3>1. CASE i = size
      BY <2>7, <2>9, <3>1
    <3>2. CASE i \in Used
      <4>1. heap_arr[i] \in Objects /\ heap_arr[i] # o /\ heap_index[heap_arr[i]] = i
        BY <1>1, <1>2, <3>2 DEF Filled, Members, BackPointersExact
      <4> QED
        BY <2>5, <2>7, <2>9, <3>2, <4>1
    <3> QED
      BY <2>5, <3>1, <3>2
  <2>13. \A i \in Used \ {0} : /\ Above(i) \in Used
                                /\ NotAfter(Above(i), i)
    BY <1>1, <1>2, <2>2, <2>5, AboveIsBefore DEF HeapOrdered
  <2>14. \A i \in Used \ {0} : NotAfter(Above(i), i)'
    BY <1>2, <2>5, <2>7, <2>13 DEF NotAfter
  <2>15. \A i \in Used' \ {0} : Above(i) # size
    BY <2>2, <2>5, AboveIsBefore
  <2>16. HeapOrdered'
    BY <2>4, <2>5, <2>14, <2>15 DEF HeapOrdered
  <2> QED
    BY <2>10, <2>11, <2>12, <2>16 DEF HeapInv, HeapSound
<1> QED
  BY <1>3, <1>4

LEMMA ClearKeeps == ASSUME HeapAssumption, HeapInv, st_heap_clear PROVE HeapInv'
<1>1. HeapTypeOK /\ pc = "idle" /\ size' = 0 /\ heap_out' = HeapResult("ok", NoObj)
      /\ UNCHANGED <<heap_arr, heap_index, prio, pc, index>>
  BY DEF HeapInv, st_heap_clear
<1>2. Used' = {}
  BY <1>1 DEF Used
<1>3. HeapTypeOK'
  <2>1. size' \in 0 .. HeapCapacity
    BY <1>1 DEF HeapAssumption
  <2> QED
    BY <1>1, <2>1 DEF HeapTypeOK, HeapResult
<1> QED
  BY <1>1, <1>2, <1>3 DEF HeapInv, HeapSound, Filled, Running, HeapOrdered, BackPointersExact

LEMMA ExtractKeeps == ASSUME HeapAssumption, HeapInv, st_heap_extract PROVE HeapInv'
<1>1. HeapTypeOK /\ Filled /\ Running /\ HeapOrdered /\ BackPointersExact
  BY DEF HeapInv, HeapSound
<1>2. pc = "idle" /\ prio' = prio
  BY DEF st_heap_extract
<1>3. /\ size \in Nat /\ size <= HeapCapacity /\ HeapCapacity \in Nat \ {0} /\ 0 \in Slots
      /\ Indexed \in BOOLEAN /\ NoIndex = -1
  BY <1>1 DEF HeapTypeOK, HeapAssumption, Slots
<1>4. CASE size = 0
  <2>1. heap_out' = HeapResult("empty", NoObj) /\ UNCHANGED <<heap_arr, size, heap_index, pc, index>>
    BY <1>4 DEF st_heap_extract
  <2>2. HeapTypeOK'
    BY <1>1, <1>2, <2>1 DEF HeapTypeOK, HeapResult
  <2> QED
    BY <1>1, <1>2, <2>1, <2>2
       DEF HeapInv, HeapSound, Filled, Running, HeapOrdered, BackPointersExact, Used, NotAfter
<1>5. CASE size # 0
  <2>1. PICK last \in Slots : last = size - 1
    BY <1>3, <1>5 DEF Slots
  <2>2. PICK taken, moved : taken = heap_arr[0] /\ moved = heap_arr[last]
    OBVIOUS
  <2>3. 0 \in Used /\ last \in Used /\ taken \in Objects /\ moved \in Objects
    BY <1>1, <1>3, <1>5, <2>1, <2>2 DEF Used, Filled
  <2>4. /\ size' = last /\ heap_out' = HeapResult("ok", taken)
        /\ \/ size = 1 /\ heap_index' = Point(heap_index, taken, NoIndex) /\ UNCHANGED <<heap_arr, pc, index>>
           \/ /\ size > 1 /\ heap_arr' = [heap_arr EXCEPT ![0] = moved]
              /\ heap_index' = Point(Point(heap_index, taken, NoIndex), moved, 0)
              /\ index' = 0 /\ pc' = "down"
    BY <1>3, <1>5, <2>1, <2>2 DEF st_heap_extract, Enter
  <2>5. /\ size' \in 0 .. HeapCapacity /\ index' \in Slots /\ pc' \in {"idle", "up", "down"}
        /\ heap_out' \in [code : {"none", "ok", "full", "empty", "err"}, obj : Objects \cup {NoObj}]
    <3>1. heap_out' \in [code : {"none", "ok", "full", "empty", "err"}, obj : Objects \cup {NoObj}]
      BY <2>3, <2>4 DEF HeapResult
    <3>2. size' \in 0 .. HeapCapacity
      BY <1>3, <2>1, <2>4 DEF Slots
    <3>3. index' \in Slots /\ pc' \in {"idle", "up", "down"}
      BY <1>1, <1>3, <2>4 DEF HeapTypeOK
    <3> QED
      BY <3>1, <3>2, <3>3
  <2>6. CASE size = 1
    <3>1. Used' = {}
      BY <1>3, <2>1, <2>4, <2>6 DEF Used
    <3>2. heap_index' = IF Indexed THEN [heap_index EXCEPT ![taken] = NoIndex] ELSE heap_index
      BY <1>3, <2>4, <2>6 DEF Point
    <3>3. /\ heap_index' \in [Objects -> Slots \cup {NoIndex}]
          /\ \A q \in Objects : q >= NumIndex => heap_index'[q] = NoIndex
      BY <1>1, <2>3, <3>2 DEF HeapTypeOK
    <3>4. HeapTypeOK'
      BY <1>1, <1>2, <1>3, <2>4, <2>5, <2>6, <3>3 DEF HeapTypeOK
    <3> QED
      BY <1>2, <1>3, <2>4, <2>6, <3>1, <3>4
         DEF HeapInv, HeapSound, Filled, Running, HeapOrdered, BackPointersExact
  <2>7. CASE size > 1
    <3>1. /\ heap_arr' = [heap_arr EXCEPT ![0] = moved]
          /\ heap_index' = Point(Point(heap_index, taken, NoIndex), moved, 0)
          /\ index' = 0 /\ pc' = "down"
      BY <1>3, <2>4, <2>7
    <3>2. /\ Used' \subseteq Used \ {last} /\ Used \subseteq Slots /\ last # 0 /\ last > 0 /\ last # NoIndex
      BY <1>1, <1>3, <2>1, <2>4, <2>7, Positions DEF Used
    <3>3. /\ heap_arr' \in [Slots -> Objects \cup {NoObj}]
          /\ \A i \in Slots : heap_arr'[i] = IF i = 0 THEN moved ELSE heap_arr[i]
      BY <1>1, <1>3, <2>3, <3>1 DEF HeapTypeOK
    <3>4. Filled' /\ Running'
      BY <1>1, <2>3, <2>4, <3>1, <3>2, <3>3 DEF Filled, Running
    <3>5. /\ heap_index' \in [Objects -> Slots \cup {NoIndex}]
          /\ \A q \in Objects : q >= NumIndex => heap_index'[q] = NoIndex
          /\ BackPointersExact'
      <4>1. CASE ~Indexed
        <5>1. heap_index' = heap_index
          BY <3>1, <4>1 DEF Point
        <5> QED
          BY <1>1, <4>1, <5>1 DEF HeapTypeOK, BackPointersExact
      <4>2. CASE Indexed
        <5>1. heap_index[taken] = 0 /\ heap_index[moved] = last /\ taken # moved
          BY <1>1, <2>2, <2>3, <3>2, <4>2 DEF BackPointersExact
        <5>2. heap_index' = [[heap_index EXCEPT ![taken] = NoIndex] EXCEPT ![moved] = 0]
          BY <3>1, <4>2 DEF Point
        <5>3. /\ heap_index' \in [Objects -> Slots \cup {NoIndex}]
              /\ \A q \in Objects : heap_index'[q] = IF q = moved THEN 0
                                      ELSE IF q = taken THEN NoIndex ELSE heap_index[q]
          BY <1>1, <1>3, <2>3, <5>2 DEF HeapTypeOK
        <5>4. \A q \in Objects : q >= NumIndex => heap_index'[q] = NoIndex
          BY <1>1, <3>2, <5>1, <5>3 DEF HeapTypeOK
        <5>5. \A i \in Used' : heap_index'[heap_arr'[i]] = i
          <6> TAKE i \in Used'
          <6>1. CASE i = 0
            BY <1>3, <2>3, <3>3, <5>3, <6>1
          <6>2. CASE i # 0
            <7>1. i \in Used /\ i # last /\ heap_arr'[i] = heap_arr[i]
              BY <3>2, <3>3, <6>2
            <7>2. heap_arr[i] \in Objects /\ heap_index[heap_arr[i]] = i
              BY <1>1, <4>2, <7>1 DEF Filled, BackPointersExact
            <7>3. heap_arr[i] # moved /\ heap_arr[i] # taken
              BY <5>1, <6>2, <7>1, <7>2
            <7> QED
              BY <5>3, <7>1, <7>2, <7>3
          <6> QED
            BY <6>1, <6>2
        <5> QED
          BY <5>3, <5>4, <5>5 DEF BackPointersExact
      <4> QED
        BY <4>1, <4>2
    <3>6. HeapTypeOK'
      BY <1>1, <1>2, <2>5, <3>3, <3>5 DEF HeapTypeOK
    <3>7. ASSUME NEW i \in Used' \ {0}, Above(i) # 0 PROVE NotAfter(Above(i), i)'
      <4>1. i \in Used /\ Above(i) \in Used /\ NotAfter(Above(i), i)
        BY <1>1, <1>2, <3>2, <3>7, AboveIsBefore, Positions DEF HeapOrdered
      <4>2. heap_arr'[i] = heap_arr[i] /\ heap_arr'[Above(i)] = heap_arr[Above(i)]
        BY <3>2, <3>3, <3>7, <4>1
      <4> QED
        BY <1>2, <4>1, <4>2 DEF NotAfter
    <3>8. HeapOrdered'
      BY <3>1, <3>7 DEF HeapOrdered
    <3> QED
      BY <3>4, <3>5, <3>6, <3>8 DEF HeapInv, HeapSound
  <2> QED
    BY <1>3, <1>5, <2>6, <2>7
<1> QED
  BY <1>4, <1>5

\* A changed key disturbs the order at the back-pointer of its object and nowhere else:
\* if the pointer is stale, not even there.
LEMMA RekeyKeeps ==
  ASSUME HeapAssumption, HeapInv, NEW o \in Objects, NEW k \in Keys, Rekey(o, k)
  PROVE  HeapInv'
<1>1. HeapTypeOK /\ Filled /\ Running /\ HeapOrdered /\ BackPointersExact
  BY DEF HeapInv, HeapSound
<1>2. /\ pc = "idle" /\ Indexed /\ prio' = [prio EXCEPT ![o] = k]
      /\ heap_arr' = heap_arr /\ heap_index' = heap_index /\ size' = size /\ Used' = Used
  BY DEF Rekey, Used
<1>3. PICK j \in Slots \cup {NoIndex} : j = heap_index[o]
  BY <1>1 DEF HeapTypeOK
<1>4. \/ j = NoIndex /\ pc' = "idle" /\ index' = index
      \/ j # NoIndex /\ size <= j /\ pc' = "idle" /\ index' = j
      \/ /\ j # NoIndex /\ j < size /\ index' = j
         /\ pc' = IF k < prio[o] THEN "up" ELSE "down"
  BY <1>2, <1>3 DEF Rekey, Enter
<1>5. j # NoIndex => j \in Slots
  OBVIOUS
<1>6. Filled' /\ BackPointersExact'
  BY <1>1, <1>2 DEF Filled, BackPointersExact
<1>7. Running'
  BY <1>2, <1>4 DEF Running
<1>8. HeapTypeOK'
  <2>1. heap_out' \in [code : {"none", "ok", "full", "empty", "err"}, obj : Objects \cup {NoObj}]
    BY DEF Rekey, Enter, HeapResult
  <2>2. prio' \in [Objects -> Keys]
    BY <1>1, <1>2 DEF HeapTypeOK
  <2>3. index' \in Slots /\ pc' \in {"idle", "up", "down"}
    BY <1>1, <1>4, <1>5 DEF HeapTypeOK
  <2> QED
    BY <1>1, <1>2, <2>1, <2>2, <2>3 DEF HeapTypeOK
<1>9. \A i \in Used : i # j => heap_arr[i] # o
  BY <1>1, <1>2, <1>3 DEF BackPointersExact
<1>10. \A i \in Used : i # j => Key(i)' = Key(i)
  BY <1>1, <1>2, <1>9 DEF Filled, HeapTypeOK, Key
<1>11. ASSUME NEW i \in Used \ {0}
       PROVE  /\ Above(i) \in Used /\ Above(i) # i /\ Key(Above(i)) <= Key(i)
              /\ Key(i) \in Nat /\ Key(Above(i)) \in Nat
  <2>1. Above(i) \in Used /\ Above(i) # i
    BY <1>1, AboveIsBefore, Positions
  <2>2. NotAfter(Above(i), i)
    BY <1>1, <1>2 DEF HeapOrdered
  <2> QED
    BY <1>1, <2>1, <2>2, KeysCompare
<1>12. \A a, b : NotAfter(a, b)' <=> Key(a)' <= Key(b)'
  BY DEF NotAfter, Key
<1>13. \A i \in Used \ {0} : i # j /\ Above(i) # j => NotAfter(Above(i), i)'
  BY <1>10, <1>11, <1>12
<1>14. CASE j \notin Used
  <2>1. pc' = "idle"
    BY <1>1, <1>4, <1>5, <1>14, Positions DEF HeapTypeOK, Used, Slots
  <2>2. \A i \in Used' \ {0} : NotAfter(Above(i), i)'
    BY <1>2, <1>11, <1>13, <1>14
  <2> QED
    BY <1>6, <1>7, <1>8, <2>1, <2>2 DEF HeapInv, HeapSound, HeapOrdered
<1>15. CASE j \in Used
  <2>1. /\ index' = j /\ pc' = IF k < prio[o] THEN "up" ELSE "down"
    BY <1>1, <1>4, <1>15, Positions DEF HeapAssumption, Used
  <2>2. heap_arr[j] \in Objects /\ k \in Nat /\ prio[o] \in Nat /\ Key(j) \in Nat
    BY <1>1, <1>15, KeysCompare DEF Filled, HeapTypeOK, HeapAssumption
  <2>3. Key(j)' = IF heap_arr[j] = o THEN k ELSE Key(j)
    BY <1>1, <1>2, <2>2 DEF Key, HeapTypeOK
  <2>4. Key(j)' \in Nat /\ (pc' = "up" => Key(j)' <= Key(j)) /\ (pc' = "down" => Key(j) <= Key(j)')
    <3>1. heap_arr[j] = o => Key(j) = prio[o]
      BY DEF Key
    <3> QED
      BY <2>1, <2>2, <2>3, <3>1
  <2>5. ASSUME pc' = "up", NEW i \in Used \ {0, j} PROVE NotAfter(Above(i), i)'
    <3>1. CASE Above(i) = j
      <4>1. Key(i)' = Key(i) /\ Key(j) <= Key(i) /\ Key(i) \in Nat
        BY <1>10, <1>11, <3>1
      <4> QED
        BY <1>12, <2>2, <2>4, <2>5, <3>1, <4>1
    <3> QED
      BY <1>13, <3>1
  <2>6. ASSUME pc' = "down", NEW i \in Used \ {0}, Above(i) # j PROVE NotAfter(Above(i), i)'
    <3>1. CASE i = j
      <4>1. Key(Above(j))' = Key(Above(j)) /\ Key(Above(j)) <= Key(j) /\ Key(Above(j)) \in Nat
        BY <1>10, <1>11, <3>1
      <4> QED
        BY <1>12, <2>2, <2>4, <2>6, <3>1, <4>1
    <3> QED
      BY <1>13, <2>6, <3>1
  <2>7. ASSUME j # 0, NEW i \in Used \ {0}, Above(i) = j PROVE NotAfter(Above(j), i)'
    <3>1. /\ Key(j) <= Key(i) /\ i # j /\ Key(i) \in Nat
          /\ Key(Above(j)) <= Key(j) /\ Above(j) # j /\ Above(j) \in Used /\ Key(Above(j)) \in Nat
      BY <1>11, <1>15, <2>7
    <3>2. Key(i)' = Key(i) /\ Key(Above(j))' = Key(Above(j))
      BY <1>10, <3>1
    <3> QED
      BY <1>12, <2>2, <3>1, <3>2
  <2>8. HeapOrdered'
    BY <1>2, <2>1, <2>5, <2>6, <2>7 DEF HeapOrdered
  <2> QED
    BY <1>6, <1>7, <1>8, <2>8 DEF HeapInv, HeapSound
<1> QED
  BY <1>14, <1>15

LEMMA HeapInvStep == ASSUME HeapAssumption, HeapInv, [HeapNext]_heapVars PROVE HeapInv'
<1>1. CASE UNCHANGED heapVars
  BY <1>1 DEF heapVars, HeapInv, HeapSound, HeapTypeOK, Filled, Running, HeapOrdered, BackPointersExact, Used, NotAfter
<1> QED
  BY <1>1, InsertKeeps, ExtractKeeps, ClearKeeps, RekeyKeeps, UpKeeps, DownKeeps DEF HeapNext

-----------------------------------------------------------------------------
\* Nothing is stored past the array or past the caller's array of back-pointers, and
\* the loops stay within the heap.
THEOREM HeapTypeCorrect == ASSUME HeapAssumption PROVE HeapSpec => []HeapTypeOK
<1>1. HeapInv => HeapTypeOK
  BY DEF HeapInv
<1> QED
  BY <1>1, HeapInvInit, HeapInvStep, PTL DEF HeapSpec

\* Between calls nothing in the heap stands above something of a lesser key, and the
\* caller finds every object where its back-pointer says, whatever was inserted,
\* extracted, cleared and given another key; a stale back-pointer does no harm.
THEOREM HeapIsSound == ASSUME HeapAssumption PROVE HeapSpec => []HeapSound
<1>1. HeapInv => HeapSound
  BY DEF HeapInv
<1> QED
  BY <1>1, HeapInvInit, HeapInvStep, PTL DEF HeapSpec

-----------------------------------------------------------------------------
(* What an extract gives is of the least key.                               *)

LEMMA LeastOfSet ==
  ASSUME NEW T, T \subseteq Nat, T # {} PROVE \E x \in T : \A y \in T : x <= y
<1>1. PICK x \in T : \A y \in T : <<y, x>> \notin OpToRel(<, Nat)
  BY NatLessThanWellFounded, WFMin, Zenon
<1>2. \A y \in T : ~(y < x)
  BY <1>1 DEF OpToRel
<1> QED
  BY <1>2

\* Were something lesser than the root, the first such would be lesser than what is
\* above it.
LEMMA RootIsLeast ==
  ASSUME HeapAssumption, HeapInv, pc = "idle", NEW i \in Used
  PROVE  0 \in Used /\ Key(0) <= Key(i)
<1>1. HeapTypeOK /\ Filled /\ HeapOrdered
  BY DEF HeapInv, HeapSound
<1>2. 0 \in Used
  BY <1>1, Positions
<1> DEFINE Lesser == {j \in Used : Key(j) < Key(0)}
<1>3. ASSUME Lesser # {} PROVE FALSE
  <2>1. Lesser \subseteq Nat
    BY <1>1, Positions
  <2>2. PICK j \in Lesser : \A n \in Lesser : j <= n
    <3> HIDE DEF Lesser
    <3> QED
      BY <1>3, <2>1, LeastOfSet
  <2>3. j \in Used /\ j \in Nat /\ j # 0 /\ Key(j) < Key(0)
    BY <1>1, <1>2, <2>1, KeysCompare
  <2>4. Above(j) \in Used /\ Above(j) \in Nat /\ Above(j) < j /\ Key(Above(j)) <= Key(j)
    BY <1>1, <2>3, AboveIsBefore, Positions, KeysCompare DEF HeapOrdered
  <2>5. Key(Above(j)) \in Nat /\ Key(j) \in Nat /\ Key(0) \in Nat
    BY <1>1, <1>2, <2>3, <2>4, KeysCompare
  <2>6. Above(j) \in Lesser
    BY <2>3, <2>4, <2>5
  <2> QED
    BY <2>2, <2>3, <2>4, <2>6
<1>4. Key(i) \in Nat /\ Key(0) \in Nat
  BY <1>1, <1>2, KeysCompare
<1> QED
  BY <1>2, <1>3, <1>4

-----------------------------------------------------------------------------
(* How often each object is in the array.                                   *)

At(o) == {i \in Used : heap_arr[i] = o}

LEMMA PlacesFinite ==
  ASSUME HeapAssumption, HeapTypeOK
  PROVE  /\ IsFiniteSet(Used) /\ Cardinality(Used) = size
         /\ \A o : IsFiniteSet(At(o)) /\ Cardinality(At(o)) \in Nat
<1>1. size \in Nat
  BY Positions
<1>2. IsFiniteSet(Used) /\ Cardinality(Used) = size
  BY <1>1, FS_Interval DEF Used
<1>3. \A o : At(o) \in SUBSET Used
  BY DEF At
<1> QED
  BY <1>2, <1>3, FS_Subset, FS_CardinalityType

LEMMA SameCardinality == ASSUME NEW S PROVE Queue!Cardinality(S) = Cardinality(S)
BY DEF Queue!Cardinality, Cardinality

LEMMA Exchange ==
  ASSUME NEW S, IsFiniteSet(S), NEW i \in S, NEW j, j \notin S
  PROVE  Cardinality((S \ {i}) \cup {j}) = Cardinality(S)
<1>1. Cardinality(S) \in Nat
  BY FS_CardinalityType
<1>2. IsFiniteSet(S \ {i}) /\ Cardinality(S \ {i}) = Cardinality(S) - 1
  BY FS_RemoveElement
<1>3. Cardinality((S \ {i}) \cup {j}) = Cardinality(S \ {i}) + 1
  BY <1>2, FS_AddElement
<1> QED
  BY <1>1, <1>2, <1>3

\* The copies of the abstract queue are no more than the positions in use.
LEMMA CopiesFit ==
  ASSUME HeapAssumption, HeapTypeOK
  PROVE  Cardinality(Queue!Copies) \in Nat /\ Cardinality(Queue!Copies) <= size
<1> DEFINE C == Queue!Copies
           B == [o \in Objects |-> CHOOSE f : f \in Bijection(1 .. Cardinality(At(o)), At(o))]
           g == [c \in C |-> B[c[1]][c[2]]]
<1>1. C = {c \in Objects \X (1 .. HeapCapacity) : c[2] <= Cardinality(At(c[1]))}
  BY DEF Queue!Copies, HeapContent, At
<1>2. \A o \in Objects : B[o] \in Bijection(1 .. Cardinality(At(o)), At(o))
  BY PlacesFinite, FS_CardinalityType DEF ExistsBijection
<1> HIDE DEF B
<1>3. ASSUME NEW c \in C PROVE c[1] \in Objects /\ c[2] \in 1 .. Cardinality(At(c[1])) /\ c = <<c[1], c[2]>>
  BY <1>1, PlacesFinite
<1> HIDE DEF C
<1>4. ASSUME NEW c \in C PROVE g[c] \in At(c[1]) /\ g[c] = B[c[1]][c[2]]
  BY <1>2, <1>3 DEF Bijection, Injection
<1>5. ASSUME NEW c \in C, NEW d \in C, g[c] = g[d] PROVE c = d
  <2>1. c[1] = d[1]
    BY <1>4, <1>5 DEF At
  <2>2. PICK o \in Objects : o = c[1]
    BY <1>3
  <2>3. B[o] \in Injection(1 .. Cardinality(At(o)), At(o))
    BY <1>2 DEF Bijection
  <2>4. /\ c[2] \in 1 .. Cardinality(At(o)) /\ d[2] \in 1 .. Cardinality(At(o))
        /\ B[o][c[2]] = B[o][d[2]]
    BY <1>3, <1>4, <1>5, <2>1, <2>2
  <2>5. c[2] = d[2]
    BY <2>3, <2>4 DEF Injection, IsInjective
  <2> QED
    BY <1>3, <2>1, <2>5
<1>6. g \in Injection(C, Used)
  BY <1>4, <1>5 DEF Injection, IsInjective, At
<1> HIDE DEF g
<1> QED
  BY <1>6, PlacesFinite, FS_Injection, FS_CardinalityType DEF C

\* A swap only carries objects around.
LEMMA SwapCarries ==
  ASSUME HeapAssumption, HeapTypeOK, NEW i \in Used, NEW j \in Used, i # j, Swap(i, j), UNCHANGED size
  PROVE  HeapContent' = HeapContent
<1>1. /\ Used' = Used /\ Used \subseteq Slots
      /\ \A n \in Used : heap_arr'[n] = IF n = i THEN heap_arr[j] ELSE IF n = j THEN heap_arr[i] ELSE heap_arr[n]
  BY Positions DEF Swap, HeapTypeOK, Used
<1>2. ASSUME NEW o PROVE Cardinality(At(o)') = Cardinality(At(o))
  <2>1. At(o)' = {n \in Used : heap_arr'[n] = o}
    BY <1>1 DEF At
  <2>2. CASE heap_arr[i] = heap_arr[j]
    <3>1. \A n \in Used : heap_arr'[n] = heap_arr[n]
      BY <1>1, <2>2
    <3>2. At(o)' = At(o)
      BY <2>1, <3>1 DEF At
    <3> QED
      BY <3>2
  <2>3. CASE heap_arr[i] # heap_arr[j] /\ o = heap_arr[i]
    <3>1. i \in At(o) /\ j \notin At(o)
      BY <2>3 DEF At
    <3>2. At(o)' = (At(o) \ {i}) \cup {j}
      BY <1>1, <2>1, <2>3 DEF At
    <3> QED
      BY <3>1, <3>2, PlacesFinite, Exchange
  <2>4. CASE heap_arr[i] # heap_arr[j] /\ o = heap_arr[j]
    <3>1. j \in At(o) /\ i \notin At(o)
      BY <2>4 DEF At
    <3>2. At(o)' = (At(o) \ {j}) \cup {i}
      BY <1>1, <2>1, <2>4 DEF At
    <3> QED
      BY <3>1, <3>2, PlacesFinite, Exchange
  <2>5. CASE o # heap_arr[i] /\ o # heap_arr[j]
    <3>1. At(o)' = At(o)
      BY <1>1, <2>1, <2>5 DEF At
    <3> QED
      BY <3>1
  <2> QED
    BY <2>2, <2>3, <2>4, <2>5
<1>3. HeapContent = [o \in Objects |-> Cardinality(At(o))]
  BY DEF HeapContent, At
<1>4. HeapContent' = [o \in Objects |-> Cardinality(At(o)')]
  BY DEF HeapContent, At
<1> QED
  BY <1>2, <1>3, <1>4

LEMMA InsertIsInsert ==
  ASSUME HeapAssumption, HeapInv, NEW o \in Objects, st_heap_insert(o)
  PROVE  Queue!Insert(o) \/ Queue!Refuse
<1>1. HeapTypeOK /\ prio' = prio
  BY DEF HeapInv, st_heap_insert
<1>2. CASE InsertRefused(o)
  <2>1. heap_out' = HeapResult("full", NoObj) /\ UNCHANGED <<heap_arr, size>>
    BY <1>2 DEF st_heap_insert
  <2>2. HeapContent' = HeapContent
    BY <2>1 DEF HeapContent, Used
  <2> QED
    BY <1>1, <2>1, <2>2 DEF Queue!Refuse, Queue!Result, HeapResult
<1>3. CASE ~InsertRefused(o)
  <2>1. heap_arr' = [heap_arr EXCEPT ![size] = o] /\ size' = size + 1
    BY <1>3 DEF st_heap_insert
  <2>2. /\ size \in Nat /\ size < HeapCapacity /\ size \in Slots /\ HeapCapacity \in Nat
    BY <1>1, <1>3 DEF HeapTypeOK, HeapAssumption, InsertRefused, Slots
  <2>3. heap_out' = HeapResult("ok", NoObj)
    BY <1>3, <2>1, <2>2 DEF st_heap_insert, Enter
  <2>4. Used' = Used \cup {size} /\ size \notin Used /\ Used \subseteq Slots
    BY <1>1, <2>1, <2>2, Positions DEF Used
  <2>5. \A i \in Used' : heap_arr'[i] = IF i = size THEN o ELSE heap_arr[i]
    BY <1>1, <2>1, <2>2, <2>4 DEF HeapTypeOK
  <2>6. \A q : At(q)' = IF q = o THEN At(q) \cup {size} ELSE At(q)
    BY <2>4, <2>5 DEF At
  <2>7. size \notin At(o) /\ IsFiniteSet(At(o)) /\ Cardinality(At(o)) \in Nat
    BY <1>1, <2>4, PlacesFinite DEF At
  <2>8. Cardinality(At(o)') = Cardinality(At(o)) + 1
    BY <2>6, <2>7, FS_AddElement
  <2>9. HeapContent' = [HeapContent EXCEPT ![o] = @ + 1]
    <3>1. HeapContent = [q \in Objects |-> Cardinality(At(q))] /\ HeapContent' = [q \in Objects |-> Cardinality(At(q)')]
      BY DEF HeapContent, At
    <3> QED
      BY <2>6, <2>8, <3>1
  <2>10. Cardinality(Queue!Copies) < HeapCapacity
    <3>1. Cardinality(Queue!Copies) \in Nat /\ Cardinality(Queue!Copies) <= size
      BY <1>1, CopiesFit
    <3> QED
      BY <2>2, <3>1
  <2> QED
    BY <1>1, <2>3, <2>9, <2>10, SameCardinality DEF Queue!Insert, Queue!Result, HeapResult
<1> QED
  BY <1>2, <1>3

LEMMA ExtractIsExtract ==
  ASSUME HeapAssumption, HeapInv, st_heap_extract
  PROVE  Queue!Refuse \/ \E o \in Objects : Queue!Extract(o)
<1>1. HeapTypeOK /\ Filled /\ prio' = prio /\ pc = "idle"
  BY DEF HeapInv, st_heap_extract
<1>2. HeapContent = [q \in Objects |-> Cardinality(At(q))] /\ HeapContent' = [q \in Objects |-> Cardinality(At(q)')]
  BY DEF HeapContent, At
<1>3. CASE size = 0
  <2>1. heap_out' = HeapResult("empty", NoObj) /\ UNCHANGED <<heap_arr, size>>
    BY <1>3 DEF st_heap_extract
  <2>2. Used = {} /\ HeapContent' = HeapContent
    BY <1>3, <2>1 DEF Used, HeapContent
  <2>3. \A q \in Objects : HeapContent[q] = 0
    <3>1. \A q : At(q) = {}
      BY <2>2 DEF At
    <3> QED
      BY <1>2, <3>1, FS_EmptySet
  <2> QED
    BY <1>1, <2>1, <2>2, <2>3 DEF Queue!Refuse, Queue!Members, Queue!Result, HeapResult
<1>4. CASE size # 0
  <2>1. PICK last \in Used : last = size - 1
    <3>1. size - 1 \in Used
      BY <1>1, <1>4, Positions DEF Used
    <3> QED
      BY <3>1
  <2>2. /\ 0 \in Used /\ Used \subseteq Slots /\ size \in Nat /\ size >= 1
    BY <1>1, <1>4, Positions, RootIsLeast, <2>1
  <2>3. PICK taken \in Objects, moved \in Objects : taken = heap_arr[0] /\ moved = heap_arr[last]
    BY <1>1, <2>2 DEF Filled
  <2>4. /\ size' = last /\ heap_out' = HeapResult("ok", taken)
        /\ \/ size = 1 /\ heap_arr' = heap_arr
           \/ size > 1 /\ heap_arr' = [heap_arr EXCEPT ![0] = moved]
    BY <1>4, <2>1, <2>2, <2>3 DEF st_heap_extract, Enter
  <2>5. Used' = Used \ {last} /\ (size = 1 <=> last = 0)
    BY <2>1, <2>2, <2>4 DEF Used
  <2>6. \A i \in Used' : heap_arr'[i] = IF i = 0 THEN moved ELSE heap_arr[i]
    BY <1>1, <2>2, <2>4, <2>5 DEF HeapTypeOK
  <2>7. \A q : At(q)' = {i \in Used \ {last} : (IF i = 0 THEN moved ELSE heap_arr[i]) = q}
    BY <2>5, <2>6 DEF At
  <2>8. /\ 0 \in At(taken) /\ last \in At(moved)
        /\ \A q : IsFiniteSet(At(q)) /\ Cardinality(At(q)) \in Nat
    BY <1>1, <2>2, <2>3, PlacesFinite DEF At
  <2>9. Cardinality(At(taken)') = Cardinality(At(taken)) - 1
    <3>1. CASE moved = taken
      <4>1. At(taken)' = At(taken) \ {last}
        BY <2>3, <2>7, <3>1 DEF At
      <4> QED
        BY <2>8, <3>1, <4>1, FS_RemoveElement
    <3>2. CASE moved # taken
      <4>1. At(taken)' = At(taken) \ {0}
        BY <2>3, <2>7, <3>2 DEF At
      <4> QED
        BY <2>8, <4>1, FS_RemoveElement
    <3> QED
      BY <3>1, <3>2
  <2>10. ASSUME NEW q, q # taken PROVE Cardinality(At(q)') = Cardinality(At(q))
    <3>1. CASE q = moved
      <4>1. At(q)' = (At(q) \ {last}) \cup {0} /\ 0 \notin At(q) /\ last \in At(q)
        BY <2>2, <2>3, <2>7, <2>8, <2>10, <3>1 DEF At
      <4> QED
        BY <2>8, <4>1, Exchange
    <3>2. CASE q # moved
      <4>1. At(q)' = At(q)
        BY <2>3, <2>7, <2>10, <3>2 DEF At
      <4> QED
        BY <4>1
    <3> QED
      BY <3>1, <3>2
  <2>11. HeapContent' = [HeapContent EXCEPT ![taken] = @ - 1]
    BY <1>2, <2>9, <2>10
  <2>12. HeapContent[taken] > 0
    <3>1. Cardinality(At(taken)) # 0
      BY <2>8, FS_EmptySet
    <3> QED
      BY <1>2, <2>8, <3>1
  <2>13. ASSUME NEW q \in Queue!Members PROVE prio[taken] <= prio[q]
    <3>1. q \in Objects /\ At(q) # {}
      <4>1. q \in Objects /\ Cardinality(At(q)) > 0
        BY <1>2, <2>13 DEF Queue!Members
      <4>2. Cardinality(At(q)) # 0
        BY <4>1
      <4> QED
        BY <4>1, <4>2, FS_EmptySet
    <3>2. PICK i \in Used : heap_arr[i] = q
      BY <3>1 DEF At
    <3> QED
      BY <1>1, <2>3, <3>2, RootIsLeast DEF Key
  <2>14. taken \in Queue!Members
    BY <2>12 DEF Queue!Members
  <2> QED
    BY <1>1, <2>4, <2>11, <2>13, <2>14 DEF Queue!Extract, Queue!Result, HeapResult
<1> QED
  BY <1>3, <1>4

LEMMA StepIsAbstract ==
  ASSUME HeapAssumption, HeapInv, [HeapNext]_heapVars
  PROVE  [Queue!Next]_<<HeapContent, prio, heap_out>>
<1>1. HeapTypeOK /\ Running
  BY DEF HeapInv
<1>2. ASSUME UNCHANGED <<heap_arr, size>> PROVE HeapContent' = HeapContent
  BY <1>2 DEF HeapContent, Used
<1>3. CASE UNCHANGED heapVars
  BY <1>2, <1>3 DEF heapVars
<1>4. ASSUME NEW o \in Objects, st_heap_insert(o) PROVE Queue!Next
  BY <1>4, InsertIsInsert DEF Queue!Next
<1>5. CASE st_heap_extract
  BY <1>5, ExtractIsExtract DEF Queue!Next
<1>6. CASE st_heap_clear
  <2>1. \A q : {i \in Used' : heap_arr'[i] = q} = {}
    BY <1>6 DEF st_heap_clear, Used
  <2>2. HeapContent' = [q \in Objects |-> 0]
    BY <2>1, FS_EmptySet DEF HeapContent
  <2> QED
    BY <1>6, <2>2 DEF st_heap_clear, Queue!Next, Queue!Clear, Queue!Result, HeapResult
<1>7. ASSUME NEW o \in Objects, NEW k \in Keys, Rekey(o, k) PROVE Queue!Next
  <2>1. /\ HeapContent' = HeapContent /\ prio' = [prio EXCEPT ![o] = k]
        /\ heap_out' = HeapResult("ok", NoObj) \/ heap_out' = HeapResult("err", NoObj)
    BY <1>2, <1>7 DEF Rekey, Enter
  <2>2. Queue!Rekey(o, k)
    BY <2>1 DEF Queue!Rekey, Queue!Result, HeapResult
  <2> QED
    BY <2>2 DEF Queue!Next
<1>8. CASE FixUp
  <2>1. prio' = prio /\ heap_out' = heap_out /\ size' = size
    BY <1>8 DEF FixUp, Finish
  <2>2. CASE UpDone
    BY <1>2, <1>8, <2>1, <2>2 DEF FixUp
  <2>3. CASE ~UpDone
    <3>1. index \in Used /\ index # 0
      BY <1>1, <1>8, <2>3, Positions DEF FixUp, Running, UpDone, HeapTypeOK, Slots
    <3>2. Above(index) \in Used /\ Above(index) # index
      BY <1>1, <3>1, AboveIsBefore, Positions
    <3> QED
      BY <1>1, <1>8, <2>1, <2>3, <3>1, <3>2, SwapCarries DEF FixUp
  <2> QED
    BY <2>2, <2>3
<1>9. CASE FixDown
  <2>1. prio' = prio /\ heap_out' = heap_out /\ size' = size
    BY <1>9 DEF FixDown, Finish
  <2>2. CASE DownDone
    BY <1>2, <1>9, <2>1, <2>2 DEF FixDown
  <2>3. CASE ~DownDone
    <3>1. index \in Used /\ index \in Nat /\ 2 * index + 1 < size
      BY <1>1, <1>9, <2>3, Positions DEF FixDown, Running, DownDone, HeapTypeOK, Slots
    <3>2. Child(index) \in Used \ {0} /\ Above(Child(index)) = index
      BY <1>1, <3>1, ChildIsLeast DEF HeapInv
    <3>3. Child(index) # index
      BY <1>1, <3>1, <3>2, AboveIsBefore
    <3> QED
      BY <1>1, <1>9, <2>1, <2>3, <3>1, <3>2, <3>3, SwapCarries DEF FixDown
  <2> QED
    BY <2>2, <2>3
<1> QED
  BY <1>3, <1>4, <1>5, <1>6, <1>7, <1>8, <1>9 DEF HeapNext

\* The array is a bounded priority queue: an extract gives something of the least key
\* of all that is there, and no move of a repair loses or doubles anything.
THEOREM HeapIsPriorityQueue == ASSUME HeapAssumption PROVE HeapSpec => ImplementsPriorityQueue
<1>1. HeapInit => Queue!Init
  <2> SUFFICES ASSUME HeapInit PROVE Queue!Init
    OBVIOUS
  <2>1. \A q : {i \in Used : heap_arr[i] = q} = {}
    BY DEF HeapInit, Used
  <2>2. HeapContent = [q \in Objects |-> 0]
    BY <2>1, FS_EmptySet DEF HeapContent
  <2> QED
    BY <2>2 DEF HeapInit, Queue!Init, Queue!Result, HeapResult
<1> QED
  BY <1>1, HeapInvInit, HeapInvStep, StepIsAbstract, PTL DEF HeapSpec, ImplementsPriorityQueue, Queue!Spec
=============================================================================
