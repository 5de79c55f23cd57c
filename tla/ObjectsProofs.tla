---------------------------- MODULE ObjectsProofs ----------------------------
(***************************************************************************)
(* Proofs about the objects of MCObjects, for any values of their          *)
(* constants: the queue, the stack and the block pool, each on its own,    *)
(* the life of a semaphore, and the types of the four arrays.              *)
(***************************************************************************)
EXTENDS MCObjects, HeapProofs, Remainders, SequenceTheorems, FiniteSetTheorems, TLAPS

-----------------------------------------------------------------------------
(* The queue.  Indices.                                                     *)
\* The index after i in the ring, and the one after the last item.
Succ(i) == IF i = Ring - 1 THEN 0 ELSE i + 1
Stop == RingPlus(end_idx, 1)

LEMMA RingSize == Ring \in Nat \ {0} /\ Ring + 1 < Word /\ Word \in Nat \ {0}
BY QueueAssumption DEF Ring

\* Unsigned sums of an index and one or two are the next index and the one after.
LEMMA RingPlusIndex ==
  ASSUME NEW i \in 0 .. (Ring - 1)
  PROVE  RingPlus(i, 1) = Succ(i) /\ RingPlus(i, 2) = Succ(Succ(i))
<1> USE RingSize
<1>1. (i + 1) % Word = i + 1 /\ (i + 2) % Word = i + 2
  <2>1. PICK a \in 0 .. (Word - 1), b \in 0 .. (Word - 1) : a = i + 1 /\ b = i + 2
    OBVIOUS
  <2>2. a % Word = a /\ b % Word = b
    BY SmallRemainder
  <2> QED
    BY <2>1, <2>2
<1>2. (i + 1) % Ring = Succ(i)
  BY SmallRemainder DEF Succ
<1>3. (i + 2) % Ring = Succ(Succ(i))
  <2>1. CASE i = Ring - 1
    <3>1. (i + 2) % Ring = (1 + Ring * 1) % Ring
      BY <2>1
    <3>2. (1 + Ring * 1) % Ring = 1 % Ring
      BY RemainderShift
    <3>3. 1 % Ring = Succ(0)
      BY SmallRemainder DEF Succ
    <3> QED
      BY <2>1, <3>1, <3>2, <3>3 DEF Succ
  <2>2. CASE i # Ring - 1
    BY <2>2, SmallRemainder DEF Succ
  <2> QED
    BY <2>1, <2>2
<1> QED
  BY <1>1, <1>2, <1>3 DEF RingPlus

\* The end of a queue that is new or cleared is (unsigned)-1.
LEMMA RingPlusStart == RingPlus(Word - 1, 1) = 0 /\ RingPlus(Word - 1, 2) = Succ(0)
<1> USE RingSize
<1>1. (Word - 1 + 1) % Word = 0 /\ (Word - 1 + 2) % Word = 1
  BY SmallRemainder
<1>2. 0 % Ring = 0 /\ 1 % Ring = Succ(0)
  BY SmallRemainder DEF Succ
<1> QED
  BY <1>1, <1>2 DEF RingPlus

\* A queue without an index of its last item starts at zero.
IndexOK == TypeOK /\ (end_idx = Word - 1 => start_idx = 0)

LEMMA StopIndex ==
  ASSUME IndexOK
  PROVE  /\ Stop \in 0 .. (Ring - 1) /\ start_idx \in 0 .. (Ring - 1)
         /\ Full <=> Succ(Stop) = start_idx
         /\ Empty <=> Stop = start_idx
<1> USE RingSize
<1>1. start_idx \in 0 .. (Ring - 1) /\ end_idx \in 0 .. (Ring - 1) \cup {Word - 1}
  BY DEF IndexOK, TypeOK
<1>2. Empty <=> Stop = start_idx
  BY DEF Empty, Stop
<1>3. CASE end_idx \in 0 .. (Ring - 1)
  <2>1. Stop = Succ(end_idx) /\ RingPlus(end_idx, 2) = Succ(Stop)
    BY <1>3, RingPlusIndex DEF Stop
  <2> QED
    BY <1>1, <1>2, <1>3, <2>1 DEF Full, Succ
<1>4. CASE end_idx = Word - 1
  <2>1. Stop = 0 /\ RingPlus(end_idx, 2) = Succ(Stop)
    BY <1>4, RingPlusStart DEF Stop
  <2> QED
    BY <1>1, <1>2, <2>1 DEF Full
<1> QED
  BY <1>1, <1>3, <1>4

LEMMA IndexInit == Init => IndexOK
<1> SUFFICES ASSUME Init PROVE IndexOK
  OBVIOUS
<1> USE RingSize
<1>1. start_idx \in 0 .. (Ring - 1) /\ end_idx = Word - 1 /\ start_idx = 0
  BY DEF Init
<1>2. data_arr \in [0 .. (Ring - 1) -> Items \cup {NoItem}]
  BY DEF Init
<1>3. out \in [code : {"none", "ok", "full", "empty"}, item : Items \cup {NoItem}]
  BY DEF Init, Result
<1> QED
  BY <1>1, <1>2, <1>3 DEF IndexOK, TypeOK

LEMMA IndexStep == IndexOK /\ [Next]_vars => IndexOK'
<1> SUFFICES ASSUME IndexOK, [Next]_vars PROVE IndexOK'
  OBVIOUS
<1> USE RingSize
<1>1. /\ start_idx \in 0 .. (Ring - 1) /\ end_idx \in 0 .. (Ring - 1) \cup {Word - 1}
      /\ data_arr \in [0 .. (Ring - 1) -> Items \cup {NoItem}]
      /\ out \in [code : {"none", "ok", "full", "empty"}, item : Items \cup {NoItem}]
      /\ end_idx = Word - 1 => start_idx = 0
      /\ Stop \in 0 .. (Ring - 1)
  BY StopIndex DEF IndexOK, TypeOK
<1>2. ASSUME NEW x \in Items, st_enqueue(x) PROVE IndexOK'
  <2>1. CASE UNCHANGED <<start_idx, end_idx, data_arr>> /\ out' = Result("full", NoItem)
    BY <1>1, <2>1 DEF IndexOK, TypeOK, Result
  <2>2. CASE /\ end_idx' = Stop /\ data_arr' = [data_arr EXCEPT ![end_idx'] = x]
             /\ out' = Result("ok", NoItem) /\ UNCHANGED start_idx
    <3>1. data_arr' \in [0 .. (Ring - 1) -> Items \cup {NoItem}]
      BY <1>1, <2>2
    <3>2. out' \in [code : {"none", "ok", "full", "empty"}, item : Items \cup {NoItem}]
      BY <2>2 DEF Result
    <3>3. end_idx' # Word - 1 /\ end_idx' \in 0 .. (Ring - 1)
      BY <1>1, <2>2
    <3> QED
      BY <1>1, <2>2, <3>1, <3>2, <3>3 DEF IndexOK, TypeOK
  <2> QED
    BY <1>2, <2>1, <2>2 DEF st_enqueue, Stop
<1>3. CASE st_dequeue
  <2>1. CASE UNCHANGED <<start_idx, end_idx, data_arr>> /\ out' = Result("empty", NoItem)
    BY <1>1, <2>1 DEF IndexOK, TypeOK, Result
  <2>2. CASE /\ ~Empty /\ out' = Result("ok", data_arr[start_idx])
             /\ start_idx' = RingPlus(start_idx, 1) /\ UNCHANGED <<end_idx, data_arr>>
    <3>1. start_idx' \in 0 .. (Ring - 1)
      BY <1>1, <2>2, RingPlusIndex DEF Succ
    <3>2. end_idx # Word - 1
      BY <1>1, <2>2, RingPlusStart DEF Empty
    <3>3. out' \in [code : {"none", "ok", "full", "empty"}, item : Items \cup {NoItem}]
      BY <1>1, <2>2 DEF Result
    <3> QED
      BY <1>1, <2>2, <3>1, <3>2, <3>3 DEF IndexOK, TypeOK
  <2> QED
    BY <1>3, <2>1, <2>2 DEF st_dequeue
<1>4. CASE st_queue_clear
  <2>1. /\ start_idx' = 0 /\ end_idx' = Word - 1 /\ data_arr' = data_arr
        /\ out' \in [code : {"none", "ok", "full", "empty"}, item : Items \cup {NoItem}]
    BY <1>4 DEF st_queue_clear, Result
  <2> QED
    BY <1>1, <2>1 DEF IndexOK, TypeOK
<1>5. CASE UNCHANGED vars
  BY <1>1, <1>5 DEF vars, IndexOK, TypeOK
<1> QED
  BY <1>2, <1>3, <1>4, <1>5 DEF Next

\* The indices stay within the ring, and every item within the array, for any
\* sequence of calls.
THEOREM QueueTypeCorrect == Spec => []TypeOK
<1>1. Spec => []IndexOK
  BY IndexInit, IndexStep, PTL DEF Spec
<1>2. IndexOK => TypeOK
  BY DEF IndexOK
<1> QED
  BY <1>1, <1>2, PTL

-----------------------------------------------------------------------------
(* The size.                                                                *)

LEMMA LengthBounds ==
  ASSUME IndexOK
  PROVE  /\ Length \in 0 .. (Ring - 1)
         /\ Stop >= start_idx => Length = Stop - start_idx
         /\ Stop < start_idx => Length = Stop - start_idx + Ring
<1> USE RingSize
<1>1. Stop \in 0 .. (Ring - 1) /\ start_idx \in 0 .. (Ring - 1)
  BY StopIndex
<1>2. Length = IF Stop >= start_idx THEN Stop - start_idx ELSE Stop - start_idx + Ring
  BY DEF Length, Stop
<1> QED
  BY <1>1, <1>2

\* What st_queue_size computes, without wrapped items and with them.
LEMMA SizeExact == IndexOK => SizeExactButForWrap
<1> SUFFICES ASSUME IndexOK PROVE SizeExactButForWrap
  OBVIOUS
<1> USE RingSize
<1>1. /\ start_idx \in 0 .. (Ring - 1) /\ end_idx \in 0 .. (Ring - 1) \cup {Word - 1}
      /\ end_idx = Word - 1 => start_idx = 0
  BY DEF IndexOK, TypeOK
<1>2. PICK d \in Int : d = end_idx + 1 - start_idx
  BY <1>1
<1>3. st_queue_size = (d % Word) % Ring
  <2>1. end_idx + (1 - start_idx) = d
    BY <1>1, <1>2
  <2> QED
    BY <2>1 DEF st_queue_size, RingPlus
<1>4. CASE end_idx = Word - 1
  <2>1. d = Word /\ start_idx = 0 /\ ~Wrapped
    BY <1>1, <1>2, <1>4 DEF Wrapped
  <2>2. d % Word = 0 /\ 0 % Ring = 0
    BY <2>1, SmallRemainder
  <2>3. Length = 0
    BY <1>4, <2>1, RingPlusStart, LengthBounds DEF Stop
  <2> QED
    BY <1>3, <2>1, <2>2, <2>3 DEF SizeExactButForWrap
<1>5. CASE end_idx \in 0 .. (Ring - 1) /\ ~Wrapped
  <2>1. d \in 0 .. Ring
    BY <1>1, <1>2, <1>5 DEF Wrapped
  <2>2. d % Word = d
    BY <2>1, SmallRemainder
  <2>3. Stop = Succ(end_idx)
    BY <1>5, RingPlusIndex DEF Stop
  <2>4. d % Ring = Length
    <3>1. CASE end_idx # Ring - 1
      <4>1. Stop = end_idx + 1 /\ d \in 0 .. (Ring - 1) /\ Length = d
        BY <1>1, <1>2, <1>5, <2>1, <2>3, <3>1, LengthBounds DEF Wrapped, Succ
      <4> QED
        BY <4>1, SmallRemainder
    <3>2. CASE end_idx = Ring - 1 /\ start_idx = 0
      <4>1. Stop = 0 /\ d = Ring /\ Length = 0
        BY <1>2, <2>3, <3>2, LengthBounds DEF Succ
      <4>2. d - Ring \in 0 .. (Ring - 1)
        BY <4>1
      <4>3. d % Ring = d - Ring
        BY <4>2, SmallRemainder
      <4> QED
        BY <4>1, <4>3
    <3>3. CASE end_idx = Ring - 1 /\ start_idx # 0
      <4>1. Stop = 0 /\ Length = Ring - start_idx /\ d = Ring - start_idx
        BY <1>1, <1>2, <2>3, <3>3, LengthBounds DEF Succ
      <4>2. d \in 0 .. (Ring - 1)
        BY <1>1, <3>3, <4>1
      <4> QED
        BY <4>1, <4>2, SmallRemainder
    <3> QED
      BY <3>1, <3>2, <3>3
  <2> QED
    BY <1>3, <1>5, <2>2, <2>4 DEF SizeExactButForWrap
<1>6. CASE end_idx \in 0 .. (Ring - 1) /\ Wrapped
  <2>1. d + Ring \in 1 .. (Ring - 1) /\ d + Word \in 0 .. (Word - 1)
    BY <1>1, <1>2, <1>6 DEF Wrapped
  <2>2. d % Word = d + Word
    BY <2>1, SmallRemainder
  <2>3. Length = d + Ring
    <3>1. end_idx # Ring - 1 /\ Stop = end_idx + 1 /\ Stop < start_idx
      BY <1>1, <1>6, RingPlusIndex DEF Wrapped, Stop, Succ
    <3> QED
      BY <1>1, <1>2, <3>1, LengthBounds
  <2>4. PICK q \in Int, m \in 0 .. (Ring - 1) : m = Word % Ring /\ Word = Ring * q + m
    <3>1. /\ Word \div Ring \in Int /\ Word % Ring \in 0 .. (Ring - 1)
          /\ Word = Ring * (Word \div Ring) + (Word % Ring)
      OBVIOUS
    <3> QED
      BY <3>1
  <2>5. PICK e \in Int, k \in Int : e = d + Ring + m /\ q = k + 1
    <3>1. d + Ring + m \in Int /\ q - 1 \in Int /\ q = (q - 1) + 1
      OBVIOUS
    <3> QED
      BY <3>1
  <2>6. Ring * q = Ring * k + Ring /\ Ring * k \in Int
    BY <2>5
  <2>7. d + Word = e + Ring * k
    BY <2>4, <2>5, <2>6
  <2>8. (e + Ring * k) % Ring = e % Ring
    BY RemainderShift
  <2>9. (d + Word) % Ring = (d + Ring + m) % Ring
    BY <2>5, <2>7, <2>8
  <2> QED
    BY <1>3, <1>6, <2>2, <2>3, <2>4, <2>9 DEF SizeExactButForWrap
<1> QED
  BY <1>1, <1>4, <1>5, <1>6

\* st_queue_size is exact but for items that wrap around the ring, and then off by
\* 2^32 modulo the ring, for every capacity.
THEOREM QueueSizeExactButForWrap == Spec => []SizeExactButForWrap
<1>1. Spec => []IndexOK
  BY IndexInit, IndexStep, PTL DEF Spec
<1> QED
  BY <1>1, SizeExact, PTL

-----------------------------------------------------------------------------
(* The ring as a queue.                                                     *)

\* The place of the i-th item of a queue that starts at s.
Place(s, i) == IF s + i - 1 < Ring THEN s + i - 1 ELSE s + i - 1 - Ring

LEMMA PlaceRemainder ==
  ASSUME NEW s \in 0 .. (Ring - 1), NEW i \in 1 .. Ring
  PROVE  (s + i - 1) % Ring = Place(s, i) /\ Place(s, i) \in 0 .. (Ring - 1)
<1> USE RingSize
<1>1. PICK a \in Int : a = s + i - 1
  OBVIOUS
<1>2. a \in 0 .. (Ring - 1) \/ a - Ring \in 0 .. (Ring - 1)
  BY <1>1
<1>3. a % Ring = IF a < Ring THEN a ELSE a - Ring
  <2>1. CASE a \in 0 .. (Ring - 1)
    <3>1. a % Ring = a
      BY <2>1, SmallRemainder
    <3> QED
      BY <2>1, <3>1
  <2>2. CASE a - Ring \in 0 .. (Ring - 1)
    <3>1. a % Ring = a - Ring
      BY <2>2, SmallRemainder
    <3> QED
      BY <2>2, <3>1
  <2> QED
    BY <1>2, <2>1, <2>2
<1> QED
  BY <1>1, <1>2, <1>3 DEF Place

\* Content, read item by item.
ItemsOf(data, s, n) == [i \in 1 .. n |-> data[Place(s, i)]]

LEMMA ContentItems == IndexOK => Content = ItemsOf(data_arr, start_idx, Length)
<1> SUFFICES ASSUME IndexOK PROVE Content = ItemsOf(data_arr, start_idx, Length)
  OBVIOUS
<1>1. /\ start_idx \in 0 .. (Ring - 1)
      /\ Length \in 0 .. (Ring - 1) /\ Ring \in Nat
  BY LengthBounds, StopIndex, RingSize
<1>2. \A i \in 1 .. Length : (start_idx + i - 1) % Ring = Place(start_idx, i)
  BY <1>1, PlaceRemainder
<1> QED
  BY <1>2 DEF Content, ItemsOf

\* The same of the next state.
LEMMA ContentItemsNext ==
  IndexOK' => (Content = ItemsOf(data_arr, start_idx, Length))'
BY ContentItems, PTL

\* A sequence of items of the ring, as the abstract queue sees it.
LEMMA ItemsSeq ==
  ASSUME NEW S, NEW data \in [0 .. (Ring - 1) -> S], NEW s \in 0 .. (Ring - 1),
         NEW n \in 0 .. (Ring - 1)
  PROVE  /\ ItemsOf(data, s, n) \in Seq(S) /\ Len(ItemsOf(data, s, n)) = n
         /\ \A i \in 1 .. n : ItemsOf(data, s, n)[i] = data[Place(s, i)]
<1>1. \A i \in 1 .. n : data[Place(s, i)] \in S
  <2> TAKE i \in 1 .. n
  <2>1. i \in 1 .. Ring
    BY RingSize
  <2>2. Place(s, i) \in 0 .. (Ring - 1)
    BY <2>1, PlaceRemainder
  <2> QED
    BY <2>2
<1> QED
  BY <1>1 DEF ItemsOf

\* One more item in the place after the last.
LEMMA ItemsAppend ==
  ASSUME NEW data \in [0 .. (Ring - 1) -> Items \cup {NoItem}],
         NEW s \in 0 .. (Ring - 1), NEW n \in Nat, n + 1 < Ring, NEW x \in Items,
         NEW new, new[Place(s, n + 1)] = x,
         \A q \in 0 .. (Ring - 1) : q # Place(s, n + 1) => new[q] = data[q]
  PROVE  ItemsOf(new, s, n + 1) = Append(ItemsOf(data, s, n), x)
<1> USE RingSize
<1> DEFINE both == [i \in 1 .. (n + 1) |-> IF i = n + 1 THEN x ELSE data[Place(s, i)]]
<1>1. /\ Place(s, n + 1) \in 0 .. (Ring - 1)
      /\ \A i \in 1 .. n : Place(s, i) \in 0 .. (Ring - 1)
  BY DEF Place
<1>2. \A i \in 1 .. n : Place(s, i) # Place(s, n + 1)
  BY DEF Place
<1>3. \A i \in 1 .. n : new[Place(s, i)] = data[Place(s, i)]
  BY <1>1, <1>2
<1>4. new[Place(s, n + 1)] = x
  OBVIOUS
<1>5. ItemsOf(new, s, n + 1) = both
  <2>1. \A i \in 1 .. (n + 1) : new[Place(s, i)] = both[i]
    <3> TAKE i \in 1 .. (n + 1)
    <3>1. CASE i = n + 1
      BY <1>4, <3>1
    <3>2. CASE i \in 1 .. n
      BY <1>3, <3>2
    <3> QED
      BY <3>1, <3>2
  <2> QED
    BY <2>1 DEF ItemsOf
<1>6. /\ ItemsOf(data, s, n) \in Seq(Items \cup {NoItem}) /\ Len(ItemsOf(data, s, n)) = n
      /\ \A i \in 1 .. n : ItemsOf(data, s, n)[i] = data[Place(s, i)]
  <2>1. \A i \in 1 .. n : data[Place(s, i)] \in Items \cup {NoItem}
    BY <1>1
  <2> QED
    BY <2>1 DEF ItemsOf
<1>7. Append(ItemsOf(data, s, n), x) = both
  BY <1>6
<1> QED
  BY <1>5, <1>7

\* One item less at the start.
LEMMA ItemsTail ==
  ASSUME NEW S, NEW data \in [0 .. (Ring - 1) -> S], NEW s \in 0 .. (Ring - 1),
         NEW n \in Nat, 0 < n, n < Ring
  PROVE  /\ ItemsOf(data, s, n) # << >>
         /\ Head(ItemsOf(data, s, n)) = data[s]
         /\ Tail(ItemsOf(data, s, n)) = ItemsOf(data, Succ(s), n - 1)
<1> USE RingSize
<1>1. /\ ItemsOf(data, s, n) \in Seq(S) /\ Len(ItemsOf(data, s, n)) = n
      /\ \A i \in 1 .. n : ItemsOf(data, s, n)[i] = data[Place(s, i)]
  BY ItemsSeq
<1>2. Place(s, 1) = s
  BY DEF Place
<1>3. \A i \in 1 .. (n - 1) : Place(Succ(s), i) = Place(s, i + 1)
  BY DEF Place, Succ
<1>4. ItemsOf(data, s, n) # << >> /\ Head(ItemsOf(data, s, n)) = data[s]
  BY <1>1, <1>2
<1>5. Tail(ItemsOf(data, s, n)) = [i \in 1 .. (n - 1) |-> data[Place(s, i + 1)]]
  BY <1>1
<1>6. ItemsOf(data, Succ(s), n - 1) = [i \in 1 .. (n - 1) |-> data[Place(s, i + 1)]]
  BY <1>3 DEF ItemsOf
<1> QED
  BY <1>4, <1>5, <1>6

LEMMA IndexFacts ==
  ASSUME IndexOK
  PROVE  /\ data_arr \in [0 .. (Ring - 1) -> Items \cup {NoItem}]
         /\ start_idx \in 0 .. (Ring - 1) /\ Stop \in 0 .. (Ring - 1)
         /\ Length \in 0 .. (Ring - 1)
         /\ Place(start_idx, Length + 1) = Stop
         /\ Full <=> Length = Capacity
         /\ Empty <=> Length = 0
<1> USE RingSize
<1>1. /\ data_arr \in [0 .. (Ring - 1) -> Items \cup {NoItem}]
      /\ start_idx \in 0 .. (Ring - 1) /\ Stop \in 0 .. (Ring - 1)
      /\ Length \in 0 .. (Ring - 1)
      /\ Length = IF Stop >= start_idx THEN Stop - start_idx ELSE Stop - start_idx + Ring
  BY StopIndex, LengthBounds DEF IndexOK, TypeOK
<1>2. Place(start_idx, Length + 1) = Stop
  BY <1>1 DEF Place
<1>3. Ring = Capacity + 1
  BY DEF Ring
<1>4. Full <=> Length = Capacity
  <2>1. Succ(Stop) = start_idx <=> Length = Ring - 1
    BY <1>1 DEF Succ
  <2> QED
    BY <1>3, <2>1, StopIndex, QueueAssumption
<1>5. Empty <=> Length = 0
  BY <1>1, StopIndex
<1> QED
  BY <1>1, <1>2, <1>4, <1>5

\* An enqueue that is not refused puts its item behind the others.
LEMMA EnqueueAppends ==
  ASSUME IndexOK, IndexOK', ~Full, NEW x \in Items,
         end_idx' = Stop, start_idx' = start_idx, data_arr'[Stop] = x,
         \A q \in 0 .. (Ring - 1) : q # Stop => data_arr'[q] = data_arr[q]
  PROVE  Content' = Append(Content, x)
<1> USE RingSize
<1>1. /\ data_arr \in [0 .. (Ring - 1) -> Items \cup {NoItem}]
      /\ start_idx \in 0 .. (Ring - 1) /\ Stop \in 0 .. (Ring - 1)
      /\ Length \in 0 .. (Ring - 1) /\ Place(start_idx, Length + 1) = Stop
      /\ Length # Ring - 1
  <2>1. Ring = Capacity + 1
    BY DEF Ring
  <2> QED
    BY <2>1, IndexFacts, QueueAssumption
<1>2. Stop' = Succ(Stop)
  <2>1. Stop' = RingPlus(Stop, 1)
    BY DEF Stop
  <2> QED
    BY <1>1, <2>1, RingPlusIndex
<1>3. Length' = Length + 1
  <2>1. Length' = IF Stop' >= start_idx' THEN Stop' - start_idx' ELSE Stop' - start_idx' + Ring
    BY DEF Length, Stop
  <2>2. Length = IF Stop >= start_idx THEN Stop - start_idx ELSE Stop - start_idx + Ring
    BY DEF Length, Stop
  <2> QED
    BY <1>1, <1>2, <2>1, <2>2 DEF Succ
<1>4. Content' = ItemsOf(data_arr', start_idx', Length')
  BY ContentItemsNext
<1>5. Content = ItemsOf(data_arr, start_idx, Length)
  BY ContentItems
<1>6. ItemsOf(data_arr', start_idx, Length + 1)
        = Append(ItemsOf(data_arr, start_idx, Length), x)
  <2>1. /\ data_arr'[Place(start_idx, Length + 1)] = x
        /\ \A q \in 0 .. (Ring - 1) :
             q # Place(start_idx, Length + 1) => data_arr'[q] = data_arr[q]
    BY <1>1
  <2>2. Length \in Nat /\ Length + 1 < Ring
    BY <1>1
  <2> QED
    BY <1>1, <2>1, <2>2, ItemsAppend
<1> QED
  BY <1>1, <1>3, <1>4, <1>5, <1>6

\* A dequeue that gives an item gives the first and keeps the others.
LEMMA DequeueTakesHead ==
  ASSUME IndexOK, IndexOK', ~Empty, start_idx' = RingPlus(start_idx, 1),
         end_idx' = end_idx, data_arr' = data_arr
  PROVE  /\ Content # << >> /\ Head(Content) = data_arr[start_idx]
         /\ Content' = Tail(Content)
<1> USE RingSize
<1>1. /\ data_arr \in [0 .. (Ring - 1) -> Items \cup {NoItem}]
      /\ start_idx \in 0 .. (Ring - 1) /\ Stop \in 0 .. (Ring - 1)
      /\ Length \in 0 .. (Ring - 1) /\ Length # 0
  BY IndexFacts
<1>2. start_idx' = Succ(start_idx) /\ Stop' = Stop
  BY <1>1, RingPlusIndex DEF Stop
<1>3. Length' = Length - 1
  <2>1. Length' = IF Stop' >= start_idx' THEN Stop' - start_idx' ELSE Stop' - start_idx' + Ring
    BY DEF Length, Stop
  <2>2. Length = IF Stop >= start_idx THEN Stop - start_idx ELSE Stop - start_idx + Ring
    BY DEF Length, Stop
  <2> QED
    BY <1>1, <1>2, <2>1, <2>2 DEF Succ
<1>4. Content' = ItemsOf(data_arr', start_idx', Length')
  BY ContentItemsNext
<1>5. Content = ItemsOf(data_arr, start_idx, Length)
  BY ContentItems
<1>6. /\ ItemsOf(data_arr, start_idx, Length) # << >>
      /\ Head(ItemsOf(data_arr, start_idx, Length)) = data_arr[start_idx]
      /\ Tail(ItemsOf(data_arr, start_idx, Length))
           = ItemsOf(data_arr, Succ(start_idx), Length - 1)
  <2>1. Length \in Nat /\ 0 < Length /\ Length < Ring
    BY <1>1
  <2> QED
    BY <1>1, <2>1, ItemsTail
<1> QED
  BY <1>2, <1>3, <1>4, <1>5, <1>6

LEMMA NoItemsEmpty ==
  ASSUME IndexOK PROVE Len(Content) = Length /\ (Length = 0 => Content = << >>)
<1>1. Content = ItemsOf(data_arr, start_idx, Length)
  BY ContentItems
<1>2. /\ data_arr \in [0 .. (Ring - 1) -> Items \cup {NoItem}]
      /\ start_idx \in 0 .. (Ring - 1) /\ Length \in 0 .. (Ring - 1)
  BY IndexFacts
<1>3. Len(ItemsOf(data_arr, start_idx, Length)) = Length
  BY <1>2, ItemsSeq
<1>4. Length = 0 => ItemsOf(data_arr, start_idx, Length) = << >>
  BY DEF ItemsOf
<1> QED
  BY <1>1, <1>3, <1>4

LEMMA ClearEmpties ==
  ASSUME IndexOK', start_idx' = 0, end_idx' = Word - 1
  PROVE  Content' = << >>
<1>1. Content' = ItemsOf(data_arr', start_idx', Length')
  BY ContentItemsNext
<1>2. Stop' = 0
  BY RingPlusStart DEF Stop
<1>3. Length' = 0
  BY <1>2 DEF Length, Stop
<1> QED
  BY <1>1, <1>3 DEF ItemsOf

\* The refinement: the ring is the bounded queue of the items put in, for every
\* capacity and every width of the indices.
THEOREM QueueImplementsFifo == Spec => ImplementsFifo
<1>1. Init => Fifo!Init
  <2> SUFFICES ASSUME Init PROVE Fifo!Init
    OBVIOUS
  <2>1. IndexOK
    BY IndexInit
  <2>2. Stop = 0 /\ start_idx = 0
    BY RingPlusStart DEF Init, Stop
  <2>3. Length = 0
    BY <2>2 DEF Length, Stop
  <2> QED
    BY <2>1, <2>3, NoItemsEmpty DEF Init, Fifo!Init, Fifo!Result, Result
<1>2. IndexOK /\ IndexOK' /\ [Next]_vars => [Fifo!Next]_<<Content, out>>
  <2> SUFFICES ASSUME IndexOK, IndexOK', [Next]_vars
               PROVE  [Fifo!Next]_<<Content, out>>
    OBVIOUS
  <2> USE DEF Fifo!Result, Result
  <2>1. /\ Len(Content) = Length /\ (Length = 0 => Content = << >>)
        /\ Full <=> Length = Capacity
        /\ Empty <=> Length = 0
    BY NoItemsEmpty, IndexFacts
  <2>2. ASSUME UNCHANGED <<start_idx, end_idx, data_arr>> PROVE Content' = Content
    BY <2>2 DEF Content, Length
  <2>3. ASSUME NEW x \in Items, st_enqueue(x) PROVE Fifo!Enqueue(x)
    <3>1. CASE Full /\ out' = Result("full", NoItem) /\ UNCHANGED <<start_idx, end_idx, data_arr>>
      BY <2>1, <2>2, <3>1 DEF Fifo!Enqueue
    <3>2. CASE /\ ~Full /\ end_idx' = Stop /\ data_arr' = [data_arr EXCEPT ![end_idx'] = x]
               /\ out' = Result("ok", NoItem) /\ UNCHANGED start_idx
      <4>1. /\ data_arr'[Stop] = x
            /\ \A q \in 0 .. (Ring - 1) : q # Stop => data_arr'[q] = data_arr[q]
        BY <3>2, IndexFacts
      <4>2. Content' = Append(Content, x)
        BY <3>2, <4>1, EnqueueAppends
      <4> QED
        BY <2>1, <3>2, <4>2 DEF Fifo!Enqueue
    <3> QED
      BY <2>3, <3>1, <3>2 DEF st_enqueue, Stop
  <2>4. CASE st_dequeue
    <3>1. CASE Empty /\ out' = Result("empty", NoItem) /\ UNCHANGED <<start_idx, end_idx, data_arr>>
      BY <2>1, <2>2, <3>1 DEF Fifo!Dequeue, Fifo!Next
    <3>2. CASE /\ ~Empty /\ out' = Result("ok", data_arr[start_idx])
               /\ start_idx' = RingPlus(start_idx, 1) /\ UNCHANGED <<end_idx, data_arr>>
      <4>1. /\ Content # << >> /\ Head(Content) = data_arr[start_idx]
            /\ Content' = Tail(Content)
        BY <3>2, DequeueTakesHead
      <4> QED
        BY <3>2, <4>1 DEF Fifo!Dequeue, Fifo!Next
    <3> QED
      BY <2>4, <3>1, <3>2 DEF st_dequeue
  <2>5. CASE st_queue_clear
    <3>1. Content' = << >>
      BY <2>5, ClearEmpties DEF st_queue_clear
    <3> QED
      BY <2>5, <3>1 DEF st_queue_clear, Fifo!Clear, Fifo!Next
  <2>6. CASE UNCHANGED vars
    BY <2>2, <2>6 DEF vars
  <2> QED
    BY <2>3, <2>4, <2>5, <2>6 DEF Next, Fifo!Next
<1>3. Spec => []IndexOK
  BY IndexInit, IndexStep, PTL DEF Spec
<1> QED
  BY <1>1, <1>2, <1>3, PTL DEF Spec, ImplementsFifo, Fifo!Spec

-----------------------------------------------------------------------------
(* The stack.                                                               *)
\* An unsigned depth is too deep exactly when no item lies there, zero included: it
\* wraps around to the largest number.
LEMMA DepthTest ==
  ASSUME StackAssumption, StackTypeOK, NEW n \in Depths
  PROVE  TooDeep(n) <=> n \notin 1 .. top
<1>1. /\ StackWord \in Nat \ {0} /\ top \in Nat /\ top < StackWord
      /\ n \in Nat /\ n < StackWord
  BY DEF StackAssumption, StackTypeOK, Depths
<1>2. CASE n = 0
  <2>1. PICK w \in Nat \ {0} : w = StackWord
    BY <1>1
  <2>2. (0 - 1) % w = w - 1
    BY SmallRemainder
  <2> QED
    BY <1>1, <1>2, <2>1, <2>2 DEF TooDeep
<1>3. CASE n # 0
  <2>1. PICK w \in Nat \ {0}, m \in Nat : w = StackWord /\ m = n - 1 /\ m < w
    BY <1>1, <1>3
  <2>2. m \in 0 .. (w - 1)
    BY <2>1
  <2>3. m % w = m
    BY <2>2, SmallRemainder
  <2> QED
    BY <1>1, <1>3, <2>1, <2>3 DEF TooDeep
<1> QED
  BY <1>2, <1>3

LEMMA StackTypesInit == ASSUME StackAssumption, StackInit PROVE StackTypeOK
BY DEF StackAssumption, StackInit, StackTypeOK, StackResult

LEMMA StackTypesStep == ASSUME StackAssumption, StackTypeOK, [StackNext]_stackVars PROVE StackTypeOK'
<1>1. StackCapacity \in Nat \ {0} /\ top \in 0 .. StackCapacity
  BY DEF StackAssumption, StackTypeOK
<1>2. stack_arr \in [0 .. (StackCapacity - 1) -> StackItems \cup {NoStackItem}]
  BY DEF StackTypeOK
<1>3. stack_out \in [code : {"none", "ok", "full", "empty"}, item : StackItems \cup {NoStackItem}]
  BY DEF StackTypeOK
<1> USE DEF StackTypeOK, StackResult
<1>4. ASSUME NEW x \in StackItems, st_stack_push(x) PROVE StackTypeOK'
  <2>1. CASE StackFull /\ stack_out' = StackResult("full", NoStackItem) /\ UNCHANGED <<top, stack_arr>>
    BY <1>1, <1>2, <2>1
  <2>2. CASE ~StackFull /\ stack_arr' = [stack_arr EXCEPT ![top] = x] /\ top' = top + 1
             /\ stack_out' = StackResult("ok", NoStackItem)
    BY <1>1, <1>2, <2>2 DEF StackFull
  <2> QED
    BY <1>4, <2>1, <2>2 DEF st_stack_push
<1>5. CASE st_stack_pop
  <2>1. CASE top = 0 /\ stack_out' = StackResult("empty", NoStackItem) /\ UNCHANGED <<top, stack_arr>>
    BY <1>1, <1>2, <2>1
  <2>2. CASE top # 0 /\ top' = top - 1 /\ stack_out' = StackResult("ok", stack_arr[top']) /\ UNCHANGED stack_arr
    BY <1>1, <1>2, <2>2
  <2> QED
    BY <1>5, <2>1, <2>2 DEF st_stack_pop
<1>6. ASSUME NEW n \in Depths, st_stack_topn(n) PROVE StackTypeOK'
  <2>1. top' = top /\ stack_arr' = stack_arr
    BY <1>6 DEF st_stack_topn
  <2>2. CASE stack_out' = StackResult("empty", NoStackItem)
    BY <1>1, <1>2, <2>1, <2>2
  <2>3. CASE stack_out' = StackResult("ok", IF top - n \in DOMAIN stack_arr THEN stack_arr[top - n] ELSE NoStackItem)
    <3>1. (IF top - n \in DOMAIN stack_arr THEN stack_arr[top - n] ELSE NoStackItem) \in StackItems \cup {NoStackItem}
      BY <1>2
    <3> QED
      BY <1>1, <1>2, <2>1, <2>3, <3>1
  <2> QED
    BY <1>6, <2>2, <2>3 DEF st_stack_topn
<1>7. CASE st_stack_clear
  BY <1>1, <1>2, <1>7 DEF st_stack_clear
<1>8. CASE UNCHANGED stackVars
  BY <1>1, <1>2, <1>3, <1>8 DEF stackVars
<1> QED
  BY <1>4, <1>5, <1>6, <1>7, <1>8 DEF StackNext

\* The top never passes the capacity and the items stay within the array.
THEOREM StackTypeCorrect == ASSUME StackAssumption PROVE StackSpec => []StackTypeOK
BY StackTypesInit, StackTypesStep, PTL DEF StackSpec

-----------------------------------------------------------------------------
\* What the array holds up to the top.
LEMMA ContentFacts ==
  ASSUME StackAssumption, StackTypeOK
  PROVE  /\ StackContent \in Seq(StackItems \cup {NoStackItem}) /\ Len(StackContent) = top
         /\ \A i \in 1 .. top : StackContent[i] = stack_arr[i - 1]
         /\ StackContent = << >> <=> top = 0
<1>1. /\ StackCapacity \in Nat \ {0} /\ top \in 0 .. StackCapacity
      /\ stack_arr \in [0 .. (StackCapacity - 1) -> StackItems \cup {NoStackItem}]
  BY DEF StackAssumption, StackTypeOK
<1>2. \A i \in 1 .. top : stack_arr[i - 1] \in StackItems \cup {NoStackItem}
  BY <1>1
<1> QED
  BY <1>1, <1>2 DEF StackContent

LEMMA AppendAddsOne ==
  ASSUME NEW T, NEW s \in Seq(T), NEW x \in T
  PROVE  Append(s, x) = [i \in 1 .. (Len(s) + 1) |-> IF i = Len(s) + 1 THEN x ELSE s[i]]
<1> DEFINE g == [i \in 1 .. (Len(s) + 1) |-> IF i = Len(s) + 1 THEN x ELSE s[i]]
<1>1. Len(s) \in Nat /\ \A i \in 1 .. Len(s) : s[i] \in T
  OBVIOUS
<1>2. /\ Append(s, x) \in Seq(T) /\ Len(Append(s, x)) = Len(s) + 1
      /\ \A i \in 1 .. Len(s) : Append(s, x)[i] = s[i]
      /\ Append(s, x)[Len(s) + 1] = x
  OBVIOUS
<1>3. g \in Seq(T) /\ Len(g) = Len(s) + 1
  BY <1>1
<1>4. \A i \in 1 .. (Len(s) + 1) : g[i] = Append(s, x)[i]
  BY <1>1, <1>2
<1> HIDE DEF g
<1>5. Append(s, x) = g
  BY <1>1, <1>2, <1>3, <1>4, SeqEqual
<1> QED
  BY <1>5 DEF g

\* The array and its top are a bounded stack: the last item in is the first one out,
\* and a look at any unsigned depth finds the item there or nothing.
THEOREM StackImplementsLifo == ASSUME StackAssumption PROVE StackSpec => ImplementsLifo
<1>1. StackInit => Lifo!Init
  <2> SUFFICES ASSUME StackInit PROVE Lifo!Init
    OBVIOUS
  <2>1. StackContent = << >>
    BY StackTypesInit, ContentFacts DEF StackInit
  <2> QED
    BY <2>1 DEF StackInit, Lifo!Init, Lifo!Result, StackResult
<1>2. StackTypeOK /\ StackTypeOK' /\ [StackNext]_stackVars => [Lifo!Next]_<<StackContent, stack_out>>
  <2> SUFFICES ASSUME StackTypeOK, StackTypeOK', [StackNext]_stackVars
               PROVE  [Lifo!Next]_<<StackContent, stack_out>>
    OBVIOUS
  <2> USE DEF Lifo!Result, StackResult
  <2>1. /\ StackCapacity \in Nat \ {0} /\ top \in 0 .. StackCapacity
        /\ stack_arr \in [0 .. (StackCapacity - 1) -> StackItems \cup {NoStackItem}]
    BY DEF StackAssumption, StackTypeOK
  <2>2. /\ StackContent \in Seq(StackItems \cup {NoStackItem}) /\ Len(StackContent) = top
        /\ \A i \in 1 .. top : StackContent[i] = stack_arr[i - 1]
        /\ StackContent = << >> <=> top = 0
    BY ContentFacts
  <2>3. StackContent' = [i \in 1 .. top' |-> stack_arr'[i - 1]]
    BY DEF StackContent
  <2>4. ASSUME UNCHANGED <<top, stack_arr>> PROVE StackContent' = StackContent
    BY <2>4 DEF StackContent
  <2>5. ASSUME NEW x \in StackItems, st_stack_push(x) PROVE Lifo!Push(x)
    <3>1. CASE StackFull /\ stack_out' = StackResult("full", NoStackItem) /\ UNCHANGED <<top, stack_arr>>
      BY <2>2, <2>4, <3>1 DEF StackFull, Lifo!Push
    <3>2. CASE ~StackFull /\ stack_arr' = [stack_arr EXCEPT ![top] = x] /\ top' = top + 1
               /\ stack_out' = StackResult("ok", NoStackItem)
      <4>1. \A i \in 1 .. (top + 1) : stack_arr'[i - 1] = IF i = top + 1 THEN x ELSE StackContent[i]
        BY <2>1, <2>2, <3>2 DEF StackFull
      <4>2. StackContent' = [i \in 1 .. (top + 1) |-> IF i = top + 1 THEN x ELSE StackContent[i]]
        BY <2>3, <3>2, <4>1
      <4>3. Append(StackContent, x) = [i \in 1 .. (top + 1) |-> IF i = top + 1 THEN x ELSE StackContent[i]]
        BY <2>2, AppendAddsOne
      <4> QED
        BY <2>2, <3>2, <4>2, <4>3 DEF StackFull, Lifo!Push
    <3> QED
      BY <2>5, <3>1, <3>2 DEF st_stack_push
  <2>6. CASE st_stack_pop
    <3>1. CASE top = 0 /\ stack_out' = StackResult("empty", NoStackItem) /\ UNCHANGED <<top, stack_arr>>
      BY <2>2, <2>4, <3>1 DEF Lifo!Pop, Lifo!Next
    <3>2. CASE top # 0 /\ top' = top - 1 /\ stack_out' = StackResult("ok", stack_arr[top']) /\ UNCHANGED stack_arr
      <4>1. StackContent' = [i \in 1 .. (top - 1) |-> StackContent[i]]
        BY <2>1, <2>2, <2>3, <3>2
      <4>2. SubSeq(StackContent, 1, top - 1) = [i \in 1 .. (top - 1) |-> StackContent[i]]
        BY <2>1, <2>2, <3>2
      <4>3. Lifo!Top(1) = stack_arr[top']
        BY <2>1, <2>2, <3>2 DEF Lifo!Top
      <4> QED
        BY <2>2, <3>2, <4>1, <4>2, <4>3 DEF Lifo!Pop, Lifo!Next
    <3> QED
      BY <2>6, <3>1, <3>2 DEF st_stack_pop
  <2>7. ASSUME NEW n \in Depths, st_stack_topn(n) PROVE Lifo!Look(n)
    <3>1. StackContent' = StackContent
      BY <2>4, <2>7 DEF st_stack_topn
    <3>2. TooDeep(n) <=> n \notin 1 .. top
      BY DepthTest
    <3>3. CASE n \in 1 .. top
      <4>1. top - n \in DOMAIN stack_arr /\ Lifo!Top(n) = stack_arr[top - n]
        BY <2>1, <2>2, <3>3 DEF Lifo!Top
      <4> QED
        BY <2>2, <2>7, <3>1, <3>2, <3>3, <4>1 DEF st_stack_topn, Lifo!Look
    <3>4. CASE n \notin 1 .. top
      BY <2>2, <2>7, <3>1, <3>2, <3>4 DEF st_stack_topn, Lifo!Look
    <3> QED
      BY <3>3, <3>4
  <2>8. CASE st_stack_clear
    <3>1. StackContent' = << >>
      BY <2>3, <2>8 DEF st_stack_clear
    <3> QED
      BY <2>8, <3>1 DEF st_stack_clear, Lifo!Clear, Lifo!Next
  <2>9. CASE UNCHANGED stackVars
    BY <2>4, <2>9 DEF stackVars
  <2> QED
    BY <2>5, <2>6, <2>7, <2>8, <2>9 DEF StackNext, Lifo!Next
<1>3. StackSpec => []StackTypeOK
  BY StackTypeCorrect
<1> QED
  BY <1>1, <1>2, <1>3, PTL DEF StackSpec, ImplementsLifo, Lifo!Spec

-----------------------------------------------------------------------------
(* The block pool.                                                          *)

\* Callers that free what they hold, once, never hold one block in two places.
HandlesApart ==
  ~misused => \A g, h \in Handles : handle[g] = handle[h] /\ handle[g] # NoBlock => g = h

\* Which block is where, and that it is there only: what the pool's promise rests on.
PoolInv == PoolTypeOK /\ FreeListExact /\ HandlesApart

-----------------------------------------------------------------------------
(* Types, for any callers.                                                  *)

LEMMA ReleaseTypes ==
  ASSUME BlockPoolAssumption, PoolTypeOK, NEW id \in Entries, Release(id)
  PROVE  free_cur' \in -1 .. (PoolCapacity - 1) /\ free_arr' \in [Entries -> Entries]
<1>1. /\ PoolCapacity \in Nat \ {0} /\ free_cur \in -1 .. (PoolCapacity - 1)
      /\ free_arr \in [Entries -> Entries]
  BY DEF BlockPoolAssumption, PoolTypeOK
<1>2. CASE FreeRefused
  BY <1>1, <1>2 DEF Release
<1>3. CASE ~FreeRefused
  <2>1. free_cur' = free_cur + 1 /\ free_arr' = [free_arr EXCEPT ![free_cur'] = id]
    BY <1>3 DEF Release
  <2>2. free_cur + 1 \in -1 .. (PoolCapacity - 1)
    BY <1>1, <1>3 DEF FreeRefused
  <2> QED
    BY <1>1, <2>1, <2>2
<1> QED
  BY <1>2, <1>3

LEMMA PoolTypesInit == ASSUME BlockPoolAssumption, PoolInit PROVE PoolTypeOK
<1>1. PoolCapacity \in Nat \ {0} /\ index_cur = 0 /\ free_cur = -1 /\ misused = FALSE
  BY DEF BlockPoolAssumption, PoolInit
<1>2. free_arr \in [Entries -> Entries]
  BY <1>1 DEF PoolInit, Entries
<1>3. handle \in [Handles -> Entries \cup {NoBlock}]
  BY DEF PoolInit
<1>4. index_cur \in 0 .. PoolCapacity /\ free_cur \in -1 .. (PoolCapacity - 1)
  BY <1>1
<1>5. misused \in BOOLEAN
  BY <1>1
<1> QED
  BY <1>2, <1>3, <1>4, <1>5 DEF PoolTypeOK

LEMMA PoolTypesStep == ASSUME BlockPoolAssumption, PoolTypeOK, [PoolNext]_poolVars PROVE PoolTypeOK'
<1>1. /\ PoolCapacity \in Nat \ {0}
      /\ index_cur \in 0 .. PoolCapacity /\ free_cur \in -1 .. (PoolCapacity - 1)
  BY DEF BlockPoolAssumption, PoolTypeOK
<1>2. free_arr \in [Entries -> Entries]
  BY DEF PoolTypeOK
<1>3. handle \in [Handles -> Entries \cup {NoBlock}] /\ misused \in BOOLEAN
  BY DEF PoolTypeOK
<1>4. ASSUME NEW h \in Handles, AllocFresh(h) PROVE PoolTypeOK'
  <2>1. index_cur \in Entries /\ index_cur' \in 0 .. PoolCapacity
    BY <1>1, <1>4 DEF AllocFresh, Entries
  <2>2. handle' \in [Handles -> Entries \cup {NoBlock}]
    BY <1>3, <1>4, <2>1 DEF AllocFresh
  <2> QED
    BY <1>1, <1>2, <1>3, <1>4, <2>1, <2>2 DEF AllocFresh, PoolTypeOK, Entries
<1>5. ASSUME NEW h \in Handles, AllocFreed(h) PROVE PoolTypeOK'
  <2>1. free_cur \in Entries /\ free_cur' \in -1 .. (PoolCapacity - 1)
    BY <1>1, <1>5 DEF AllocFreed, Entries
  <2>2. handle' \in [Handles -> Entries \cup {NoBlock}]
    BY <1>2, <1>3, <1>5, <2>1 DEF AllocFreed
  <2> QED
    BY <1>1, <1>2, <1>3, <1>5, <2>1, <2>2 DEF AllocFreed, PoolTypeOK, Entries
<1>6. ASSUME NEW h \in Handles, st_block_pool_free(h) PROVE PoolTypeOK'
  <2>1. handle[h] \in Entries
    BY <1>3, <1>6 DEF st_block_pool_free
  <2>2. free_cur' \in -1 .. (PoolCapacity - 1) /\ free_arr' \in [Entries -> Entries]
    BY <1>6, <2>1, ReleaseTypes DEF st_block_pool_free
  <2> QED
    BY <1>1, <1>3, <1>6, <2>2 DEF st_block_pool_free, PoolTypeOK, Entries
<1>7. ASSUME NEW id \in Entries, FreeUnheld(id) PROVE PoolTypeOK'
  <2>1. free_cur' \in -1 .. (PoolCapacity - 1) /\ free_arr' \in [Entries -> Entries]
    BY <1>7, ReleaseTypes DEF FreeUnheld
  <2> QED
    BY <1>1, <1>3, <1>7, <2>1 DEF FreeUnheld, PoolTypeOK, Entries
<1>8. CASE st_block_pool_clear
  <2>1. index_cur' \in 0 .. PoolCapacity /\ free_cur' \in -1 .. (PoolCapacity - 1)
    BY <1>1, <1>8 DEF st_block_pool_clear
  <2>2. handle' \in [Handles -> Entries \cup {NoBlock}]
    BY <1>8 DEF st_block_pool_clear
  <2>3. free_arr' \in [Entries -> Entries] /\ misused' \in BOOLEAN
    BY <1>2, <1>8 DEF st_block_pool_clear
  <2> QED
    BY <2>1, <2>2, <2>3 DEF PoolTypeOK
<1>9. CASE UNCHANGED poolVars
  BY <1>1, <1>2, <1>3, <1>9 DEF poolVars, PoolTypeOK, Entries
<1>10. ASSUME NEW h \in Handles, AllocRefused PROVE PoolTypeOK'
  BY <1>9, <1>10 DEF AllocRefused
<1> QED
  BY <1>4, <1>5, <1>6, <1>7, <1>8, <1>9, <1>10 DEF PoolNext, st_block_pool_alloc

\* Whatever is freed how often, the list of freed blocks stays within its array and
\* every block that is handed out within the buffer.
THEOREM PoolTypeCorrect == ASSUME BlockPoolAssumption PROVE PoolSpec => []PoolTypeOK
BY PoolTypesInit, PoolTypesStep, PTL DEF PoolSpec

-----------------------------------------------------------------------------
(* Callers that free what they hold, once.                                  *)

\* A legal free is never refused: a full list would hold every block, the one that is
\* freed among them.
LEMMA LegalFreeFits ==
  ASSUME BlockPoolAssumption, PoolInv, ~misused, NEW h \in Handles, handle[h] # NoBlock
  PROVE  ~FreeRefused
<1> SUFFICES ASSUME FreeRefused PROVE FALSE
  OBVIOUS
<1> DEFINE others == Entries \ {handle[h]}
<1>1. /\ PoolCapacity \in Nat \ {0} /\ free_cur \in -1 .. (PoolCapacity - 1)
      /\ free_arr \in [Entries -> Entries] /\ handle[h] \in Entries
  BY DEF BlockPoolAssumption, PoolInv, PoolTypeOK
<1>2. free_cur = PoolCapacity - 1
  BY <1>1 DEF FreeRefused
<1>3. \A i \in Entries : free_arr[i] # handle[h]
  <2>1. handle[h] \in Held /\ Free \cap Held = {}
    BY DEF Held, PoolInv, FreeListExact
  <2> QED
    BY <1>2, <2>1 DEF Free, Entries
<1>4. free_arr \in [Entries -> others]
  BY <1>1, <1>3
<1>5. IsFiniteSet(Entries) /\ Cardinality(Entries) = PoolCapacity
  <2>1. 0 \in Int /\ PoolCapacity - 1 \in Int
    BY <1>1
  <2>2. /\ IsFiniteSet(0 .. (PoolCapacity - 1))
        /\ Cardinality(0 .. (PoolCapacity - 1)) = IF 0 > PoolCapacity - 1 THEN 0 ELSE (PoolCapacity - 1) - 0 + 1
    BY <2>1, FS_Interval
  <2> QED
    BY <1>1, <2>2 DEF Entries
<1>6. IsFiniteSet(others) /\ Cardinality(others) = PoolCapacity - 1
  BY <1>1, <1>5, FS_RemoveElement
<1>7. Cardinality(others) < Cardinality(Entries)
  BY <1>1, <1>5, <1>6
<1>8. \E i, j \in Entries : i # j /\ free_arr[i] = free_arr[j]
  <2> HIDE DEF others
  <2> QED
    BY <1>4, <1>5, <1>6, <1>7, FS_PigeonHole
<1> QED
  BY <1>2, <1>8 DEF PoolInv, FreeListExact, Entries

\* What is held after a handle was given a block nobody held, and after it gave up its own.
LEMMA HoldOne ==
  ASSUME HandlesApart, ~misused, handle \in [Handles -> Entries \cup {NoBlock}],
         NEW h \in Handles, handle[h] = NoBlock, NEW b \in Entries, b \notin Held, b # NoBlock,
         handle' = [handle EXCEPT ![h] = b]
  PROVE  /\ Held' = Held \cup {b}
         /\ \A f, g \in Handles : handle'[f] = handle'[g] /\ handle'[f] # NoBlock => f = g
<1>1. \A g \in Handles : handle'[g] = IF g = h THEN b ELSE handle[g]
  OBVIOUS
<1>2. Held' = {handle'[g] : g \in Handles} \ {NoBlock} /\ Held = {handle[g] : g \in Handles} \ {NoBlock}
  BY DEF Held, NoBlock
<1>3. ASSUME NEW x \in Held' PROVE x \in Held \cup {b}
  BY <1>1, <1>2, <1>3
<1>4. ASSUME NEW x \in Held \cup {b} PROVE x \in Held'
  <2>1. CASE x = b
    BY <1>1, <1>2, <2>1
  <2>2. CASE x \in Held
    <3>1. PICK g \in Handles : handle[g] = x /\ x # NoBlock
      BY <1>2, <2>2
    <3> QED
      BY <1>1, <1>2, <3>1
  <2> QED
    BY <1>4, <2>1, <2>2
<1>5. \A g \in Handles : handle[g] # b
  BY <1>2
<1> QED
  BY <1>1, <1>3, <1>4, <1>5 DEF HandlesApart

LEMMA GiveUp ==
  ASSUME HandlesApart, ~misused, handle \in [Handles -> Entries \cup {NoBlock}],
         NEW h \in Handles, handle[h] # NoBlock,
         handle' = [handle EXCEPT ![h] = NoBlock]
  PROVE  /\ Held' = Held \ {handle[h]}
         /\ \A f, g \in Handles : handle'[f] = handle'[g] /\ handle'[f] # NoBlock => f = g
<1>1. \A g \in Handles : handle'[g] = IF g = h THEN NoBlock ELSE handle[g]
  OBVIOUS
<1>2. Held' = {handle'[g] : g \in Handles} \ {NoBlock} /\ Held = {handle[g] : g \in Handles} \ {NoBlock}
  BY DEF Held, NoBlock
<1>3. \A g \in Handles : g # h => handle[g] # handle[h]
  BY DEF HandlesApart
<1>4. ASSUME NEW x \in Held' PROVE x \in Held \ {handle[h]}
  BY <1>1, <1>2, <1>3, <1>4
<1>5. ASSUME NEW x \in Held \ {handle[h]} PROVE x \in Held'
  <2>1. PICK g \in Handles : handle[g] = x /\ x # NoBlock /\ g # h
    BY <1>2, <1>5
  <2> QED
    BY <1>1, <1>2, <2>1
<1> QED
  BY <1>1, <1>4, <1>5 DEF HandlesApart

LEMMA PoolInvInit == ASSUME BlockPoolAssumption, PoolInit PROVE PoolInv
<1>1. PoolTypeOK
  BY PoolTypesInit
<1>2. Free = {} /\ Held = {} /\ 0 .. (index_cur - 1) = {}
  BY DEF PoolInit, Free, Held
<1>3. FreeListExact
  BY <1>2 DEF PoolInit, FreeListExact
<1>4. HandlesApart
  BY DEF PoolInit, HandlesApart
<1> QED
  BY <1>1, <1>3, <1>4 DEF PoolInv

\* A fresh block is held by nobody, and becomes the last of those handed out.
LEMMA FreshKeeps ==
  ASSUME BlockPoolAssumption, PoolInv, ~misused, NEW h \in Handles, handle[h] = NoBlock, AllocFresh(h)
  PROVE  FreeListExact' /\ HandlesApart' /\ index_cur \in Entries /\ \A g \in Handles : handle[g] # index_cur
<1>1. /\ PoolCapacity \in Nat \ {0} /\ index_cur \in 0 .. PoolCapacity /\ free_cur \in -1 .. (PoolCapacity - 1)
      /\ handle \in [Handles -> Entries \cup {NoBlock}]
  BY DEF BlockPoolAssumption, PoolInv, PoolTypeOK
<1>2. /\ free_cur < 0 /\ index_cur < PoolCapacity /\ index_cur' = index_cur + 1
      /\ handle' = [handle EXCEPT ![h] = index_cur] /\ UNCHANGED <<free_cur, free_arr, misused>>
  BY DEF AllocFresh
<1>3. Free = {} /\ Free' = {} /\ 0 .. free_cur' = {}
  BY <1>1, <1>2 DEF Free
<1>4. Held = 0 .. (index_cur - 1)
  BY <1>3 DEF PoolInv, FreeListExact
<1>5. index_cur \in Entries /\ index_cur \notin Held /\ index_cur # NoBlock
  BY <1>1, <1>2, <1>4 DEF Entries, NoBlock
<1>6. /\ Held' = Held \cup {index_cur}
      /\ \A f, g \in Handles : handle'[f] = handle'[g] /\ handle'[f] # NoBlock => f = g
  BY <1>1, <1>2, <1>5, HoldOne DEF PoolInv
<1>7. Held' = 0 .. (index_cur' - 1)
  BY <1>1, <1>2, <1>4, <1>6
<1>8. \A g \in Handles : handle[g] # index_cur
  BY <1>5 DEF Held
<1> QED
  BY <1>3, <1>5, <1>6, <1>7, <1>8 DEF FreeListExact, HandlesApart, NoBlock

\* The block freed last is in the list once, and held by nobody.
LEMMA FreedKeeps ==
  ASSUME BlockPoolAssumption, PoolInv, ~misused, NEW h \in Handles, handle[h] = NoBlock, AllocFreed(h)
  PROVE  FreeListExact' /\ HandlesApart' /\ free_arr[free_cur] \in Entries
         /\ \A g \in Handles : handle[g] # free_arr[free_cur]
<1> DEFINE b == free_arr[free_cur]
<1>1. /\ PoolCapacity \in Nat \ {0} /\ index_cur \in 0 .. PoolCapacity /\ free_cur \in -1 .. (PoolCapacity - 1)
      /\ free_arr \in [Entries -> Entries] /\ handle \in [Handles -> Entries \cup {NoBlock}]
  BY DEF BlockPoolAssumption, PoolInv, PoolTypeOK
<1>2. /\ free_cur >= 0 /\ free_cur' = free_cur - 1
      /\ handle' = [handle EXCEPT ![h] = b] /\ UNCHANGED <<index_cur, free_arr, misused>>
  BY DEF AllocFreed
<1>3. /\ Free \cap Held = {} /\ Free \cup Held = 0 .. (index_cur - 1)
      /\ \A i, j \in 0 .. free_cur : free_arr[i] = free_arr[j] => i = j
  BY DEF PoolInv, FreeListExact
<1>4. b \in Free /\ b \in Entries
  BY <1>1, <1>2 DEF Free, Entries
<1>5. b \notin Held /\ b # NoBlock
  BY <1>1, <1>3, <1>4 DEF Entries, NoBlock
<1>6. /\ Held' = Held \cup {b}
      /\ \A f, g \in Handles : handle'[f] = handle'[g] /\ handle'[f] # NoBlock => f = g
  BY <1>1, <1>2, <1>4, <1>5, HoldOne DEF PoolInv
<1>7. Free' = Free \ {b}
  <2>1. Free' = {free_arr[i] : i \in 0 .. (free_cur - 1)} /\ Free = {free_arr[i] : i \in 0 .. free_cur}
    BY <1>2 DEF Free
  <2>2. \A i \in 0 .. (free_cur - 1) : i \in 0 .. free_cur /\ i # free_cur
    BY <1>1, <1>2
  <2>3. \A i \in 0 .. (free_cur - 1) : free_arr[i] # b
    BY <1>1, <1>2, <1>3, <2>2
  <2>4. \A i \in 0 .. free_cur : i \in 0 .. (free_cur - 1) \/ i = free_cur
    BY <1>1, <1>2
  <2> QED
    BY <2>1, <2>2, <2>3, <2>4
<1>8. \A i, j \in 0 .. free_cur' : free_arr'[i] = free_arr'[j] => i = j
  BY <1>1, <1>2, <1>3
<1>9. Free' \cap Held' = {} /\ Free' \cup Held' = 0 .. (index_cur' - 1)
  BY <1>2, <1>3, <1>4, <1>5, <1>6, <1>7
<1>10. \A g \in Handles : handle[g] # b
  BY <1>5 DEF Held
<1> QED
  BY <1>4, <1>6, <1>8, <1>9, <1>10 DEF FreeListExact, HandlesApart, NoBlock

\* The block of the handle that is freed goes to the end of the list.
LEMMA FreeKeeps ==
  ASSUME BlockPoolAssumption, PoolInv, ~misused, NEW h \in Handles, st_block_pool_free(h)
  PROVE  FreeListExact' /\ HandlesApart'
<1> DEFINE b == handle[h]
<1>1. /\ PoolCapacity \in Nat \ {0} /\ index_cur \in 0 .. PoolCapacity /\ free_cur \in -1 .. (PoolCapacity - 1)
      /\ free_arr \in [Entries -> Entries] /\ handle \in [Handles -> Entries \cup {NoBlock}]
  BY DEF BlockPoolAssumption, PoolInv, PoolTypeOK
<1>2. /\ b # NoBlock /\ handle' = [handle EXCEPT ![h] = NoBlock] /\ UNCHANGED <<index_cur, misused>>
      /\ b \in Entries /\ b \in Held
  BY <1>1 DEF st_block_pool_free, Held
<1>3. ~FreeRefused
  BY <1>2, LegalFreeFits
<1>4. /\ free_cur' = free_cur + 1 /\ free_arr' = [free_arr EXCEPT ![free_cur'] = b]
      /\ free_cur + 1 \in Entries
  BY <1>1, <1>3 DEF st_block_pool_free, Release, FreeRefused, Entries
<1>5. /\ Free \cap Held = {} /\ Free \cup Held = 0 .. (index_cur - 1)
      /\ \A i, j \in 0 .. free_cur : free_arr[i] = free_arr[j] => i = j
  BY DEF PoolInv, FreeListExact
<1>6. /\ Held' = Held \ {b}
      /\ \A f, g \in Handles : handle'[f] = handle'[g] /\ handle'[f] # NoBlock => f = g
  BY <1>1, <1>2, GiveUp DEF PoolInv
<1>7. /\ \A i \in 0 .. free_cur : i \in 0 .. free_cur' /\ free_arr'[i] = free_arr[i]
      /\ free_cur' \in 0 .. free_cur' /\ free_arr'[free_cur'] = b
      /\ \A i \in 0 .. free_cur' : i \in 0 .. free_cur \/ i = free_cur'
  BY <1>1, <1>4 DEF Entries
<1>8. Free' = Free \cup {b}
  <2>1. Free' = {free_arr'[i] : i \in 0 .. free_cur'} /\ Free = {free_arr[i] : i \in 0 .. free_cur}
    BY DEF Free
  <2> QED
    BY <1>7, <2>1
<1>9. \A i \in 0 .. free_cur : free_arr[i] # b
  BY <1>2, <1>5 DEF Free
<1>10. \A i, j \in 0 .. free_cur' : free_arr'[i] = free_arr'[j] => i = j
  BY <1>5, <1>7, <1>9
<1>11. Free' \cap Held' = {} /\ Free' \cup Held' = 0 .. (index_cur' - 1)
  BY <1>2, <1>5, <1>6, <1>8
<1> QED
  BY <1>6, <1>10, <1>11 DEF FreeListExact, HandlesApart, NoBlock

LEMMA PoolClearKeeps ==
  ASSUME st_block_pool_clear PROVE FreeListExact' /\ HandlesApart'
<1>1. Free' = {} /\ Held' = {} /\ 0 .. (index_cur' - 1) = {} /\ 0 .. free_cur' = {}
  BY DEF st_block_pool_clear, Free, Held
<1>2. \A h \in Handles : handle'[h] = NoBlock
  BY DEF st_block_pool_clear
<1> QED
  BY <1>1, <1>2 DEF FreeListExact, HandlesApart, NoBlock

LEMMA PoolInvStep == ASSUME BlockPoolAssumption, PoolInv, [PoolNext]_poolVars PROVE PoolInv'
<1>1. PoolTypeOK'
  BY PoolTypesStep DEF PoolInv
<1> SUFFICES FreeListExact' /\ HandlesApart'
  BY <1>1 DEF PoolInv
<1>2. CASE misused'
  BY <1>2 DEF FreeListExact, HandlesApart
<1>3. CASE ~misused'
  <2>1. CASE st_block_pool_clear
    BY <2>1, PoolClearKeeps
  <2>2. CASE UNCHANGED poolVars
    BY <2>2 DEF poolVars, PoolInv, FreeListExact, HandlesApart, Free, Held, NoBlock
  <2>3. ASSUME NEW h \in Handles, st_block_pool_alloc(h) PROVE FreeListExact' /\ HandlesApart'
    <3>1. CASE AllocFresh(h)
      BY <1>3, <2>3, <3>1, FreshKeeps DEF st_block_pool_alloc, AllocFresh
    <3>2. CASE AllocFreed(h)
      BY <1>3, <2>3, <3>2, FreedKeeps DEF st_block_pool_alloc, AllocFreed
    <3>3. CASE AllocRefused
      BY <2>2, <3>3 DEF AllocRefused
    <3> QED
      BY <2>3, <3>1, <3>2, <3>3 DEF st_block_pool_alloc
  <2>4. ASSUME NEW h \in Handles, st_block_pool_free(h) PROVE FreeListExact' /\ HandlesApart'
    BY <1>3, <2>4, FreeKeeps DEF st_block_pool_free
  <2>5. ASSUME NEW id \in Entries, FreeUnheld(id) PROVE FALSE
    BY <1>3, <2>5 DEF FreeUnheld
  <2> QED
    BY <2>1, <2>2, <2>3, <2>4, <2>5 DEF PoolNext
<1> QED
  BY <1>2, <1>3

\* To callers that free what they hold, once, every block handed out is held by one
\* handle or is in the list of freed ones, in one place.
THEOREM PoolFreeListIsExact == ASSUME BlockPoolAssumption PROVE PoolSpec => []FreeListExact
<1>1. PoolInv => FreeListExact
  BY DEF PoolInv
<1> QED
  BY <1>1, PoolInvInit, PoolInvStep, PTL DEF PoolSpec

\* To such callers the pool is the abstract allocator: what it hands out is held by
\* nobody, whatever was freed in whatever order, and no free is refused.
THEOREM PoolIsAllocator == ASSUME BlockPoolAssumption PROVE PoolSpec => PoolImplementsAlloc
<1>1. PoolInit => Alloc!Init
  BY DEF PoolInit, Alloc!Init, NoBlock, Alloc!NoBlock
<1>2. PoolInv /\ [PoolNext]_poolVars => [~misused => Alloc!Next]_handle
  <2> SUFFICES ASSUME PoolInv, [PoolNext]_poolVars, ~misused PROVE Alloc!Next \/ handle' = handle
    OBVIOUS
  <2> USE DEF NoBlock, Alloc!NoBlock
  <2>1. ASSUME NEW h \in Handles, st_block_pool_alloc(h) PROVE Alloc!New(h) \/ handle' = handle
    <3>1. CASE AllocFresh(h)
      <4>1. index_cur \in Entries /\ \A g \in Handles : handle[g] # index_cur
        BY <2>1, <3>1, FreshKeeps DEF st_block_pool_alloc
      <4> QED
        BY <2>1, <3>1, <4>1 DEF st_block_pool_alloc, AllocFresh, Alloc!New
    <3>2. CASE AllocFreed(h)
      <4>1. free_arr[free_cur] \in Entries /\ \A g \in Handles : handle[g] # free_arr[free_cur]
        BY <2>1, <3>2, FreedKeeps DEF st_block_pool_alloc
      <4> QED
        BY <2>1, <3>2, <4>1 DEF st_block_pool_alloc, AllocFreed, Alloc!New
    <3>3. CASE AllocRefused
      BY <3>3 DEF AllocRefused, poolVars
    <3> QED
      BY <2>1, <3>1, <3>2, <3>3 DEF st_block_pool_alloc
  <2>2. ASSUME NEW h \in Handles, st_block_pool_free(h) PROVE Alloc!Drop(h)
    BY <2>2 DEF st_block_pool_free, Alloc!Drop
  <2>3. ASSUME NEW id \in Entries, FreeUnheld(id) PROVE handle' = handle
    BY <2>3 DEF FreeUnheld
  <2>4. CASE st_block_pool_clear
    BY <2>4 DEF st_block_pool_clear, Alloc!DropAll, Alloc!Next
  <2>5. CASE UNCHANGED poolVars
    BY <2>5 DEF poolVars
  <2> QED
    BY <2>1, <2>2, <2>3, <2>4, <2>5 DEF PoolNext, Alloc!Next
<1>3. PoolSpec => []PoolInv
  BY PoolInvInit, PoolInvStep, PTL DEF PoolSpec
<1> QED
  BY <1>1, <1>2, <1>3, PoolFreeListIsExact, PTL DEF PoolSpec, PoolImplementsAlloc

-----------------------------------------------------------------------------
(* The life of a semaphore.                                                 *)

\* A semaphore that may be destroyed and says it is initialised has a live mutex and a
\* live condition.
LifeInv ==
  /\ inited \in [Sems -> BOOLEAN]
  /\ mutex \in [Sems -> {"raw", "live", "dead"}] /\ cond \in [Sems -> {"raw", "live", "dead"}]
  /\ \A s \in Sems :
       /\ inited[s] /\ (cond[s] # "raw" \/ s \in cleared) => mutex[s] = "live" /\ cond[s] = "live"
       /\ cond[s] = "live" => mutex[s] = "live"
  /\ harmed = {}

LEMMA LifeInvInit == LifeInit => LifeInv
<1> SUFFICES ASSUME LifeInit PROVE LifeInv
  OBVIOUS
<1>1. inited \in [Sems -> BOOLEAN] /\ \A s \in cleared : ~inited[s]
  BY DEF LifeInit
<1> QED
  BY <1>1 DEF LifeInit, LifeInv

LEMMA LifeInvStep == LifeInv /\ [LifeNext]_lifeVars => LifeInv'
<1> SUFFICES ASSUME LifeInv, [LifeNext]_lifeVars PROVE LifeInv'
  OBVIOUS
<1>1. CASE UNCHANGED lifeVars
  BY <1>1 DEF LifeInv, lifeVars
<1>2. ASSUME NEW s \in Sems, st_sem_init(s) PROVE LifeInv'
  <2>1. CASE InitMutexFails(s)
    BY <1>2, <2>1 DEF LifeInv, st_sem_init, InitMutexFails
  <2>2. CASE InitCondFails(s)
    BY <1>2, <2>2 DEF LifeInv, st_sem_init, InitCondFails, MayInit
  <2>3. CASE InitSucceeds(s)
    BY <1>2, <2>3 DEF LifeInv, st_sem_init, InitSucceeds
  <2> QED
    BY <1>2, <2>1, <2>2, <2>3 DEF st_sem_init
<1>3. ASSUME NEW s \in Sems, st_sem_destroy(s) PROVE LifeInv'
  <2>1. CASE Skip(s)
    BY <1>3, <2>1 DEF LifeInv, st_sem_destroy
  <2>2. CASE ~Skip(s)
    <3>1. mutex[s] = "live" /\ cond[s] = "live"
      BY <1>3, <2>2 DEF LifeInv, st_sem_destroy, MayDestroy, Skip
    <3> QED
      BY <1>3, <2>2, <3>1 DEF LifeInv, st_sem_destroy
  <2> QED
    BY <2>1, <2>2
<1> QED
  BY <1>1, <1>2, <1>3 DEF LifeNext

\* Whichever part of st_sem_init fails, over whatever was in the memory, and however
\* often st_sem_destroy is called, it destroys only what is live.
THEOREM SemaphoresDieOnce == LifeSpec => []DestroyHarmless
<1>1. LifeInv => DestroyHarmless
  BY DEF LifeInv, DestroyHarmless
<1> QED
  BY <1>1, LifeInvInit, LifeInvStep, PTL DEF LifeSpec

-----------------------------------------------------------------------------
(* The arrays of all of them.                                               *)

\* What the run of MCObjects checks of the types of the arrays holds for every value
\* of the constants.
THEOREM ArraysTypesCorrect == MCSpec => []ArraysTypeOK
<1> DEFINE all == IndexOK /\ StackTypeOK /\ HeapInv /\ PoolTypeOK
<1>1. StackAssumption /\ HeapAssumption /\ BlockPoolAssumption
  BY MCAssumption
<1>2. MCInit => all
  BY <1>1, IndexInit, StackTypesInit, HeapInvInit, PoolTypesInit DEF MCInit
<1>3. all /\ [MCNext]_<<object, vars, stackVars, heapVars, poolVars, lifeVars>> => all'
  <2>1. [MCNext]_<<object, vars, stackVars, heapVars, poolVars, lifeVars>> =>
          [Next]_vars /\ [StackNext]_stackVars /\ [HeapNext]_heapVars /\ [PoolNext]_poolVars
    BY DEF MCNext
  <2> QED
    BY <1>1, <2>1, IndexStep, StackTypesStep, HeapInvStep, PoolTypesStep
<1>4. all => ArraysTypeOK
  BY DEF ArraysTypeOK, IndexOK, HeapInv
<1> QED
  BY <1>2, <1>3, <1>4, PTL DEF MCSpec
=============================================================================
