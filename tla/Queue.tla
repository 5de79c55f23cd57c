-------------------------------- MODULE Queue --------------------------------
(***************************************************************************)
(* st_queue: a bounded queue in a ring of Capacity + 1 slots.  The indices *)
(* are unsigned integers of the machine: -1 is Word - 1, and every sum and *)
(* difference is taken modulo Word before it is taken modulo the ring.     *)
(***************************************************************************)
EXTENDS Integers, Sequences

CONSTANTS
  Items,       \* the objects the caller queues
  Capacity,    \* the capacity given to st_queue_create
  Word,        \* 2^32 in the program, a smaller power of two for TLC
  NoItem

\* With a ring of Word - 1 slots the test for full would wrap before it should.
ASSUME QueueAssumption ==
  /\ Capacity \in Nat /\ Word \in Nat /\ Capacity + 2 < Word /\ NoItem \notin Items

VARIABLES
  start_idx, end_idx, data_arr,
  out          \* what the last enqueue, dequeue or clear returned

vars == <<start_idx, end_idx, data_arr, out>>

\* queue->capacity
Ring == Capacity + 1

\* (i + n) % queue->capacity, in unsigned arithmetic; n may be negative.
RingPlus(i, n) == ((i + n) % Word) % Ring

FullOneLate == RingPlus(end_idx, 3) = start_idx

Full == RingPlus(end_idx, 2) = start_idx
Empty == RingPlus(end_idx, 1) = start_idx

Result(code, item) == [code |-> code, item |-> item]

Init ==
  /\ start_idx = 0 /\ end_idx = Word - 1
  /\ data_arr \in [0 .. (Ring - 1) -> {NoItem}]
  /\ out = Result("none", NoItem)

st_enqueue(x) ==
  \/ /\ Full
     /\ out' = Result("full", NoItem)
     /\ UNCHANGED <<start_idx, end_idx, data_arr>>
  \/ /\ ~Full
     /\ end_idx' = RingPlus(end_idx, 1)
     /\ data_arr' = [data_arr EXCEPT ![end_idx'] = x]
     /\ out' = Result("ok", NoItem)
     /\ UNCHANGED start_idx

st_dequeue ==
  \/ /\ Empty
     /\ out' = Result("empty", NoItem)
     /\ UNCHANGED <<start_idx, end_idx, data_arr>>
  \/ /\ ~Empty
     /\ out' = Result("ok", data_arr[start_idx])
     /\ start_idx' = RingPlus(start_idx, 1)
     /\ UNCHANGED <<end_idx, data_arr>>

\* end_idx goes back to (unsigned)-1; the slots keep their old pointers.
st_queue_clear ==
  /\ start_idx' = 0 /\ end_idx' = Word - 1
  /\ out' = Result("ok", NoItem)
  /\ UNCHANGED data_arr

Next == (\E x \in Items : st_enqueue(x)) \/ st_dequeue \/ st_queue_clear

Spec == Init /\ [][Next]_vars

SizeToLastItem == RingPlus(end_idx, -start_idx)

st_queue_size == RingPlus(end_idx, 1 - start_idx)

-----------------------------------------------------------------------------
(* Properties.                                                              *)

\* The types: the indices stay within the ring, but for the end of a queue that is
\* new or cleared.
TypeOK ==
  /\ start_idx \in 0 .. (Ring - 1)
  /\ end_idx \in 0 .. (Ring - 1) \cup {Word - 1}
  /\ data_arr \in [0 .. (Ring - 1) -> Items \cup {NoItem}]
  /\ out \in [code : {"none", "ok", "full", "empty"}, item : Items \cup {NoItem}]

\* The slots from start_idx to end_idx, around the ring.
Length ==
  LET stop == RingPlus(end_idx, 1) IN
  IF stop >= start_idx THEN stop - start_idx ELSE stop - start_idx + Ring

Content == [i \in 1 .. Length |-> data_arr[(start_idx + i - 1) % Ring]]

\* The ring behaves as the bounded queue of the items put in, whatever the
\* indices have wrapped around, a clear after a wrap included.
Fifo == INSTANCE BoundedFifo WITH Size <- Capacity, content <- Content
ImplementsFifo == Fifo!Spec

\* The last item lies before the first one in the array: end_idx - start_idx + 1
\* is negative and becomes Word too much.
Wrapped == end_idx + 1 < start_idx

\* st_queue_size is the number of items in the queue, but for items that wrap
\* around the ring: then it is off by what Word leaves modulo the ring, which is
\* nothing for the rings that divide the range of an unsigned int alone.
SizeExactButForWrap ==
  st_queue_size = IF Wrapped THEN (Length + (Word % Ring)) % Ring ELSE Length
=============================================================================
