------------------------------- MODULE Varint -------------------------------
(***************************************************************************)
(* Integers of variable length (st_varint.c): groups of seven bits, the    *)
(* lowest first, in bytes whose highest bit says that more follow.  The    *)
(* program writes them to a stream, or to a buffer of which it knows the   *)
(* room, and reads them back, from a stream that may end too early, too.   *)
(***************************************************************************)
EXTENDS Integers, Sequences, SequencesExt

CONSTANTS
  GroupBits,    \* 7 in the program
  Width,        \* 64
  Rooms,        \* the room buffers have
  MaxWritten    \* bound: integers in a stream

VarintAssumption == GroupBits \in Nat \ {0} /\ Width \in Nat /\ Rooms \subseteq Nat

VARIABLES
  stream,       \* the bytes of the stream
  at,           \* how many the reader has read
  ints,         \* history: the integers written
  got,          \* the integers read
  buf,          \* the last call that encodes to a buffer: its value, room, what it has
                \* written and what it answers
  answer        \* of the last read: its length, -1 or 0 without one

varintVars == <<stream, at, ints, got, buf, answer>>

MSB == 2 ^ GroupBits
Values == 0 .. 2 ^ Width - 1
More(byte) == byte >= MSB

\* One more than the powers N1, N2, ... that the value reaches.
st_varint_length_uint64(n) ==
  1 + Len(SelectSeq([k \in 1 .. Width \div GroupBits |-> 2 ^ (GroupBits * k)], LAMBDA N : n >= N))

Bytes[value \in Values] ==
  IF value < MSB THEN <<value>> ELSE <<MSB + (value % MSB)>> \o Bytes[value \div MSB]

Full(n, room) == n >= room

NoCall == [value |-> 0, room |-> 1, bytes |-> << >>, answer |-> 0]
VarintInit ==
  /\ stream = << >> /\ at = 0 /\ ints = << >> /\ got = << >> /\ answer = 0
  /\ buf = NoCall

\* The loop looks at the room after each byte but the last.
st_varint_encode_uint64(value, room) ==
  LET all == Bytes[value]
      cut == {n \in 1 .. Len(all) - 1 : Full(n, room)}
  IN buf' = IF cut = {} THEN [value |-> value, room |-> room, bytes |-> all, answer |-> Len(all)]
            ELSE [value |-> value, room |-> room, answer |-> -1,
                  bytes |-> SubSeq(all, 1, CHOOSE n \in cut : \A k \in cut : n <= k)]

AllBytes(values) == FlattenSeq([k \in DOMAIN values |-> Bytes[values[k]]])

\* A write of a byte may fail after some of the bytes; the program writes no more then.
st_varint_encode_stream_uint64(value) ==
  /\ answer = 0 /\ Len(ints) < MaxWritten /\ stream = AllBytes(ints)
  /\ \E n \in 0 .. Len(Bytes[value]) : stream' = stream \o SubSeq(Bytes[value], 1, n)
  /\ ints' = Append(ints, value)

\* The bytes from a place on: the sum of the groups up to one without MSB.
Sum(bytes) == FoldLeft(LAMBDA v, k : v + (bytes[k] % MSB) * 2 ^ (GroupBits * (k - 1)), 0, [k \in DOMAIN bytes |-> k])
st_varint_decode_uint64(bytes) ==
  LET n == SelectInSeq(bytes, LAMBDA byte : ~More(byte))
  IN [len |-> n, value |-> Sum(SubSeq(bytes, 1, n))]

\* A read that meets the end answers -1, and the reader stops.
st_varint_decode_stream_uint64 ==
  LET left == SubSeq(stream, at + 1, Len(stream))
      r == st_varint_decode_uint64(left)
  IN /\ answer # -1
     /\ \/ r.len > 0 /\ at' = at + r.len /\ got' = Append(got, r.value) /\ answer' = r.len
        \/ r.len = 0 /\ at' = Len(stream) /\ answer' = -1 /\ UNCHANGED got

\* Nothing of a buffer is shared with the stream: one is looked at before the other.
VarintNext ==
  \/ \E value \in Values :
       \/ st_varint_encode_stream_uint64(value) /\ buf' = NoCall /\ UNCHANGED <<at, got, answer>>
       \/ /\ ints = << >>
          /\ \E room \in Rooms : st_varint_encode_uint64(value, room)
          /\ UNCHANGED <<stream, at, ints, got, answer>>
  \/ st_varint_decode_stream_uint64 /\ buf' = NoCall /\ UNCHANGED <<stream, ints>>

-----------------------------------------------------------------------------
\* A buffer without room is written to all the same, as one of a byte would be.
RoomTaken == IF buf.room = 0 THEN 1 ELSE buf.room

\* The integers read are those written, in their order, with the length announced for
\* them; a stream that ends early gives those whose bytes are all there and then an error,
\* never another number; and an encoding to a buffer stays within its room, a byte at least, fails
\* exactly when the bytes announced are more, and is read back as it was.
DecodedAsEncoded ==
  /\ IsPrefix(got, ints)
  /\ answer > 0 => answer = st_varint_length_uint64(Last(got))
  /\ answer = -1 =>
       Len(got) = Len(ints)
       \/ Len(stream) - Len(AllBytes(got)) < st_varint_length_uint64(ints[Len(got) + 1])
  /\ Len(buf.bytes) <= RoomTaken
  /\ buf.bytes # << >> => ((buf.answer = -1) <=> (st_varint_length_uint64(buf.value) > RoomTaken))
  /\ buf.answer > 0 => st_varint_decode_uint64(buf.bytes) = [len |-> buf.answer, value |-> buf.value]
=============================================================================
