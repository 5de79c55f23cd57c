-------------------------------- MODULE Bits --------------------------------
(***************************************************************************)
(* Inputs of u bits packed in an array of bytes (st_bit.c), the highest   *)
(* bit first.  Shifts are products and quotients of powers of two, masks   *)
(* remainders; an or into bits that were cleared is a sum.                 *)
(***************************************************************************)
EXTENDS Integers

CONSTANTS
  CHAR_BIT,     \* the bits of a byte
  NumBytes,     \* the length of the array
  Widths,       \* the numbers of bits u the program uses
  Inputs        \* the values it sets, of any sign and size

VARIABLES
  u,            \* the width of this array
  bytes,        \* the array
  set           \* history: the value each position was last set to

bitVars == <<u, bytes, set>>

Slots == 0 .. NumBytes - 1
Positions == 0 .. (NumBytes * CHAR_BIT) \div u - 1
Low(v, n) == v % 2 ^ n
Shifted(v, n) == v \div 2 ^ n

BitsInit ==
  /\ u \in Widths
  /\ bytes = [k \in Slots |-> 0] /\ set = [p \in Positions |-> 0]

st_nbit_slot(pos) == (u * pos) \div CHAR_BIT
st_nbit_slot_begin(pos) == (u * pos) % CHAR_BIT

\* The n bits of b behind its first s.
st_get_nbit_val_in_byte(b, s, n) == Shifted(Low(b, CHAR_BIT - s), CHAR_BIT - s - n)
st_clear_nbit_in_byte(b, s, n) == b - st_get_nbit_val_in_byte(b, s, n) * 2 ^ (CHAR_BIT - s - n)

\* Mutant: the remainder is taken as if it were never negative.
LastBitsWrapped(begin) == (u - (CHAR_BIT - begin)) % CHAR_BIT

\* How many bits of a number that begins there are in the byte it shares with the next;
\* the % of C is negative for a number that fits its first byte.
LastBits(begin) == IF u <= CHAR_BIT - begin THEN 0 ELSE (u - (CHAR_BIT - begin)) % CHAR_BIT

\* The last bits to the last byte, whole bytes before it, the first bits to the first.
st_nbit_set(pos, val) ==
  LET v == Low(val, u)
      begin == st_nbit_slot_begin(pos)
      n == LastBits(begin)
      last == st_nbit_slot(pos) + (begin + u - 1) \div CHAR_BIT
      whole == Shifted(v, n)
      slot == IF n > 0 THEN last - 1 ELSE last
      inner == (u - n) \div CHAR_BIT
      rest == u - n - inner * CHAR_BIT
      first == slot - inner
  IN bytes' = [k \in Slots |->
       IF n > 0 /\ k = last
       THEN st_clear_nbit_in_byte(bytes[k], 0, n) + Low(v, n) * 2 ^ (CHAR_BIT - n)
       ELSE IF k > first /\ k <= slot THEN Low(Shifted(whole, CHAR_BIT * (slot - k)), CHAR_BIT)
       ELSE IF rest > 0 /\ k = first
       THEN st_clear_nbit_in_byte(bytes[k], begin, rest)
            + Shifted(whole, CHAR_BIT * inner) * 2 ^ (CHAR_BIT - rest - begin)
       ELSE bytes[k]]

st_nbit_get(pos) ==
  LET begin == st_nbit_slot_begin(pos)
      slot == st_nbit_slot(pos)
      first == IF u <= CHAR_BIT - begin THEN u ELSE CHAR_BIT - begin
      inner == (u - first) \div CHAR_BIT
      rest == u - first - inner * CHAR_BIT
      val[k \in 0 .. inner] ==
        IF k = 0 THEN st_get_nbit_val_in_byte(bytes[slot], begin, first)
        ELSE val[k - 1] * 2 ^ CHAR_BIT + bytes[slot + k]
  IN IF rest = 0 THEN val[inner]
     ELSE val[inner] * 2 ^ rest + st_get_nbit_val_in_byte(bytes[slot + inner + 1], 0, rest)

BitsNext ==
  \E pos \in Positions, val \in Inputs :
    /\ st_nbit_set(pos, val)
    /\ set' = [set EXCEPT ![pos] = Low(val, u)]
    /\ UNCHANGED u

-----------------------------------------------------------------------------
\* Every number that was set is read back, whatever was set next to it in the bytes it
\* shares with its neighbours, from a part of one byte up to several bytes, and no byte
\* holds more than it can.
NeighboursKept ==
  /\ \A pos \in Positions : st_nbit_get(pos) = set[pos]
  /\ \A k \in Slots : bytes[k] \in 0 .. 2 ^ CHAR_BIT - 1
=============================================================================
