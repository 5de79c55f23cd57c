----------------------------- MODULE Remainders -----------------------------
(***************************************************************************)
(* Remainders, for the unsigned integers of the machine and the indices of *)
(* rings: the provers know no more of % than its definition.               *)
(***************************************************************************)
EXTENDS Integers, TLAPS

\* A product of a positive factor is at least the other one.
LEMMA TimesAtLeast ==
  ASSUME NEW r \in Nat \ {0}, NEW d \in Nat \ {0}
  PROVE  r * d \in Nat /\ r * d >= r
<1>1. PICK e \in Nat : d = e + 1
  <2>1. d - 1 \in Nat /\ d = (d - 1) + 1
    OBVIOUS
  <2> QED
    BY <2>1
<1>2. r * e \in Nat /\ r * d = r * e + r
  BY <1>1
<1> QED
  BY <1>2

\* The remainder is the only one of its kind.
LEMMA RemainderUnique ==
  ASSUME NEW a \in Int, NEW r \in Nat \ {0}, NEW q \in Int, NEW m \in 0 .. (r - 1),
         a = r * q + m
  PROVE  a % r = m
<1>1. /\ a \div r \in Int /\ a % r \in 0 .. (r - 1)
      /\ a = r * (a \div r) + (a % r)
  OBVIOUS
<1>2. PICK p \in Int, n \in 0 .. (r - 1) : n = a % r /\ a = r * p + n
  BY <1>1
<1>3. ASSUME p < q PROVE FALSE
  <2>1. PICK d \in Nat \ {0} : q = p + d
    <3>1. q - p \in Nat \ {0} /\ q = p + (q - p)
      BY <1>3
    <3> QED
      BY <3>1
  <2>2. r * q = r * p + r * d
    BY <2>1
  <2>3. r * d \in Nat /\ r * d >= r
    BY TimesAtLeast
  <2>4. r * p \in Int
    OBVIOUS
  <2> QED
    BY <1>2, <2>2, <2>3, <2>4
<1>4. ASSUME q < p PROVE FALSE
  <2>1. PICK d \in Nat \ {0} : p = q + d
    <3>1. p - q \in Nat \ {0} /\ p = q + (p - q)
      BY <1>4
    <3> QED
      BY <3>1
  <2>2. r * p = r * q + r * d
    BY <2>1
  <2>3. r * d \in Nat /\ r * d >= r
    BY TimesAtLeast
  <2>4. r * q \in Int
    OBVIOUS
  <2> QED
    BY <1>2, <2>2, <2>3, <2>4
<1>5. p = q /\ r * q \in Int
  BY <1>3, <1>4
<1> QED
  BY <1>2, <1>5

\* Remainders of what lies within one multiple of the modulus of the range below it.
LEMMA SmallRemainder ==
  ASSUME NEW a \in Int, NEW r \in Nat \ {0}
  PROVE  /\ a \in 0 .. (r - 1) => a % r = a
         /\ a - r \in 0 .. (r - 1) => a % r = a - r
         /\ a + r \in 0 .. (r - 1) => a % r = a + r
<1>1. a \in 0 .. (r - 1) => a % r = a
  <2>1. a = r * 0 + a
    OBVIOUS
  <2> QED
    BY <2>1, RemainderUnique
<1>2. a - r \in 0 .. (r - 1) => a % r = a - r
  <2>1. a = r * 1 + (a - r)
    OBVIOUS
  <2> QED
    BY <2>1, RemainderUnique
<1>3. a + r \in 0 .. (r - 1) => a % r = a + r
  <2>1. a = r * (-1) + (a + r)
    OBVIOUS
  <2> QED
    BY <2>1, RemainderUnique
<1> QED
  BY <1>1, <1>2, <1>3

\* Multiples of the modulus do not matter.
LEMMA RemainderShift ==
  ASSUME NEW a \in Int, NEW r \in Nat \ {0}, NEW k \in Int
  PROVE  (a + r * k) % r = a % r
<1>1. PICK q \in Int, m \in 0 .. (r - 1) : m = a % r /\ a = r * q + m
  <2>1. /\ a \div r \in Int /\ a % r \in 0 .. (r - 1)
        /\ a = r * (a \div r) + (a % r)
    OBVIOUS
  <2> QED
    BY <2>1
<1>2. r * (q + k) = r * q + r * k /\ r * q \in Int /\ r * k \in Int /\ q + k \in Int
  BY <1>1
<1>3. a + r * k = r * (q + k) + m /\ a + r * k \in Int
  BY <1>1, <1>2
<1>4. (a + r * k) % r = m
  BY <1>2, <1>3, RemainderUnique
<1> QED
  BY <1>1, <1>4
=============================================================================
