------------------------------ MODULE Segments ------------------------------
(***************************************************************************)
(* Unions of segments of a ring (st_int.c): sequences of segments [s, e)   *)
(* that are sorted and do not touch.  A segment handed in is its start s   *)
(* and its length n, and goes on at 0 when it reaches over the end.  The   *)
(* int and the size_t functions are the same text over numbers of another  *)
(* kind: sums of size_t wrap around at Word, sums of int must not.  A call *)
(* with several segments does what as many calls with one do, up to the    *)
(* first that is refused: a step takes one segment.                        *)
(* Also st_insert, the insertion into a sorted array.                      *)
(***************************************************************************)
EXTENDS Integers, Sequences, FiniteSets, SequencesExt

CONSTANTS
  Ring,         \* the size of the ring
  Word,         \* size_t has the values 0 .. Word - 1
  Cap,          \* the capacity of the union and of the sorted array
  Lengths       \* the lengths of the segments handed in: none is longer than the ring

ASSUME SegmentsAssumption ==
  Ring \in Nat \ {0} /\ Word \in Nat /\ Ring < Word /\ Cap \in Nat /\ Lengths \subseteq 0 .. Ring

VARIABLES
  union,        \* the union, kept by the caller between calls
  asked,        \* the points of the segments handed in
  refused,      \* the last call answered -1
  sorted        \* the array of st_int_insert

segmentVars == <<union, asked, refused>>

Seg(s, e) == [s |-> s, e |-> e]
Lower(x, y) == IF x <= y THEN x ELSE y
Upper(x, y) == IF x >= y THEN x ELSE y

Before(segs, i) == SubSeq(segs, 1, i - 1)
From(segs, i) == SubSeq(segs, i, Len(segs))

\* The first of the places, one past the end without one.
FirstOf(places, array) == IF places = {} THEN Len(array) + 1 ELSE Min(places)

\* The first segment that reaches s, and the first after it that starts at e or later.
Reaches(segs, s) == FirstOf({k \in 1 .. Len(segs) : s <= segs[k].e}, segs)
StartsAfter(segs, i, e) == FirstOf({k \in i + 1 .. Len(segs) : e <= segs[k].s}, segs)

\* Mutant: a segment that starts where the new one ends is left alone.
LastMergedApart(segs, i, e) == StartsAfter(segs, i, e) - 1

\* The last segment that is merged into the i-th: the one that starts at e, too.
LastMerged(segs, i, e) ==
  LET j == StartsAfter(segs, i, e)
  IN IF j <= Len(segs) /\ segs[j].s = e THEN j ELSE j - 1

\* The segments with [s, e) among them.  (The program looks first at a segment before
\* all others; the general case has the same effect.)
st_int_seg_union_insert(segs, s, e) ==
  LET i == Reaches(segs, s)
      fresh == i > Len(segs) \/ e < segs[i].s
      j == LastMerged(segs, i, e)
  IN IF s < 0 \/ s >= e \/ (fresh /\ Len(segs) >= Cap) THEN [ok |-> FALSE, segs |-> segs]
     ELSE IF fresh THEN [ok |-> TRUE, segs |-> Before(segs, i) \o <<Seg(s, e)>> \o From(segs, i)]
     ELSE [ok |-> TRUE,
           segs |-> Before(segs, i) \o <<Seg(Lower(s, segs[i].s), Upper(e, segs[j].e))>> \o From(segs, j + 1)]

\* The segment from seg.s to e, which is the sum of seg.s and seg.n: what reaches over
\* the end of the ring is a second segment from 0 on.
Unite(segs, seg, e) ==
  LET first == st_int_seg_union_insert(segs, seg.s, IF e > Ring THEN Ring ELSE e)
  IN IF e > Ring /\ first.ok THEN st_int_seg_union_insert(first.segs, 0, seg.n - (Ring - seg.s))
     ELSE first

st_int_seg_union(segs, seg) == Unite(segs, seg, seg.s + seg.n)
st_size_seg_union(segs, seg) == Unite(segs, seg, (seg.s + seg.n) % Word)

(* An element found is not added again; a full array takes no new one. *)
st_insert(array, n) ==
  LET i == FirstOf({k \in 1 .. Len(array) : array[k] >= n}, array)
  IN IF i <= Len(array) /\ array[i] = n THEN [ok |-> TRUE, pos |-> i, array |-> array]
     ELSE IF Len(array) >= Cap THEN [ok |-> FALSE, pos |-> i, array |-> array]
     ELSE [ok |-> TRUE, pos |-> i, array |-> Before(array, i) \o <<n>> \o From(array, i)]

-----------------------------------------------------------------------------
Segs == [s : 0 .. Ring - 1, n : Lengths]
Points(segs) == {p \in 0 .. Ring - 1 : \E k \in DOMAIN segs : segs[k].s <= p /\ p < segs[k].e}
Around(seg) == {(seg.s + d) % Ring : d \in 0 .. seg.n - 1}

SegmentsInit == union = << >> /\ asked = {} /\ refused = FALSE

Answer(r, seg) ==
  /\ union' = r.segs /\ refused' = ~r.ok
  /\ asked' = asked \cup Around(seg)

IntUnion == \E x \in Segs : Answer(st_int_seg_union(union, x), x)
SizeUnion == \E x \in Segs : Answer(st_size_seg_union(union, x), x)

\* A caller gives up a union that was refused a segment.
SegmentsNext == ~refused /\ (IntUnion \/ SizeUnion)

ArrayInit == sorted = << >>
st_int_insert == \E n \in 0 .. Ring : sorted' = st_insert(sorted, n).array

-----------------------------------------------------------------------------
\* The union is in order, its segments do not touch, and it covers the points of the
\* segments that were handed in, all of them unless a segment was refused, and no
\* other point: also around the end of the ring.
UnionExact ==
  /\ \A k \in 1 .. Len(union) - 1 : union[k].e < union[k + 1].s
  /\ \A k \in DOMAIN union : 0 <= union[k].s /\ union[k].s < union[k].e /\ union[k].e <= Ring
  /\ IF refused THEN Points(union) \subseteq asked ELSE Points(union) = asked

\* An array grown by st_int_insert holds nothing twice, in order: an element handed in
\* again, at any place and to a full array, changes nothing.
SortedOnce == \A i, j \in DOMAIN sorted : i < j => sorted[i] < sorted[j]

\* The union of segments covers what was handed in and nothing else, in order and with
\* no two segments that touch; an array grown by the same kind of search holds nothing
\* twice.
UnionAndArrayExact == UnionExact /\ SortedOnce
=============================================================================
