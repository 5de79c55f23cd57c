----------------------------- MODULE AlignedMem -----------------------------
(***************************************************************************)
(* Blocks of aligned memory (st_mem.c): a block lies somewhere in a larger *)
(* one of malloc, and the three words in front of it hold its offset, its  *)
(* alignment and its size.  Memory is counted in words of a size_t.  (What *)
(* the calls add to the memory statistics is in MemUsage.)                 *)
(***************************************************************************)
EXTENDS Integers, FiniteSets

CONSTANTS
  Alignments, BlockSizes,
  Bases,        \* the addresses malloc and realloc answer
  Junk          \* what fresh memory holds

AlignedMemAssumption == Alignments \subseteq Nat \ {0} /\ BlockSizes \subseteq Nat /\ Bases \subseteq Nat

HEADER == 3

\* What the caller writes to the word i of a block; no field of a header has a value
\* as large.
Content(i) == 1000 + i

VARIABLES
  base,         \* the address of the block of malloc
  cells,        \* its words
  ptr,          \* the offset of the pointer the caller holds, NoBlock without one
  written,      \* how many words of the block the caller has written and not given up
  call,         \* the last call: from which size and alignment to which
  outside       \* it moved words that are not in the block of malloc

alignedVars == <<base, cells, ptr, written, call, outside>>

NoBlock == -1
BlockHeld == ptr # NoBlock /\ ~outside

Padding(alignment) == alignment - 1 + HEADER
Whole(size, alignment) == size + Padding(alignment)

\* Mutant: the padding leaves no room for the last field.
OffsetShort(at, alignment) == ((at + Padding(alignment) - 1) \div alignment) * alignment - at

\* The offset of the aligned address behind the padding.
Offset(at, alignment) == ((at + Padding(alignment)) \div alignment) * alignment - at

\* p3[-1], p3[-2] and p3[-3].
Field(mem, p, k) == mem[p - k]
WithHeader(mem, p, alignment, size) ==
  [mem EXCEPT ![p - 1] = p, ![p - 2] = alignment, ![p - 3] = size]
Resized(mem, total) == [k \in 0 .. total - 1 |-> IF k \in DOMAIN mem THEN mem[k] ELSE Junk]

AlignedInit ==
  /\ base = 0 /\ cells = << >> /\ ptr = NoBlock /\ written = 0 /\ outside = FALSE
  /\ call = [from |-> 0, to |-> 0, was |-> 0, alignment |-> 0]

st_aligned_malloc_impl(at, size, alignment) ==
  LET p == Offset(at, alignment)
      fresh == [k \in 0 .. Whole(size, alignment) - 1 |-> Junk]
  IN /\ base' = at
     /\ ptr' = p
     /\ cells' = WithHeader(fresh, p, alignment, size)
     /\ call' = [from |-> 0, to |-> size, was |-> 0, alignment |-> alignment]
     /\ written' = 0 /\ outside' = FALSE

\* The memmove of REALIGN, of the size the block had.
Moved(mem, from, to, n) ==
  [k \in DOMAIN mem |->
     IF k - to \notin 0 .. n - 1 THEN mem[k]
     ELSE IF k - to + from \in DOMAIN mem THEN mem[k - to + from] ELSE Junk]
LeavesBlock(mem, from, to, n) == from + n > Cardinality(DOMAIN mem) \/ to + n > Cardinality(DOMAIN mem)

\* realloc answers the address it was given or another one.
st_aligned_realloc_impl(at, size, alignment) ==
  LET ori_offset == Field(cells, ptr, 1)
      ori_alignment == Field(cells, ptr, 2)
      ori_size == Field(cells, ptr, 3)
      mem == Resized(cells, Whole(size, alignment))
      fits == alignment = ori_alignment /\ (at = base \/ (at + ori_offset) % alignment = 0)
      to == Offset(at, alignment)
  IN /\ base' = at
     /\ \/ fits /\ ptr' = ori_offset
           /\ cells' = WithHeader(mem, ori_offset, alignment, size)
           /\ UNCHANGED outside
        \/ ~fits /\ ptr' = to
           /\ cells' = WithHeader(Moved(mem, ori_offset, to, ori_size), to, alignment, size)
           /\ outside' = LeavesBlock(mem, ori_offset, to, ori_size)
     /\ written' = IF written < size THEN written ELSE size
     /\ call' = [from |-> ori_size, to |-> size, was |-> ori_alignment, alignment |-> alignment]

st_aligned_size == IF ptr = NoBlock THEN 0 ELSE Field(cells, ptr, 3)
st_aligned_alignment == IF ptr = NoBlock THEN 0 ELSE Field(cells, ptr, 2)

st_aligned_free ==
  /\ BlockHeld
  /\ ptr' = NoBlock /\ written' = 0 /\ cells' = << >> /\ base' = 0
  /\ UNCHANGED <<call, outside>>

\* The caller writes the whole block.
Fill ==
  /\ BlockHeld
  /\ written' = st_aligned_size
  /\ cells' = [k \in DOMAIN cells |-> IF k >= ptr /\ k < ptr + st_aligned_size THEN Content(k - ptr) ELSE cells[k]]
  /\ UNCHANGED <<base, ptr, call, outside>>

AlignedNext ==
  \/ \E at \in Bases, size \in BlockSizes, alignment \in Alignments :
       \/ ptr = NoBlock /\ st_aligned_malloc_impl(at, size, alignment)
       \/ BlockHeld /\ st_aligned_realloc_impl(at, size, alignment)
  \/ Fill \/ st_aligned_free

-----------------------------------------------------------------------------
\* A block stays aligned, within the memory it lies in, of the size that was asked
\* for and with the words that were written to it, in place, moved or realigned; a
\* call that does not shrink it and does not lower its alignment never touches memory
\* outside.
ContentKept ==
  IF outside THEN call.to < call.from \/ call.alignment < call.was
  ELSE ptr # NoBlock =>
    /\ ptr >= HEADER /\ Field(cells, ptr, 1) = ptr
    /\ (base + ptr) % st_aligned_alignment = 0
    /\ st_aligned_alignment = call.alignment /\ st_aligned_size = call.to
    /\ ptr + st_aligned_size <= Cardinality(DOMAIN cells)
    /\ \A i \in 0 .. written - 1 : cells[ptr + i] = Content(i)

\* Nothing depends on the words in front of the header and behind those that were
\* written: states that differ only there, or in how they were reached, are one.
AlignedView ==
  IF outside THEN <<call>>
  ELSE <<base, ptr, written, Cardinality(DOMAIN cells), call.to, call.alignment,
         [k \in ptr - HEADER .. ptr + written - 1 |-> IF k \in DOMAIN cells THEN cells[k] ELSE Junk]>>
=============================================================================
