----------------------------- MODULE LineReader -----------------------------
(***************************************************************************)
(* st_fgets (st_io.c): a line of any length into a buffer of the caller    *)
(* that is doubled as often as it is full.  One character a step.          *)
(***************************************************************************)
EXTENDS Integers, Sequences, SequencesExt

CONSTANTS
  MAX_LINE_LEN,   \* the size of a buffer st_fgets allocates
  CallerSizes,    \* the sizes of the buffers callers bring, 0 for none
  MaxInput        \* the length of the file

LineReaderAssumption == MAX_LINE_LEN \in Nat /\ MAX_LINE_LEN > 1 /\ CallerSizes \subseteq Nat /\ MaxInput \in Nat

VARIABLES
  input,          \* what is left of the file
  sz,             \* the size of the buffer, 0 without one
  mem,            \* what the buffer holds, the address 0 first
  linePtr, room,  \* where the next character goes, and the room counted down
  readerPc,
  before,         \* the file, and the size of the buffer, when the call began
  err             \* the call has failed for want of memory

readerVars == <<input, sz, mem, linePtr, room, readerPc, before, err>>

NewLine == "newline"
Char == "char"

ReaderInit ==
  /\ input \in UNION {[1 .. k -> {NewLine, Char}] : k \in 0 .. MaxInput}
  /\ sz \in CallerSizes
  /\ mem = << >> /\ linePtr = 0 /\ room = 0 /\ readerPc = "idle" /\ err = FALSE
  /\ before = [input |-> input, sz |-> sz]

\* After a NULL for want of memory callers do not come back.
st_fgets ==
  /\ readerPc \in {"idle", "line"}
  /\ before' = [input |-> input, sz |-> sz]
  /\ mem' = << >> /\ linePtr' = 0
  /\ \/ sz > 0 /\ UNCHANGED sz /\ room' = sz /\ readerPc' = "first" /\ err' = FALSE
     \/ sz = 0 /\ sz' = MAX_LINE_LEN /\ room' = MAX_LINE_LEN /\ readerPc' = "first" /\ err' = FALSE
     \/ sz = 0 /\ UNCHANGED <<sz, room>> /\ readerPc' = "null" /\ err' = TRUE
  /\ UNCHANGED input

\* The buffer with c at ptr, which the program counts from its beginning.
Store(c) == [k \in 1 .. linePtr + 1 |-> IF k = linePtr + 1 THEN c ELSE IF k <= Len(mem) THEN mem[k] ELSE Char]

\* while (--n) getc: what is read while there is room, up to the newline.
Loop(loop) ==
  /\ readerPc = loop
  /\ room' = room - 1
  /\ UNCHANGED <<sz, before, err>>
  /\ \/ room = 1 /\ readerPc' = "grow" /\ UNCHANGED <<input, mem, linePtr>>
     \/ room # 1 /\ input = << >> /\ UNCHANGED <<input, mem, linePtr>>
              /\ readerPc' = IF loop = "first" /\ linePtr = 0 THEN "null" ELSE "line"
     \/ room # 1 /\ input # << >>
              /\ mem' = Store(Head(input)) /\ linePtr' = linePtr + 1 /\ input' = Tail(input)
              /\ readerPc' = IF Head(input) = NewLine THEN "line" ELSE loop

\* Mutant: the place of the terminating zero is not used again.
ResumeAfter(old_sz) == old_sz

\* Where the reading goes on in a buffer of twice the size.
Resume(old_sz) == old_sz - 1

Grow ==
  /\ readerPc = "grow"
  /\ UNCHANGED <<input, mem, before>>
  /\ \/ sz' = 2 * sz /\ linePtr' = Resume(sz) /\ room' = sz + 1 /\ readerPc' = "more" /\ UNCHANGED err
     \/ sz' = 0 /\ err' = TRUE /\ readerPc' = "null" /\ UNCHANGED <<linePtr, room>>

ReaderNext == st_fgets \/ Loop("first") \/ Loop("more") \/ Grow

-----------------------------------------------------------------------------
NextLine(text) ==
  LET k == SelectInSeq(text, LAMBDA c : c = NewLine) IN IF k = 0 THEN text ELSE SubSeq(text, 1, k)

\* Each call returns the next line of the file whole, whatever the length of the line
\* and the size of the buffer, with room for the zero behind it; NULL without an error
\* means that the file has ended, and nothing of a line is lost then.  (A caller that
\* brings a buffer of one byte is handed an empty line at the end of the file first.)
LinesWhole ==
  /\ readerPc = "line" =>
       /\ SubSeq(mem, 1, linePtr) = NextLine(before.input) /\ NextLine(before.input) \o input = before.input
       /\ linePtr < sz
       /\ before.input = << >> => before.sz = 1
  /\ readerPc = "null" /\ ~err => before.input = << >> /\ input = << >>
=============================================================================
