----------------------------- MODULE IntParser -----------------------------
(***************************************************************************)
(* The two parsers of integer arrays of st_int.c: "1,-2,30", and the same  *)
(* with weights, "1:0.5,-2:-3".  Both read one character a step and append *)
(* to the array of the caller.  INT_MAX and FLT_MAX, which the program     *)
(* takes for "no digit yet", are NoDigit; a weight is counted in units of  *)
(* 10 ^ -Digits.                                                           *)
(***************************************************************************)
EXTENDS Integers, Sequences, FiniteSets, SequencesExt

CONSTANTS
  Figures,      \* the digits that occur
  MaxText,      \* the length of the text
  Digits,       \* the digits of the fraction of a weight that are told apart
  DefWt,        \* the weight of a number without one
  NoDigit

ASSUME IntParserAssumption == Figures \subseteq 0 .. 9 /\ NoDigit \notin Int

VARIABLES
  text,         \* the characters read
  weighted,     \* which of the two parsers reads
  at,           \* its local variables
  arr,          \* the array
  state         \* "reading", "done" or "error"

parserVars == <<text, weighted, at, arr, state>>

\* Characters are their codes.
COMMA == 44
MINUS == 45
POINT == 46
ZERO == 48
COLON == 58

One == 10 ^ Digits
Fresh == [n |-> NoDigit, neg |-> FALSE, i |-> NoDigit, f |-> NoDigit, wt_neg |-> FALSE,
          in_wt |-> FALSE, in_frac |-> FALSE, power |-> 1]

Signed(neg, n) == IF neg THEN -n ELSE n
NextDigit(n, d) == IF n = NoDigit THEN d ELSE 10 * n + d
Place(power, d) == IF power > Digits THEN 0 ELSE d * 10 ^ (Digits - power)

\* A weight without a digit before the point is none: i stays INT_MAX.
Weight(v) ==
  IF v.i = NoDigit THEN DefWt
  ELSE Signed(v.wt_neg, v.i * One + (IF v.f = NoDigit THEN 0 ELSE v.f))
Item(v) == [i |-> Signed(v.neg, v.n), w |-> IF weighted THEN Weight(v) ELSE DefWt]

\* Mutant: what the last number has left is not reset.
KeepSign == [Fresh EXCEPT !.neg = at.neg]

AfterComma == Fresh

ParserInit ==
  text = << >> /\ weighted \in BOOLEAN /\ at = Fresh /\ arr = << >> /\ state = "reading"

ReadChar(c) ==
  /\ state = "reading" /\ Len(text) < MaxText
  /\ text' = Append(text, c)
  /\ UNCHANGED weighted

Continue(v) == at' = v /\ UNCHANGED <<arr, state>>
Refuse == state' = "error" /\ UNCHANGED <<at, arr>>

Comma ==
  /\ ReadChar(COMMA)
  /\ \/ at.n = NoDigit /\ Refuse
     \/ at.n # NoDigit /\ arr' = Append(arr, Item(at)) /\ at' = AfterComma /\ UNCHANGED state

Minus ==
  /\ ReadChar(MINUS)
  /\ \/ ~at.in_wt /\ at.n # NoDigit /\ Refuse
     \/ ~at.in_wt /\ at.n = NoDigit /\ Continue([at EXCEPT !.neg = TRUE])
     \/ at.in_wt /\ at.i # NoDigit /\ Refuse
     \/ at.in_wt /\ at.i = NoDigit /\ Continue([at EXCEPT !.wt_neg = TRUE])

Colon ==
  /\ ReadChar(COLON)
  /\ \/ weighted /\ ~at.in_wt /\ Continue([at EXCEPT !.in_wt = TRUE])
     \/ ~(weighted /\ ~at.in_wt) /\ Refuse

Point ==
  /\ ReadChar(POINT)
  /\ \/ at.in_wt /\ at.f = NoDigit /\ Continue([at EXCEPT !.in_frac = TRUE])
     \/ ~(at.in_wt /\ at.f = NoDigit) /\ Refuse

\* A second digit of a weight before the point replaces the first.
Digit(d) ==
  /\ ReadChar(ZERO + d)
  /\ Continue(
       IF ~at.in_wt THEN [at EXCEPT !.n = NextDigit(@, d)]
       ELSE IF ~at.in_frac THEN [at EXCEPT !.i = d]
       ELSE IF at.f = NoDigit THEN [at EXCEPT !.f = Place(1, d), !.power = 1]
       ELSE [at EXCEPT !.f = @ + Place(at.power + 1, d), !.power = @ + 1])

EndOfText ==
  /\ state = "reading"
  /\ \/ at.n = NoDigit /\ Refuse
     \/ at.n # NoDigit /\ arr' = Append(arr, Item(at)) /\ state' = "done" /\ UNCHANGED at
  /\ UNCHANGED <<text, weighted>>

ParserNext == Comma \/ Minus \/ Colon \/ Point \/ EndOfText \/ \E d \in Figures : Digit(d)

-----------------------------------------------------------------------------
(***************************************************************************)
(* What a text means: the text between two commas is an optional sign and  *)
(* digits, then perhaps a colon and a weight.                              *)
(***************************************************************************)
Commas == {k \in 1 .. Len(text) : text[k] = COMMA}
Starts == {1} \cup {k + 1 : k \in Commas}
PieceAt(k) ==
  LET end == CHOOSE e \in {Len(text) + 1} \cup Commas :
               e >= k /\ \A c \in Commas : c >= k => e <= c
  IN SubSeq(text, k, end - 1)
IsFigure(c) == c - ZERO \in Figures
Value(figures) == FoldLeft(LAMBDA v, c : 10 * v + c - ZERO, 0, figures)
Upto(piece, c) == LET k == SelectInSeq(piece, LAMBDA x : x = c)
                  IN IF k = 0 THEN piece ELSE SubSeq(piece, 1, k - 1)
After(piece, c) == LET k == SelectInSeq(piece, LAMBDA x : x = c)
                   IN IF k = 0 THEN << >> ELSE SubSeq(piece, k + 1, Len(piece))
Number(piece) ==
  LET v == Value(SelectSeq(piece, IsFigure)) IN IF MINUS \in ToSet(piece) THEN -v ELSE v
Numeral(piece) == \E k \in DOMAIN piece : IsFigure(piece[k])

\* The weight of a piece with at most one digit before the point, and one at least.
Simple(wt) == Len(SelectSeq(Upto(wt, POINT), IsFigure)) = 1
Weighs(wt) ==
  LET whole == Value(SelectSeq(Upto(wt, POINT), IsFigure))
      part == SelectSeq(After(wt, POINT), IsFigure)
      units == IF part = << >> THEN 0 ELSE Value(part) * 10 ^ (Digits - Len(part))
      w == whole * One + units
  IN IF MINUS \in ToSet(wt) THEN -w ELSE w

\* A text that is read to its end gives an element for each piece between commas, with
\* its number and its sign; and the weight written with it, if a single digit stands
\* before the point: nothing of a piece reaches the next.
ParsedAsWritten ==
  state = "done" =>
    LET pieces == SetToSortSeq(Starts, LAMBDA x, y : x < y)
    IN /\ Len(arr) = Len(pieces)
       /\ \A k \in DOMAIN pieces :
            LET piece == PieceAt(pieces[k])
                wt == After(piece, COLON)
            IN /\ Numeral(Upto(piece, COLON)) /\ arr[k].i = Number(Upto(piece, COLON))
               /\ wt # << >> /\ Simple(wt) => arr[k].w = Weighs(wt)
               /\ wt = << >> => arr[k].w = DefWt
=============================================================================
