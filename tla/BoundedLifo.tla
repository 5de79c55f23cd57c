---------------------------- MODULE BoundedLifo ----------------------------
(***************************************************************************)
(* What a bounded stack promises: the last item in is the first one out,   *)
(* and the items under it can be looked at by their depth, from one.       *)
(***************************************************************************)
EXTENDS Naturals, Sequences

CONSTANTS Items, Size, Depths, NoItem

VARIABLES
  content,    \* the items on the stack, the oldest first
  out         \* what the last call returned: a code, and the item it gave

Result(code, item) == [code |-> code, item |-> item]
Top(n) == content[Len(content) + 1 - n]

Init == content = << >> /\ out = Result("none", NoItem)

Push(x) ==
  IF Len(content) = Size
  THEN out' = Result("full", NoItem) /\ UNCHANGED content
  ELSE out' = Result("ok", NoItem) /\ content' = Append(content, x)

Pop ==
  IF content = << >>
  THEN out' = Result("empty", NoItem) /\ UNCHANGED content
  ELSE out' = Result("ok", Top(1)) /\ content' = SubSeq(content, 1, Len(content) - 1)

Look(n) ==
  /\ out' = IF n \in 1 .. Len(content) THEN Result("ok", Top(n)) ELSE Result("empty", NoItem)
  /\ UNCHANGED content

Clear == content' = << >> /\ out' = Result("ok", NoItem)

Next ==
  \/ \E x \in Items : Push(x)
  \/ \E n \in Depths : Look(n)
  \/ Pop \/ Clear

Spec == Init /\ [][Next]_<<content, out>>
=============================================================================
