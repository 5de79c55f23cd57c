---------------------------- MODULE BoundedFifo ----------------------------
(***************************************************************************)
(* What a bounded first-in first-out queue promises: items leave in the    *)
(* order they came, none is refused while there is room, none is given     *)
(* while there is nothing.                                                 *)
(***************************************************************************)
EXTENDS Naturals, Sequences

CONSTANTS Items, Size, NoItem

VARIABLES
  content,    \* the items in the queue, oldest first
  out         \* what the last call returned: a code, and the item of a dequeue

Result(code, item) == [code |-> code, item |-> item]

Init == content = << >> /\ out = Result("none", NoItem)

Enqueue(x) ==
  IF Len(content) = Size
  THEN out' = Result("full", NoItem) /\ UNCHANGED content
  ELSE out' = Result("ok", NoItem) /\ content' = Append(content, x)

Dequeue ==
  IF content = << >>
  THEN out' = Result("empty", NoItem) /\ UNCHANGED content
  ELSE out' = Result("ok", Head(content)) /\ content' = Tail(content)

Clear == content' = << >> /\ out' = Result("ok", NoItem)

Next == (\E x \in Items : Enqueue(x)) \/ Dequeue \/ Clear

Spec == Init /\ [][Next]_<<content, out>>
=============================================================================
