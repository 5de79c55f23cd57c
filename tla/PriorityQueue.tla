--------------------------- MODULE PriorityQueue ---------------------------
(***************************************************************************)
(* What a bounded priority queue promises: what leaves is something of the *)
(* least key among what is there, whatever the caller did to the keys.     *)
(***************************************************************************)
EXTENDS Naturals, FiniteSets

CONSTANTS Objects, Keys, Size, NoObj

VARIABLES
  content,    \* how many times each object is in the queue
  prio,       \* the key of each object, the caller's to change
  out         \* what the last call gave: a code, and the object of an extract

Result(code, obj) == [code |-> code, obj |-> obj]

Members == {o \in Objects : content[o] > 0}
Copies == {c \in Objects \X (1 .. Size) : c[2] <= content[c[1]]}

Init ==
  /\ content = [o \in Objects |-> 0]
  /\ prio \in [Objects -> Keys]
  /\ out = Result("none", NoObj)

Insert(o) ==
  /\ Cardinality(Copies) < Size
  /\ content' = [content EXCEPT ![o] = @ + 1]
  /\ out' = Result("ok", NoObj)
  /\ UNCHANGED prio

Extract(o) ==
  /\ o \in Members
  /\ \A q \in Members : prio[o] <= prio[q]
  /\ content' = [content EXCEPT ![o] = @ - 1]
  /\ out' = Result("ok", o)
  /\ UNCHANGED prio

Refuse ==
  /\ \/ out' = Result("full", NoObj)
     \/ Members = {} /\ out' = Result("empty", NoObj)
  /\ UNCHANGED <<content, prio>>

Clear ==
  /\ content' = [o \in Objects |-> 0]
  /\ out' = Result("ok", NoObj)
  /\ UNCHANGED prio

Rekey(o, k) ==
  /\ prio' = [prio EXCEPT ![o] = k]
  /\ \E code \in {"ok", "err"} : out' = Result(code, NoObj)
  /\ UNCHANGED content

Next ==
  \/ \E o \in Objects : Insert(o) \/ Extract(o) \/ \E k \in Keys : Rekey(o, k)
  \/ Refuse
  \/ Clear

Spec == Init /\ [][Next]_<<content, prio, out>>
=============================================================================
