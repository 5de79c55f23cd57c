----------------------------- MODULE Dictionary -----------------------------
(***************************************************************************)
(* What a dictionary promises: a finite map, and a file that holds the map *)
(* as it was when it was saved.  A call that fails changes nothing.        *)
(***************************************************************************)
CONSTANTS
  Keys, Data, NoKey, NoData, NoMap,
  MayFail   \* whether memory runs out or a callback refuses

VARIABLES
  map,      \* the pairs of a key in the dictionary and its data
  saved,    \* the map in the file, NoMap before the first save
  out       \* the last call, and what it gave

Call(op, k, d) == [op |-> op, key |-> k, data |-> d]
Simple(op) == Call(op, NoKey, NoData)
Answer(call, code, d) == [call |-> call, code |-> code, data |-> d]

Has(k) == \E p \in map : p[1] = k
With(k, d) == {p \in map : p[1] # k} \cup {<<k, d>>}

Init == map = {} /\ saved = NoMap /\ out = Answer(Simple("none"), "ok", NoData)

Done(call) == out' = Answer(call, "ok", NoData)
Refused(call) == out' = Answer(call, "err", NoData) /\ UNCHANGED <<map, saved>>

Seek(k) ==
  \/ /\ \E d \in Data : out' = Answer(Call("seek", k, NoData), "ok", d) /\ <<k, d>> \in map
     /\ UNCHANGED <<map, saved>>
  \/ Refused(Call("seek", k, NoData)) /\ ~Has(k)

Add(k, d) ==
  \/ Done(Call("add", k, d)) /\ ~Has(k) /\ map' = With(k, d) /\ UNCHANGED saved
  \/ Refused(Call("add", k, d)) /\ (Has(k) \/ MayFail)

Update(k, d) ==
  \/ Done(Call("update", k, d)) /\ map' = With(k, d) /\ UNCHANGED saved
  \/ Refused(Call("update", k, d)) /\ MayFail

Traverse ==
  \/ Done(Simple("traverse")) /\ UNCHANGED <<map, saved>>
  \/ Refused(Simple("traverse")) /\ MayFail

\* A dictionary may be one that cannot be cleared.
Clear ==
  \/ Done(Simple("clear")) /\ map' = {} /\ UNCHANGED saved
  \/ Refused(Simple("clear"))

Save == Done(Simple("save")) /\ saved' = map /\ UNCHANGED map

Load ==
  \/ Done(Simple("load")) /\ saved # NoMap /\ map' = saved /\ UNCHANGED saved
  \/ Refused(Simple("load")) /\ MayFail

Next ==
  \/ Traverse \/ Clear \/ Save \/ Load
  \/ \E k \in Keys : Seek(k) \/ \E d \in Data : Add(k, d) \/ Update(k, d)

Spec == Init /\ [][Next]_<<map, saved, out>>
=============================================================================
