-------------------------------- MODULE Conf --------------------------------
(***************************************************************************)
(* st_conf: sections and their parameters in arrays that grow, a loader    *)
(* that keeps pointers into the array of sections while files load other   *)
(* files, look-ups that convert texts, and the record of what was used.    *)
(*                                                                         *)
(* The operators take a configuration and return the next one, so that     *)
(* st_opt, which keeps two, is built from them.  A pointer into the array  *)
(* of sections is its index with the array's generation: once the array    *)
(* was moved the pointer is stale.  `a` says for each array what an        *)
(* allocation of it would answer.                                          *)
(***************************************************************************)
EXTENDS Integers, Sequences, FiniteSets, SequencesExt

CONSTANTS
  Labels,          \* what headings name, without the section above them
  Keys, Fold,      \* keys as they are spelt, and what the comparison makes of them
  Texts,           \* [form |-> "number" | "true" | "false" | "word" | "empty", n |-> its number]
  SEC_NUM, PARAM_NUM,
  IntWord, LongWord,   \* 2^width of int and of long
  MayFail,         \* allocations may fail
  Blank, NotSet, Unset

ConfAssumption ==
  /\ SEC_NUM \in Nat \ {0} /\ PARAM_NUM \in Nat \ {0}
  /\ Fold \in [Keys -> Keys] /\ \A k \in Keys : Fold[Fold[k]] = Fold[k]
  /\ Blank \notin Keys /\ Blank \notin Texts /\ NotSet \notin Texts /\ NotSet # Blank
ASSUME ConfAssumption

Arrays == {"secs", "param", "def_param"}
Allocations ==
  {[x \in Arrays |-> how] : how \in {"stays", "moves"}}
    \cup IF MayFail THEN {[x \in Arrays |-> IF x = y THEN "fails" ELSE "moves"] : y \in Arrays} ELSE {}

DEF_SEC_NAME == << >>

BlankParam == [key |-> Blank, text |-> Blank, used |-> FALSE]

FreshSec == [name |-> DEF_SEC_NAME, param |-> << >>, param_cap |-> 0, param_null |-> TRUE,
             def_num |-> 0, def_cap |-> 0, def_null |-> TRUE]

NoConf == [secs |-> << >>, sec_cap |-> 0, null |-> TRUE, gen |-> 0]

\* Mutant: spelling matters.
SameSpelling(k, l) == k = l

Same(k, l) == k = l \/ (k # Blank /\ l # Blank /\ Fold[k] = Fold[l])
SecAt(c, name) == SelectInSeq(c.secs, LAMBDA s : s.name = name)
ParamAt(s, key) == SelectInSeq(s.param, LAMBDA p : Same(p.key, key))

\* What a call came to: c the configuration, at the section, ok whether it succeeded,
\* text and value what it has found, fault whether it touched memory that is not
\* there, lost whether it wrote to an array that was no longer the section's.
Result(c, at, ok) ==
  [c |-> c, at |-> at, ok |-> ok, text |-> NotSet, value |-> Unset, fault |-> FALSE, lost |-> FALSE]
Fault(c) == [Result(c, 0, FALSE) EXCEPT !.fault = TRUE]
SecsLost(c) == c.null /\ c.secs # << >>

NeedsRoom(num, cap) == num >= cap

resize_sec(s, a) ==
  LET grow == NeedsRoom(Len(s.param), s.param_cap)
      growDef == NeedsRoom(s.def_num, s.def_cap)
      p == IF grow THEN [s EXCEPT !.param_cap = @ + PARAM_NUM, !.param_null = (a["param"] = "fails")]
           ELSE s
      d == IF growDef THEN [p EXCEPT !.def_cap = @ + PARAM_NUM, !.def_null = (a["def_param"] = "fails")]
           ELSE p
  IN IF grow /\ p.param_null THEN [sec |-> p, ok |-> FALSE]
     ELSE [sec |-> d, ok |-> ~(growDef /\ d.def_null)]

st_conf_new_sec(c, name, a) ==
  LET full == Len(c.secs) >= c.sec_cap
      grown == IF full THEN [c EXCEPT !.sec_cap = @ + SEC_NUM, !.null = (a["secs"] = "fails"),
                                      !.gen = IF a["secs"] = "moves" /\ c.secs # << >> THEN @ + 1 ELSE @]
               ELSE c
      r == resize_sec([FreshSec EXCEPT !.name = name], a)
  IN IF SecsLost(c) THEN Fault(c)
     ELSE IF SecAt(c, name) # 0 THEN Result(c, SecAt(c, name), TRUE)
     ELSE IF full /\ grown.null THEN Result(grown, 0, FALSE)
     ELSE IF ~r.ok THEN Result(grown, 0, FALSE)
     ELSE Result([grown EXCEPT !.secs = Append(@, r.sec)], Len(c.secs) + 1, TRUE)

\* The place of a new parameter is taken before the array is given more room: when
\* that moves the array, the parameter is written to the old one and the new one has
\* a blank in its place.
WrittenTo(s, resized, new, a) ==
  LET lost == resized.param_cap # s.param_cap /\ a["param"] = "moves"
  IN [sec |-> IF lost THEN resized ELSE [resized EXCEPT !.param[Len(s.param) + 1] = new],
      lost |-> lost]

\* Mutant: a parameter that was used stays so with its new text.
OverwrittenUsed(p, new) == [new EXCEPT !.used = p.used]

Overwritten(p, new) == new

st_conf_add_param(c, i, key, text, a) ==
  LET s == c.secs[i]
      at == ParamAt(s, key)
      new == [key |-> key, text |-> text, used |-> FALSE]
      r == resize_sec([s EXCEPT !.param = Append(@, BlankParam)], a)
      w == WrittenTo(s, r.sec, new, a)
      With(sec) == [c EXCEPT !.secs[i] = sec]
  IN IF s.param_null THEN Fault(c)
     ELSE IF at # 0 THEN Result(With([s EXCEPT !.param[at] = Overwritten(@, new)]), i, TRUE)
     ELSE IF ~r.ok THEN Result(With(r.sec), i, FALSE)
     ELSE [Result(With(w.sec), i, TRUE) EXCEPT !.lost = w.lost]

st_conf_create(a) == st_conf_new_sec(NoConf, DEF_SEC_NAME, a)

st_conf_get_sec(c, name) ==
  IF SecsLost(c) THEN Fault(c) ELSE Result(c, SecAt(c, name), SecAt(c, name) # 0)

\* Finds the text of an option and marks it as used; at is the section also when
\* the key is not in it.
st_conf_get_str(c, name, key) ==
  LET s == st_conf_get_sec(c, name)
      sec == c.secs[s.at]
      p == ParamAt(sec, key)
  IN IF s.fault \/ ~s.ok THEN s
     ELSE IF sec.param_null /\ sec.param # << >> THEN Fault(c)
     ELSE IF p = 0 THEN [s EXCEPT !.ok = FALSE]
     ELSE [s EXCEPT !.c.secs[s.at].param[p].used = TRUE, !.text = sec.param[p].text]

-----------------------------------------------------------------------------
(***************************************************************************)
(* The conversions: what each getter makes of a text, given what the       *)
(* caller's variable held.  sscanf leaves the variable alone when the text *)
(* is no number, and the getter succeeds all the same; a long is read with *)
(* atoi, as an int.                                                        *)
(***************************************************************************)
Got(value) == [ok |-> TRUE, value |-> value]
NotGot(old) == [ok |-> FALSE, value |-> old]
atoi(n) == ((n + IntWord \div 2) % IntWord) - IntWord \div 2
sscanf(t, word, old) == IF t.form = "number" THEN t.n % word ELSE old

AsStr(t, old) == Got(t)
AsBool(t, old) ==
  IF t.form \in {"empty", "true"} \/ (t.form = "number" /\ t.n = 1) THEN Got(TRUE)
  ELSE IF t.form = "false" \/ (t.form = "number" /\ t.n = 0) THEN Got(FALSE)
  ELSE NotGot(old)
AsInt(t, old) == IF t.form = "empty" THEN NotGot(old) ELSE Got(atoi(t.n))
AsUint(t, old) == IF t.form = "empty" THEN NotGot(old) ELSE Got(sscanf(t, IntWord, old))
AsLong(t, old) == IF t.form = "empty" THEN NotGot(old) ELSE Got(atoi(t.n))
AsUlong(t, old) == IF t.form = "empty" THEN NotGot(old) ELSE Got(sscanf(t, LongWord, old))
AsDouble(t, old) == IF t.form = "empty" THEN NotGot(old) ELSE Got(t.n)

Types == {"str", "bool", "int", "uint", "long", "ulong", "double"}

Convert(type, t, old) ==
  CASE type = "str" -> AsStr(t, old)
    [] type = "bool" -> AsBool(t, old)
    [] type = "int" -> AsInt(t, old)
    [] type = "uint" -> AsUint(t, old)
    [] type = "long" -> AsLong(t, old)
    [] type = "ulong" -> AsUlong(t, old)
    [] type = "double" -> AsDouble(t, old)

\* The getter of a type, which leaves old in the caller's variable when it fails.
Converted(g, v) == [g EXCEPT !.ok = v.ok, !.value = v.value]
GotFrom(type, g, old) ==
  Converted(g, IF g.ok THEN Convert(type, g.text, old) ELSE NotGot(old))
Get(type, c, name, key, old) == GotFrom(type, st_conf_get_str(c, name, key), old)

\* What was not found or not converted, g, is answered with the default, and noted
\* among the defaults of its section s: the note is written first, room for the next
\* is made after it.
Noted(g, s, default, a) ==
  LET noted == [s.c.secs[s.at] EXCEPT !.def_num = @ + 1]
      r == resize_sec(noted, a)
  IN IF s.fault \/ (g.at = 0 /\ ~s.ok) THEN [s EXCEPT !.value = default]
     ELSE IF noted.def_null THEN Fault(s.c)
     ELSE [g EXCEPT !.c = [s.c EXCEPT !.secs[s.at] = r.sec], !.ok = r.ok, !.at = s.at, !.value = default]
OrDefault(g, name, default, a) ==
  IF g.fault \/ g.ok THEN g
  ELSE Noted(g, IF g.at = 0 THEN st_conf_new_sec(g.c, name, a) ELSE g, default, a)
GetDef(type, c, name, key, old, default, a) ==
  OrDefault(Get(type, c, name, key, old), name, default, a)

-----------------------------------------------------------------------------
Unused(c) == {s \in DOMAIN c.secs : \E p \in DOMAIN c.secs[s].param : ~c.secs[s].param[p].used}

st_conf_check(c) ==
  IF SecsLost(c) \/ \E s \in DOMAIN c.secs : c.secs[s].param_null /\ c.secs[s].param # << >>
  THEN Fault(c) ELSE Result(c, 0, Unused(c) = {})

st_conf_destroy(c) == IF SecsLost(c) THEN Fault(c) ELSE Result(NoConf, 0, TRUE)

\* The section without a name comes first; the order of the others, that of their
\* names, is one no property tells from another.
st_conf_sort_secs(c) ==
  LET IsDef(s) == s.name = DEF_SEC_NAME
  IN [c EXCEPT !.secs = SelectSeq(@, IsDef) \o SelectSeq(@, LAMBDA s : ~IsDef(s))]

\* The parameters of every section of src are added to the section of dst with its
\* name; the first call that fails ends the merge.
st_conf_merge(dst, src, a) ==
  LET Then(r, next) == IF ~r.ok THEN r ELSE [next EXCEPT !.lost = @ \/ r.lost]
      MergeParam(r, p) == Then(r, st_conf_add_param(r.c, r.at, p.key, p.text, a))
      MergeSec(r, s) == FoldLeft(MergeParam, Then(r, st_conf_new_sec(r.c, s.name, a)), s.param)
  IN FoldLeft(MergeSec, Result(dst, 0, TRUE), src.secs)
=============================================================================
