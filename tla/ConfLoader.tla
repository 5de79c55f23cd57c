----------------------------- MODULE ConfLoader -----------------------------
(***************************************************************************)
(* A configuration over its life: the loader, one step a line, with a      *)
(* frame for each file that is open; the getters, the check and the        *)
(* destruction between loads.  What a file holds is chosen line by line.   *)
(***************************************************************************)
EXTENDS Conf

CONSTANTS
  FileKeys,           \* the keys that files set and callers ask for
  FileTexts,          \* the texts that files set
  AskedTypes,         \* the getters that are called
  MaxLines, MaxSecs, MaxDefs, MaxDepth

ASSUME LoaderAssumption == FileKeys \subseteq Keys /\ FileTexts \subseteq Texts

VARIABLES
  conf,
  stack,       \* the files being loaded: the sections they point to
  lines,       \* how many lines were read
  open,        \* how many files are open
  answer,      \* the last call, for the specification of a configuration
  fault,       \* memory that is not there was touched
  failed,      \* an allocation has failed
  lost,        \* the last call wrote to an array that had been moved
  grown        \* the array of sections was moved under the pointer of an outer file

vars == <<conf, stack, lines, open, answer, fault, failed, lost, grown>>

Other == [call |-> "other"]
\* Mutant: the pointer is kept from before the array grew.
PointerKept(c, i) == [gen |-> conf.gen, at |-> i]

Pointer(c, i) == [gen |-> c.gen, at |-> i]

NullPointer == [gen |-> 0, at |-> 0]
Live(p) == p.gen = conf.gen

\* parent and cur are the pointers of the program, within the name of the section the
\* file was loaded for, here the name of the one the next parameter belongs to.
Frame(parent, cur, within) == [parent |-> parent, cur |-> cur, within |-> within, here |-> within]
Top == stack[Len(stack)]
SetTop(f) == [stack EXCEPT ![Len(stack)] = f]
Running == ~fault /\ stack # << >>
\* Callers give a configuration up once a call of it has failed, all but its destruction.
Idle == ~fault /\ stack = << >>
InUse == Idle /\ ~failed

Init ==
  /\ \E a \in Allocations : LET r == st_conf_create(a) IN r.ok /\ conf = r.c
  /\ stack = << >> /\ lines = 0 /\ open = 0 /\ answer = Other
  /\ fault = FALSE /\ failed = FALSE /\ lost = FALSE /\ grown = FALSE

\* The configuration and the flags after a call.
After(r) ==
  /\ conf' = r.c
  /\ fault' = r.fault
  /\ lost' = r.lost

FileOpens == open' = open + 1

\* Every file of the load is closed and the load answers -1.
Unwind == stack' = << >> /\ open' = 0

st_conf_load ==
  /\ InUse
  /\ LET r == st_conf_get_sec(conf, DEF_SEC_NAME)
     IN /\ After(r)
        /\ \/ r.ok /\ stack' = <<Frame(NullPointer, Pointer(conf, r.at), DEF_SEC_NAME)>> /\ FileOpens
           \/ UNCHANGED <<stack, open>>                               \* st_fopen fails
  /\ answer' = Other
  /\ UNCHANGED <<lines, failed, grown>>

ReadLine == Running /\ lines < MaxLines /\ lines' = lines + 1

Heading(f, label) == IF f.parent = NullPointer THEN <<label>> ELSE Append(f.within, label)

\* [label] or [label:file].  Within a loaded file the name of the section is read
\* through the pointer to the parent.
LoadHeading(label, file) ==
  /\ ReadLine
  /\ file => Len(stack) < MaxDepth
  /\ answer' = Other
  /\ LET name == Heading(Top, label)
         cur(c, i) == SetTop([Top EXCEPT !.cur = Pointer(c, i), !.here = name])
     IN IF Top.parent # NullPointer /\ ~Live(Top.parent)
        THEN fault' = TRUE /\ lost' = FALSE /\ UNCHANGED <<conf, stack, open, failed, grown>>
        ELSE \E a \in Allocations :
               LET r == st_conf_new_sec(conf, name, a)
               IN /\ Len(r.c.secs) <= MaxSecs
                  /\ After(r)
                  /\ failed' = (failed \/ ~r.ok)
                  /\ grown' = (grown \/ (r.c.gen # conf.gen /\ Len(stack) > 1))
                  /\ \/ ~r.ok /\ Unwind
                     \/ r.ok /\ ~file /\ stack' = cur(r.c, r.at) /\ UNCHANGED open
                     \/ r.ok /\ file /\ FileOpens
                        /\ stack' = Append(cur(r.c, r.at), Frame(Pointer(r.c, r.at), Pointer(r.c, r.at), name))
                     \/ r.ok /\ file /\ Unwind                        \* st_fopen fails

\* key : value.  When the parameter cannot be added the function returns without
\* closing its file; the files that had loaded it are closed.
LoadParam(key, text) ==
  /\ ReadLine
  /\ UNCHANGED grown
  /\ IF ~Live(Top.cur)
     THEN /\ fault' = TRUE /\ lost' = FALSE /\ answer' = Other
          /\ UNCHANGED <<conf, stack, open, failed>>
     ELSE \E a \in Allocations :
            LET r == st_conf_add_param(conf, Top.cur.at, key, text, a)
            IN /\ After(r)
               /\ failed' = (failed \/ ~r.ok)
               /\ answer' = [call |-> "put", option |-> <<Top.here, Fold[key]>>, text |-> text]
               /\ IF r.ok THEN UNCHANGED <<stack, open>> ELSE stack' = << >> /\ open' = 1

\* A line without a colon, or a heading that is not closed.
LoadBadLine ==
  /\ ReadLine
  /\ Unwind
  /\ answer' = Other /\ lost' = FALSE
  /\ UNCHANGED <<conf, fault, failed, grown>>

EndOfFile ==
  /\ Running
  /\ stack' = SubSeq(stack, 1, Len(stack) - 1)
  /\ open' = open - 1
  /\ answer' = Other /\ lost' = FALSE
  /\ UNCHANGED <<conf, lines, fault, failed, grown>>

Names == {s.name : s \in {conf.secs[i] : i \in DOMAIN conf.secs}} \cup {<<l>> : l \in Labels}

\* How many defaults are noted, which no call takes back.
Defaults(c) == FoldLeft(LAMBDA n, s : n + s.def_num, 0, c.secs)

Ask(type, name, key, withDefault) ==
  /\ InUse
  /\ \E a \in Allocations :
       LET r == IF withDefault THEN GetDef(type, conf, name, key, Unset, NotSet, a)
                ELSE Get(type, conf, name, key, Unset)
       IN /\ Defaults(r.c) <= MaxDefs
          /\ Len(r.c.secs) <= MaxSecs
          /\ After(r)
          /\ failed' = (failed \/ (withDefault /\ ~r.ok))
          /\ answer' = [call |-> "get", option |-> <<name, Fold[key]>>, text |-> r.text]
  /\ UNCHANGED <<stack, lines, open, grown>>

Check ==
  /\ InUse
  /\ LET r == st_conf_check(conf)
     IN After(r) /\ answer' = [call |-> "check", ret |-> r.ok]
  /\ UNCHANGED <<stack, lines, open, failed, grown>>

\* The configuration is destroyed and another one created in its place.
Destroy ==
  /\ Idle
  /\ answer' = [call |-> "destroy"]
  /\ LET r == st_conf_destroy(conf)
     IN IF r.fault THEN After(r) /\ UNCHANGED failed
        ELSE /\ \E a \in Allocations : st_conf_create(a).ok /\ After(st_conf_create(a))
             /\ failed' = FALSE
  /\ UNCHANGED <<stack, lines, open, grown>>

Next ==
  \/ st_conf_load \/ LoadBadLine \/ EndOfFile \/ Check \/ Destroy
  \/ \E l \in Labels, file \in BOOLEAN : LoadHeading(l, file)
  \/ \E k \in FileKeys, t \in FileTexts : LoadParam(k, t)
  \/ \E type \in AskedTypes, name \in Names, k \in FileKeys, d \in BOOLEAN : Ask(type, name, k, d)

Spec == Init /\ [][Next]_vars

-----------------------------------------------------------------------------
\* The parameters of a configuration by section and folded key; a blank one is a
\* parameter too.
Params(c) == UNION {{s} \X DOMAIN c.secs[s].param : s \in DOMAIN c.secs}
OptionOf(c, sp) ==
  LET key == c.secs[sp[1]].param[sp[2]].key
  IN <<c.secs[sp[1]].name, IF key = Blank THEN Blank ELSE Fold[key]>>
Found(c, o) ==
  LET s == SecAt(c, o[1]) IN c.secs[s].param[ParamAt(c.secs[s], o[2])]
Store(c) == [o \in {OptionOf(c, sp) : sp \in Params(c)} |-> Found(c, o).text]
AskedIn(c) == {o \in {OptionOf(c, sp) : sp \in Params(c)} : Found(c, o).used}

\* The configuration as the map it stands for.
A == INSTANCE Configuration WITH store <- Store(conf), asked <- AskedIn(conf)

\* The arrays of st_conf are the map they stand for: an option is found with the text
\* it was given last, under the section its line stands in, and st_conf_check answers
\* whether every option that is set was asked for since.  Excepted are the step that
\* writes a parameter to an array that was moved, and what a failed allocation or a
\* stale pointer has broken.
ImplementsConfiguration == A!AInit /\ [][A!ANext \/ lost' \/ failed' \/ fault']_(A!avars)

\* st_conf_get_*_def writes without looking at the capacity: whoever wrote before has
\* left room for one more parameter and one more default in every section.
RoomIn(s) == Len(s.param) < s.param_cap /\ s.def_num < s.def_cap
ArraysHaveRoom ==
  failed \/ (Len(conf.secs) <= conf.sec_cap /\ \A i \in DOMAIN conf.secs : RoomIn(conf.secs[i]))

\* Loading and the destruction that follows a failure touch memory that is not there
\* only if the array of sections could not be allocated, or was moved while a file
\* that had loaded another was still open.
FaultOnlyAfterGrowth == fault => conf.null \/ grown

\* What the configuration and its loader touch is there, whatever is asked for, added
\* or loaded in whatever order and whichever allocation fails, but for the two cases
\* of FaultOnlyAfterGrowth.
InBounds == ArraysHaveRoom /\ FaultOnlyAfterGrowth

\* A parameter whose st_conf_add_param succeeded is found with its text, as the unit
\* test of the loader expects of every line of its files.
AddedIsFound ==
  answer.call = "put" /\ ~failed /\ ~fault =>
    answer.option \in DOMAIN Store(conf) /\ Store(conf)[answer.option] = answer.text
=============================================================================
