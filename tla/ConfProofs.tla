----------------------------- MODULE ConfProofs -----------------------------
(***************************************************************************)
(* Proofs about ConfLoader, for any labels, keys and texts, any size of    *)
(* the arrays and any bounds: what the loader and the getters touch is     *)
(* there, and the arrays are the map that Configuration describes.  And    *)
(* about Opt, which asks two such maps: the last setting of the command    *)
(* line wins, and the arguments that are no options are left.              *)
(***************************************************************************)
EXTENDS ConfLoader, Opt, SequenceTheorems, WellFoundedInduction, TLAPS

-----------------------------------------------------------------------------
(* Configurations.                                                          *)

ParamSet == [key : Keys \cup {Blank}, text : Texts \cup {Blank}, used : BOOLEAN]
SecSet == [name : Seq(Labels), param : Seq(ParamSet), param_cap : Nat, param_null : BOOLEAN,
           def_num : Nat, def_cap : Nat, def_null : BOOLEAN]
ConfSet == [secs : Seq(SecSet), sec_cap : Nat, null : BOOLEAN, gen : Nat]

\* A section has its arrays, with room in them, no key twice, and where a parameter
\* was lost a blank one.
SecSound(s) ==
  /\ RoomIn(s) /\ ~s.param_null /\ ~s.def_null
  /\ \A p, q \in DOMAIN s.param : Same(s.param[p].key, s.param[q].key) => p = q \/ s.param[p].key = Blank
  /\ \A p \in DOMAIN s.param : s.param[p].key = Blank => s.param[p] = BlankParam

\* The sections of a configuration are sound, and have names of their own.
SecsSound(c) ==
  /\ Len(c.secs) <= c.sec_cap
  /\ \A i \in DOMAIN c.secs : SecSound(c.secs[i])
  /\ \A i, j \in DOMAIN c.secs : c.secs[i].name = c.secs[j].name => i = j

Sound(c) == SecsSound(c) /\ ~c.null

\* What a step may do to a configuration without a change to its map: sections are
\* added that hold nothing, arrays get room, defaults are noted.
SameParams(c, d) ==
  /\ Len(c.secs) <= Len(d.secs)
  /\ \A i \in DOMAIN c.secs : d.secs[i].name = c.secs[i].name /\ d.secs[i].param = c.secs[i].param
  /\ \A i \in DOMAIN d.secs \ DOMAIN c.secs : d.secs[i].param = << >>

LEMMA LeastOf ==
  ASSUME NEW T, T \subseteq Nat, T # {}
  PROVE  Min(T) \in T
<1>1. PICK x \in T : \A y \in T : <<y, x>> \notin OpToRel(<, Nat)
  BY NatLessThanWellFounded, WFMin, Zenon
<1>2. \A y \in T : ~(y < x)
  BY <1>1 DEF OpToRel
<1>3. \A y \in T : x <= y
  BY <1>2
<1> QED
  BY <1>3 DEF Min

\* st_conf_get_sec finds a section by its name when there is one.
LEMMA SecAtIs ==
  ASSUME NEW c \in ConfSet, NEW name
  PROVE  /\ SecAt(c, name) = 0 => \A i \in DOMAIN c.secs : c.secs[i].name # name
         /\ SecAt(c, name) # 0 => SecAt(c, name) \in DOMAIN c.secs /\ c.secs[SecAt(c, name)].name = name
         /\ SecAt(c, name) \in Nat
<1> DEFINE secs == c.secs
           I == {i \in 1 .. Len(secs) : secs[i].name = name}
<1>1. SecAt(c, name) = IF I # {} THEN Min(I) ELSE 0
  BY DEF SecAt, SelectInSeq
<1>2. secs \in Seq(SecSet)
  BY DEF ConfSet
<1> HIDE DEF secs
<1>3. DOMAIN secs = 1 .. Len(secs) /\ Len(secs) \in Nat
  BY <1>2
<1>4. I # {} => Min(I) \in I
  <2>1. I \subseteq Nat
    BY <1>3
  <2> HIDE DEF I
  <2> QED
    BY <2>1, LeastOf
<1>5. /\ SecAt(c, name) = 0 => \A i \in DOMAIN secs : secs[i].name # name
      /\ SecAt(c, name) # 0 => SecAt(c, name) \in DOMAIN secs /\ secs[SecAt(c, name)].name = name
      /\ SecAt(c, name) \in Nat
  BY <1>1, <1>3, <1>4
<1> QED
  BY <1>5 DEF secs

\* A parameter is found by its key when there is one.
LEMMA ParamAtIs ==
  ASSUME NEW s \in SecSet, NEW key
  PROVE  /\ ParamAt(s, key) = 0 => \A p \in DOMAIN s.param : ~Same(s.param[p].key, key)
         /\ ParamAt(s, key) # 0 =>
              ParamAt(s, key) \in DOMAIN s.param /\ Same(s.param[ParamAt(s, key)].key, key)
         /\ ParamAt(s, key) \in Nat
<1> DEFINE params == s.param
           I == {p \in 1 .. Len(params) : Same(params[p].key, key)}
<1>1. ParamAt(s, key) = IF I # {} THEN Min(I) ELSE 0
  BY DEF ParamAt, SelectInSeq
<1>2. params \in Seq(ParamSet)
  BY DEF SecSet
<1> HIDE DEF params
<1>3. DOMAIN params = 1 .. Len(params) /\ Len(params) \in Nat
  BY <1>2
<1>4. I # {} => Min(I) \in I
  <2>1. I \subseteq Nat
    BY <1>3
  <2> HIDE DEF I
  <2> QED
    BY <2>1, LeastOf
<1>5. /\ ParamAt(s, key) = 0 => \A p \in DOMAIN params : ~Same(params[p].key, key)
      /\ ParamAt(s, key) # 0 => ParamAt(s, key) \in DOMAIN params /\ Same(params[ParamAt(s, key)].key, key)
      /\ ParamAt(s, key) \in Nat
  BY <1>1, <1>3, <1>4
<1> QED
  BY <1>5 DEF params

\* A section whose arrays have another capacity.
WithParamCap(s, n, b) == [s EXCEPT !.param_cap = @ + n, !.param_null = b]
WithDefCap(s, n, b) == [s EXCEPT !.def_cap = @ + n, !.def_null = b]

\* The second of two sections has n more in that capacity than the first, and nothing
\* else that another call looks at.
MoreParamCap(s, p, n) ==
  /\ p \in SecSet /\ p.name = s.name /\ p.param = s.param
  /\ p.def_num = s.def_num /\ p.def_cap = s.def_cap /\ p.def_null = s.def_null
  /\ p.param_cap = s.param_cap + n
MoreDefCap(s, d, n) ==
  /\ d \in SecSet /\ d.name = s.name /\ d.param = s.param
  /\ d.param_cap = s.param_cap /\ d.param_null = s.param_null
  /\ d.def_num = s.def_num /\ d.def_cap = s.def_cap + n

LEMMA WithRoom ==
  ASSUME NEW s \in SecSet, NEW n \in Nat, NEW b \in BOOLEAN
  PROVE  MoreParamCap(s, WithParamCap(s, n, b), n) /\ MoreDefCap(s, WithDefCap(s, n, b), n)
<1>1. s.param_cap + n \in Nat /\ s.def_cap + n \in Nat
  BY DEF SecSet
<1> QED
  BY <1>1 DEF SecSet, WithParamCap, WithDefCap, MoreParamCap, MoreDefCap

\* What resize_sec gives a section: room, or no success.
LEMMA ResizeSec ==
  ASSUME ConfAssumption, NEW s \in SecSet, NEW a,
         Len(s.param) <= s.param_cap, s.def_num <= s.def_cap,
         s.param_null => Len(s.param) = s.param_cap, s.def_null => s.def_num = s.def_cap
  PROVE  LET r == resize_sec(s, a)
         IN /\ r.sec \in SecSet /\ r.ok \in BOOLEAN
            /\ r.sec.name = s.name /\ r.sec.param = s.param
            /\ r.ok => RoomIn(r.sec) /\ ~r.sec.param_null /\ ~r.sec.def_null
<1> DEFINE grow == NeedsRoom(Len(s.param), s.param_cap)
           growDef == NeedsRoom(s.def_num, s.def_cap)
           p == IF grow THEN [s EXCEPT !.param_cap = @ + PARAM_NUM, !.param_null = (a["param"] = "fails")] ELSE s
           d == IF growDef THEN [p EXCEPT !.def_cap = @ + PARAM_NUM, !.def_null = (a["def_param"] = "fails")] ELSE p
           r == resize_sec(s, a)
<1>1. /\ Len(s.param) \in Nat /\ s.param_cap \in Nat /\ s.def_num \in Nat /\ s.def_cap \in Nat
      /\ PARAM_NUM \in Nat \ {0}
  BY DEF SecSet, ConfAssumption
<1>2. /\ p \in SecSet /\ p.name = s.name /\ p.param = s.param /\ p.def_num = s.def_num /\ p.def_cap = s.def_cap
      /\ p.def_null = s.def_null
      /\ p.param_cap = IF grow THEN s.param_cap + PARAM_NUM ELSE s.param_cap
      /\ ~grow => ~p.param_null
  <2>1. PICK b \in BOOLEAN : b = (a["param"] = "fails")
    OBVIOUS
  <2>2. CASE grow
    <3>1. p = WithParamCap(s, PARAM_NUM, b)
      BY <2>1, <2>2 DEF WithParamCap
    <3> HIDE DEF p, grow
    <3>2. MoreParamCap(s, p, PARAM_NUM)
      BY <1>1, <3>1, WithRoom
    <3> QED
      BY <2>2, <3>2 DEF MoreParamCap
  <2>3. CASE ~grow
    <3>1. p = s /\ ~s.param_null
      BY <1>1, <2>3 DEF NeedsRoom, SecSet
    <3> QED
      BY <2>3, <3>1
  <2> QED
    BY <2>2, <2>3
<1> HIDE DEF p
<1>3. /\ d \in SecSet /\ d.name = s.name /\ d.param = s.param /\ d.def_num = s.def_num
      /\ d.param_cap = p.param_cap /\ d.param_null = p.param_null
      /\ d.def_cap = IF growDef THEN s.def_cap + PARAM_NUM ELSE s.def_cap
      /\ ~growDef => ~d.def_null
  <2>1. PICK b \in BOOLEAN : b = (a["def_param"] = "fails")
    OBVIOUS
  <2>2. CASE growDef
    <3>1. d = WithDefCap(p, PARAM_NUM, b)
      BY <2>1, <2>2 DEF WithDefCap
    <3> HIDE DEF d, growDef
    <3>2. MoreDefCap(p, d, PARAM_NUM)
      BY <1>1, <1>2, <3>1, WithRoom
    <3> QED
      BY <1>2, <2>2, <3>2 DEF MoreDefCap
  <2>3. CASE ~growDef
    <3>1. d = p /\ ~s.def_null
      BY <1>1, <2>3 DEF NeedsRoom, SecSet
    <3> QED
      BY <1>2, <2>3, <3>1
  <2> QED
    BY <2>2, <2>3
<1> HIDE DEF d
<1>4. r = IF grow /\ p.param_null THEN [sec |-> p, ok |-> FALSE]
          ELSE [sec |-> d, ok |-> ~(growDef /\ d.def_null)]
  BY DEF resize_sec, p, d
<1>5. RoomIn(d)
  BY <1>1, <1>2, <1>3 DEF RoomIn, NeedsRoom
<1> HIDE DEF r, grow, growDef
<1>6. CASE grow /\ p.param_null
  BY <1>2, <1>4, <1>6 DEF r
<1>7. CASE ~(grow /\ p.param_null)
  <2>1. r.sec = d /\ r.ok = ~(growDef /\ d.def_null)
    BY <1>4, <1>7
  <2>2. p.param_null \in BOOLEAN /\ d.def_null \in BOOLEAN
    BY <1>2, <1>3 DEF SecSet
  <2>3. r.ok => ~d.param_null /\ ~d.def_null
    BY <1>2, <1>3, <1>7, <2>1, <2>2
  <2> QED
    BY <1>3, <1>5, <2>1, <2>3 DEF r
<1> QED
  BY <1>6, <1>7
\* A configuration with another section, or with other fields, in the place i.
Changed(c, i, s, d) ==
  /\ d \in ConfSet /\ d.sec_cap = c.sec_cap /\ d.null = c.null /\ d.gen = c.gen
  /\ DOMAIN d.secs = DOMAIN c.secs /\ Len(d.secs) = Len(c.secs) /\ d.secs[i] = s
  /\ \A j \in DOMAIN c.secs \ {i} : d.secs[j] = c.secs[j]

WithSec(c, i, s) == [c EXCEPT !.secs[i] = s]

LEMMA WithSecIs ==
  ASSUME NEW c \in ConfSet, NEW i \in DOMAIN c.secs, NEW s \in SecSet
  PROVE  Changed(c, i, s, WithSec(c, i, s))
<1> DEFINE secs == [c.secs EXCEPT ![i] = s]
<1>1. c.secs \in Seq(SecSet)
  BY DEF ConfSet
<1>2. /\ secs \in Seq(SecSet) /\ DOMAIN secs = DOMAIN c.secs /\ Len(secs) = Len(c.secs)
      /\ secs[i] = s /\ \A j \in DOMAIN c.secs \ {i} : secs[j] = c.secs[j]
  BY <1>1
<1>3. WithSec(c, i, s) = [c EXCEPT !.secs = secs]
  BY DEF WithSec
<1> HIDE DEF secs
<1> QED
  BY <1>2, <1>3 DEF Changed, ConfSet

LEMMA ChangedSound ==
  ASSUME NEW c \in ConfSet, NEW i \in DOMAIN c.secs, NEW s, NEW d, Changed(c, i, s, d),
         Sound(c), SecSound(s), s.name = c.secs[i].name
  PROVE  Sound(d)
<1>1. \A j \in DOMAIN d.secs : SecSound(d.secs[j]) /\ d.secs[j].name = c.secs[j].name
  BY DEF Changed, Sound, SecsSound
<1> QED
  BY <1>1 DEF Changed, Sound, SecsSound

-----------------------------------------------------------------------------
(* st_conf_new_sec.                                                         *)

\* A configuration to which sections may be added: one that is sound, or NoConf.
Open(c) ==
  /\ c \in ConfSet /\ SecsSound(c)
  /\ c.null => c.secs = << >> /\ c.sec_cap = 0

\* What a call came to is a record of these fields.
IsResult(r) ==
  /\ DOMAIN r = {"c", "at", "ok", "text", "value", "fault", "lost"}
  /\ r = [x \in DOMAIN r |-> r[x]]

NewSecIs(c, name, r) ==
  /\ IsResult(r) /\ r.c \in ConfSet /\ ~r.fault /\ ~r.lost /\ r.text = NotSet /\ r.ok \in BOOLEAN
  /\ SameParams(c, r.c) /\ r.c.gen >= c.gen
  /\ r.ok => Sound(r.c) /\ r.at \in DOMAIN r.c.secs /\ r.c.secs[r.at].name = name

LEMMA SameParamsItself ==
  ASSUME NEW c \in ConfSet, NEW d \in ConfSet, d.secs = c.secs
  PROVE  SameParams(c, d)
<1>1. Len(c.secs) \in Nat
  BY DEF ConfSet
<1> QED
  BY <1>1 DEF SameParams

LEMMA NewSec ==
  ASSUME ConfAssumption, NEW c, Open(c), NEW name \in Seq(Labels), NEW a
  PROVE  NewSecIs(c, name, st_conf_new_sec(c, name, a))
<1> DEFINE full == Len(c.secs) >= c.sec_cap
           more == [c EXCEPT !.sec_cap = @ + SEC_NUM, !.null = (a["secs"] = "fails"),
                             !.gen = IF a["secs"] = "moves" /\ c.secs # << >> THEN @ + 1 ELSE @]
           room == IF full THEN more ELSE c
           fresh == [FreshSec EXCEPT !.name = name]
           r == resize_sec(fresh, a)
           with == [room EXCEPT !.secs = Append(@, r.sec)]
           result == st_conf_new_sec(c, name, a)
<1>1. /\ c \in ConfSet /\ c.secs \in Seq(SecSet) /\ c.sec_cap \in Nat /\ c.gen \in Nat /\ c.null \in BOOLEAN
      /\ Len(c.secs) \in Nat /\ DOMAIN c.secs = 1 .. Len(c.secs) /\ Len(c.secs) <= c.sec_cap
      /\ SEC_NUM \in Nat \ {0}
  BY DEF Open, ConfSet, SecsSound, ConfAssumption
<1>2. ~SecsLost(c)
  BY DEF Open, SecsLost
<1>3. /\ room \in ConfSet /\ room.secs = c.secs /\ room.gen >= c.gen
      /\ Len(c.secs) < room.sec_cap
      /\ ~full => room = c /\ ~c.null
  <2>1. CASE full
    <3>1. PICK b \in BOOLEAN : b = (a["secs"] = "fails")
      OBVIOUS
    <3>2. PICK g \in Nat : /\ g = IF a["secs"] = "moves" /\ c.secs # << >> THEN c.gen + 1 ELSE c.gen
                           /\ g >= c.gen
      BY <1>1
    <3>3. PICK cap \in Nat : cap = c.sec_cap + SEC_NUM
      BY <1>1
    <3>4. more = [c EXCEPT !.sec_cap = cap, !.null = b, !.gen = g]
      BY <3>1, <3>2, <3>3
    <3> HIDE DEF more
    <3>5. more \in ConfSet /\ more.secs = c.secs /\ more.gen = g /\ more.sec_cap = cap
      BY <1>1, <3>4 DEF ConfSet
    <3> QED
      BY <1>1, <2>1, <3>2, <3>3, <3>5
  <2>2. CASE ~full
    BY <1>1, <2>2 DEF Open
  <2> QED
    BY <2>1, <2>2
<1>4. /\ fresh \in SecSet /\ fresh.name = name /\ fresh.param = << >> /\ fresh.param_cap = 0
      /\ fresh.def_num = 0 /\ fresh.def_cap = 0
  <2>1. << >> \in Seq(ParamSet)
    OBVIOUS
  <2> QED
    BY <2>1 DEF FreshSec, SecSet
<1>5. /\ r.sec \in SecSet /\ r.ok \in BOOLEAN /\ r.sec.name = name /\ r.sec.param = << >>
      /\ r.ok => RoomIn(r.sec) /\ ~r.sec.param_null /\ ~r.sec.def_null
  <2> HIDE DEF fresh
  <2>1. Len(fresh.param) = 0
    BY <1>4
  <2> QED
    BY <1>4, <2>1, ResizeSec
<1>6. r.ok => SecSound(r.sec)
  BY <1>5 DEF SecSound
<1>7. result = IF SecAt(c, name) # 0 THEN Result(c, SecAt(c, name), TRUE)
               ELSE IF full /\ room.null THEN Result(room, 0, FALSE)
               ELSE IF ~r.ok THEN Result(room, 0, FALSE)
               ELSE Result(with, Len(c.secs) + 1, TRUE)
  BY <1>2 DEF st_conf_new_sec
<1> HIDE DEF full, room, r, fresh, result
<1>8. CASE SecAt(c, name) # 0
  <2>1. result = Result(c, SecAt(c, name), TRUE)
    BY <1>7, <1>8
  <2>2. SecAt(c, name) \in DOMAIN c.secs /\ c.secs[SecAt(c, name)].name = name
    BY <1>1, <1>8, SecAtIs
  <2>3. Sound(c)
    BY <1>1, <2>2 DEF Open, Sound
  <2> QED
    BY <1>1, <2>1, <2>2, <2>3, SameParamsItself DEF Result, IsResult, NewSecIs, result
<1>9. CASE result = Result(room, 0, FALSE)
  BY <1>1, <1>3, <1>9, SameParamsItself DEF Result, IsResult, NewSecIs, result
<1>10. CASE SecAt(c, name) = 0 /\ ~(full /\ room.null) /\ r.ok
  <2>1. result = Result(with, Len(c.secs) + 1, TRUE)
    BY <1>7, <1>10
  <2> DEFINE secs == Append(c.secs, r.sec)
  <2>2. /\ secs \in Seq(SecSet) /\ Len(secs) = Len(c.secs) + 1 /\ DOMAIN secs = 1 .. Len(c.secs) + 1
        /\ \A i \in DOMAIN c.secs : i \in DOMAIN secs /\ secs[i] = c.secs[i]
        /\ secs[Len(c.secs) + 1] = r.sec
        /\ \A i \in DOMAIN secs : i \in DOMAIN c.secs \/ i = Len(c.secs) + 1
    BY <1>1, <1>5
  <2>3. with = [room EXCEPT !.secs = secs]
    BY <1>3
  <2> HIDE DEF secs, with
  <2>4. with \in ConfSet /\ with.secs = secs /\ with.gen = room.gen /\ with.sec_cap = room.sec_cap /\ with.null = room.null
    BY <1>3, <2>2, <2>3 DEF ConfSet
  <2>5. ~with.null
    BY <1>3, <1>10, <2>4
  <2>6. \A i \in DOMAIN secs : SecSound(secs[i])
    BY <1>6, <1>10, <2>2 DEF Open, SecsSound
  <2>7. \A i \in DOMAIN c.secs : c.secs[i].name # r.sec.name
    BY <1>1, <1>5, <1>10, SecAtIs
  <2>8. \A i, j \in DOMAIN secs : secs[i].name = secs[j].name => i = j
    BY <2>2, <2>7 DEF Open, SecsSound
  <2>9. Sound(with)
    <3>1. room.sec_cap \in Nat
      BY <1>3 DEF ConfSet
    <3>2. Len(with.secs) <= with.sec_cap
      BY <1>1, <1>3, <2>2, <2>4, <3>1
    <3> QED
      BY <2>4, <2>5, <2>6, <2>8, <3>2 DEF Sound, SecsSound
  <2>10. SameParams(c, with)
    BY <1>1, <1>5, <2>2, <2>4 DEF SameParams
  <2> QED
    BY <1>1, <1>3, <1>5, <2>1, <2>2, <2>4, <2>9, <2>10 DEF Result, IsResult, NewSecIs, result
<1> QED
  BY <1>7, <1>8, <1>9, <1>10 DEF result
LEMMA CreateConf ==
  ASSUME ConfAssumption, NEW a
  PROVE  NewSecIs(NoConf, DEF_SEC_NAME, st_conf_create(a))
<1>1. << >> \in Seq(SecSet) /\ DEF_SEC_NAME \in Seq(Labels)
  BY DEF DEF_SEC_NAME
<1>2. /\ NoConf \in ConfSet /\ NoConf.secs = << >> /\ NoConf.sec_cap = 0
      /\ Len(<< >>) = 0 /\ DOMAIN << >> = {}
  BY <1>1 DEF NoConf, ConfSet
<1>3. Open(NoConf)
  BY <1>2 DEF Open, SecsSound
<1> QED
  BY <1>1, <1>3, NewSec DEF st_conf_create

-----------------------------------------------------------------------------
(* The getters.                                                             *)

\* Two keys are the same when their folded spellings are; a blank is like no key.
LEMMA SameIs ==
  ASSUME ConfAssumption, NEW k \in Keys \cup {Blank}, NEW l \in Keys \cup {Blank}
  PROVE  /\ Same(k, l) <=> \/ k = Blank /\ l = Blank
                           \/ k # Blank /\ l # Blank /\ Fold[k] = Fold[l]
         /\ k # Blank => Fold[k] \in Keys /\ Fold[k] # Blank /\ Same(k, Fold[k]) /\ Same(Fold[k], k)
  BY DEF Same, ConfAssumption

\* An option of a configuration: a place with the name and, but for the spelling, the key.
IsAt(c, name, key, i, p) ==
  i \in DOMAIN c.secs /\ p \in DOMAIN c.secs[i].param
    /\ c.secs[i].name = name /\ Same(c.secs[i].param[p].key, key)

LEMMA SecOf ==
  ASSUME NEW c \in ConfSet, NEW i \in DOMAIN c.secs
  PROVE  /\ c.secs[i] \in SecSet /\ c.secs[i].param \in Seq(ParamSet)
         /\ Len(c.secs[i].param) \in Nat /\ DOMAIN c.secs[i].param = 1 .. Len(c.secs[i].param)
         /\ \A p \in DOMAIN c.secs[i].param : c.secs[i].param[p] \in ParamSet
<1>1. c.secs \in Seq(SecSet)
  BY DEF ConfSet
<1>2. PICK s \in SecSet : s = c.secs[i]
  BY <1>1
<1>3. s.param \in Seq(ParamSet)
  BY DEF SecSet
<1>4. Len(s.param) \in Nat /\ DOMAIN s.param = 1 .. Len(s.param) /\ \A p \in DOMAIN s.param : s.param[p] \in ParamSet
  BY <1>3
<1> QED
  BY <1>2, <1>3, <1>4

\* The second of two configurations marks one parameter as used.
Marked(c, i, p, d) ==
  \E q \in [DOMAIN c.secs[i].param -> ParamSet] :
    /\ q[p] = [c.secs[i].param[p] EXCEPT !.used = TRUE]
    /\ \A o \in DOMAIN q \ {p} : q[o] = c.secs[i].param[o]
    /\ Changed(c, i, [c.secs[i] EXCEPT !.param = q], d)

GetStrIs(c, name, key, r) ==
  /\ IsResult(r) /\ r.ok \in BOOLEAN /\ ~r.fault /\ ~r.lost /\ r.at \in {0} \cup DOMAIN c.secs
  /\ r.at # 0 => c.secs[r.at].name = name
  /\ \/ ~r.ok /\ r.c = c /\ r.text = NotSet /\ \A i, p : ~IsAt(c, name, key, i, p)
     \/ r.ok /\ \E p : /\ r.at # 0 /\ IsAt(c, name, key, r.at, p) /\ Marked(c, r.at, p, r.c)
                       /\ r.text = c.secs[r.at].param[p].text

LEMMA MarkedIs ==
  ASSUME NEW c \in ConfSet, NEW i \in DOMAIN c.secs, NEW p \in DOMAIN c.secs[i].param
  PROVE  Marked(c, i, p, [c EXCEPT !.secs[i].param[p].used = TRUE])
<1> DEFINE s == c.secs[i]
           q == [s.param EXCEPT ![p].used = TRUE]
           t == [s EXCEPT !.param = q]
<1>1. s \in SecSet /\ s.param \in Seq(ParamSet) /\ s.param[p] \in ParamSet
  BY SecOf
<1>2. [s.param[p] EXCEPT !.used = TRUE] \in ParamSet
  BY <1>1 DEF ParamSet
<1>3. /\ q \in Seq(ParamSet) /\ DOMAIN q = DOMAIN s.param
      /\ q[p] = [s.param[p] EXCEPT !.used = TRUE] /\ \A o \in DOMAIN q \ {p} : q[o] = s.param[o]
  BY <1>1, <1>2
<1>4. [c EXCEPT !.secs[i].param[p].used = TRUE] = WithSec(c, i, t)
  BY DEF WithSec
<1> HIDE DEF q
<1>5. t \in SecSet
  BY <1>1, <1>3 DEF SecSet
<1>6. Changed(c, i, t, WithSec(c, i, t))
  BY <1>5, WithSecIs
<1>7. q \in [DOMAIN s.param -> ParamSet]
  BY <1>3
<1> QED
  BY <1>3, <1>4, <1>6, <1>7 DEF Marked

\* A section of which a parameter was used is as sound as before.
LEMMA MarkedSound ==
  ASSUME ConfAssumption, NEW c \in ConfSet, Sound(c), NEW i \in DOMAIN c.secs,
         NEW p \in DOMAIN c.secs[i].param, c.secs[i].param[p].key # Blank,
         NEW d, Marked(c, i, p, d)
  PROVE  Sound(d)
<1> DEFINE s == c.secs[i]
<1>1. PICK q \in [DOMAIN s.param -> ParamSet] :
        /\ q[p] = [s.param[p] EXCEPT !.used = TRUE]
        /\ \A o \in DOMAIN q \ {p} : q[o] = s.param[o]
        /\ Changed(c, i, [s EXCEPT !.param = q], d)
  BY DEF Marked
<1> DEFINE t == [s EXCEPT !.param = q]
<1>2. s \in SecSet /\ s.param \in Seq(ParamSet) /\ SecSound(s)
  BY SecOf DEF Sound, SecsSound
<1>3. /\ t.param = q /\ t.name = s.name /\ t.param_cap = s.param_cap /\ t.def_num = s.def_num
      /\ t.def_cap = s.def_cap /\ t.param_null = s.param_null /\ t.def_null = s.def_null
  BY <1>2 DEF SecSet
<1>4. \A o \in DOMAIN q : q[o].key = s.param[o].key
  BY <1>1, <1>2 DEF ParamSet
<1>5. DOMAIN q = DOMAIN s.param /\ q \in Seq(ParamSet) /\ Len(q) = Len(s.param)
  BY <1>1, <1>2
<1>6. SecSound(t)
  <2>1. RoomIn(t) /\ ~t.param_null /\ ~t.def_null
    BY <1>2, <1>3, <1>5 DEF SecSound, RoomIn
  <2>2. ASSUME NEW m \in DOMAIN q, NEW o \in DOMAIN q, Same(q[m].key, q[o].key)
        PROVE  m = o \/ q[m].key = Blank
    BY <1>2, <1>4, <1>5, <2>2 DEF SecSound
  <2>3. ASSUME NEW m \in DOMAIN q, q[m].key = Blank PROVE q[m] = BlankParam
    BY <1>1, <1>2, <1>4, <1>5, <2>3 DEF SecSound
  <2> QED
    BY <1>3, <2>1, <2>2, <2>3 DEF SecSound
<1> HIDE DEF t
<1> QED
  BY <1>1, <1>3, <1>6, ChangedSound DEF t

LEMMA GetStr ==
  ASSUME ConfAssumption, NEW c \in ConfSet, Sound(c), NEW name, NEW key \in Keys
  PROVE  GetStrIs(c, name, key, st_conf_get_str(c, name, key))
<1> DEFINE s == st_conf_get_sec(c, name)
           at == SecAt(c, name)
           p == ParamAt(c.secs[at], key)
           r == st_conf_get_str(c, name, key)
<1>1. s = Result(c, at, at # 0)
  BY DEF st_conf_get_sec, SecsLost, Sound
<1>2. /\ at = 0 => \A i \in DOMAIN c.secs : c.secs[i].name # name
      /\ at # 0 => at \in DOMAIN c.secs /\ c.secs[at].name = name
  BY SecAtIs
<1>3. \A i, j \in DOMAIN c.secs : c.secs[i].name = c.secs[j].name => i = j
  BY DEF Sound, SecsSound
<1>4. CASE at = 0
  <2>1. s = Result(c, 0, FALSE)
    BY <1>1, <1>4
  <2>2. r = s
    BY <2>1 DEF st_conf_get_str, Result
  <2>3. r.ok = FALSE /\ r.c = c /\ r.text = NotSet /\ r.at = 0 /\ ~r.fault /\ ~r.lost /\ IsResult(r)
    BY <2>1, <2>2 DEF Result, IsResult
  <2>4. \A i, o : ~IsAt(c, name, key, i, o)
    BY <1>2, <1>4 DEF IsAt
  <2> HIDE DEF r
  <2> QED
    BY <2>3, <2>4 DEF GetStrIs, r
<1>5. CASE at # 0
  <2>1. c.secs[at] \in SecSet /\ ~c.secs[at].param_null
    BY <1>2, <1>5 DEF ConfSet, Sound, SecsSound, SecSound
  <2>0. s = Result(c, at, TRUE)
    BY <1>1, <1>5
  <2>2. r = IF p = 0 THEN [s EXCEPT !.ok = FALSE]
            ELSE [s EXCEPT !.c.secs[at].param[p].used = TRUE, !.text = c.secs[at].param[p].text]
    <3>2. s.c = c /\ s.at = at /\ s.ok /\ ~s.fault
      BY <2>0 DEF Result
    <3> HIDE DEF s, at
    <3> QED
      BY <2>1, <3>2 DEF st_conf_get_str, s
  <2>3. /\ p = 0 => \A o \in DOMAIN c.secs[at].param : ~Same(c.secs[at].param[o].key, key)
        /\ p # 0 => p \in DOMAIN c.secs[at].param /\ Same(c.secs[at].param[p].key, key)
    BY <2>1, ParamAtIs
  <2>4. CASE p = 0
    <3>1. r = [s EXCEPT !.ok = FALSE]
      BY <2>2, <2>4
    <3>0. IsResult(s)
      BY <2>0 DEF Result, IsResult
    <3> HIDE DEF r, s
    <3>2. r.ok = FALSE /\ r.c = c /\ r.text = NotSet /\ r.at = at /\ ~r.fault /\ ~r.lost
      BY <2>0, <3>1 DEF Result
    <3>4. IsResult(r)
      BY <3>0, <3>1 DEF IsResult
    <3>3. \A i, o : ~IsAt(c, name, key, i, o)
      BY <1>2, <1>3, <1>5, <2>3, <2>4 DEF IsAt
    <3> HIDE DEF r
    <3> QED
      BY <1>2, <1>5, <3>2, <3>3, <3>4 DEF GetStrIs, r
  <2>5. CASE p # 0
    <3> DEFINE d == [c EXCEPT !.secs[at].param[p].used = TRUE]
    <3>1. r = [s EXCEPT !.c = d, !.text = c.secs[at].param[p].text]
      BY <1>1, <2>2, <2>5 DEF Result
    <3>2. Marked(c, at, p, d)
      BY <1>2, <1>5, <2>3, <2>5, MarkedIs
    <3> HIDE DEF d
    <3>0. IsResult(s)
      BY <2>0 DEF Result, IsResult
    <3> HIDE DEF r, s
    <3>3. r.c = d /\ r.text = c.secs[at].param[p].text /\ r.at = at /\ ~r.fault /\ ~r.lost /\ r.ok = TRUE
      BY <2>0, <3>1 DEF Result
    <3>5. IsResult(r)
      BY <3>0, <3>1 DEF IsResult
    <3>4. IsAt(c, name, key, at, p)
      BY <1>2, <1>5, <2>3, <2>5 DEF IsAt
    <3> HIDE DEF r
    <3> QED
      BY <1>2, <1>5, <3>2, <3>3, <3>4, <3>5 DEF GetStrIs, r
  <2> QED
    BY <2>4, <2>5
<1> QED
  BY <1>4, <1>5
\* What an answer of a getter keeps of the text it was made from.
Keeps(g, r) ==
  /\ IsResult(g) /\ g.c = r.c /\ g.at = r.at /\ g.text = r.text /\ g.fault = r.fault /\ g.lost = r.lost

LEMMA GetKeeps ==
  ASSUME ConfAssumption, NEW c \in ConfSet, Sound(c), NEW name, NEW key \in Keys, NEW type, NEW old
  PROVE  Keeps(Get(type, c, name, key, old), st_conf_get_str(c, name, key))
<1> DEFINE r == st_conf_get_str(c, name, key)
           g == Get(type, c, name, key, old)
<1>1. IsResult(r)
  BY GetStr DEF GetStrIs
<1>2. PICK v : g = [r EXCEPT !.ok = v.ok, !.value = v.value]
  BY DEF Get, GotFrom, Converted
<1> HIDE DEF r, g
<1>3. Keeps(g, r)
  BY <1>1, <1>2 DEF Keeps, IsResult
<1> QED
  BY <1>3 DEF r, g
\* Looking an option up leaves a sound configuration.
LEMMA GotSound ==
  ASSUME ConfAssumption, NEW c \in ConfSet, Sound(c), NEW name, NEW key \in Keys,
         NEW r, GetStrIs(c, name, key, r)
  PROVE  r.c \in ConfSet /\ Sound(r.c) /\ (r.at # 0 => r.at \in DOMAIN r.c.secs /\ r.c.secs[r.at].name = name)
<1>1. CASE r.c = c
  BY <1>1 DEF GetStrIs
<1>2. ASSUME NEW p, r.at # 0, IsAt(c, name, key, r.at, p), Marked(c, r.at, p, r.c)
      PROVE  /\ r.c \in ConfSet /\ Sound(r.c)
             /\ r.at # 0 => r.at \in DOMAIN r.c.secs /\ r.c.secs[r.at].name = name
  <2>1. /\ r.at \in DOMAIN c.secs /\ c.secs[r.at].name = name /\ p \in DOMAIN c.secs[r.at].param
        /\ Same(c.secs[r.at].param[p].key, key)
    BY <1>2 DEF IsAt
  <2>2. c.secs[r.at] \in SecSet /\ c.secs[r.at].param[p] \in ParamSet
    BY <2>1, SecOf
  <2>3. c.secs[r.at].param[p].key # Blank
    <3>1. key # Blank
      BY DEF ConfAssumption
    <3> QED
      BY <2>1, <3>1 DEF Same
  <2>4. Sound(r.c)
    BY <1>2, <2>1, <2>3, MarkedSound
  <2>5. PICK q : Changed(c, r.at, [c.secs[r.at] EXCEPT !.param = q], r.c)
    BY <1>2 DEF Marked
  <2>6. [c.secs[r.at] EXCEPT !.param = q].name = name
    BY <2>1, <2>2 DEF SecSet
  <2> QED
    BY <2>1, <2>4, <2>5, <2>6 DEF Changed
<1> QED
  BY <1>1, <1>2 DEF GetStrIs

LEMMA SameParamsTransitive ==
  ASSUME NEW c \in ConfSet, NEW d \in ConfSet, NEW e \in ConfSet, SameParams(c, d), SameParams(d, e)
  PROVE  SameParams(c, e)
<1>1. /\ Len(c.secs) \in Nat /\ Len(d.secs) \in Nat /\ Len(e.secs) \in Nat
      /\ DOMAIN c.secs = 1 .. Len(c.secs) /\ DOMAIN d.secs = 1 .. Len(d.secs) /\ DOMAIN e.secs = 1 .. Len(e.secs)
  BY DEF ConfSet
<1>2. DOMAIN c.secs \subseteq DOMAIN d.secs /\ DOMAIN d.secs \subseteq DOMAIN e.secs
  BY <1>1 DEF SameParams
<1> QED
  BY <1>1, <1>2 DEF SameParams

\* What an answer of a getter, with a default (d) or without one, does to c.
AskIs(c, name, key, d, r) ==
  /\ r.c \in ConfSet /\ ~r.fault /\ ~r.lost
  /\ (d /\ ~r.ok) \/ Sound(r.c)
  /\ \/ r.text = NotSet /\ SameParams(c, r.c) /\ \A i, p : ~IsAt(c, name, key, i, p)
     \/ \E i, p, m : /\ IsAt(c, name, key, i, p) /\ m \in ConfSet /\ Marked(c, i, p, m) /\ SameParams(m, r.c)
                     /\ r.text = c.secs[i].param[p].text

\* From the look-up to the answer it is enough that the parameters stay.
LEMMA AskFrom ==
  ASSUME ConfAssumption, NEW c \in ConfSet, Sound(c), NEW name, NEW key \in Keys, NEW d,
         NEW g, GetStrIs(c, name, key, g), NEW r, r.c \in ConfSet, ~r.fault, ~r.lost,
         (d /\ ~r.ok) \/ Sound(r.c), SameParams(g.c, r.c), r.text = g.text
  PROVE  AskIs(c, name, key, d, r)
<1>1. g.c \in ConfSet
  BY GotSound
<1>2. CASE g.c = c /\ g.text = NotSet /\ \A i, p : ~IsAt(c, name, key, i, p)
  BY <1>2 DEF AskIs
<1>3. CASE \E p : /\ g.at # 0 /\ IsAt(c, name, key, g.at, p) /\ Marked(c, g.at, p, g.c)
                  /\ g.text = c.secs[g.at].param[p].text
  <2>1. \E i, p, m : /\ IsAt(c, name, key, i, p) /\ m \in ConfSet /\ Marked(c, i, p, m) /\ SameParams(m, r.c)
                     /\ r.text = c.secs[i].param[p].text
    BY <1>1, <1>3
  <2> QED
    BY <2>1 DEF AskIs
<1> QED
  BY <1>2, <1>3 DEF GetStrIs

LEMMA GetAsks ==
  ASSUME ConfAssumption, NEW c \in ConfSet, Sound(c), NEW name, NEW key \in Keys, NEW type, NEW old
  PROVE  AskIs(c, name, key, FALSE, Get(type, c, name, key, old))
<1> DEFINE r == st_conf_get_str(c, name, key)
           g == Get(type, c, name, key, old)
<1>1. GetStrIs(c, name, key, r) /\ Keeps(g, r)
  BY GetStr, GetKeeps
<1> HIDE DEF r, g
<1>2. r.c \in ConfSet /\ Sound(r.c)
  BY <1>1, GotSound
<1>3. SameParams(r.c, r.c)
  BY <1>2, SameParamsItself
<1>4. AskIs(c, name, key, FALSE, g)
  BY <1>1, <1>2, <1>3, AskFrom DEF Keeps, GetStrIs
<1> QED
  BY <1>4 DEF g

\* The note of a default in a section that is there.
NoteOf(c, i, a) == resize_sec([c.secs[i] EXCEPT !.def_num = @ + 1], a)
NoteIs(c, r, e) == e \in ConfSet /\ SameParams(c, e) /\ (r.ok => Sound(e))

LEMMA NoteIn ==
  ASSUME ConfAssumption, NEW c \in ConfSet, Sound(c), NEW i \in DOMAIN c.secs, NEW a
  PROVE  /\ NoteIs(c, NoteOf(c, i, a), WithSec(c, i, NoteOf(c, i, a).sec))
         /\ ~[c.secs[i] EXCEPT !.def_num = @ + 1].def_null
<1> DEFINE s == c.secs[i]
           t == [s EXCEPT !.def_num = @ + 1]
           r == resize_sec(t, a)
           e == WithSec(c, i, r.sec)
<1>1. s \in SecSet /\ SecSound(s)
  BY SecOf DEF Sound, SecsSound
<1>2. PICK n \in Nat : n = s.def_num + 1
  BY <1>1 DEF SecSet
<1>3. t = [s EXCEPT !.def_num = n]
  BY <1>2
<1> HIDE DEF t
<1>4. /\ t \in SecSet /\ t.name = s.name /\ t.param = s.param /\ t.param_cap = s.param_cap /\ t.def_num = s.def_num + 1
      /\ t.def_cap = s.def_cap /\ t.param_null = s.param_null /\ t.def_null = s.def_null
  BY <1>1, <1>2, <1>3 DEF SecSet
<1>5. /\ Len(t.param) <= t.param_cap /\ t.def_num <= t.def_cap /\ ~t.param_null /\ ~t.def_null
  <2>1. /\ s.def_num \in Nat /\ s.def_cap \in Nat /\ s.param_cap \in Nat /\ Len(s.param) \in Nat
    BY <1>1 DEF SecSet
  <2> QED
    BY <1>1, <1>4, <2>1 DEF SecSound, RoomIn
<1>6. /\ r.sec \in SecSet /\ r.sec.name = s.name /\ r.sec.param = s.param
      /\ r.ok => RoomIn(r.sec) /\ ~r.sec.param_null /\ ~r.sec.def_null
  BY <1>4, <1>5, ResizeSec
<1> HIDE DEF r
<1>7. r.ok => SecSound(r.sec)
  BY <1>1, <1>6 DEF SecSound
<1>8. Changed(c, i, r.sec, e)
  BY <1>6, WithSecIs
<1>9. r.ok => Sound(e)
  BY <1>6, <1>7, <1>8, ChangedSound
<1>10. SameParams(c, e)
  <2>1. Len(c.secs) \in Nat
    BY DEF ConfSet
  <2> QED
    BY <1>6, <1>8, <2>1 DEF Changed, SameParams
<1> QED
  BY <1>5, <1>8, <1>9, <1>10 DEF Changed, NoteIs, NoteOf, r, t
LEMMA NotedAsks ==
  ASSUME ConfAssumption, NEW c \in ConfSet, Sound(c), NEW name \in Seq(Labels), NEW key \in Keys,
         NEW g, IsResult(g), NEW r, GetStrIs(c, name, key, r), Keeps(g, r), NEW default, NEW a
  PROVE  AskIs(c, name, key, TRUE, Noted(g, IF g.at = 0 THEN st_conf_new_sec(g.c, name, a) ELSE g, default, a))
<1> DEFINE s == IF g.at = 0 THEN st_conf_new_sec(g.c, name, a) ELSE g
           n == Noted(g, s, default, a)
<1>1. g.c \in ConfSet /\ Sound(g.c) /\ ~g.fault /\ ~g.lost /\ g.text = r.text /\ g.c = r.c
      /\ (g.at # 0 => g.at \in DOMAIN g.c.secs)
      /\ (g.at = 0 => g.text = NotSet)
  <2>1. r.c \in ConfSet /\ Sound(r.c) /\ (r.at # 0 => r.at \in DOMAIN r.c.secs)
    BY GotSound
  <2>2. ~r.fault /\ ~r.lost /\ (r.at = 0 => r.text = NotSet)
    BY DEF GetStrIs
  <2> QED
    BY <2>1, <2>2 DEF Keeps
<1>2. /\ IsResult(s) /\ s.c \in ConfSet /\ ~s.fault /\ ~s.lost /\ SameParams(g.c, s.c) /\ s.text = g.text
      /\ ~(g.at = 0 /\ ~s.ok) => Sound(s.c) /\ s.at \in DOMAIN s.c.secs
  <2>1. CASE g.at = 0
    <3>1. Open(g.c)
      BY <1>1 DEF Open, Sound
    <3>2. NewSecIs(g.c, name, s)
      BY <2>1, <3>1, NewSec
    <3> HIDE DEF s
    <3> QED
      BY <1>1, <2>1, <3>2 DEF NewSecIs
  <2>2. CASE g.at # 0
    BY <1>1, <2>2, SameParamsItself
  <2> QED
    BY <2>1, <2>2
<1> HIDE DEF s
<1>3. CASE g.at = 0 /\ ~s.ok
  <2>1. n = [s EXCEPT !.value = default]
    BY <1>3 DEF Noted
  <2> HIDE DEF n
  <2>2. n.c = s.c /\ n.fault = s.fault /\ n.lost = s.lost /\ n.text = s.text /\ n.ok = s.ok
    BY <1>2, <2>1 DEF IsResult
  <2>3. AskIs(c, name, key, TRUE, n)
    BY <1>1, <1>2, <1>3, <2>2, AskFrom
  <2> QED
    BY <2>3 DEF n, s
<1>4. CASE ~(g.at = 0 /\ ~s.ok)
  <2> DEFINE note == NoteOf(s.c, s.at, a)
             e == WithSec(s.c, s.at, note.sec)
  <2>1. NoteIs(s.c, note, e) /\ ~[s.c.secs[s.at] EXCEPT !.def_num = @ + 1].def_null
    BY <1>2, <1>4, NoteIn
  <2>2. n = [g EXCEPT !.c = e, !.ok = note.ok, !.at = s.at, !.value = default]
    BY <1>2, <1>4, <2>1 DEF Noted, NoteOf, WithSec
  <2> HIDE DEF n, e, note
  <2>3. n.c = e /\ n.fault = g.fault /\ n.lost = g.lost /\ n.text = g.text /\ n.ok = note.ok
    BY <2>2 DEF IsResult
  <2>4. SameParams(g.c, e)
    BY <1>1, <1>2, <2>1, SameParamsTransitive DEF NoteIs
  <2>5. AskIs(c, name, key, TRUE, n)
    BY <1>1, <2>1, <2>3, <2>4, AskFrom DEF NoteIs
  <2> QED
    BY <2>5 DEF n, s
<1> QED
  BY <1>3, <1>4

LEMMA GetDefAsks ==
  ASSUME ConfAssumption, NEW c \in ConfSet, Sound(c), NEW name \in Seq(Labels), NEW key \in Keys,
         NEW type, NEW old, NEW default, NEW a
  PROVE  AskIs(c, name, key, TRUE, GetDef(type, c, name, key, old, default, a))
<1> DEFINE r == st_conf_get_str(c, name, key)
           g == Get(type, c, name, key, old)
           d == GetDef(type, c, name, key, old, default, a)
<1>1. GetStrIs(c, name, key, r) /\ Keeps(g, r) /\ AskIs(c, name, key, FALSE, g)
  BY GetStr, GetKeeps, GetAsks
<1>2. d = IF g.fault \/ g.ok THEN g ELSE Noted(g, IF g.at = 0 THEN st_conf_new_sec(g.c, name, a) ELSE g, default, a)
  BY DEF GetDef, OrDefault
<1> HIDE DEF g, r, d
<1>3. CASE g.fault \/ g.ok
  <2>1. AskIs(c, name, key, TRUE, g)
    BY <1>1 DEF AskIs
  <2> QED
    BY <1>2, <1>3, <2>1 DEF d
<1>4. CASE ~(g.fault \/ g.ok)
  <2>1. AskIs(c, name, key, TRUE, d)
    BY <1>1, <1>2, <1>4, NotedAsks DEF Keeps
  <2> QED
    BY <2>1 DEF d
<1> QED
  BY <1>3, <1>4
-----------------------------------------------------------------------------
(* st_conf_add_param.                                                       *)

NewParam(key, text) == [key |-> key, text |-> text, used |-> FALSE]

\* The parameters, with one set: in the place of the one with its key, or behind them.
SetIn(before, params, key, text) ==
  \E p \in DOMAIN params :
    /\ params[p] = NewParam(key, text)
    /\ \A o \in DOMAIN params \ {p} : o \in DOMAIN before /\ params[o] = before[o] /\ ~Same(params[o].key, key)
    /\ \A o \in DOMAIN before : o \in DOMAIN params /\ (o = p => Same(before[o].key, key))

ParamsSound(params) ==
  /\ \A p, q \in DOMAIN params : Same(params[p].key, params[q].key) => p = q \/ params[p].key = Blank
  /\ \A p \in DOMAIN params : params[p].key = Blank => params[p] = BlankParam

LEMMA SetInSound ==
  ASSUME ConfAssumption, NEW before \in Seq(ParamSet), NEW params \in Seq(ParamSet),
         NEW key \in Keys, NEW text, ParamsSound(before), SetIn(before, params, key, text)
  PROVE  ParamsSound(params)
<1>1. PICK p \in DOMAIN params :
        /\ params[p] = NewParam(key, text)
        /\ \A o \in DOMAIN params \ {p} : o \in DOMAIN before /\ params[o] = before[o] /\ ~Same(params[o].key, key)
  BY DEF SetIn
<1>2. key # Blank /\ params[p].key = key
  BY <1>1 DEF ConfAssumption, NewParam
<1>3. \A o \in DOMAIN params \ {p} : ~Same(params[o].key, params[p].key) /\ ~Same(params[p].key, params[o].key)
  BY <1>1, <1>2 DEF Same
<1>4. ASSUME NEW o \in DOMAIN params, NEW q \in DOMAIN params, Same(params[o].key, params[q].key)
      PROVE  o = q \/ params[o].key = Blank
  BY <1>1, <1>3, <1>4 DEF ParamsSound
<1>5. \A o \in DOMAIN params : params[o].key = Blank => params[o] = BlankParam
  BY <1>1, <1>2 DEF ParamsSound
<1> QED
  BY <1>4, <1>5 DEF ParamsSound

AddParamIs(c, i, key, text, r) ==
  /\ r.c \in ConfSet /\ ~r.fault /\ r.c.gen = c.gen /\ r.ok \in BOOLEAN
  /\ DOMAIN r.c.secs = DOMAIN c.secs /\ \A j \in DOMAIN c.secs : r.c.secs[j].name = c.secs[j].name
  /\ r.ok => Sound(r.c)
  /\ r.ok /\ ~r.lost =>
       /\ \A j \in DOMAIN c.secs \ {i} : r.c.secs[j].param = c.secs[j].param
       /\ SetIn(c.secs[i].param, r.c.secs[i].param, key, text)

\* What it comes to, once the new section is known.
LEMMA AddedTo ==
  ASSUME NEW c \in ConfSet, Sound(c), NEW i \in DOMAIN c.secs, NEW key \in Keys, NEW text,
         NEW t \in SecSet, t.name = c.secs[i].name, NEW r, r.c = WithSec(c, i, t), ~r.fault, r.ok \in BOOLEAN,
         r.ok => SecSound(t), r.ok /\ ~r.lost => SetIn(c.secs[i].param, t.param, key, text)
  PROVE  AddParamIs(c, i, key, text, r)
<1>1. Changed(c, i, t, r.c)
  BY WithSecIs
<1>2. r.ok => Sound(r.c)
  BY <1>1, ChangedSound
<1> QED
  BY <1>1, <1>2 DEF Changed, AddParamIs

LEMMA AddParam ==
  ASSUME ConfAssumption, NEW c \in ConfSet, Sound(c), NEW i \in DOMAIN c.secs,
         NEW key \in Keys, NEW text \in Texts, NEW a
  PROVE  AddParamIs(c, i, key, text, st_conf_add_param(c, i, key, text, a))
<1> DEFINE s == c.secs[i]
           n == Len(s.param)
           at == ParamAt(s, key)
           new == NewParam(key, text)
           blank == [s EXCEPT !.param = Append(@, BlankParam)]
           z == resize_sec(blank, a)
           w == WrittenTo(s, z.sec, new, a)
           r == st_conf_add_param(c, i, key, text, a)
<1>1. /\ s \in SecSet /\ SecSound(s) /\ ParamsSound(s.param) /\ s.param \in Seq(ParamSet)
      /\ n \in Nat /\ DOMAIN s.param = 1 .. n
      /\ s.param_cap \in Nat /\ s.def_num \in Nat /\ s.def_cap \in Nat
      /\ n < s.param_cap /\ s.def_num < s.def_cap /\ ~s.param_null /\ ~s.def_null
  <2>1. s \in SecSet /\ s.param \in Seq(ParamSet) /\ n \in Nat /\ DOMAIN s.param = 1 .. n
    BY SecOf
  <2>2. SecSound(s)
    BY DEF Sound, SecsSound
  <2> HIDE DEF s
  <2>3. s.param_cap \in Nat /\ s.def_num \in Nat /\ s.def_cap \in Nat
    BY <2>1 DEF SecSet
  <2> QED
    BY <2>1, <2>2, <2>3 DEF SecSound, ParamsSound, RoomIn
<1>2. new \in ParamSet /\ BlankParam \in ParamSet /\ key # Blank
  BY DEF NewParam, ParamSet, BlankParam, ConfAssumption
<1>3. r = IF at # 0 THEN Result(WithSec(c, i, [s EXCEPT !.param[at] = new]), i, TRUE)
          ELSE IF ~z.ok THEN Result(WithSec(c, i, z.sec), i, FALSE)
          ELSE [Result(WithSec(c, i, w.sec), i, TRUE) EXCEPT !.lost = w.lost]
  BY <1>1 DEF st_conf_add_param, Overwritten, WithSec, NewParam
<1>4. /\ at = 0 => \A p \in DOMAIN s.param : ~Same(s.param[p].key, key)
      /\ at # 0 => at \in DOMAIN s.param /\ Same(s.param[at].key, key)
  BY <1>1, ParamAtIs
<1>5. CASE at # 0
  <2> DEFINE params == [s.param EXCEPT ![at] = new]
             t == [s EXCEPT !.param = params]
  <2>1. /\ params \in Seq(ParamSet) /\ DOMAIN params = DOMAIN s.param /\ Len(params) = n
        /\ params[at] = new /\ \A o \in DOMAIN params \ {at} : params[o] = s.param[o]
    BY <1>1, <1>2, <1>4, <1>5
  <2>2. \A o \in DOMAIN s.param \ {at} : ~Same(s.param[o].key, key)
    <3> SUFFICES ASSUME NEW o \in DOMAIN s.param \ {at}, Same(s.param[o].key, key) PROVE FALSE
      OBVIOUS
    <3>1. Same(s.param[at].key, s.param[o].key) /\ s.param[at].key # Blank
      BY <1>2, <1>4, <1>5 DEF Same
    <3> QED
      BY <1>1, <1>4, <1>5, <3>1 DEF ParamsSound
  <2>3. t = [s EXCEPT !.param[at] = new]
    OBVIOUS
  <2> HIDE DEF params
  <2>4. SetIn(s.param, params, key, text)
    BY <1>4, <1>5, <2>1, <2>2 DEF SetIn
  <2>5. ParamsSound(params)
    BY <1>1, <2>1, <2>4, SetInSound
  <2>6. /\ t \in SecSet /\ t.param = params /\ t.name = s.name /\ t.param_cap = s.param_cap /\ t.def_num = s.def_num
        /\ t.def_cap = s.def_cap /\ t.param_null = s.param_null /\ t.def_null = s.def_null
    BY <1>1, <2>1 DEF SecSet
  <2>7. r = Result(WithSec(c, i, t), i, TRUE)
    BY <1>3, <1>5, <2>3
  <2> HIDE DEF t
  <2>8. SecSound(t)
    BY <1>1, <2>1, <2>5, <2>6 DEF SecSound, ParamsSound, RoomIn
  <2>9. r.c = WithSec(c, i, t) /\ ~r.fault /\ r.ok
    BY <2>7 DEF Result
  <2> HIDE DEF r
  <2>10. AddParamIs(c, i, key, text, r)
    BY <2>4, <2>6, <2>8, <2>9, AddedTo
  <2> QED
    BY <2>10 DEF r
<1>6. CASE at = 0
  <2> DEFINE more == Append(s.param, BlankParam)
             params == Append(s.param, new)
  <2>1. /\ more \in Seq(ParamSet) /\ Len(more) = n + 1 /\ DOMAIN more = 1 .. n + 1 /\ more[n + 1] = BlankParam
        /\ params \in Seq(ParamSet) /\ Len(params) = n + 1 /\ DOMAIN params = 1 .. n + 1 /\ params[n + 1] = new
        /\ \A o \in 1 .. n : more[o] = s.param[o] /\ params[o] = s.param[o]
    BY <1>1, <1>2
  <2> HIDE DEF more, params
  <2>0. params = [more EXCEPT ![n + 1] = new]
    <3>1. \A o \in 1 .. n + 1 : params[o] = [more EXCEPT ![n + 1] = new][o]
      BY <1>1, <2>1
    <3> QED
      BY <2>1, <3>1
  <2>2. /\ blank \in SecSet /\ blank.param = more /\ blank.name = s.name /\ blank.param_cap = s.param_cap
        /\ blank.def_num = s.def_num /\ blank.def_cap = s.def_cap /\ ~blank.param_null /\ ~blank.def_null
    <3>1. blank = [s EXCEPT !.param = more]
      BY DEF more
    <3> QED
      BY <1>1, <2>1, <3>1 DEF SecSet
  <2> HIDE DEF blank
  <2>3. /\ z.sec \in SecSet /\ z.ok \in BOOLEAN /\ z.sec.name = s.name /\ z.sec.param = more
        /\ z.ok => RoomIn(z.sec) /\ ~z.sec.param_null /\ ~z.sec.def_null
    <3>1. Len(blank.param) <= blank.param_cap /\ blank.def_num <= blank.def_cap
      BY <1>1, <2>1, <2>2
    <3> QED
      BY <2>2, <3>1, ResizeSec
  <2> HIDE DEF z
  <2>4. ParamsSound(more)
    <3>1. \A o \in 1 .. n + 1 : o \in 1 .. n \/ o = n + 1
      BY <1>1
    <3>2. BlankParam.key = Blank /\ \A k : Same(k, Blank) \/ Same(Blank, k) => k = Blank
      BY DEF BlankParam, Same
    <3> QED
      BY <1>1, <2>1, <3>1, <3>2 DEF ParamsSound
  <2>5. SetIn(s.param, params, key, text)
    <3>1. \A o \in 1 .. n + 1 : o \in 1 .. n \/ o = n + 1
      BY <1>1
    <3>2. n + 1 \in DOMAIN params /\ n + 1 \notin DOMAIN s.param
      BY <1>1, <2>1
    <3>3. \A o \in DOMAIN params \ {n + 1} : o \in DOMAIN s.param /\ params[o] = s.param[o] /\ ~Same(params[o].key, key)
      BY <1>1, <1>4, <1>6, <2>1, <3>1
    <3>4. \A o \in DOMAIN s.param : o \in DOMAIN params
      BY <1>1, <2>1
    <3> QED
      BY <2>1, <3>2, <3>3, <3>4 DEF SetIn
  <2>6. ParamsSound(params)
    BY <1>1, <2>1, <2>5, SetInSound
  <2>7. CASE ~z.ok
    <3>1. r = Result(WithSec(c, i, z.sec), i, FALSE)
      BY <1>3, <1>6, <2>7
    <3>2. r.c = WithSec(c, i, z.sec) /\ ~r.fault /\ r.ok = FALSE
      BY <3>1 DEF Result
    <3> HIDE DEF r
    <3>3. AddParamIs(c, i, key, text, r)
      BY <2>3, <3>2, AddedTo
    <3> QED
      BY <3>3 DEF r
  <2>8. CASE z.ok
    <3> DEFINE t == w.sec
    <3>1. r = [Result(WithSec(c, i, t), i, TRUE) EXCEPT !.lost = w.lost]
      BY <1>3, <1>6, <2>8
    <3>2. \/ w.lost /\ t = z.sec
          \/ t = [z.sec EXCEPT !.param = params]
      <4>1. (t = z.sec /\ w.lost) \/ t = [z.sec EXCEPT !.param[n + 1] = new]
        BY DEF WrittenTo
      <4> QED
        BY <2>0, <2>3, <4>1
    <3>3. /\ t \in SecSet /\ t.name = s.name /\ t.param_cap = z.sec.param_cap /\ t.def_num = z.sec.def_num
          /\ t.def_cap = z.sec.def_cap /\ t.param_null = z.sec.param_null /\ t.def_null = z.sec.def_null
          /\ (t.param = params \/ (w.lost /\ t.param = more))
      <4> HIDE DEF t, w
      <4> QED
        BY <2>1, <2>3, <3>2 DEF SecSet
    <3> HIDE DEF t, w
    <3>4. SecSound(t)
      <4>1. ParamsSound(t.param) /\ Len(t.param) = Len(more)
        BY <2>1, <2>4, <2>6, <3>3
      <4>2. RoomIn(t) /\ ~t.param_null /\ ~t.def_null
        BY <2>3, <2>8, <3>3, <4>1 DEF RoomIn
      <4> QED
        BY <4>1, <4>2 DEF SecSound, ParamsSound
    <3>5. r.c = WithSec(c, i, t) /\ ~r.fault /\ r.ok = TRUE /\ r.lost = w.lost
      BY <3>1 DEF Result
    <3> HIDE DEF r
    <3>6. r.ok /\ ~r.lost => SetIn(s.param, t.param, key, text)
      BY <2>5, <3>3, <3>5
    <3>7. AddParamIs(c, i, key, text, r)
      BY <3>3, <3>4, <3>5, <3>6, AddedTo
    <3> QED
      BY <3>7 DEF r
  <2> QED
    BY <2>3, <2>7, <2>8
<1> QED
  BY <1>4, <1>5, <1>6
-----------------------------------------------------------------------------
(* The loader.                                                              *)

Pointers == [gen : Nat, at : Nat]
FrameSet == [parent : Pointers, cur : Pointers, within : Seq(Labels), here : Seq(Labels)]

\* Every open file points to a section, the one the next parameter belongs to.
FramePoints(f, c) == f.cur.at \in DOMAIN c.secs /\ f.here = c.secs[f.cur.at].name

\* Its pointers are those of the array as it is now.
FrameLive(f, c) == f.cur.gen = c.gen /\ (f.parent = NullPointer \/ f.parent.gen = c.gen)

ConfTypes == conf \in ConfSet /\ stack \in Seq(FrameSet) /\ failed \in BOOLEAN /\ fault \in BOOLEAN /\ grown \in BOOLEAN

ConfInv ==
  /\ ConfTypes
  /\ failed => stack = << >>
  /\ ~failed => Sound(conf)
  /\ stack # << >> => stack[1].parent = NullPointer
  /\ \A i \in DOMAIN stack : FramePoints(stack[i], conf)
  /\ ~grown => \A i \in DOMAIN stack : FrameLive(stack[i], conf)
  /\ FaultOnlyAfterGrowth
LEMMA TopFrame ==
  ASSUME ConfInv, stack # << >>
  PROVE  /\ Len(stack) \in Nat \ {0} /\ DOMAIN stack = 1 .. Len(stack) /\ Len(stack) \in DOMAIN stack
         /\ Top \in FrameSet /\ FramePoints(Top, conf) /\ ~failed /\ Sound(conf) /\ conf \in ConfSet
         /\ ~grown => FrameLive(Top, conf)
         /\ Len(stack) = 1 => Top.parent = NullPointer
<1>1. /\ stack \in Seq(FrameSet) /\ Len(stack) \in Nat /\ DOMAIN stack = 1 .. Len(stack)
  BY DEF ConfInv, ConfTypes
<1>2. Len(stack) # 0
  BY <1>1
<1>3. Len(stack) \in DOMAIN stack /\ Top \in FrameSet
  BY <1>1, <1>2 DEF Top
<1>4. Top = stack[Len(stack)]
  BY DEF Top
<1> QED
  BY <1>1, <1>2, <1>3, <1>4 DEF ConfInv, ConfTypes

\* Frames that pointed to a section still do when sections are added.
LEMMA PointsStill ==
  ASSUME NEW c \in ConfSet, NEW d \in ConfSet, SameParams(c, d), NEW f, FramePoints(f, c)
  PROVE  FramePoints(f, d)
<1>1. DOMAIN c.secs = 1 .. Len(c.secs) /\ DOMAIN d.secs = 1 .. Len(d.secs) /\ Len(c.secs) \in Nat /\ Len(d.secs) \in Nat
  BY DEF ConfSet
<1> QED
  BY <1>1 DEF SameParams, FramePoints

\* The files that stay open when nothing but the last one is changed or closed.
LEMMA InvSameStack ==
  ASSUME ConfInv, UNCHANGED <<conf, stack, failed, fault, grown>>
  PROVE  ConfInv'
BY DEF ConfInv, ConfTypes, FaultOnlyAfterGrowth, FramePoints, FrameLive

LEMMA InvNoStack ==
  ASSUME conf' \in ConfSet, stack' = << >>, failed' \in BOOLEAN, grown' \in BOOLEAN, fault' = FALSE,
         ~failed' => Sound(conf')
  PROVE  ConfInv'
<1>1. stack' \in Seq(FrameSet) /\ DOMAIN stack' = {}
  OBVIOUS
<1> QED
  BY <1>1 DEF ConfInv, ConfTypes, FaultOnlyAfterGrowth

LEMMA LoadInv == ASSUME ConfInv, st_conf_load PROVE ConfInv'
<1> DEFINE r == st_conf_get_sec(conf, DEF_SEC_NAME)
           at == SecAt(conf, DEF_SEC_NAME)
           f == Frame(NullPointer, Pointer(conf, at), DEF_SEC_NAME)
<1>1. /\ conf \in ConfSet /\ Sound(conf) /\ stack = << >> /\ failed = FALSE /\ failed' = FALSE /\ grown' = grown
      /\ grown \in BOOLEAN
  BY DEF st_conf_load, InUse, Idle, ConfInv, ConfTypes
<1>2. r = Result(conf, at, at # 0)
  BY <1>1 DEF st_conf_get_sec, SecsLost, Sound
<1>3. r.c = conf /\ r.fault = FALSE /\ r.at = at
  BY <1>2 DEF Result
<1>4. conf' = conf /\ fault' = FALSE
  BY <1>3 DEF st_conf_load, After
<1>5. CASE UNCHANGED stack
  BY <1>1, <1>4, <1>5, InvNoStack
<1>6. CASE r.ok /\ stack' = <<f>>
  <2>1. at # 0
    <3>1. at = 0 => r = Result(conf, at, FALSE)
      BY <1>2
    <3> QED
      BY <1>6, <3>1 DEF Result
  <2>2. at \in DOMAIN conf.secs /\ conf.secs[at].name = DEF_SEC_NAME /\ at \in Nat
    BY <1>1, <2>1, SecAtIs
  <2>3. conf.gen \in Nat /\ DEF_SEC_NAME \in Seq(Labels)
    BY <1>1 DEF ConfSet, DEF_SEC_NAME
  <2>4. f \in FrameSet /\ FramePoints(f, conf) /\ FrameLive(f, conf) /\ f.parent = NullPointer
    BY <2>2, <2>3 DEF Frame, FrameSet, Pointers, Pointer, NullPointer, FramePoints, FrameLive
  <2> HIDE DEF f
  <2>5. /\ stack' \in Seq(FrameSet) /\ DOMAIN stack' = {1} /\ stack'[1] = f
    BY <1>6, <2>4
  <2> QED
    BY <1>1, <1>4, <2>4, <2>5 DEF ConfInv, ConfTypes, FaultOnlyAfterGrowth
<1> QED
  BY <1>3, <1>5, <1>6 DEF st_conf_load
LEMMA BadLineInv == ASSUME ConfInv, LoadBadLine PROVE ConfInv'
<1>1. /\ conf' = conf /\ stack' = << >> /\ failed' = failed /\ grown' = grown /\ fault' = FALSE
  BY DEF LoadBadLine, ReadLine, Running, Unwind, ConfInv, ConfTypes
<1> QED
  BY <1>1, InvNoStack DEF ConfInv, ConfTypes

LEMMA EndOfFileInv == ASSUME ConfInv, EndOfFile PROVE ConfInv'
<1> DEFINE n == Len(stack) - 1
           rest == SubSeq(stack, 1, n)
<1>1. /\ conf' = conf /\ stack' = rest /\ failed' = failed /\ grown' = grown /\ fault' = fault
      /\ stack # << >> /\ ~failed
  BY TopFrame DEF EndOfFile, Running
<1>2. /\ stack \in Seq(FrameSet) /\ Len(stack) \in Nat \ {0} /\ DOMAIN stack = 1 .. Len(stack)
  BY <1>1, TopFrame DEF ConfInv, ConfTypes
<1>3. /\ rest \in Seq(FrameSet) /\ DOMAIN rest = 1 .. n /\ \A i \in 1 .. n : rest[i] = stack[i]
      /\ Len(rest) = n
  BY <1>2
<1> HIDE DEF rest
<1>4. /\ \A i \in DOMAIN rest : i \in DOMAIN stack /\ rest[i] = stack[i]
      /\ rest # << >> => 1 \in DOMAIN rest
  BY <1>2, <1>3
<1> QED
  BY <1>1, <1>3, <1>4 DEF ConfInv, ConfTypes, FaultOnlyAfterGrowth, FramePoints, FrameLive

LEMMA CheckIs ==
  ASSUME NEW c, Sound(c)
  PROVE  st_conf_check(c) = Result(c, 0, Unused(c) = {})
BY DEF st_conf_check, SecsLost, Sound, SecsSound, SecSound

LEMMA CheckInv == ASSUME ConfInv, Check PROVE ConfInv'
<1>1. /\ conf \in ConfSet /\ Sound(conf) /\ stack' = << >> /\ failed' = FALSE /\ grown' \in BOOLEAN
  BY DEF Check, InUse, Idle, ConfInv, ConfTypes
<1>2. conf' = conf /\ fault' = FALSE
  BY <1>1, CheckIs DEF Check, After, Result
<1> QED
  BY <1>1, <1>2, InvNoStack

LEMMA NamesAre == ASSUME conf \in ConfSet PROVE Names \subseteq Seq(Labels)
<1>1. \A i \in DOMAIN conf.secs : conf.secs[i].name \in Seq(Labels)
  BY SecOf DEF SecSet
<1>2. \A l \in Labels : <<l>> \in Seq(Labels)
  OBVIOUS
<1> QED
  BY <1>1, <1>2 DEF Names

\* The answer that a step of Ask gives.
AnswerOf(type, name, key, d, a) ==
  IF d THEN GetDef(type, conf, name, key, Unset, NotSet, a) ELSE Get(type, conf, name, key, Unset)

LEMMA AnswerIs ==
  ASSUME ConfInv, ~failed, NEW type, NEW name \in Names, NEW key \in FileKeys, NEW d \in BOOLEAN, NEW a
  PROVE  AskIs(conf, name, key, d, AnswerOf(type, name, key, d, a))
<1>1. conf \in ConfSet /\ Sound(conf) /\ name \in Seq(Labels) /\ key \in Keys
  BY NamesAre, LoaderAssumption DEF ConfInv, ConfTypes
<1>2. CASE d
  BY <1>1, <1>2, GetDefAsks, ConfAssumption DEF AnswerOf
<1>3. CASE ~d
  <2>1. d = FALSE
    BY <1>3
  <2> QED
    BY <1>1, <2>1, GetAsks, ConfAssumption DEF AnswerOf
<1> QED
  BY <1>2, <1>3

LEMMA AskInv ==
  ASSUME ConfInv, NEW type, NEW name \in Names, NEW key \in FileKeys, NEW d \in BOOLEAN, Ask(type, name, key, d)
  PROVE  ConfInv'
<1>1. /\ ~failed /\ stack' = << >> /\ grown' \in BOOLEAN
  BY DEF Ask, InUse, Idle, ConfInv, ConfTypes
<1>2. PICK a : /\ After(AnswerOf(type, name, key, d, a))
               /\ failed' = (failed \/ (d /\ ~AnswerOf(type, name, key, d, a).ok))
  BY DEF Ask, AnswerOf
<1> DEFINE r == AnswerOf(type, name, key, d, a)
<1>3. AskIs(conf, name, key, d, r)
  BY <1>1, AnswerIs
<1> HIDE DEF r
<1>4. conf' \in ConfSet /\ fault' = FALSE /\ failed' \in BOOLEAN
  BY <1>2, <1>3 DEF After, AskIs, r
<1>5. ~failed' => Sound(conf')
  BY <1>2, <1>3 DEF After, AskIs, r
<1> QED
  BY <1>1, <1>4, <1>5, InvNoStack

LEMMA DestroyInv == ASSUME ConfInv, Destroy PROVE ConfInv'
<1> DEFINE r == st_conf_destroy(conf)
<1>1. /\ conf \in ConfSet /\ stack = << >> /\ stack' = << >> /\ failed \in BOOLEAN /\ grown' = grown /\ grown \in BOOLEAN
  BY DEF Destroy, Idle, ConfInv, ConfTypes
<1>2. CASE SecsLost(conf)
  <2>1. r = Fault(conf)
    BY <1>2 DEF st_conf_destroy
  <2>2. r.c = conf /\ r.fault = TRUE /\ conf.null
    BY <1>2, <2>1 DEF Fault, Result, SecsLost
  <2>3. conf' = conf /\ fault' = TRUE /\ failed' = failed
    BY <2>2 DEF Destroy, After
  <2> QED
    BY <1>1, <2>2, <2>3 DEF ConfInv, ConfTypes, FaultOnlyAfterGrowth
<1>3. CASE ~SecsLost(conf)
  <2>1. r = Result(NoConf, 0, TRUE)
    BY <1>3 DEF st_conf_destroy
  <2>2. ~r.fault
    BY <2>1 DEF Result
  <2>3. PICK a : st_conf_create(a).ok /\ After(st_conf_create(a)) /\ failed' = FALSE
    BY <2>2 DEF Destroy
  <2>4. NewSecIs(NoConf, DEF_SEC_NAME, st_conf_create(a))
    BY CreateConf, ConfAssumption
  <2>5. conf' \in ConfSet /\ fault' = FALSE /\ Sound(conf')
    BY <2>3, <2>4 DEF NewSecIs, After, IsResult
  <2> QED
    BY <1>1, <2>3, <2>5, InvNoStack
<1> QED
  BY <1>2, <1>3
\* The frames of the files that are open, c the configuration they point into.
StackSound(frames, c, moved) ==
  /\ frames \in Seq(FrameSet) /\ frames # << >> /\ frames[1].parent = NullPointer
  /\ \A i \in DOMAIN frames : FramePoints(frames[i], c)
  /\ ~moved => \A i \in DOMAIN frames : FrameLive(frames[i], c)

LEMMA InvStack ==
  ASSUME conf' \in ConfSet, Sound(conf'), failed' = FALSE, fault' = FALSE, grown' \in BOOLEAN,
         StackSound(stack', conf', grown')
  PROVE  ConfInv'
BY DEF StackSound, ConfInv, ConfTypes, FaultOnlyAfterGrowth

LEMMA StackIs == ASSUME ConfInv, stack # << >> PROVE StackSound(stack, conf, grown)
BY DEF ConfInv, ConfTypes, StackSound

\* A parameter is added to the section of the file read last.
LEMMA ParamInv ==
  ASSUME ConfInv, NEW key \in FileKeys, NEW text \in FileTexts, LoadParam(key, text)
  PROVE  ConfInv'
<1>1. /\ stack # << >> /\ grown' = grown /\ grown \in BOOLEAN
      /\ Top \in FrameSet /\ FramePoints(Top, conf) /\ Sound(conf) /\ conf \in ConfSet
      /\ failed = FALSE /\ fault = FALSE
      /\ ~grown => FrameLive(Top, conf)
  BY TopFrame DEF LoadParam, ReadLine, Running, ConfInv, ConfTypes
<1>2. key \in Keys /\ text \in Texts
  BY LoaderAssumption
<1>3. CASE ~Live(Top.cur)
  <2>1. grown
    BY <1>1, <1>3 DEF FrameLive, Live
  <2>2. conf' = conf /\ stack' = stack /\ failed' = failed /\ fault' = TRUE
    BY <1>3 DEF LoadParam
  <2> QED
    BY <1>1, <2>1, <2>2 DEF ConfInv, ConfTypes, FaultOnlyAfterGrowth, FramePoints, FrameLive
<1>4. CASE Live(Top.cur)
  <2> DEFINE i == Top.cur.at
  <2>1. PICK a : LET r == st_conf_add_param(conf, i, key, text, a)
                 IN /\ After(r) /\ failed' = (failed \/ ~r.ok)
                    /\ IF r.ok THEN UNCHANGED <<stack, open>> ELSE stack' = << >> /\ open' = 1
    BY <1>4 DEF LoadParam
  <2> DEFINE r == st_conf_add_param(conf, i, key, text, a)
  <2>2. i \in DOMAIN conf.secs
    BY <1>1 DEF FramePoints
  <2>3. AddParamIs(conf, i, key, text, r)
    BY <1>1, <1>2, <2>2, AddParam, ConfAssumption
  <2> HIDE DEF r
  <2>4. /\ r.ok \in BOOLEAN /\ conf' = r.c /\ fault' = FALSE /\ conf' \in ConfSet /\ conf'.gen = conf.gen
    BY <2>1, <2>3 DEF After, AddParamIs, r
  <2>5. CASE ~r.ok
    <3>1. stack' = << >> /\ failed' = TRUE
      BY <2>1, <2>5 DEF r
    <3> QED
      BY <1>1, <2>4, <3>1, InvNoStack
  <2>6. CASE r.ok
    <3>1. stack' = stack /\ failed' = FALSE /\ Sound(conf')
      BY <1>1, <2>1, <2>3, <2>4, <2>6 DEF r, AddParamIs
    <3>2. DOMAIN conf'.secs = DOMAIN conf.secs /\ \A j \in DOMAIN conf.secs : conf'.secs[j].name = conf.secs[j].name
      BY <2>3, <2>4 DEF AddParamIs
    <3>3. StackSound(stack, conf, grown)
      BY <1>1, StackIs
    <3>4. StackSound(stack', conf', grown')
      BY <1>1, <2>4, <3>1, <3>2, <3>3 DEF StackSound, FramePoints, FrameLive
    <3> QED
      BY <1>1, <2>4, <3>1, <3>4, InvStack
  <2> QED
    BY <2>4, <2>5, <2>6
<1> QED
  BY <1>3, <1>4
\* The last frame, moved to a heading of its file.
MovedTo(d, at, name) == SetTop([Top EXCEPT !.cur = Pointer(d, at), !.here = name])

LEMMA MovedSound ==
  ASSUME ConfInv, stack # << >>, NEW d \in ConfSet, SameParams(conf, d), NEW at \in DOMAIN d.secs,
         NEW name \in Seq(Labels), d.secs[at].name = name,
         NEW moved \in BOOLEAN, ~moved => ~grown /\ (d.gen = conf.gen \/ Len(stack) = 1)
  PROVE  StackSound(MovedTo(d, at, name), d, moved) /\ DOMAIN MovedTo(d, at, name) = DOMAIN stack
<1> DEFINE f == [Top EXCEPT !.cur = Pointer(d, at), !.here = name]
           n == Len(stack)
           frames == MovedTo(d, at, name)
<1>1. /\ stack \in Seq(FrameSet) /\ n \in Nat \ {0} /\ DOMAIN stack = 1 .. n
      /\ Top \in FrameSet /\ conf \in ConfSet
      /\ ~grown => FrameLive(Top, conf)
      /\ n = 1 => Top.parent = NullPointer
  BY TopFrame DEF ConfInv, ConfTypes
<1>2. Pointer(d, at) \in Pointers /\ Pointer(d, at).at = at /\ Pointer(d, at).gen = d.gen
  BY DEF Pointer, Pointers, ConfSet
<1>3. f \in FrameSet /\ f.parent = Top.parent /\ f.cur = Pointer(d, at) /\ f.here = name
  BY <1>1, <1>2 DEF FrameSet
<1>4. FramePoints(f, d)
  BY <1>2, <1>3 DEF FramePoints
<1>5. ~moved => FrameLive(f, d)
  BY <1>1, <1>2, <1>3 DEF FrameLive
<1>6. frames = [stack EXCEPT ![n] = f]
  BY DEF MovedTo, SetTop
<1> HIDE DEF f, frames
<1>7. /\ frames \in Seq(FrameSet) /\ DOMAIN frames = 1 .. n /\ frames[n] = f
      /\ \A i \in 1 .. n : i = n \/ frames[i] = stack[i]
  <2>1. n \in 1 .. n
    BY <1>1
  <2>2. stack \in [1 .. n -> FrameSet]
    BY <1>1
  <2> HIDE DEF n
  <2>3. frames \in [1 .. n -> FrameSet] /\ frames[n] = f
    BY <1>3, <1>6, <2>1, <2>2
  <2>4. \A i \in 1 .. n : i = n \/ frames[i] = stack[i]
    BY <1>6, <2>2
  <2>5. n \in Nat
    BY <1>1
  <2>6. frames \in Seq(FrameSet)
    BY <2>3, <2>5
  <2> QED
    BY <2>3, <2>4, <2>6
<1>8. \A i \in DOMAIN frames : FramePoints(frames[i], d)
  <2>1. \A i \in 1 .. n : FramePoints(stack[i], d)
    BY <1>1, PointsStill DEF ConfInv
  <2> QED
    BY <1>4, <1>7, <2>1
<1>9. ASSUME ~moved, NEW i \in DOMAIN frames PROVE FrameLive(frames[i], d)
  <2>1. CASE i = n
    BY <1>5, <1>7, <1>9, <2>1
  <2>2. CASE i # n
    <3>1. n # 1 /\ i \in DOMAIN stack /\ frames[i] = stack[i]
      <4> HIDE DEF n
      <4> QED
        BY <1>1, <1>7, <2>2
    <3>2. FrameLive(stack[i], conf) /\ d.gen = conf.gen
      BY <1>9, <3>1 DEF ConfInv
    <3> QED
      BY <3>1, <3>2 DEF FrameLive
  <2> QED
    BY <2>1, <2>2
<1>10. frames[1].parent = NullPointer /\ frames # << >>
  <2>1. stack[1].parent = NullPointer
    BY DEF ConfInv
  <2>2. 1 \in 1 .. n
    BY <1>1
  <2>3. CASE n = 1
    BY <1>1, <1>3, <1>7, <2>2, <2>3
  <2>4. CASE n # 1
    <3>1. frames[1] = stack[1]
      BY <1>7, <2>2, <2>4
    <3> QED
      BY <1>7, <2>1, <2>2, <3>1
  <2> QED
    BY <2>3, <2>4
<1> QED
  BY <1>1, <1>7, <1>8, <1>9, <1>10 DEF StackSound, frames

\* Another file is opened for the section that was moved to.
LEMMA OpenedSound ==
  ASSUME NEW d \in ConfSet, NEW at \in DOMAIN d.secs, NEW name \in Seq(Labels), d.secs[at].name = name,
         NEW moved \in BOOLEAN, NEW frames, StackSound(frames, d, moved)
  PROVE  StackSound(Append(frames, Frame(Pointer(d, at), Pointer(d, at), name)), d, moved)
<1> DEFINE f == Frame(Pointer(d, at), Pointer(d, at), name)
           all == Append(frames, f)
<1>1. /\ Pointer(d, at) \in Pointers /\ Pointer(d, at).at = at /\ Pointer(d, at).gen = d.gen
  BY DEF Pointer, Pointers, ConfSet
<1>2. f \in FrameSet /\ FramePoints(f, d) /\ FrameLive(f, d)
  BY <1>1 DEF Frame, FrameSet, FramePoints, FrameLive
<1> HIDE DEF f
<1>3. /\ frames \in Seq(FrameSet) /\ frames # << >> /\ Len(frames) \in Nat /\ DOMAIN frames = 1 .. Len(frames)
  BY DEF StackSound
<1>4. Len(frames) # 0
  BY <1>3
<1>5. /\ all \in Seq(FrameSet) /\ all # << >> /\ 1 \in DOMAIN frames
      /\ \A i \in DOMAIN all : (i \in DOMAIN frames /\ all[i] = frames[i]) \/ all[i] = f
      /\ all[1] = frames[1]
  <2>1. 1 \in DOMAIN frames
    BY <1>3, <1>4
  <2>2. /\ all \in Seq(FrameSet) /\ Len(all) = Len(frames) + 1 /\ DOMAIN all = 1 .. Len(frames) + 1
        /\ \A i \in 1 .. Len(frames) : all[i] = frames[i]
        /\ all[Len(frames) + 1] = f
    BY <1>2, <1>3
  <2>3. \A i \in 1 .. Len(frames) + 1 : i \in 1 .. Len(frames) \/ i = Len(frames) + 1
    BY <1>3
  <2> HIDE DEF all
  <2> QED
    BY <1>3, <2>1, <2>2, <2>3
<1> HIDE DEF all
<1>6. StackSound(all, d, moved)
  BY <1>2, <1>3, <1>5 DEF StackSound
<1> QED
  BY <1>6 DEF all, f

LEMMA HeadingInv ==
  ASSUME ConfInv, NEW label \in Labels, NEW opens \in BOOLEAN, LoadHeading(label, opens)
  PROVE  ConfInv'
<1> DEFINE name == Heading(Top, label)
<1>1. /\ stack # << >> /\ Len(stack) \in Nat \ {0} /\ grown \in BOOLEAN
      /\ Top \in FrameSet /\ FramePoints(Top, conf) /\ Sound(conf) /\ conf \in ConfSet
      /\ failed = FALSE /\ fault = FALSE
      /\ ~grown => FrameLive(Top, conf)
  BY TopFrame DEF LoadHeading, ReadLine, Running, ConfInv, ConfTypes
<1>2. name \in Seq(Labels)
  BY <1>1 DEF Heading, FrameSet
<1>3. Open(conf)
  BY <1>1 DEF Open, Sound
<1> HIDE DEF name
<1>4. CASE Top.parent # NullPointer /\ ~Live(Top.parent)
  <2>1. grown
    BY <1>1, <1>4 DEF FrameLive, Live
  <2>2. conf' = conf /\ stack' = stack /\ failed' = failed /\ fault' = TRUE /\ grown' = grown
    BY <1>4 DEF LoadHeading
  <2> QED
    BY <1>1, <2>1, <2>2 DEF ConfInv, ConfTypes, FaultOnlyAfterGrowth, FramePoints, FrameLive
<1>5. CASE ~(Top.parent # NullPointer /\ ~Live(Top.parent))
  <2>1. PICK a :
          LET r == st_conf_new_sec(conf, name, a)
          IN /\ After(r)
             /\ failed' = (failed \/ ~r.ok)
             /\ grown' = (grown \/ (r.c.gen # conf.gen /\ Len(stack) > 1))
             /\ \/ ~r.ok /\ stack' = << >>
                \/ r.ok /\ stack' = << >>
                \/ r.ok /\ stack' = MovedTo(r.c, r.at, name)
                \/ r.ok /\ stack' = Append(MovedTo(r.c, r.at, name), Frame(Pointer(r.c, r.at), Pointer(r.c, r.at), name))
    BY <1>5 DEF LoadHeading, Unwind, MovedTo, name
  <2> DEFINE r == st_conf_new_sec(conf, name, a)
  <2>2. NewSecIs(conf, name, r)
    BY <1>2, <1>3, NewSec, ConfAssumption
  <2> HIDE DEF r
  <2>3. /\ r.ok \in BOOLEAN /\ conf' = r.c /\ fault' = FALSE /\ conf' \in ConfSet
    BY <2>1, <2>2 DEF After, NewSecIs, r
  <2>4. PICK moved \in BOOLEAN : moved = grown'
    BY <2>1
  <2>5. CASE ~r.ok
    <3>1. stack' = << >> /\ failed' = TRUE
      BY <2>1, <2>5 DEF r
    <3> QED
      BY <2>3, <2>4, <3>1, InvNoStack
  <2>6. CASE r.ok
    <3>1. failed' = FALSE /\ Sound(conf')
      BY <1>1, <2>1, <2>2, <2>3, <2>6 DEF r, NewSecIs
    <3>2. r.at \in DOMAIN r.c.secs /\ r.c.secs[r.at].name = name /\ SameParams(conf, r.c) /\ r.c \in ConfSet
      BY <2>2, <2>6 DEF NewSecIs
    <3>3. ~moved => ~grown /\ (r.c.gen = conf.gen \/ Len(stack) = 1)
      <4>1. grown' = (grown \/ (r.c.gen # conf.gen /\ Len(stack) > 1))
        BY <2>1 DEF r
      <4>2. PICK n \in Nat \ {0} : n = Len(stack)
        BY <1>1
      <4>3. ~moved => ~grown /\ (r.c.gen = conf.gen \/ ~(n > 1))
        BY <2>4, <4>1, <4>2
      <4> QED
        BY <4>2, <4>3
    <3>4. StackSound(MovedTo(r.c, r.at, name), r.c, moved)
      BY <1>1, <1>2, <3>2, <3>3, MovedSound
    <3>5. CASE stack' = << >>
      BY <2>3, <2>4, <3>1, <3>5, InvNoStack
    <3>6. CASE stack' = MovedTo(r.c, r.at, name)
      BY <2>3, <2>4, <3>1, <3>4, <3>6, InvStack
    <3>7. CASE stack' = Append(MovedTo(r.c, r.at, name), Frame(Pointer(r.c, r.at), Pointer(r.c, r.at), name))
      <4>1. StackSound(stack', r.c, moved)
        BY <1>2, <3>2, <3>4, <3>7, OpenedSound
      <4> QED
        BY <2>3, <2>4, <3>1, <4>1, InvStack
    <3> QED
      BY <2>1, <3>5, <3>6, <3>7 DEF r
  <2> QED
    BY <2>3, <2>5, <2>6
<1> QED
  BY <1>4, <1>5
LEMMA InitInv == ASSUME Init PROVE ConfInv
<1>1. PICK a : st_conf_create(a).ok /\ conf = st_conf_create(a).c
  BY DEF Init
<1>2. NewSecIs(NoConf, DEF_SEC_NAME, st_conf_create(a))
  BY CreateConf, ConfAssumption
<1>3. conf \in ConfSet /\ Sound(conf)
  BY <1>1, <1>2 DEF NewSecIs
<1>4. /\ stack = << >> /\ stack \in Seq(FrameSet) /\ DOMAIN stack = {}
      /\ failed = FALSE /\ fault = FALSE /\ grown = FALSE
  BY DEF Init
<1> QED
  BY <1>3, <1>4 DEF ConfInv, ConfTypes, FaultOnlyAfterGrowth

LEMMA NextInv == ASSUME ConfInv, [Next]_vars PROVE ConfInv'
<1>1. CASE UNCHANGED vars
  BY <1>1, InvSameStack DEF vars
<1>2. CASE Next
  BY <1>2, LoadInv, BadLineInv, EndOfFileInv, CheckInv, DestroyInv, HeadingInv, ParamInv, AskInv DEF Next
<1> QED
  BY <1>1, <1>2

LEMMA ConfInvariant == Spec => []ConfInv
BY InitInv, NextInv, PTL DEF Spec

LEMMA RoomFromInv == ASSUME ConfInv PROVE InBounds
BY DEF ConfInv, Sound, SecsSound, SecSound, ArraysHaveRoom, InBounds

\* InBounds, whatever is asked for, added or loaded in whatever order and whichever
\* allocation fails: every section has room for one more parameter and one more
\* default, which st_conf_get_*_def takes for granted, and memory that is not there is
\* touched only when the array of sections was lost or moved under an outer file.
THEOREM ConfStaysInBounds == Spec => []InBounds
BY ConfInvariant, RoomFromInv, PTL
-----------------------------------------------------------------------------
(* The map that a sound configuration stands for.                           *)

\* The parameter p of the section i is the one of that option.
Holds(c, o, i, p) ==
  i \in DOMAIN c.secs /\ p \in DOMAIN c.secs[i].param /\ o = OptionOf(c, <<i, p>>)

ParamOf(c, i, p) == c.secs[i].param[p]

LEMMA OptionIs ==
  ASSUME NEW c, NEW i, NEW p
  PROVE  OptionOf(c, <<i, p>>)
           = <<c.secs[i].name, IF ParamOf(c, i, p).key = Blank THEN Blank ELSE Fold[ParamOf(c, i, p).key]>>
BY DEF OptionOf, ParamOf

\* Looked up by its option a parameter is the one that is found.
LEMMA FoundIs ==
  ASSUME ConfAssumption, NEW c \in ConfSet, Sound(c), NEW o, NEW i, NEW p, Holds(c, o, i, p)
  PROVE  Found(c, o) = ParamOf(c, i, p)
<1> DEFINE s == c.secs[i]
           x == s.param[p]
           folded == IF x.key = Blank THEN Blank ELSE Fold[x.key]
           at == ParamAt(s, folded)
<1>1. /\ i \in DOMAIN c.secs /\ p \in DOMAIN s.param /\ o = <<s.name, folded>>
  BY OptionIs DEF Holds, ParamOf
<1>2. s \in SecSet /\ SecSound(s) /\ \A q \in DOMAIN s.param : s.param[q] \in ParamSet
  BY <1>1, SecOf DEF Sound, SecsSound
<1>3. SecAt(c, s.name) = i
  <2>1. SecAt(c, s.name) # 0
    BY <1>1, SecAtIs
  <2>2. SecAt(c, s.name) \in DOMAIN c.secs /\ c.secs[SecAt(c, s.name)].name = s.name
    BY SMTT(30), <2>1, SecAtIs
  <2> QED
    BY <1>1, <2>2 DEF Sound, SecsSound
<1>4. Found(c, o) = s.param[at]
  BY <1>1, <1>3 DEF Found
<1>5. \A q \in DOMAIN s.param : s.param[q].key \in Keys \cup {Blank}
  BY <1>2 DEF ParamSet
<1> HIDE DEF s
<1>6. Same(x.key, folded)
  BY <1>1, <1>5, SameIs
<1>7. at \in DOMAIN s.param /\ Same(s.param[at].key, folded)
  BY <1>1, <1>2, <1>6, ParamAtIs
<1>8. CASE x.key = Blank
  <2>1. s.param[at].key = Blank
    BY <1>7, <1>8 DEF Same
  <2> QED
    BY <1>1, <1>2, <1>4, <1>7, <1>8, <2>1 DEF SecSound, ParamOf, s
<1>9. CASE x.key # Blank
  <2>1. /\ x.key \in Keys /\ folded = Fold[x.key] /\ folded \in Keys /\ folded # Blank /\ Fold[folded] = folded
    BY SMTT(30), <1>1, <1>5, <1>9, SameIs DEF ConfAssumption
  <2>2. s.param[at].key # Blank /\ Fold[s.param[at].key] = folded
    <3>1. Same(s.param[at].key, folded)
      BY <1>7, Zenon
    <3> QED
      BY <2>1, <3>1, Zenon DEF Same
  <2>3. Same(s.param[at].key, x.key)
    BY SMTT(30), <1>9, <2>1, <2>2 DEF Same
  <2>4. at = p
    BY <1>1, <1>2, <1>7, <2>2, <2>3 DEF SecSound
  <2> QED
    BY <1>4, <2>4 DEF ParamOf, s
<1> QED
  BY <1>8, <1>9

MapIs(c) ==
  /\ Store(c) = [o \in DOMAIN Store(c) |-> Store(c)[o]]
  /\ \A o : o \in DOMAIN Store(c) <=> \E i, p : Holds(c, o, i, p)
  /\ \A o, i, p : Holds(c, o, i, p) =>
       /\ Store(c)[o] = ParamOf(c, i, p).text
       /\ o \in AskedIn(c) <=> ParamOf(c, i, p).used
  /\ AskedIn(c) \subseteq DOMAIN Store(c)

LEMMA MapOf ==
  ASSUME ConfAssumption, NEW c \in ConfSet, Sound(c)
  PROVE  MapIs(c)
<1> DEFINE options == {OptionOf(c, sp) : sp \in Params(c)}
<1>1. \A o : o \in options <=> \E i, p : Holds(c, o, i, p)
  <2>1. \A sp : sp \in Params(c) <=> \E i \in DOMAIN c.secs : \E p \in DOMAIN c.secs[i].param : sp = <<i, p>>
    BY DEF Params
  <2>2. ASSUME NEW o \in options PROVE \E i, p : Holds(c, o, i, p)
    <3>1. PICK sp \in Params(c) : o = OptionOf(c, sp)
      OBVIOUS
    <3>2. PICK i \in DOMAIN c.secs : \E p \in DOMAIN c.secs[i].param : sp = <<i, p>>
      BY <2>1
    <3>3. PICK p \in DOMAIN c.secs[i].param : sp = <<i, p>>
      BY <3>2
    <3> QED
      BY <3>1, <3>3 DEF Holds
  <2>3. ASSUME NEW o, NEW i, NEW p, Holds(c, o, i, p) PROVE o \in options
    <3>1. <<i, p>> \in Params(c) /\ o = OptionOf(c, <<i, p>>)
      BY <2>1, <2>3 DEF Holds
    <3> QED
      BY <3>1
  <2> QED
    BY <2>2, <2>3
<1>2. Store(c) = [o \in options |-> Found(c, o).text] /\ AskedIn(c) = {o \in options : Found(c, o).used}
  BY DEF Store, AskedIn
<1> HIDE DEF options
<1>3. DOMAIN Store(c) = options /\ AskedIn(c) \subseteq options /\ \A o \in options : Store(c)[o] = Found(c, o).text
  BY <1>2
<1>4. ASSUME NEW o, NEW i, NEW p, Holds(c, o, i, p)
      PROVE  /\ Store(c)[o] = ParamOf(c, i, p).text
             /\ o \in AskedIn(c) <=> ParamOf(c, i, p).used
  <2>1. Found(c, o) = ParamOf(c, i, p) /\ o \in options
    BY <1>1, <1>4, FoundIs
  <2> QED
    BY <1>2, <1>3, <2>1
<1> QED
  BY <1>1, <1>2, <1>3, <1>4 DEF MapIs
\* Sections that hold nothing, room and notes of defaults leave the map as it is.
LEMMA SameMap ==
  ASSUME ConfAssumption, NEW c \in ConfSet, Sound(c), NEW d \in ConfSet, Sound(d), SameParams(c, d)
  PROVE  Store(d) = Store(c) /\ AskedIn(d) = AskedIn(c)
<1>1. /\ DOMAIN c.secs = 1 .. Len(c.secs) /\ DOMAIN d.secs = 1 .. Len(d.secs)
      /\ Len(c.secs) \in Nat /\ Len(d.secs) \in Nat
  BY DEF ConfSet
<1>2. \A i \in DOMAIN c.secs : i \in DOMAIN d.secs
  BY <1>1 DEF SameParams
<1>3. \A i \in DOMAIN d.secs \ DOMAIN c.secs : DOMAIN d.secs[i].param = {}
  BY DEF SameParams
<1>4. \A o, i, p : Holds(c, o, i, p) <=> Holds(d, o, i, p)
  <2>1. \A i \in DOMAIN c.secs : d.secs[i].name = c.secs[i].name /\ d.secs[i].param = c.secs[i].param
    BY DEF SameParams
  <2>2. \A i \in DOMAIN c.secs : \A p : OptionOf(c, <<i, p>>) = OptionOf(d, <<i, p>>)
    <3> SUFFICES ASSUME NEW i \in DOMAIN c.secs, NEW p PROVE OptionOf(c, <<i, p>>) = OptionOf(d, <<i, p>>)
      OBVIOUS
    <3>1. d.secs[i].name = c.secs[i].name /\ ParamOf(d, i, p).key = ParamOf(c, i, p).key
      BY <2>1 DEF ParamOf
    <3> QED
      BY <3>1 DEF OptionOf, ParamOf
  <2> QED
    BY <1>2, <1>3, <2>1, <2>2 DEF Holds
<1>5. \A o, i, p : Holds(c, o, i, p) => ParamOf(c, i, p) = ParamOf(d, i, p)
  BY DEF SameParams, Holds, ParamOf
<1>6. MapIs(c) /\ MapIs(d)
  BY MapOf
<1>7. \A o : o \in DOMAIN Store(d) <=> o \in DOMAIN Store(c)
  BY <1>4, <1>6 DEF MapIs
<1>8. \A o \in DOMAIN Store(c) : Store(d)[o] = Store(c)[o] /\ (o \in AskedIn(d) <=> o \in AskedIn(c))
  BY <1>4, <1>5, <1>6 DEF MapIs
<1>9. Store(d) = Store(c)
  BY <1>6, <1>7, <1>8 DEF MapIs
<1> QED
  BY <1>6, <1>7, <1>8, <1>9 DEF MapIs

\* The option of a name and a key is the parameter with that key, however it is spelt.
LEMMA AtIs ==
  ASSUME ConfAssumption, NEW c \in ConfSet, NEW name, NEW key \in Keys, NEW i, NEW p
  PROVE  IsAt(c, name, key, i, p) <=> Holds(c, <<name, Fold[key]>>, i, p)
<1>1. CASE ~(i \in DOMAIN c.secs /\ p \in DOMAIN c.secs[i].param)
  BY <1>1 DEF IsAt, Holds
<1>2. CASE i \in DOMAIN c.secs /\ p \in DOMAIN c.secs[i].param
  <2> DEFINE k == ParamOf(c, i, p).key
  <2>1. k \in Keys \cup {Blank} /\ key \in Keys \cup {Blank} /\ key # Blank /\ Fold[key] # Blank
    BY <1>2, SecOf DEF ParamOf, ParamSet, ConfAssumption
  <2> HIDE DEF k
  <2>2. Same(k, key) <=> k # Blank /\ Fold[k] = Fold[key]
    BY <2>1, SameIs
  <2>3. OptionOf(c, <<i, p>>) = <<c.secs[i].name, IF k = Blank THEN Blank ELSE Fold[k]>>
    BY OptionIs DEF k
  <2>4. IsAt(c, name, key, i, p) <=> c.secs[i].name = name /\ Same(k, key)
    BY <1>2 DEF IsAt, ParamOf, k
  <2>5. Holds(c, <<name, Fold[key]>>, i, p) <=> <<name, Fold[key]>> = OptionOf(c, <<i, p>>)
    BY <1>2 DEF Holds
  <2> QED
    BY <2>1, <2>2, <2>3, <2>4, <2>5
<1> QED
  BY <1>1, <1>2

\* A parameter that was asked for is so in the map.
LEMMA MarkedMap ==
  ASSUME ConfAssumption, NEW c \in ConfSet, Sound(c), NEW name, NEW key \in Keys, NEW i, NEW p,
         IsAt(c, name, key, i, p), NEW d \in ConfSet, Sound(d), Marked(c, i, p, d)
  PROVE  /\ <<name, Fold[key]>> \in DOMAIN Store(c) /\ Store(c)[<<name, Fold[key]>>] = c.secs[i].param[p].text
         /\ Store(d) = Store(c) /\ AskedIn(d) = AskedIn(c) \cup {<<name, Fold[key]>>}
<1> DEFINE option == <<name, Fold[key]>>
<1>1. Holds(c, option, i, p)
  BY AtIs
<1> HIDE DEF option
<1>2. MapIs(c) /\ MapIs(d)
  BY MapOf
<1>3. i \in DOMAIN c.secs /\ p \in DOMAIN c.secs[i].param
  BY <1>1 DEF Holds
<1>4. PICK q \in [DOMAIN c.secs[i].param -> ParamSet] :
        /\ q[p] = [c.secs[i].param[p] EXCEPT !.used = TRUE]
        /\ \A o \in DOMAIN q \ {p} : q[o] = c.secs[i].param[o]
        /\ Changed(c, i, [c.secs[i] EXCEPT !.param = q], d)
  BY DEF Marked
<1>5. c.secs[i] \in SecSet /\ c.secs[i].param[p] \in ParamSet /\ DOMAIN q = DOMAIN c.secs[i].param
  BY <1>3, SecOf
<1>6. /\ DOMAIN d.secs = DOMAIN c.secs
      /\ d.secs[i].param = q /\ d.secs[i].name = c.secs[i].name
      /\ \A j \in DOMAIN c.secs \ {i} : d.secs[j] = c.secs[j]
  <2>1. d.secs[i] = [c.secs[i] EXCEPT !.param = q]
    BY <1>4 DEF Changed
  <2>2. d.secs[i].param = q /\ d.secs[i].name = c.secs[i].name
    BY <1>5, <2>1 DEF SecSet
  <2> QED
    BY <1>4, <2>2 DEF Changed
<1>7. /\ q[p].key = c.secs[i].param[p].key /\ q[p].text = c.secs[i].param[p].text /\ q[p].used = TRUE
  BY <1>4, <1>5 DEF ParamSet
<1>8. ASSUME NEW j \in DOMAIN c.secs, NEW o \in DOMAIN c.secs[j].param
      PROVE  /\ o \in DOMAIN d.secs[j].param /\ d.secs[j].name = c.secs[j].name
             /\ ParamOf(d, j, o).key = ParamOf(c, j, o).key /\ ParamOf(d, j, o).text = ParamOf(c, j, o).text
             /\ IF j = i /\ o = p THEN ParamOf(d, j, o).used = TRUE ELSE ParamOf(d, j, o).used = ParamOf(c, j, o).used
  BY <1>4, <1>5, <1>6, <1>7 DEF ParamOf
<1>9. \A j \in DOMAIN c.secs : DOMAIN d.secs[j].param = DOMAIN c.secs[j].param
  BY <1>5, <1>6
<1>10. \A o, j, r : Holds(c, o, j, r) <=> Holds(d, o, j, r)
  <2>1. \A j \in DOMAIN c.secs : \A o \in DOMAIN c.secs[j].param : OptionOf(c, <<j, o>>) = OptionOf(d, <<j, o>>)
    <3> SUFFICES ASSUME NEW j \in DOMAIN c.secs, NEW o \in DOMAIN c.secs[j].param
                 PROVE  OptionOf(c, <<j, o>>) = OptionOf(d, <<j, o>>)
      OBVIOUS
    <3>1. d.secs[j].name = c.secs[j].name /\ ParamOf(d, j, o).key = ParamOf(c, j, o).key
      BY <1>8
    <3> QED
      BY <3>1 DEF OptionOf, ParamOf
  <2> QED
    BY <1>6, <1>9, <2>1 DEF Holds
<1>11. \A o, j, r : Holds(c, o, j, r) =>
         /\ ParamOf(d, j, r).text = ParamOf(c, j, r).text
         /\ IF j = i /\ r = p THEN ParamOf(d, j, r).used = TRUE ELSE ParamOf(d, j, r).used = ParamOf(c, j, r).used
  BY <1>8 DEF Holds
<1>12. \A o : o \in DOMAIN Store(d) <=> o \in DOMAIN Store(c)
  BY <1>2, <1>10 DEF MapIs
<1>13. \A o \in DOMAIN Store(c) : Store(d)[o] = Store(c)[o]
  BY <1>2, <1>10, <1>11 DEF MapIs
<1>14. option \in DOMAIN Store(c) /\ Store(c)[option] = c.secs[i].param[p].text /\ option \in AskedIn(d)
  BY <1>1, <1>2, <1>10, <1>11 DEF MapIs, ParamOf
<1>15. ASSUME NEW o \in DOMAIN Store(c), o # option
       PROVE  o \in AskedIn(d) <=> o \in AskedIn(c)
  <2>1. PICK j, r : Holds(c, o, j, r)
    BY <1>2 DEF MapIs
  <2>2. ~(j = i /\ r = p)
    BY <1>1, <1>15, <2>1 DEF Holds
  <2>3. ParamOf(d, j, r).used = ParamOf(c, j, r).used
    BY <1>11, <2>1, <2>2
  <2> QED
    BY <1>2, <1>10, <2>1, <2>3 DEF MapIs
<1>16. Store(d) = Store(c)
  BY <1>2, <1>12, <1>13 DEF MapIs
<1>17. \A o : o \in AskedIn(d) <=> o \in AskedIn(c) \/ o = option
  <2>1. AskedIn(d) \subseteq DOMAIN Store(c) /\ AskedIn(c) \subseteq DOMAIN Store(c)
    BY <1>2, <1>16 DEF MapIs
  <2> QED
    BY <1>14, <1>15, <2>1
<1> QED
  BY <1>14, <1>16, <1>17 DEF option
PutIn(c, option, text, d) ==
  /\ Store(d) = [o \in DOMAIN Store(c) \cup {option} |-> IF o = option THEN text ELSE Store(c)[o]]
  /\ AskedIn(d) = AskedIn(c) \ {option}

\* A parameter that was added, and not lost, is the text of its option, not asked for yet.
LEMMA AddedMap ==
  ASSUME ConfAssumption, NEW c \in ConfSet, Sound(c), NEW i \in DOMAIN c.secs, NEW key \in Keys, NEW text,
         NEW r, AddParamIs(c, i, key, text, r), r.ok, ~r.lost
  PROVE  PutIn(c, <<c.secs[i].name, Fold[key]>>, text, r.c)
<1> DEFINE d == r.c
           name == c.secs[i].name
           option == <<name, Fold[key]>>
<1>1. /\ d \in ConfSet /\ Sound(d) /\ DOMAIN d.secs = DOMAIN c.secs
      /\ \A j \in DOMAIN c.secs : d.secs[j].name = c.secs[j].name
      /\ \A j \in DOMAIN c.secs \ {i} : d.secs[j].param = c.secs[j].param
      /\ SetIn(c.secs[i].param, d.secs[i].param, key, text)
  BY DEF AddParamIs
<1> HIDE DEF d
<1>2. MapIs(c) /\ MapIs(d)
  BY <1>1, MapOf
<1>3. PICK p \in DOMAIN d.secs[i].param :
        /\ d.secs[i].param[p] = NewParam(key, text)
        /\ \A o \in DOMAIN d.secs[i].param \ {p} :
             /\ o \in DOMAIN c.secs[i].param /\ d.secs[i].param[o] = c.secs[i].param[o]
             /\ ~Same(d.secs[i].param[o].key, key)
        /\ \A o \in DOMAIN c.secs[i].param :
             o \in DOMAIN d.secs[i].param /\ (o = p => Same(c.secs[i].param[o].key, key))
  BY <1>1 DEF SetIn
<1>4. \A j \in DOMAIN c.secs : c.secs[j].name = name => j = i
  BY DEF Sound, SecsSound
<1>5. ParamOf(d, i, p).key = key /\ ParamOf(d, i, p).text = text /\ ParamOf(d, i, p).used = FALSE
  BY <1>3 DEF ParamOf, NewParam
<1>6. Holds(d, option, i, p)
  <2>1. IsAt(d, name, key, i, p)
    BY <1>1, <1>3, <1>5 DEF IsAt, ParamOf, Same
  <2> QED
    BY <1>1, <2>1, AtIs
<1>7. ASSUME NEW j, NEW q, ~(j = i /\ q = p), j \in DOMAIN d.secs, q \in DOMAIN d.secs[j].param
      PROVE  /\ j \in DOMAIN c.secs /\ q \in DOMAIN c.secs[j].param /\ ParamOf(d, j, q) = ParamOf(c, j, q)
             /\ ~IsAt(d, name, key, j, q)
  <2>1. CASE j = i
    BY <1>1, <1>3, <1>7, <2>1 DEF ParamOf, IsAt
  <2>2. CASE j # i
    BY <1>1, <1>4, <1>7, <2>2 DEF ParamOf, IsAt
  <2> QED
    BY <2>1, <2>2
<1>8. ASSUME NEW j \in DOMAIN c.secs, NEW q \in DOMAIN c.secs[j].param
      PROVE  /\ j \in DOMAIN d.secs /\ q \in DOMAIN d.secs[j].param
             /\ (j = i /\ q = p) => IsAt(c, name, key, j, q)
  <2>1. CASE j = i
    BY <1>1, <1>3, <2>1 DEF IsAt
  <2>2. CASE j # i
    BY <1>1, <2>2
  <2> QED
    BY <2>1, <2>2
\* The other options are held as before.
<1>9. ASSUME NEW o, NEW j, NEW q, Holds(d, o, j, q), o # option
      PROVE  Holds(c, o, j, q) /\ ParamOf(d, j, q) = ParamOf(c, j, q)
  <2>1. ~(j = i /\ q = p)
    BY <1>6, <1>9 DEF Holds
  <2>2. /\ j \in DOMAIN c.secs /\ q \in DOMAIN c.secs[j].param /\ ParamOf(d, j, q) = ParamOf(c, j, q)
        /\ d.secs[j].name = c.secs[j].name
    BY <1>1, <1>7, <1>9, <2>1 DEF Holds
  <2>3. OptionOf(c, <<j, q>>) = OptionOf(d, <<j, q>>)
    BY <2>2 DEF OptionOf, ParamOf
  <2> QED
    BY <1>9, <2>2, <2>3 DEF Holds
<1>10. ASSUME NEW o, NEW j, NEW q, Holds(c, o, j, q), o # option
       PROVE  Holds(d, o, j, q)
  <2>1. j \in DOMAIN c.secs /\ q \in DOMAIN c.secs[j].param
    BY <1>10 DEF Holds
  <2>2. ~(j = i /\ q = p)
    <3>1. ~IsAt(c, name, key, j, q)
      <4> SUFFICES ASSUME IsAt(c, name, key, j, q) PROVE FALSE
        OBVIOUS
      <4>1. Holds(c, option, j, q)
        BY AtIs
      <4> QED
        BY <1>10, <4>1 DEF Holds
    <3> QED
      BY <1>8, <2>1, <3>1
  <2>3. /\ j \in DOMAIN d.secs /\ q \in DOMAIN d.secs[j].param /\ ParamOf(d, j, q) = ParamOf(c, j, q)
        /\ d.secs[j].name = c.secs[j].name
    BY <1>1, <1>7, <1>8, <2>1, <2>2
  <2>4. OptionOf(c, <<j, q>>) = OptionOf(d, <<j, q>>)
    BY <2>3 DEF OptionOf, ParamOf
  <2> QED
    BY <1>10, <2>3, <2>4 DEF Holds
<1>11. option \in DOMAIN Store(d) /\ Store(d)[option] = text /\ option \notin AskedIn(d)
  BY <1>2, <1>5, <1>6 DEF MapIs
<1> HIDE DEF option
<1>12. \A o : o # option => (o \in DOMAIN Store(d) <=> o \in DOMAIN Store(c))
  BY <1>2, <1>9, <1>10 DEF MapIs
<1>13. ASSUME NEW o \in DOMAIN Store(c), o # option
       PROVE  Store(d)[o] = Store(c)[o] /\ (o \in AskedIn(d) <=> o \in AskedIn(c))
  <2>1. PICK j, q : Holds(c, o, j, q)
    BY <1>2 DEF MapIs
  <2>2. Holds(d, o, j, q) /\ ParamOf(d, j, q) = ParamOf(c, j, q)
    BY <1>9, <1>10, <1>13, <2>1
  <2> QED
    BY <1>2, <2>1, <2>2 DEF MapIs
<1> DEFINE next == [o \in DOMAIN Store(c) \cup {option} |-> IF o = option THEN text ELSE Store(c)[o]]
<1>14. Store(d) = next
  <2>1. \A o : o \in DOMAIN Store(d) <=> o \in DOMAIN Store(c) \cup {option}
    BY <1>11, <1>12
  <2>2. DOMAIN Store(d) = DOMAIN next
    BY <2>1
  <2>3. \A o \in DOMAIN next : Store(d)[o] = next[o]
    BY <1>11, <1>13
  <2> HIDE DEF next
  <2>4. next = [o \in DOMAIN next |-> next[o]]
    BY DEF next
  <2> QED
    BY <1>2, <2>2, <2>3, <2>4 DEF MapIs
<1>15. \A o : o \in AskedIn(d) <=> o \in AskedIn(c) /\ o # option
  BY <1>2, <1>11, <1>12, <1>13 DEF MapIs
<1> QED
  BY <1>14, <1>15 DEF PutIn, d, option

\* st_conf_check answers what the map says.
LEMMA CheckedMap ==
  ASSUME ConfAssumption, NEW c \in ConfSet, Sound(c)
  PROVE  Unused(c) = {} <=> DOMAIN Store(c) \subseteq AskedIn(c)
<1>1. MapIs(c)
  BY MapOf
<1>2. Unused(c) = {} <=> \A i \in DOMAIN c.secs : \A p \in DOMAIN c.secs[i].param : ParamOf(c, i, p).used
  BY DEF Unused, ParamOf
<1>3. \A o, i, p : Holds(c, o, i, p) => i \in DOMAIN c.secs /\ p \in DOMAIN c.secs[i].param
  BY DEF Holds
<1>4. \A i \in DOMAIN c.secs : \A p \in DOMAIN c.secs[i].param : Holds(c, OptionOf(c, <<i, p>>), i, p)
  BY DEF Holds
<1> QED
  BY <1>1, <1>2, <1>3, <1>4 DEF MapIs

\* A configuration that was just created is the empty map.
LEMMA CreatedMap ==
  ASSUME ConfAssumption, NEW c \in ConfSet, Sound(c), SameParams(NoConf, c)
  PROVE  Store(c) = << >> /\ AskedIn(c) = {}
<1>1. DOMAIN NoConf.secs = {}
  BY DEF NoConf
<1>2. \A i \in DOMAIN c.secs : DOMAIN c.secs[i].param = {}
  BY <1>1 DEF SameParams
<1>3. MapIs(c)
  BY MapOf
<1>4. DOMAIN Store(c) = {}
  BY <1>2, <1>3 DEF MapIs, Holds
<1>5. Store(c) = << >>
  BY <1>3, <1>4 DEF MapIs
<1> QED
  BY <1>3, <1>4, <1>5 DEF MapIs
-----------------------------------------------------------------------------
(* The steps of the loader are those of the map.                            *)

MapStep == [A!ANext \/ lost' \/ failed' \/ fault']_(A!avars)

LEMMA OtherStep ==
  ASSUME answer' = Other, Store(conf') = Store(conf), AskedIn(conf') = AskedIn(conf)
  PROVE  MapStep
BY DEF MapStep, A!ANext, A!Other, Other

LEMMA LoadStep == ASSUME ConfInv, st_conf_load PROVE MapStep
<1>1. conf \in ConfSet /\ Sound(conf)
  BY DEF st_conf_load, InUse, Idle, ConfInv, ConfTypes
<1>2. st_conf_get_sec(conf, DEF_SEC_NAME).c = conf
  BY <1>1 DEF st_conf_get_sec, SecsLost, Sound, Result
<1>3. conf' = conf /\ answer' = Other
  BY <1>2 DEF st_conf_load, After
<1> QED
  BY <1>3, OtherStep

LEMMA HeadingStep ==
  ASSUME ConfInv, NEW label \in Labels, NEW opens \in BOOLEAN, LoadHeading(label, opens)
  PROVE  MapStep
<1> DEFINE name == Heading(Top, label)
<1>1. /\ stack # << >> /\ Top \in FrameSet /\ Sound(conf) /\ conf \in ConfSet /\ answer' = Other
  BY TopFrame DEF LoadHeading, ReadLine, Running
<1>2. name \in Seq(Labels)
  BY <1>1 DEF Heading, FrameSet
<1>3. Open(conf)
  BY <1>1 DEF Open, Sound
<1> HIDE DEF name
<1>4. CASE Top.parent # NullPointer /\ ~Live(Top.parent)
  BY <1>4 DEF LoadHeading, MapStep
<1>5. CASE ~(Top.parent # NullPointer /\ ~Live(Top.parent))
  <2>1. PICK a : LET r == st_conf_new_sec(conf, name, a) IN After(r) /\ failed' = (failed \/ ~r.ok)
    BY <1>5 DEF LoadHeading, name
  <2> DEFINE r == st_conf_new_sec(conf, name, a)
  <2>2. NewSecIs(conf, name, r)
    BY <1>2, <1>3, NewSec, ConfAssumption
  <2> HIDE DEF r
  <2>3. CASE ~r.ok
    <3>1. failed'
      BY <2>1, <2>3 DEF r
    <3> QED
      BY <3>1 DEF MapStep
  <2>4. CASE r.ok
    <3>1. conf' = r.c /\ r.c \in ConfSet /\ Sound(r.c) /\ SameParams(conf, r.c)
      BY <2>1, <2>2, <2>4 DEF After, NewSecIs, r
    <3>2. Store(r.c) = Store(conf) /\ AskedIn(r.c) = AskedIn(conf)
      BY <1>1, <3>1, SameMap, ConfAssumption
    <3> QED
      BY <1>1, <3>1, <3>2, OtherStep
  <2> QED
    BY <2>3, <2>4
<1> QED
  BY <1>4, <1>5

LEMMA ParamStep ==
  ASSUME ConfInv, NEW key \in FileKeys, NEW text \in FileTexts, LoadParam(key, text)
  PROVE  MapStep
<1>1. /\ stack # << >> /\ FramePoints(Top, conf) /\ Sound(conf) /\ conf \in ConfSet /\ key \in Keys
      /\ text \in Texts
  BY TopFrame, LoaderAssumption DEF LoadParam, ReadLine, Running
<1>2. CASE ~Live(Top.cur)
  BY <1>2 DEF LoadParam, MapStep
<1>3. CASE Live(Top.cur)
  <2> DEFINE i == Top.cur.at
             option == <<Top.here, Fold[key]>>
  <2>1. PICK a : LET r == st_conf_add_param(conf, i, key, text, a)
                 IN /\ After(r) /\ failed' = (failed \/ ~r.ok)
                    /\ answer' = [call |-> "put", option |-> option, text |-> text]
    BY <1>3 DEF LoadParam
  <2> DEFINE r == st_conf_add_param(conf, i, key, text, a)
  <2>2. i \in DOMAIN conf.secs /\ Top.here = conf.secs[i].name
    BY <1>1 DEF FramePoints
  <2>3. AddParamIs(conf, i, key, text, r)
    BY <1>1, <2>2, AddParam, ConfAssumption
  <2> HIDE DEF r
  <2>4. conf' = r.c /\ lost' = r.lost
    BY <2>1 DEF After, r
  <2>5. CASE ~r.ok
    <3>1. failed'
      BY <2>1, <2>5 DEF r
    <3> QED
      BY <3>1 DEF MapStep
  <2>6. CASE r.lost
    BY <2>4, <2>6 DEF MapStep
  <2>7. CASE r.ok /\ ~r.lost
    <3>1. PutIn(conf, option, text, conf')
      BY <1>1, <2>2, <2>3, <2>4, <2>7, AddedMap, ConfAssumption
    <3>2. answer'.call = "put" /\ answer'.option = option /\ answer'.text = text
      BY <2>1
    <3> HIDE DEF option
    <3>3. A!Put
      BY <3>1, <3>2 DEF A!Put, PutIn
    <3> QED
      BY <3>3 DEF MapStep, A!ANext
  <2> QED
    BY <2>5, <2>6, <2>7
<1> QED
  BY <1>2, <1>3

LEMMA AskStep ==
  ASSUME ConfInv, NEW type, NEW name \in Names, NEW key \in FileKeys, NEW d \in BOOLEAN, Ask(type, name, key, d)
  PROVE  MapStep
<1>1. ~failed /\ conf \in ConfSet /\ Sound(conf) /\ key \in Keys
  BY LoaderAssumption DEF Ask, InUse, Idle, ConfInv, ConfTypes
<1> DEFINE option == <<name, Fold[key]>>
<1>2. PICK a : /\ After(AnswerOf(type, name, key, d, a))
               /\ failed' = (failed \/ (d /\ ~AnswerOf(type, name, key, d, a).ok))
               /\ answer' = [call |-> "get", option |-> option, text |-> AnswerOf(type, name, key, d, a).text]
  BY DEF Ask, AnswerOf
<1> DEFINE r == AnswerOf(type, name, key, d, a)
<1>3. AskIs(conf, name, key, d, r)
  BY <1>1, AnswerIs
<1> HIDE DEF r
<1>4. conf' = r.c /\ answer'.call = "get" /\ answer'.option = option /\ answer'.text = r.text
  BY <1>2 DEF After, r
<1>5. CASE d /\ ~r.ok
  <2>1. failed'
    BY <1>2, <1>5 DEF r
  <2> QED
    BY <2>1 DEF MapStep
<1>6. CASE ~(d /\ ~r.ok)
  <2>1. r.c \in ConfSet /\ Sound(r.c)
    BY <1>3, <1>6 DEF AskIs
  <2>2. ASSUME r.text = NotSet, SameParams(conf, r.c), \A i, p : ~IsAt(conf, name, key, i, p)
        PROVE  A!Get
    <3>1. Store(r.c) = Store(conf) /\ AskedIn(r.c) = AskedIn(conf)
      BY <1>1, <2>1, <2>2, SameMap, ConfAssumption
    <3>2. \A i, p : ~Holds(conf, option, i, p)
      BY <1>1, <2>2, AtIs, ConfAssumption
    <3> HIDE DEF option
    <3>3. option \notin DOMAIN Store(conf)
      BY <1>1, <3>2, MapOf, ConfAssumption DEF MapIs
    <3> QED
      BY <1>4, <2>2, <3>1, <3>3 DEF A!Get
  <2>3. ASSUME NEW i, NEW p, NEW m, IsAt(conf, name, key, i, p), m \in ConfSet, Marked(conf, i, p, m),
               SameParams(m, r.c), r.text = conf.secs[i].param[p].text
        PROVE  A!Get
    <3>1. i \in DOMAIN conf.secs /\ p \in DOMAIN conf.secs[i].param /\ conf.secs[i].param[p].key # Blank
      BY <1>1, <2>3, ConfAssumption DEF IsAt, Same, ConfAssumption
    <3>2. Sound(m)
      BY <1>1, <2>3, <3>1, MarkedSound, ConfAssumption
    <3>3. /\ option \in DOMAIN Store(conf) /\ Store(conf)[option] = r.text
          /\ Store(m) = Store(conf) /\ AskedIn(m) = AskedIn(conf) \cup {option}
      BY <1>1, <2>3, <3>2, MarkedMap, ConfAssumption
    <3>4. Store(r.c) = Store(m) /\ AskedIn(r.c) = AskedIn(m)
      BY <2>1, <2>3, <3>2, SameMap, ConfAssumption
    <3>5. r.text # NotSet
      BY <1>1, <2>3, <3>1, SecOf, ConfAssumption DEF ParamSet, ConfAssumption
    <3> HIDE DEF option
    <3> QED
      BY <1>4, <3>3, <3>4, <3>5 DEF A!Get
  <2>4. A!Get
    BY <1>3, <2>2, <2>3 DEF AskIs
  <2> QED
    BY <2>4 DEF MapStep, A!ANext
<1> QED
  BY <1>5, <1>6

LEMMA CheckStep == ASSUME ConfInv, Check PROVE MapStep
<1>1. conf \in ConfSet /\ Sound(conf)
  BY DEF Check, InUse, Idle, ConfInv, ConfTypes
<1>2. st_conf_check(conf) = Result(conf, 0, Unused(conf) = {})
  BY <1>1, CheckIs
<1>3. conf' = conf /\ answer'.call = "check" /\ answer'.ret = (Unused(conf) = {})
  BY <1>2 DEF Check, After, Result
<1>4. Unused(conf) = {} <=> DOMAIN Store(conf) \subseteq AskedIn(conf)
  BY <1>1, CheckedMap, ConfAssumption
<1>5. A!Check
  BY <1>3, <1>4 DEF A!Check
<1> QED
  BY <1>5 DEF MapStep, A!ANext

LEMMA DestroyStep == ASSUME ConfInv, Destroy PROVE MapStep
<1> DEFINE r == st_conf_destroy(conf)
<1>1. CASE r.fault
  <2>1. fault'
    BY <1>1 DEF Destroy, After
  <2> QED
    BY <2>1 DEF MapStep
<1>2. CASE ~r.fault
  <2>1. PICK a : st_conf_create(a).ok /\ After(st_conf_create(a))
    BY <1>2 DEF Destroy
  <2>2. NewSecIs(NoConf, DEF_SEC_NAME, st_conf_create(a))
    BY CreateConf, ConfAssumption
  <2>3. conf' \in ConfSet /\ Sound(conf') /\ SameParams(NoConf, conf')
    BY <2>1, <2>2 DEF NewSecIs, After
  <2>4. Store(conf') = << >> /\ AskedIn(conf') = {}
    BY <2>3, CreatedMap, ConfAssumption
  <2>5. answer'.call = "destroy"
    BY DEF Destroy
  <2>6. A!Destroy
    BY <2>4, <2>5 DEF A!Destroy, A!AInit
  <2> QED
    BY <2>6 DEF MapStep, A!ANext
<1> QED
  BY <1>1, <1>2

LEMMA NextStep == ASSUME ConfInv, [Next]_vars PROVE MapStep
<1>1. CASE UNCHANGED vars
  BY <1>1 DEF vars, MapStep, A!avars
<1>2. CASE LoadBadLine
  BY <1>2, OtherStep DEF LoadBadLine
<1>3. CASE EndOfFile
  BY <1>3, OtherStep DEF EndOfFile
<1> QED
  BY <1>1, <1>2, <1>3, LoadStep, HeadingStep, ParamStep, AskStep, CheckStep, DestroyStep DEF Next

LEMMA InitMap == ASSUME Init PROVE A!AInit
<1>1. PICK a : st_conf_create(a).ok /\ conf = st_conf_create(a).c
  BY DEF Init
<1>2. NewSecIs(NoConf, DEF_SEC_NAME, st_conf_create(a))
  BY CreateConf, ConfAssumption
<1>3. conf \in ConfSet /\ Sound(conf) /\ SameParams(NoConf, conf)
  BY <1>1, <1>2 DEF NewSecIs
<1>4. Store(conf) = << >> /\ AskedIn(conf) = {}
  BY <1>3, CreatedMap, ConfAssumption
<1> QED
  BY <1>4 DEF A!AInit

\* ImplementsConfiguration: the arrays are the map they stand for.  An option has the
\* text it was given last under its heading, however its key is spelt, and
\* st_conf_check answers whether all that is set was asked for since.  Excepted are the
\* steps in which the parameter is written to an array that was moved, and those after
\* a failed allocation or the use of a stale pointer.
THEOREM ConfImplementsMap == Spec => ImplementsConfiguration
<1>1. ConfInv /\ [Next]_vars => MapStep
  BY NextStep
<1> QED
  BY <1>1, InitMap, ConfInvariant, PTL DEF Spec, ImplementsConfiguration, MapStep

-----------------------------------------------------------------------------
(* The options: what a recursion over a sequence makes of its first n.      *)

LEMMA MostOf ==
  ASSUME NEW n \in Nat, NEW T, T \subseteq 1 .. n, T # {}
  PROVE  Max(T) \in T /\ \A y \in T : y <= Max(T)
<1> DEFINE R == {n - y : y \in T}
           x == n - Min(R)
<1>1. R \subseteq Nat /\ R # {}
  <2>1. \A y \in T : y \in 1 .. n /\ n - y \in Nat
    OBVIOUS
  <2> QED
    BY <2>1
<1> HIDE DEF R
<1>2. Min(R) \in R /\ \A y \in R : Min(R) <= y
  <2>1. Min(R) \in R
    BY <1>1, LeastOf
  <2>2. \E m \in R : \A y \in R : m <= y
    <3>1. PICK m \in R : \A y \in R : <<y, m>> \notin OpToRel(<, Nat)
      BY <1>1, NatLessThanWellFounded, WFMin, Zenon
    <3>2. \A y \in R : ~(y < m)
      BY <1>1, <3>1 DEF OpToRel
    <3> QED
      BY <1>1, <3>2
  <2> QED
    BY <2>2 DEF Min
<1>3. x \in T /\ \A y \in T : y <= x
  <2>1. PICK z \in T : Min(R) = n - z
    BY <1>2 DEF R
  <2>2. x = z
    BY <2>1
  <2>3. \A y \in T : n - z <= n - y
    BY <1>2, <2>1 DEF R
  <2> QED
    BY <2>2, <2>3
<1> HIDE DEF x
<1> QED
  BY <1>3 DEF Max

\* What a recursion makes of n steps, from b.
Recursion(f, n, b, step) == f = [i \in 0 .. n |-> IF i = 0 THEN b ELSE step[<<f[i - 1], i>>]]

LEMMA RecursionExists ==
  ASSUME NEW n \in Nat, NEW S, NEW b \in S, NEW step \in [S \X (1 .. n) -> S]
  PROVE  \E f \in [0 .. n -> S] : Recursion(f, n, b, step)
<1> DEFINE Exists(m) == \E f \in [0 .. m -> S] : Recursion(f, m, b, step)
           T == {m \in 0 .. n : ~Exists(m)}
<1> HIDE DEF Exists
<1>1. SUFFICES ASSUME T # {} PROVE FALSE
  BY DEF Exists
<1> DEFINE x == Min(T)
<1>2. x \in 0 .. n /\ ~Exists(x) /\ \A m \in 0 .. n : ~Exists(m) => x <= m
  <2>1. T \subseteq Nat
    OBVIOUS
  <2>2. x \in T /\ \A m \in T : x <= m
    <3> HIDE DEF T
    <3>1. \E y \in T : \A m \in T : y <= m
      <4>1. PICK y \in T : \A m \in T : <<m, y>> \notin OpToRel(<, Nat)
        BY <1>1, <2>1, NatLessThanWellFounded, WFMin, Zenon
      <4>2. \A m \in T : ~(m < y)
        BY <2>1, <4>1 DEF OpToRel
      <4> QED
        BY <2>1, <4>2
    <3> QED
      BY <3>1 DEF Min
  <2> HIDE DEF x
  <2> QED
    BY <2>2
<1> HIDE DEF x
<1>3. CASE x = 0
  <2> DEFINE f == [i \in 0 .. 0 |-> b]
  <2>1. f \in [0 .. 0 -> S] /\ f = [i \in 0 .. 0 |-> IF i = 0 THEN b ELSE step[<<f[i - 1], i>>]]
    OBVIOUS
  <2> HIDE DEF f
  <2>2. Exists(0)
    BY <2>1 DEF Exists, Recursion
  <2> QED
    BY <1>2, <1>3, <2>2
<1>4. CASE x # 0
  <2>1. PICK y \in 0 .. n : x = y + 1 /\ ~(x <= y) /\ x \in 1 .. n
    <3>1. x - 1 \in 0 .. n /\ x = (x - 1) + 1 /\ ~(x <= x - 1) /\ x \in 1 .. n
      BY <1>2, <1>4
    <3> QED
      BY <3>1
  <2>2. Exists(y)
    BY <1>2, <2>1
  <2>3. PICK g \in [0 .. y -> S] : g = [i \in 0 .. y |-> IF i = 0 THEN b ELSE step[<<g[i - 1], i>>]]
    BY <2>2 DEF Exists, Recursion
  <2>4. \A i \in 0 .. y : g[i] = IF i = 0 THEN b ELSE step[<<g[i - 1], i>>]
    BY <2>3
  <2> DEFINE f == [i \in 0 .. x |-> IF i = x THEN step[<<g[y], x>>] ELSE g[i]]
  <2>5. ASSUME NEW i \in 0 .. x PROVE f[i] \in S /\ f[i] = IF i = 0 THEN b ELSE step[<<f[i - 1], i>>]
    <3>1. CASE i = x
      <4>1. g[y] \in S /\ y \in 0 .. x /\ y # x /\ i - 1 = y /\ i # 0
        BY <2>1, <3>1
      <4>2. f[y] = g[y] /\ f[i] = step[<<g[y], x>>]
        BY <3>1, <4>1
      <4>3. f[i] \in S
        BY <2>1, <4>1, <4>2
      <4> QED
        BY <3>1, <4>1, <4>2, <4>3
    <3>2. CASE i # x
      <4>1. i \in 0 .. y /\ (i # 0 => i - 1 \in 0 .. y /\ i - 1 \in 0 .. x /\ i - 1 # x)
        BY <2>1, <3>2
      <4>2. f[i] = g[i] /\ (i # 0 => f[i - 1] = g[i - 1]) /\ g[i] \in S
        BY <3>2, <4>1
      <4> QED
        BY <2>4, <4>1, <4>2
    <3> QED
      BY <3>1, <3>2
  <2>6. f = [i \in 0 .. x |-> f[i]]
    OBVIOUS
  <2> HIDE DEF f
  <2>7. f \in [0 .. x -> S] /\ f = [i \in 0 .. x |-> IF i = 0 THEN b ELSE step[<<f[i - 1], i>>]]
    BY <2>5, <2>6
  <2>8. Exists(x)
    BY <2>7 DEF Exists, Recursion
  <2> QED
    BY <1>2, <2>8
<1> QED
  BY <1>3, <1>4

\* A recursion that satisfies a condition at its start and keeps it at each step does so.
LEMMA RecursionKeeps ==
  ASSUME NEW n \in Nat, NEW Good \in SUBSET (0 .. n), 0 \in Good,
         \A i \in 1 .. n : i - 1 \in Good => i \in Good
  PROVE  Good = 0 .. n
<1> DEFINE T == (0 .. n) \ Good
<1>1. SUFFICES ASSUME T # {} PROVE FALSE
  OBVIOUS
<1>2. T \subseteq Nat
  OBVIOUS
<1> HIDE DEF T
<1>3. PICK x \in T : \A m \in T : <<m, x>> \notin OpToRel(<, Nat)
  BY <1>1, <1>2, NatLessThanWellFounded, WFMin, Zenon
<1>4. \A m \in T : ~(m < x)
  BY <1>2, <1>3 DEF OpToRel
<1> QED
  BY <1>4 DEF T

-----------------------------------------------------------------------------
(* Where nothing fails to be allocated every call succeeds.                 *)

LEMMA WaysAre == ASSUME NEW a \in Ways PROVE \A x \in Arrays : a[x] # "fails"
BY DEF Ways, Arrays

LEMMA RoomFound ==
  ASSUME NEW s, NEW a \in Ways, s \in SecSet
  PROVE  resize_sec(s, a).ok = TRUE
<1>1. a["param"] # "fails" /\ a["def_param"] # "fails"
  BY WaysAre DEF Arrays
<1> DEFINE grow == NeedsRoom(Len(s.param), s.param_cap)
           growDef == NeedsRoom(s.def_num, s.def_cap)
           p == IF grow THEN [s EXCEPT !.param_cap = @ + PARAM_NUM, !.param_null = (a["param"] = "fails")] ELSE s
           d == IF growDef THEN [p EXCEPT !.def_cap = @ + PARAM_NUM, !.def_null = (a["def_param"] = "fails")] ELSE p
           r == resize_sec(s, a)
<1>2. r = IF grow /\ p.param_null THEN [sec |-> p, ok |-> FALSE] ELSE [sec |-> d, ok |-> ~(growDef /\ d.def_null)]
  BY DEF resize_sec
<1>3. grow => p.param_null = FALSE
  BY <1>1 DEF SecSet
<1>4. growDef => d.def_null = FALSE
  <2>1. "def_null" \in DOMAIN p
    BY DEF SecSet
  <2> HIDE DEF p
  <2> QED
    BY <1>1, <2>1
<1> HIDE DEF p, d, r
<1>5. r = [sec |-> d, ok |-> ~(growDef /\ d.def_null)]
  BY <1>2, <1>3
<1>6. ~(growDef /\ d.def_null)
  BY <1>4
<1>7. r.ok = TRUE
  BY <1>5, <1>6
<1> QED
  BY <1>7 DEF r

LEMMA NewSecFound ==
  ASSUME NEW c, Open(c), NEW name \in Seq(Labels), NEW a \in Ways
  PROVE  st_conf_new_sec(c, name, a).ok = TRUE
<1> DEFINE full == Len(c.secs) >= c.sec_cap
           more == [c EXCEPT !.sec_cap = @ + SEC_NUM, !.null = (a["secs"] = "fails"),
                             !.gen = IF a["secs"] = "moves" /\ c.secs # << >> THEN @ + 1 ELSE @]
           room == IF full THEN more ELSE c
           fresh == [FreshSec EXCEPT !.name = name]
           r == resize_sec(fresh, a)
           with == [room EXCEPT !.secs = Append(@, r.sec)]
           result == st_conf_new_sec(c, name, a)
<1>1. ~SecsLost(c)
  BY DEF Open, SecsLost
<1>2. full => room.null = FALSE
  <2>1. a["secs"] # "fails"
    BY WaysAre DEF Arrays
  <2> QED
    BY <2>1 DEF Open, ConfSet
<1>3. fresh \in SecSet
  <2>1. << >> \in Seq(ParamSet)
    OBVIOUS
  <2> QED
    BY <2>1 DEF FreshSec, SecSet
<1>4. r.ok = TRUE
  <2> HIDE DEF fresh
  <2> QED
    BY <1>3, RoomFound
<1>5. result = IF SecAt(c, name) # 0 THEN Result(c, SecAt(c, name), TRUE)
               ELSE IF full /\ room.null THEN Result(room, 0, FALSE)
               ELSE IF ~r.ok THEN Result(room, 0, FALSE)
               ELSE Result(with, Len(c.secs) + 1, TRUE)
  BY <1>1 DEF st_conf_new_sec
<1> HIDE DEF full, room, r, with, result
<1>6. result.ok = TRUE
  BY <1>2, <1>4, <1>5 DEF Result
<1> QED
  BY <1>6 DEF result

\* What a call of st_conf_add_param is that was not denied an array.
PlainResult(r, at) ==
  \E b \in BOOLEAN : r = [c |-> r.c, at |-> at, ok |-> TRUE, text |-> NotSet, value |-> Unset,
                          fault |-> FALSE, lost |-> b]

LEMMA PlainSays ==
  ASSUME NEW r, NEW at, PlainResult(r, at)
  PROVE  r.ok = TRUE /\ r.lost \in BOOLEAN
BY DEF PlainResult

LEMMA AddFound ==
  ASSUME NEW c \in ConfSet, Sound(c), NEW i \in DOMAIN c.secs, NEW key, NEW text, NEW a \in Ways
  PROVE  PlainResult(st_conf_add_param(c, i, key, text, a), i)
<1> DEFINE s == c.secs[i]
           at == ParamAt(s, key)
           new == [key |-> key, text |-> text, used |-> FALSE]
           blank == [s EXCEPT !.param = Append(@, BlankParam)]
           z == resize_sec(blank, a)
           w == WrittenTo(s, z.sec, new, a)
           With(sec) == [c EXCEPT !.secs[i] = sec]
           e == With([s EXCEPT !.param[at] = Overwritten(@, new)])
           r == st_conf_add_param(c, i, key, text, a)
<1>1. s \in SecSet /\ s.param \in Seq(ParamSet) /\ s.param_null = FALSE
  <2>1. s \in SecSet /\ s.param \in Seq(ParamSet)
    BY SecOf
  <2>2. SecSound(s)
    BY DEF Sound, SecsSound
  <2> HIDE DEF s
  <2>3. s.param_null \in BOOLEAN /\ ~s.param_null
    BY <2>1, <2>2 DEF SecSet, SecSound
  <2> QED
    BY <2>1, <2>3
<1>2. blank \in SecSet
  <2>1. BlankParam \in ParamSet
    BY DEF BlankParam, ParamSet
  <2> DEFINE q == Append(s.param, BlankParam)
  <2>3. blank = [s EXCEPT !.param = q]
    OBVIOUS
  <2> HIDE DEF s, blank
  <2>2. q \in Seq(ParamSet)
    BY <1>1, <2>1
  <2> HIDE DEF q
  <2> QED
    BY <1>1, <2>2, <2>3 DEF SecSet
<1>3. z.ok = TRUE
  <2> HIDE DEF blank
  <2> QED
    BY <1>2, RoomFound
<1>4. w.lost \in BOOLEAN
  BY DEF WrittenTo
<1>5. r = IF s.param_null THEN Fault(c)
          ELSE IF at # 0 THEN Result(e, i, TRUE)
          ELSE IF ~z.ok THEN Result(With(z.sec), i, FALSE)
          ELSE [Result(With(w.sec), i, TRUE) EXCEPT !.lost = w.lost]
  BY DEF st_conf_add_param
<1> HIDE DEF s, z, w, e, at
<1>6. CASE at # 0
  <2>1. r = Result(e, i, TRUE)
    BY <1>1, <1>5, <1>6
  <2> HIDE DEF r
  <2>2. r = [c |-> r.c, at |-> i, ok |-> TRUE, text |-> NotSet, value |-> Unset, fault |-> FALSE, lost |-> FALSE]
    BY <2>1 DEF Result
  <2>3. PlainResult(r, i)
    BY <2>2 DEF PlainResult
  <2> QED
    BY <2>3 DEF r
<1>7. CASE at = 0
  <2> DEFINE v == With(w.sec)
  <2>1. r = [Result(v, i, TRUE) EXCEPT !.lost = w.lost]
    BY <1>1, <1>3, <1>5, <1>7
  <2> HIDE DEF r, v
  <2>2. r = [c |-> r.c, at |-> i, ok |-> TRUE, text |-> NotSet, value |-> Unset, fault |-> FALSE, lost |-> w.lost]
    BY <2>1 DEF Result
  <2>3. PlainResult(r, i)
    BY <1>4, <2>2 DEF PlainResult
  <2> QED
    BY <2>3 DEF r
<1> QED
  BY <1>6, <1>7

-----------------------------------------------------------------------------
(* What the options ask a configuration, in terms of the texts it holds.    *)

TextOf(c, o) == IF o \in DOMAIN Store(c) THEN Store(c)[o] ELSE NotSet

AddToSays(c, o, text, r) ==
  /\ PlainResult(r, r.at) /\ r.at \in Nat /\ r.c \in ConfSet /\ Sound(r.c)
  /\ r.lost = FALSE => \A x : TextOf(r.c, x) = IF x = o THEN text ELSE TextOf(c, x)

LEMMA AddToIs ==
  ASSUME ConfAssumption, NEW c \in ConfSet, Sound(c), NEW name \in Seq(Labels), NEW key \in Keys,
         NEW text \in Texts, NEW a \in Ways
  PROVE  AddToSays(c, <<name, Fold[key]>>, text, AddTo(c, name, key, text, a))
<1> DEFINE sec == st_conf_new_sec(c, name, a)
           r == st_conf_add_param(sec.c, sec.at, key, text, a)
           o == <<name, Fold[key]>>
<1>1. Open(c)
  BY DEF Open, Sound
<1>2. /\ sec.c \in ConfSet /\ Sound(sec.c) /\ SameParams(c, sec.c)
      /\ sec.at \in DOMAIN sec.c.secs /\ sec.c.secs[sec.at].name = name
  <2>1. NewSecIs(c, name, sec) /\ sec.ok = TRUE
    BY <1>1, NewSec, NewSecFound
  <2> HIDE DEF sec
  <2> QED
    BY <2>1 DEF NewSecIs
<1>3. Store(sec.c) = Store(c)
  BY <1>2, SameMap
<1> HIDE DEF sec
<1>4. AddParamIs(sec.c, sec.at, key, text, r) /\ PlainResult(r, sec.at)
  BY <1>2, AddParam, AddFound
<1>5. AddTo(c, name, key, text, a) = r
  BY DEF AddTo, sec
<1> HIDE DEF r
<1>6. r.c \in ConfSet /\ r.ok = TRUE /\ r.lost \in BOOLEAN /\ r.at = sec.at
  BY <1>4, PlainSays DEF AddParamIs, PlainResult
<1>7. Sound(r.c) /\ sec.at \in Nat
  <2>1. DOMAIN sec.c.secs \subseteq Nat
    BY <1>2 DEF ConfSet
  <2> QED
    BY <1>2, <1>4, <1>6, <2>1 DEF AddParamIs
<1>8. ASSUME r.lost = FALSE, NEW x PROVE TextOf(r.c, x) = IF x = o THEN text ELSE TextOf(c, x)
  <2>1. PutIn(sec.c, o, text, r.c)
    BY <1>2, <1>4, <1>6, <1>8, AddedMap
  <2> HIDE DEF o
  <2>2. Store(r.c) = [y \in DOMAIN Store(c) \cup {o} |-> IF y = o THEN text ELSE Store(c)[y]]
    BY <1>3, <2>1 DEF PutIn
  <2> QED
    BY <2>2 DEF TextOf
<1>9. AddToSays(c, o, text, r)
  BY <1>4, <1>6, <1>7, <1>8 DEF AddToSays
<1> QED
  BY <1>5, <1>9

\* The text that is looked up is that of the option.
TextSays(c, o, r) ==
  /\ r.ok \in BOOLEAN
  /\ IF r.ok THEN r.text = TextOf(c, o) ELSE TextOf(c, o) = NotSet
  /\ TextOf(c, o) \in Texts \cup {Blank} \/ ~r.ok

LEMMA TextIs ==
  ASSUME ConfAssumption, NEW c \in ConfSet, Sound(c), NEW name, NEW key \in Keys,
         NEW r, GetStrIs(c, name, key, r)
  PROVE  TextSays(c, <<name, Fold[key]>>, r)
<1>0. r.ok \in BOOLEAN
  BY DEF GetStrIs
<1>1. CASE ~r.ok /\ \A i, p : ~IsAt(c, name, key, i, p)
  <2>1. \A i, p : ~Holds(c, <<name, Fold[key]>>, i, p)
    BY <1>1, AtIs
  <2>2. <<name, Fold[key]>> \notin DOMAIN Store(c)
    BY <2>1, MapOf DEF MapIs
  <2> QED
    BY <1>0, <1>1, <2>2 DEF TextOf, TextSays
<1>2. ASSUME r.ok, NEW p, r.at # 0, IsAt(c, name, key, r.at, p), Marked(c, r.at, p, r.c),
             r.text = c.secs[r.at].param[p].text
      PROVE  TextSays(c, <<name, Fold[key]>>, r)
  <2>1. r.c \in ConfSet /\ Sound(r.c)
    BY GotSound
  <2>2. /\ <<name, Fold[key]>> \in DOMAIN Store(c)
        /\ Store(c)[<<name, Fold[key]>>] = c.secs[r.at].param[p].text
    BY <1>2, <2>1, MarkedMap
  <2>3. r.at \in DOMAIN c.secs /\ p \in DOMAIN c.secs[r.at].param
    BY <1>2 DEF IsAt
  <2>4. c.secs[r.at].param[p].text \in Texts \cup {Blank}
    BY <2>3, SecOf DEF ParamSet
  <2> QED
    BY <1>0, <1>2, <2>2, <2>4 DEF TextOf, TextSays
<1> QED
  BY <1>1, <1>2 DEF GetStrIs

\* What is asked for changes nothing of the texts.
LEMMA AskedKeeps ==
  ASSUME ConfAssumption, NEW c \in ConfSet, Sound(c), NEW name, NEW key \in Keys, NEW d, NEW r,
         AskIs(c, name, key, d, r), Sound(r.c)
  PROVE  r.c \in ConfSet /\ Store(r.c) = Store(c)
<1>1. r.c \in ConfSet
  BY DEF AskIs
<1>2. CASE SameParams(c, r.c)
  BY <1>1, <1>2, SameMap
<1>3. ASSUME NEW i, NEW p, NEW m, IsAt(c, name, key, i, p), m \in ConfSet, Marked(c, i, p, m), SameParams(m, r.c)
      PROVE  Store(r.c) = Store(c)
  <2>1. i \in DOMAIN c.secs /\ p \in DOMAIN c.secs[i].param /\ c.secs[i].param[p].key # Blank
    BY <1>3 DEF IsAt, Same, ConfAssumption
  <2>2. Sound(m)
    BY <1>3, <2>1, MarkedSound
  <2>3. /\ <<name, Fold[key]>> \in DOMAIN Store(c) /\ Store(c)[<<name, Fold[key]>>] = c.secs[i].param[p].text
        /\ Store(m) = Store(c) /\ AskedIn(m) = AskedIn(c) \cup {<<name, Fold[key]>>}
    BY <1>3, <2>2, MarkedMap
  <2>4. Store(r.c) = Store(m)
    BY <1>1, <1>3, <2>2, SameMap
  <2> QED
    BY <2>3, <2>4
<1> QED
  BY <1>1, <1>2, <1>3 DEF AskIs

\* A converted text is there or it is not.
LEMMA ConvertIs ==
  ASSUME NEW type \in Types, NEW text, NEW old
  PROVE  Convert(type, text, old) = [ok |-> Convert(type, text, old).ok, value |-> Convert(type, text, old).value]
         /\ Convert(type, text, old).ok \in BOOLEAN
<1> DEFINE v == Convert(type, text, old)
<1>1. v \in {Got(text), NotGot(old), Got(TRUE), Got(FALSE), Got(atoi(text.n)), Got(text.n),
             Got(sscanf(text, IntWord, old)), Got(sscanf(text, LongWord, old))}
  BY DEF Types, Convert, AsStr, AsBool, AsInt, AsUint, AsLong, AsUlong, AsDouble
<1>2. \E b \in BOOLEAN : \E x : v = [ok |-> b, value |-> x]
  BY <1>1 DEF Got, NotGot
<1> HIDE DEF v
<1>3. v = [ok |-> v.ok, value |-> v.value] /\ v.ok \in BOOLEAN
  BY <1>2
<1> QED
  BY <1>3 DEF v

\* What the source asked first makes of a text, and what the one asked then does.
First(type, text, old, default) ==
  IF text # NotSet /\ Convert(type, text, old).ok THEN Convert(type, text, old).value ELSE default
Over(type, text, value) == IF text # NotSet THEN Convert(type, text, value).value ELSE value

\* A look-up's result is the one of st_conf_get_str with another value.
GetSays(c, o, type, old, g) ==
  /\ g.c \in ConfSet /\ Sound(g.c) /\ Store(g.c) = Store(c) /\ g.value = Over(type, TextOf(c, o), old)
  /\ g.ok \in BOOLEAN
  /\ g.ok <=> TextOf(c, o) # NotSet /\ Convert(type, TextOf(c, o), old).ok

LEMMA GetIs ==
  ASSUME ConfAssumption, NEW c \in ConfSet, Sound(c), NEW name, NEW key \in Keys, NEW type \in Types, NEW old
  PROVE  GetSays(c, <<name, Fold[key]>>, type, old, Get(type, c, name, key, old))
<1> DEFINE r == st_conf_get_str(c, name, key)
           g == Get(type, c, name, key, old)
           v == IF r.ok THEN Convert(type, r.text, old) ELSE NotGot(old)
           o == <<name, Fold[key]>>
<1>1. GetStrIs(c, name, key, r) /\ AskIs(c, name, key, FALSE, g)
  BY GetStr, GetAsks
<1>2. g = [r EXCEPT !.ok = v.ok, !.value = v.value]
  BY DEF Get, GotFrom, Converted
<1>3. r.ok \in BOOLEAN
  <2> HIDE DEF r
  <2> QED
    BY <1>1 DEF GetStrIs
<1> HIDE DEF r, g, v
<1>4. TextSays(c, o, r)
  BY <1>1, <1>3, TextIs
<1>5. Sound(g.c) /\ g.c \in ConfSet /\ Store(g.c) = Store(c)
  <2>1. Sound(g.c)
    BY <1>1 DEF AskIs
  <2> QED
    BY <1>1, <2>1, AskedKeeps
<1>6. g.ok = v.ok /\ g.value = v.value
  BY <1>1, <1>2 DEF GetStrIs, IsResult
<1> HIDE DEF o
<1>7. CASE r.ok
  <2>1. v = Convert(type, TextOf(c, o), old) /\ TextOf(c, o) # NotSet
    BY <1>4, <1>7 DEF v, TextSays, ConfAssumption
  <2>2. v.ok \in BOOLEAN
    BY <2>1, ConvertIs
  <2>3. GetSays(c, o, type, old, g)
    BY <1>5, <1>6, <2>1, <2>2 DEF GetSays, Over
  <2> QED
    BY <2>3 DEF o, g
<1>8. CASE ~r.ok
  <2>1. v = NotGot(old) /\ TextOf(c, o) = NotSet
    BY <1>4, <1>8 DEF v, TextSays
  <2>2. v.ok = FALSE /\ v.value = old
    BY <2>1 DEF NotGot
  <2>3. GetSays(c, o, type, old, g)
    BY <1>5, <1>6, <2>1, <2>2 DEF GetSays, Over
  <2> QED
    BY <2>3 DEF o, g
<1> QED
  BY <1>7, <1>8

\* With a default a look-up always succeeds where allocations do.
DefSays(c, o, type, old, default, d) ==
  /\ d.c \in ConfSet /\ Sound(d.c) /\ Store(d.c) = Store(c) /\ d.ok = TRUE
  /\ d.value = First(type, TextOf(c, o), old, default)

LEMMA DefIs ==
  ASSUME ConfAssumption, NEW c \in ConfSet, Sound(c), NEW name \in Seq(Labels), NEW key \in Keys,
         NEW type \in Types, NEW old, NEW default, NEW a \in Ways
  PROVE  DefSays(c, <<name, Fold[key]>>, type, old, default, GetDef(type, c, name, key, old, default, a))
<1> DEFINE o == <<name, Fold[key]>>
           r == st_conf_get_str(c, name, key)
           g == Get(type, c, name, key, old)
           s == IF g.at = 0 THEN st_conf_new_sec(g.c, name, a) ELSE g
           n == Noted(g, s, default, a)
           d == GetDef(type, c, name, key, old, default, a)
<1>1. GetSays(c, o, type, old, g) /\ AskIs(c, name, key, TRUE, d) /\ GetStrIs(c, name, key, r) /\ Keeps(g, r)
  BY GetIs, GetDefAsks, GetStr, GetKeeps
<1>2. d = IF g.fault \/ g.ok THEN g ELSE n
  BY DEF GetDef, OrDefault
<1>3. ~g.fault /\ g.ok \in BOOLEAN /\ IsResult(g) /\ g.c \in ConfSet /\ Sound(g.c)
      /\ (g.at # 0 => g.at \in DOMAIN g.c.secs)
  <2>1. r.at # 0 => r.at \in DOMAIN r.c.secs
    BY <1>1, GotSound
  <2> HIDE DEF g, r, d, o
  <2>2. g.ok \in BOOLEAN /\ g.c \in ConfSet /\ Sound(g.c)
    BY <1>1 DEF GetSays
  <2>3. IsResult(g) /\ g.fault = r.fault /\ g.at = r.at /\ g.c = r.c /\ ~r.fault
    BY <1>1 DEF GetStrIs, Keeps
  <2> QED
    BY <2>1, <2>2, <2>3
<1>4. IsResult(s) /\ s.c \in ConfSet /\ Sound(s.c) /\ ~s.fault /\ s.at \in DOMAIN s.c.secs /\ (g.at = 0 => s.ok)
  <2> HIDE DEF g
  <2>1. CASE g.at = 0
    <3>1. Open(g.c)
      BY <1>3 DEF Open, Sound
    <3>2. NewSecIs(g.c, name, s) /\ s.ok = TRUE
      BY <2>1, <3>1, NewSec, NewSecFound
    <3> HIDE DEF s
    <3> QED
      BY <3>2 DEF NewSecIs
  <2>2. CASE g.at # 0
    BY <1>3, <2>2
  <2> QED
    BY <2>1, <2>2
<1> HIDE DEF g, r, d, o, s
<1>5. CASE g.ok
  <2>1. d = g
    BY <1>2, <1>5
  <2>2. g.ok = TRUE
    BY <1>3, <1>5
  <2>3. DefSays(c, o, type, old, default, d)
    BY <1>1, <1>5, <2>1, <2>2 DEF GetSays, DefSays, First, Over
  <2> QED
    BY <2>3 DEF d, o
<1>6. CASE ~g.ok
  <2> DEFINE noted == [s.c.secs[s.at] EXCEPT !.def_num = @ + 1]
             note == resize_sec(noted, a)
             e == [s.c EXCEPT !.secs[s.at] = note.sec]
  <2>1. note.ok = TRUE
    <3>1. s.c.secs[s.at] \in SecSet
      BY <1>4, SecOf
    <3>2. noted \in SecSet
      <4>1. PICK x \in SecSet : x = s.c.secs[s.at]
        BY <3>1
      <4>2. x.def_num + 1 \in Nat
        BY DEF SecSet
      <4>3. [x EXCEPT !.def_num = @ + 1] \in SecSet
        BY <4>2 DEF SecSet
      <4> QED
        BY <4>1, <4>3
    <3> HIDE DEF noted
    <3> QED
      BY <3>2, RoomFound
  <2>2. ~noted.def_null
    BY <1>4, NoteIn
  <2>3. n = [g EXCEPT !.c = e, !.ok = note.ok, !.at = s.at, !.value = default]
    BY <1>4, <2>2 DEF Noted
  <2>4. d = n
    BY <1>2, <1>3, <1>6
  <2> HIDE DEF n, e, note, noted
  <2>5. d.ok = TRUE /\ d.value = default
    BY <1>3, <2>1, <2>3, <2>4 DEF IsResult
  <2>6. Sound(d.c)
    BY <1>1, <2>5 DEF AskIs
  <2>7. d.c \in ConfSet /\ Store(d.c) = Store(c)
    BY <1>1, <2>6, AskedKeeps
  <2>8. DefSays(c, o, type, old, default, d)
    BY <1>1, <1>6, <2>5, <2>6, <2>7 DEF GetSays, DefSays, First
  <2> QED
    BY <2>8 DEF d, o
<1> QED
  BY <1>5, <1>6

\* An option that is asked for in both configurations, or in the one there is.
StillHolds(c, d) == d \in ConfSet /\ Sound(d) /\ Store(d) = Store(c)
OptionSays(cmd, from, hasFile, o, type, old, default, g) ==
  /\ StillHolds(cmd, g.cmd) /\ IF hasFile THEN StillHolds(from, g.from) ELSE g.from = from
  /\ g.value = IF hasFile THEN Over(type, TextOf(cmd, o), First(type, TextOf(from, o), old, default))
               ELSE First(type, TextOf(cmd, o), old, default)

LEMMA OptionAsked ==
  ASSUME ConfAssumption, NEW cmd \in ConfSet, Sound(cmd), NEW hasFile \in BOOLEAN, NEW from,
         hasFile => from \in ConfSet /\ Sound(from), NEW name \in Seq(Labels), NEW key \in Keys,
         NEW type \in Types, NEW old, NEW default, NEW a \in Ways
  PROVE  OptionSays(cmd, from, hasFile, <<name, Fold[key]>>, type, old, default,
                    GetOption(cmd, from, hasFile, type, name, key, old, default, a))
<1> DEFINE o == <<name, Fold[key]>>
           f == GetDef(type, from, name, key, old, default, a)
           c == Get(type, cmd, name, key, f.value)
           d == GetDef(type, cmd, name, key, old, default, a)
           g == GetOption(cmd, from, hasFile, type, name, key, old, default, a)
<1>1. CASE hasFile
  <2>1. g = [cmd |-> c.c, from |-> f.c, ok |-> c.ok \/ f.ok, value |-> c.value]
    BY <1>1 DEF GetOption, InBoth, Overridden
  <2>2. DefSays(from, o, type, old, default, f)
    BY <1>1, DefIs
  <2> HIDE DEF f, g
  <2>3. GetSays(cmd, o, type, f.value, c)
    BY GetIs
  <2> HIDE DEF c, o
  <2>4. OptionSays(cmd, from, hasFile, o, type, old, default, g)
    BY <1>1, <2>1, <2>2, <2>3 DEF OptionSays, StillHolds, DefSays, GetSays
  <2> QED
    BY <2>4 DEF g, o
<1>2. CASE ~hasFile
  <2>1. g = [cmd |-> d.c, from |-> from, ok |-> d.ok, value |-> d.value]
    BY <1>2 DEF GetOption, Alone
  <2>2. DefSays(cmd, o, type, old, default, d)
    BY DefIs
  <2> HIDE DEF d, g, o
  <2>3. OptionSays(cmd, from, hasFile, o, type, old, default, g)
    BY <1>2, <2>1, <2>2 DEF OptionSays, StillHolds, DefSays
  <2> QED
    BY <2>3 DEF g, o
<1> QED
  BY <1>1, <1>2

-----------------------------------------------------------------------------
(* What a text means.                                                       *)

\* A number that fits the type is read as it is.
LEMMA FitsIs ==
  ASSUME OptAssumption, NEW type \in Types, NEW text \in Texts, text.form = "number", text.n \in Fits[type], NEW old
  PROVE  Convert(type, text, old) = Got(text.n)
<1>1. text.n \in Nat /\ IntWord \in Nat \ {0} /\ LongWord \in Nat \ {0}
  BY DEF OptAssumption
<1>2. PICK n \in Nat : n = text.n
  BY <1>1
<1>3. PICK w \in Nat \ {0} : w = IntWord
  BY <1>1
<1>4. PICK h \in Nat : h = w \div 2 /\ 2 * h <= w
  <2>1. w \div 2 \in Nat /\ 2 * (w \div 2) <= w
    BY <1>3
  <2> QED
    BY <2>1
<1>5. n \in 0 .. h - 1 => atoi(n) = n
  <2>1. SUFFICES ASSUME n \in 0 .. h - 1 PROVE ((n + h) % w) - h = n
    BY <1>3, <1>4 DEF atoi
  <2>2. n + h \in 0 .. w - 1
    BY <1>4, <2>1
  <2>3. (n + h) % w = n + h
    BY <1>3, <2>2
  <2> QED
    BY <2>3
<1>6. n \in 0 .. w - 1 => n % w = n
  BY <1>3
<1>7. n \in 0 .. LongWord - 1 => n % LongWord = n
  BY <1>1
<1>8. text.form # "empty"
  OBVIOUS
<1>9. CASE type \in {"int", "long"}
  <2>1. n \in 0 .. h - 1
    BY <1>2, <1>3, <1>4, <1>9 DEF Fits
  <2> QED
    BY <1>2, <1>5, <1>8, <1>9, <2>1 DEF Convert, AsInt, AsLong
<1>10. CASE type = "uint"
  <2>1. n % IntWord = n
    BY <1>2, <1>3, <1>6, <1>10 DEF Fits
  <2> QED
    BY <1>2, <1>10, <2>1 DEF Convert, AsUint, sscanf
<1>11. CASE type = "ulong"
  <2>1. n % LongWord = n
    BY <1>2, <1>7, <1>11 DEF Fits
  <2> QED
    BY <1>2, <1>11, <2>1 DEF Convert, AsUlong, sscanf
<1>12. CASE type = "double"
  BY <1>12 DEF Convert, AsDouble
<1>13. CASE type \in {"bool", "str"}
  BY <1>13 DEF Fits
<1> QED
  BY <1>9, <1>10, <1>11, <1>12, <1>13 DEF Types

LEMMA OverMeans ==
  ASSUME ConfAssumption, OptAssumption, NEW type \in Types, NEW text \in Texts \cup {NotSet}, NEW value
  PROVE  Over(type, text, value) = Means(type, text, value)
<1>1. CASE text = NotSet
  BY <1>1 DEF Over, Means
<1>2. CASE text \in Texts /\ text # NotSet /\ text.form = "number" /\ text.n \in Fits[type]
  <2>1. Convert(type, text, value) = Got(text.n)
    BY <1>2, FitsIs
  <2> QED
    BY <1>2, <2>1 DEF Over, Means, Got
<1>3. CASE text \in Texts /\ text # NotSet /\ ~(text.form = "number" /\ text.n \in Fits[type])
  BY <1>3 DEF Over, Means
<1> QED
  BY <1>1, <1>2, <1>3

\* The caller's variable matters to an unsigned getter only, the default where nothing
\* is got.
LEMMA FirstMeans ==
  ASSUME ConfAssumption, OptAssumption, NEW type \in Types, NEW text \in Texts \cup {NotSet}
  PROVE  First(type, text, Unset, Default) = Means(type, text, Base(type, text))
<1>1. CASE text = NotSet
  BY <1>1 DEF First, Means, Base
<1>2. CASE text \in Texts /\ text # NotSet /\ text.form = "number" /\ text.n \in Fits[type]
  <2>1. Convert(type, text, Unset) = Got(text.n)
    BY <1>2, FitsIs
  <2> QED
    BY <1>2, <2>1 DEF First, Means, Got
<1>3. CASE text # NotSet /\ ~(text.form = "number" /\ text.n \in Fits[type])
  <2> DEFINE v == Convert(type, text, Unset)
             w == Convert(type, text, Base(type, text))
  <2>1. First(type, text, Unset, Default) = IF v.ok THEN v.value ELSE Default
    BY <1>3 DEF First
  <2>2. Means(type, text, Base(type, text)) = w.value
    BY <1>3 DEF Means
  <2>3. (IF v.ok THEN v.value ELSE Default) = w.value
    <3>1. CASE type = "str"
      BY <3>1 DEF Convert, AsStr, Got
    <3>2. CASE type = "bool"
      BY <3>2 DEF Convert, AsBool, Got, NotGot, Base
    <3>3. CASE type \in {"int", "long"}
      BY <3>3 DEF Convert, AsInt, AsLong, Got, NotGot, Base
    <3>4. CASE type = "double"
      BY <3>4 DEF Convert, AsDouble, Got, NotGot, Base
    <3>5. CASE type = "uint"
      BY <1>3, <3>5 DEF Convert, AsUint, Got, NotGot, Base
    <3>6. CASE type = "ulong"
      BY <1>3, <3>6 DEF Convert, AsUlong, Got, NotGot, Base
    <3> QED
      BY <3>1, <3>2, <3>3, <3>4, <3>5, <3>6 DEF Types
  <2> HIDE DEF v, w
  <2> QED
    BY <2>1, <2>2, <2>3
<1> QED
  BY <1>1, <1>2, <1>3

-----------------------------------------------------------------------------
(* The settings up to some place, and the arguments left.                   *)

\* A configuration holds the last texts of the first n settings.
Reflects(c, s, n) ==
  \A name \in Seq(Labels), key \in Keys :
    TextOf(c, <<name, Fold[key]>>) = LastText(s, n, <<name, Fold[key]>>)

LEMMA LastTextSame ==
  ASSUME NEW s, NEW n \in Nat, NEW m \in Nat, n <= m, NEW o, \A i \in n + 1 .. m : ~Sets(s[i], o)
  PROVE  LastText(s, m, o) = LastText(s, n, o)
<1> DEFINE H == {i \in 1 .. m : Sets(s[i], o)}
           G == {i \in 1 .. n : Sets(s[i], o)}
<1>1. H = G
  <2>1. \A i \in 1 .. m : i \in 1 .. n \/ i \in n + 1 .. m
    OBVIOUS
  <2>2. \A i \in 1 .. n : i \in 1 .. m
    OBVIOUS
  <2> QED
    BY <2>1, <2>2
<1>2. /\ LastText(s, m, o) = IF H = {} THEN NotSet ELSE s[Max(H)].text
      /\ LastText(s, n, o) = IF G = {} THEN NotSet ELSE s[Max(G)].text
  BY DEF LastText
<1> HIDE DEF H, G
<1> QED
  BY <1>1, <1>2

LEMMA LastTextStep ==
  ASSUME NEW s, NEW n \in Nat, NEW m \in Nat, n < m, NEW o, \A i \in n + 1 .. m - 1 : ~Sets(s[i], o)
  PROVE  LastText(s, m, o) = IF Sets(s[m], o) THEN s[m].text ELSE LastText(s, n, o)
<1>1. CASE Sets(s[m], o)
  <2> DEFINE H == {i \in 1 .. m : Sets(s[i], o)}
  <2>1. m \in H /\ H \subseteq 1 .. m
    BY <1>1
  <2>2. LastText(s, m, o) = IF H = {} THEN NotSet ELSE s[Max(H)].text
    BY DEF LastText
  <2> HIDE DEF H
  <2>3. Max(H) \in H /\ m <= Max(H)
    BY <2>1, MostOf
  <2>4. Max(H) = m
    <3>1. PICK x : x = Max(H)
      OBVIOUS
    <3>2. x \in 1 .. m /\ m <= x
      BY <2>1, <2>3, <3>1
    <3> QED
      BY <3>1, <3>2
  <2> QED
    BY <1>1, <2>1, <2>2, <2>4
<1>2. CASE ~Sets(s[m], o)
  <2>1. \A i \in n + 1 .. m : i = m \/ i \in n + 1 .. m - 1
    OBVIOUS
  <2>2. \A i \in n + 1 .. m : ~Sets(s[i], o)
    BY <1>2, <2>1
  <2>3. LastText(s, m, o) = LastText(s, n, o)
    BY <2>2, LastTextSame
  <2> QED
    BY <1>2, <2>3
<1> QED
  BY <1>1, <1>2

LEMMA LastTextIn ==
  ASSUME NEW s, NEW n \in Nat, NEW o, \A i \in 1 .. n : s[i].key # Blank => s[i].text \in Texts
  PROVE  LastText(s, n, o) \in Texts \cup {NotSet}
<1> DEFINE H == {i \in 1 .. n : Sets(s[i], o)}
<1>1. LastText(s, n, o) = IF H = {} THEN NotSet ELSE s[Max(H)].text
  BY DEF LastText
<1>2. H \subseteq 1 .. n /\ \A i \in H : s[i].text \in Texts
  BY DEF Sets
<1> HIDE DEF H
<1>3. H # {} => Max(H) \in H
  BY <1>2, MostOf
<1> QED
  BY <1>1, <1>2, <1>3

\* A configuration to which the next setting is added holds the last texts up to there.
LEMMA ReflectsNext ==
  ASSUME ConfAssumption, NEW c, NEW d, NEW s, NEW n \in Nat, NEW m \in Nat, n < m, Reflects(c, s, n),
         \A i \in n + 1 .. m - 1 : s[i].key = Blank,
         s[m].key \in Keys, NEW o, o = <<s[m].name, Fold[s[m].key]>>,
         \A x : TextOf(d, x) = IF x = o THEN s[m].text ELSE TextOf(c, x)
  PROVE  Reflects(d, s, m)
<1>1. ASSUME NEW name \in Seq(Labels), NEW key \in Keys
      PROVE  TextOf(d, <<name, Fold[key]>>) = LastText(s, m, <<name, Fold[key]>>)
  <2>1. PICK x : x = <<name, Fold[key]>>
    OBVIOUS
  <2>2. TextOf(c, x) = LastText(s, n, x)
    BY <2>1 DEF Reflects
  <2>3. \A i \in n + 1 .. m - 1 : ~Sets(s[i], x)
    BY DEF Sets
  <2>4. LastText(s, m, x) = IF Sets(s[m], x) THEN s[m].text ELSE LastText(s, n, x)
    BY <2>3, LastTextStep
  <2>5. Sets(s[m], x) <=> x = o
    <3>1. x[1] = name /\ x[2] = Fold[key]
      BY <2>1
    <3>2. x = o <=> s[m].name = name /\ Fold[s[m].key] = Fold[key]
      BY <2>1
    <3>3. s[m].key # Blank
      BY DEF ConfAssumption
    <3> QED
      BY <3>1, <3>2, <3>3 DEF Sets
  <2> QED
    BY <2>1, <2>2, <2>4, <2>5
<1> QED
  BY <1>1 DEF Reflects

LEMMA ReflectsOn ==
  ASSUME NEW c, NEW s, NEW n \in Nat, NEW m \in Nat, n <= m, Reflects(c, s, n),
         \A i \in n + 1 .. m : s[i].key = Blank
  PROVE  Reflects(c, s, m)
<1>1. ASSUME NEW o PROVE LastText(s, m, o) = LastText(s, n, o)
  <2>1. \A i \in n + 1 .. m : ~Sets(s[i], o)
    BY DEF Sets
  <2> QED
    BY <2>1, LastTextSame
<1> QED
  BY <1>1 DEF Reflects

LEMMA ReflectsNothing ==
  ASSUME ConfAssumption, NEW c, Store(c) = << >>, NEW s
  PROVE  Reflects(c, s, 0)
<1>1. \A o : TextOf(c, o) = NotSet
  BY DEF TextOf
<1>2. ASSUME NEW o PROVE LastText(s, 0, o) = NotSet
  <2> DEFINE H == {i \in 1 .. 0 : Sets(s[i], o)}
  <2>1. H = {}
    OBVIOUS
  <2> QED
    BY <2>1 DEF LastText
<1> QED
  BY <1>1, <1>2 DEF Reflects

LEMMA StillReflects ==
  ASSUME NEW c, NEW d, Store(d) = Store(c), NEW s, NEW n, Reflects(c, s, n)
  PROVE  Reflects(d, s, n)
<1>1. \A o : TextOf(d, o) = TextOf(c, o)
  BY DEF TextOf
<1> QED
  BY <1>1 DEF Reflects

LEMMA ArgumentIs ==
  ASSUME ConfAssumption, OptAssumption, NEW x \in Arguments
  PROVE  /\ x.kind \in {"plain", "end", "option"}
         /\ x.kind = "option" => x.name \in Seq(Labels) /\ x.key \in Keys /\ x.key # Blank /\ OptionText(x) \in Texts
         /\ x.kind # "option" => x.key = Blank
BY DEF ConfAssumption, OptAssumption, OptionText

LEMMA SettingIs ==
  ASSUME OptAssumption, given \in Seq(Arguments), NEW i \in 1 .. Len(given)
  PROVE  /\ given[i] \in Arguments
         /\ Settings[i].name = given[i].name /\ Settings[i].key = given[i].key
         /\ Settings[i].text = OptionText(given[i])
<1>1. PICK x : x = given[i] /\ x \in Arguments
  OBVIOUS
<1>2. Settings[i] = [x EXCEPT !.text = OptionText(x)]
  BY <1>1 DEF Settings
<1>3. x = [kind |-> x.kind, name |-> x.name, key |-> x.key, text |-> x.text]
  BY <1>1 DEF OptAssumption
<1> QED
  BY <1>1, <1>2, <1>3

-----------------------------------------------------------------------------
(* The arguments: the plain ones that were passed over, and those to come.  *)

LEMMA PlainIs ==
  ASSUME given \in Seq(Arguments)
  PROVE  /\ Plain \in [0 .. Len(given) -> Seq(Arguments)] /\ Plain[0] = << >>
         /\ \A n \in 1 .. Len(given) :
              Plain[n] = IF given[n].kind = "plain" THEN Append(Plain[n - 1], given[n]) ELSE Plain[n - 1]
<1> DEFINE L == Len(given)
           S == Seq(Arguments)
           E(r, n) == IF given[n].kind = "plain" THEN Append(r, given[n]) ELSE r
           step == [x \in S \X (1 .. L) |-> E(x[1], x[2])]
           Is(f) == f = [n \in 0 .. L |-> IF n = 0 THEN << >> ELSE E(f[n - 1], n)]
<1>1. L \in Nat /\ << >> \in S /\ \A n \in 1 .. L : given[n] \in Arguments
  OBVIOUS
<1>2. \A r \in S, n \in 1 .. L : E(r, n) \in S
  BY <1>1
<1>3. step \in [S \X (1 .. L) -> S] /\ \A r \in S, n \in 1 .. L : step[<<r, n>>] = E(r, n)
  BY <1>2
<1>4. Plain = CHOOSE f : Is(f)
  BY DEF Plain
<1> HIDE DEF step, E, S, L
<1>5. PICK f \in [0 .. L -> S] : f = [n \in 0 .. L |-> IF n = 0 THEN << >> ELSE step[<<f[n - 1], n>>]]
  <2>1. PICK f \in [0 .. L -> S] : Recursion(f, L, << >>, step)
    BY <1>1, <1>3, RecursionExists
  <2> QED
    BY <2>1 DEF Recursion
<1>6. \A n \in 1 .. L : n # 0 /\ n - 1 \in 0 .. L
  BY <1>1
<1>7. Is(f)
  <2>1. \A n \in 0 .. L : n # 0 => f[n - 1] \in S /\ step[<<f[n - 1], n>>] = E(f[n - 1], n)
    BY <1>1, <1>3, <1>5
  <2> QED
    BY <1>5, <2>1
<1>8. Is(Plain)
  BY <1>4, <1>7, Zenon
<1> HIDE DEF Is
<1>9. Plain = [n \in 0 .. L |-> IF n = 0 THEN << >> ELSE E(Plain[n - 1], n)]
  BY <1>8 DEF Is
<1>10. Plain[0] = << >> /\ \A n \in 1 .. L : Plain[n] = E(Plain[n - 1], n)
  <2>1. 0 \in 0 .. L /\ \A n \in 1 .. L : n \in 0 .. L
    BY <1>1
  <2> QED
    BY <1>6, <1>9, <2>1
<1>11. \A n \in 0 .. L : Plain[n] \in S
  <2> DEFINE Good == {n \in 0 .. L : Plain[n] \in S}
  <2>1. 0 \in Good
    BY <1>1, <1>10
  <2>2. ASSUME NEW n \in 1 .. L, n - 1 \in Good PROVE n \in Good
    BY <1>1, <1>2, <1>10, <2>2
  <2>3. Good = 0 .. L
    <3> HIDE DEF Good
    <3>1. Good \in SUBSET (0 .. L)
      BY DEF Good
    <3> QED
      BY <1>1, <2>1, <2>2, <3>1, RecursionKeeps
  <2> QED
    BY <2>3
<1>12. Plain \in [0 .. L -> S]
  <2> DEFINE e(n) == IF n = 0 THEN << >> ELSE E(Plain[n - 1], n)
  <2>1. Plain = [n \in 0 .. L |-> e(n)]
    BY <1>9
  <2> HIDE DEF e
  <2>2. DOMAIN Plain = 0 .. L /\ Plain = [n \in 0 .. L |-> Plain[n]]
    BY <2>1
  <2> QED
    BY <1>11, <2>2
<1> QED
  BY <1>10, <1>12 DEF L, E, S

\* What was passed over is plain.
LEMMA PlainAll ==
  ASSUME given \in Seq(Arguments), NEW n \in 0 .. Len(given)
  PROVE  Plain[n] \in Seq(Arguments) /\ \A i \in 1 .. Len(Plain[n]) : Plain[n][i].kind = "plain"
<1> DEFINE L == Len(given)
           All(s) == \A i \in 1 .. Len(s) : s[i].kind = "plain"
           Good == {m \in 0 .. L : All(Plain[m])}
<1>1. /\ \A m \in 0 .. L : Plain[m] \in Seq(Arguments)
      /\ Plain[0] = << >>
      /\ \A m \in 1 .. L : Plain[m] = IF given[m].kind = "plain" THEN Append(Plain[m - 1], given[m]) ELSE Plain[m - 1]
  BY PlainIs
<1>2. L \in Nat /\ \A m \in 1 .. L : given[m] \in Arguments /\ m - 1 \in 0 .. L /\ m \in 0 .. L
  OBVIOUS
<1>3. All(Plain[0])
  BY <1>1
<1>4. ASSUME NEW m \in 1 .. L, All(Plain[m - 1]) PROVE All(Plain[m])
  <2>1. PICK s \in Seq(Arguments) : s = Plain[m - 1]
    BY <1>1, <1>2
  <2>2. PICK x \in Arguments : x = given[m]
    BY <1>2
  <2>3. CASE x.kind = "plain"
    <3>1. Plain[m] = Append(s, x)
      BY <1>1, <2>1, <2>2, <2>3
    <3>2. All(Append(s, x))
      BY <1>4, <2>1, <2>3
    <3> QED
      BY <3>1, <3>2
  <2>4. CASE x.kind # "plain"
    BY <1>1, <1>4, <2>2, <2>4
  <2> QED
    BY <2>3, <2>4
<1>5. Good = 0 .. L
  <2>1. Good \in SUBSET (0 .. L) /\ 0 \in Good /\ \A m \in 1 .. L : m - 1 \in Good => m \in Good
    <3> HIDE DEF All, L
    <3> QED
      BY <1>2, <1>3, <1>4
  <2> HIDE DEF Good
  <2> QED
    BY <1>2, <2>1, RecursionKeeps
<1> HIDE DEF L
<1>6. All(Plain[n])
  BY <1>5 DEF L
<1> QED
  BY <1>1, <1>6 DEF L

\* A part of a sequence.
LEMMA PartIs ==
  ASSUME NEW S, NEW g \in Seq(S), NEW n \in 0 .. Len(g), NEW m \in n .. Len(g)
  PROVE  /\ SubSeq(g, n + 1, m) \in Seq(S) /\ Len(SubSeq(g, n + 1, m)) = m - n
         /\ \A i \in 1 .. m - n : SubSeq(g, n + 1, m)[i] = g[n + i]
<1> DEFINE w == SubSeq(g, n + 1, m)
<1>1. Len(g) \in Nat /\ n \in Nat /\ m \in Nat /\ n <= m /\ m <= Len(g)
  OBVIOUS
<1>2. n + 1 \in Int /\ m \in Int /\ \A i \in n + 1 .. m : g[i] \in S
  BY <1>1
<1>3. /\ w \in Seq(S) /\ Len(w) = (IF n + 1 <= m THEN m - (n + 1) + 1 ELSE 0)
      /\ \A i \in 1 .. m - (n + 1) + 1 : w[i] = g[(n + 1) + i - 1]
  BY <1>2, SubSeqProperties
<1> HIDE DEF w
<1>4. w \in Seq(S) /\ Len(w) = m - n /\ \A i \in 1 .. m - n : w[i] = g[n + i]
  BY <1>1, <1>3
<1> QED
  BY <1>4 DEF w

\* Some items, and then a part of others.
LEMMA JoinIs ==
  ASSUME NEW S, NEW p \in Seq(S), NEW g \in Seq(S), NEW n \in 0 .. Len(g), NEW m \in n .. Len(g)
  PROVE  /\ SubSeq(g, n + 1, m) \in Seq(S) /\ p \o SubSeq(g, n + 1, m) \in Seq(S)
         /\ Len(p \o SubSeq(g, n + 1, m)) = Len(p) + (m - n)
         /\ \A i \in 1 .. Len(p) : (p \o SubSeq(g, n + 1, m))[i] = p[i]
         /\ \A j \in n + 1 .. m : (p \o SubSeq(g, n + 1, m))[Len(p) + (j - n)] = g[j]
<1> DEFINE w == SubSeq(g, n + 1, m)
           q == Len(p)
<1>1. Len(g) \in Nat /\ q \in Nat /\ n \in Nat /\ m \in Nat /\ n <= m /\ m <= Len(g)
  OBVIOUS
<1>2. w \in Seq(S) /\ Len(w) = m - n /\ \A i \in 1 .. m - n : w[i] = g[n + i]
  BY PartIs
<1> HIDE DEF w, q
<1>3. /\ p \o w \in Seq(S) /\ Len(p \o w) = q + (m - n)
      /\ \A i \in 1 .. q + (m - n) : (p \o w)[i] = IF i <= q THEN p[i] ELSE w[i - q]
  <2>1. /\ p \o w \in Seq(S) /\ Len(p \o w) = Len(p) + Len(w)
        /\ \A i \in 1 .. Len(p) + Len(w) : (p \o w)[i] = IF i <= Len(p) THEN p[i] ELSE w[i - Len(p)]
    BY <1>2, ConcatProperties
  <2> QED
    BY <1>2, <2>1 DEF q
<1>4. \A i \in 1 .. q : (p \o w)[i] = p[i]
  BY <1>1, <1>3
<1>5. ASSUME NEW j \in n + 1 .. m PROVE (p \o w)[q + (j - n)] = g[j]
  <2>1. PICK i \in 1 .. m - n : i = j - n /\ n + i = j
    BY <1>1
  <2>2. q + i \in 1 .. q + (m - n) /\ ~(q + i <= q) /\ (q + i) - q = i
    BY <1>1, <2>1
  <2> QED
    BY <1>2, <1>3, <2>1, <2>2
<1> QED
  BY <1>2, <1>3, <1>4, <1>5 DEF w, q

\* Every place in it is one of either.
LEMMA PlaceIs ==
  ASSUME NEW q \in Nat, NEW n \in Nat, NEW m \in Nat, n <= m, NEW i \in 1 .. q + (m - n)
  PROVE  i \in 1 .. q \/ \E j \in n + 1 .. m : i = q + (j - n)
<1> SUFFICES ASSUME i \notin 1 .. q PROVE \E j \in n + 1 .. m : i = q + (j - n)
  OBVIOUS
<1>1. (i - q) + n \in n + 1 .. m /\ i = q + (((i - q) + n) - n)
  OBVIOUS
<1> QED
  BY <1>1

LEMMA JoinMore ==
  ASSUME NEW S, NEW p \in Seq(S), NEW g \in Seq(S), NEW n \in 0 .. Len(g), NEW m \in n + 1 .. Len(g)
  PROVE  Append(p \o SubSeq(g, n + 1, m - 1), g[m]) = p \o SubSeq(g, n + 1, m)
<1> DEFINE s == SubSeq(g, n + 1, m - 1)
<1>1. m \in Nat /\ m - 1 \in n .. Len(g) /\ m \in 1 .. Len(g) /\ n + 1 \in 1 .. Len(g) /\ g[m] \in S
  OBVIOUS
<1>2. s \in Seq(S) /\ p \o s \in Seq(S)
  BY <1>1, JoinIs
<1>3. SubSeq(g, n + 1, m) = s \o <<g[m]>>
  BY <1>1, SubSeqRecursiveSecond
<1> HIDE DEF s
<1>4. PICK x \in S : x = g[m]
  BY <1>1
<1>5. Append(p \o s, x) = (p \o s) \o <<x>>
  BY <1>2, AppendIsConcat
<1>6. <<x>> \in Seq(S)
  OBVIOUS
<1>7. (p \o s) \o <<x>> = p \o (s \o <<x>>)
  BY <1>2, <1>6, ConcatAssociative
<1> QED
  BY <1>3, <1>4, <1>5, <1>7 DEF s

\* The arguments from n on to m, when these are plain, are passed over as they are.
LEMMA PlainOn ==
  ASSUME given \in Seq(Arguments), NEW n \in 0 .. Len(given), NEW m \in n .. Len(given),
         \A i \in n + 1 .. m : given[i].kind = "plain"
  PROVE  Plain[m] = Plain[n] \o SubSeq(given, n + 1, m)
<1> DEFINE L == Len(given)
           P == Plain[n]
           d == m - n
           Good == {k \in 0 .. d : Plain[n + k] = P \o SubSeq(given, n + 1, n + k)}
<1>1. /\ \A k \in 0 .. L : Plain[k] \in Seq(Arguments)
      /\ \A k \in 1 .. L : Plain[k] = IF given[k].kind = "plain" THEN Append(Plain[k - 1], given[k]) ELSE Plain[k - 1]
  BY PlainIs
<1>2. L \in Nat /\ d \in Nat /\ n + d = m /\ P \in Seq(Arguments) /\ n \in Nat /\ n + 0 = n
  BY <1>1
<1>3. 0 \in Good
  <2>1. SubSeq(given, n + 1, n) = << >>
    BY <1>2, SubSeqEmpty
  <2>2. P \o << >> = P
    BY <1>2, ConcatEmptySeq
  <2>3. 0 \in 0 .. d /\ P = Plain[n + 0]
    BY <1>2
  <2> HIDE DEF P, d
  <2> QED
    BY <1>2, <2>1, <2>2, <2>3
<1>4. ASSUME NEW k \in 1 .. d, k - 1 \in Good PROVE k \in Good
  <2>1. PICK j \in 1 .. L : j = n + k /\ j \in n + 1 .. m /\ j - 1 = n + (k - 1)
    BY <1>2
  <2>2. Plain[j] = Append(Plain[j - 1], given[j])
    BY <1>1, <2>1
  <2>3. Plain[j - 1] = P \o SubSeq(given, n + 1, j - 1)
    BY <1>4, <2>1
  <2>4. k \in 0 .. d /\ j \in n + 1 .. L
    BY <1>2, <2>1
  <2> HIDE DEF P, d
  <2>5. Append(P \o SubSeq(given, n + 1, j - 1), given[j]) = P \o SubSeq(given, n + 1, j)
    BY <1>2, <2>4, JoinMore
  <2> QED
    BY <2>1, <2>2, <2>3, <2>4, <2>5
<1>5. Good = 0 .. d
  <2>1. Good \in SUBSET (0 .. d)
    OBVIOUS
  <2> HIDE DEF Good, d
  <2> QED
    BY <1>2, <1>3, <1>4, <2>1, RecursionKeeps
<1>6. d \in 0 .. d
  BY <1>2
<1>7. Plain[n + d] = P \o SubSeq(given, n + 1, n + d)
  <2> HIDE DEF P, d
  <2> QED
    BY <1>5, <1>6
<1> HIDE DEF d
<1> QED
  BY <1>2, <1>7

\* One sequence begins with the items of p and goes on with those of g behind n, to m.
Joins(w, p, g, n, m) ==
  /\ Len(w) = Len(p) + (m - n)
  /\ \A i \in 1 .. Len(p) : w[i] = p[i]
  /\ \A j \in n + 1 .. m : w[Len(p) + (j - n)] = g[j]

LEMMA JoinJoins ==
  ASSUME NEW S, NEW p \in Seq(S), NEW g \in Seq(S), NEW n \in 0 .. Len(g), NEW m \in n .. Len(g)
  PROVE  p \o SubSeq(g, n + 1, m) \in Seq(S) /\ Joins(p \o SubSeq(g, n + 1, m), p, g, n, m)
<1>1. p \o SubSeq(g, n + 1, m) \in Seq(S) /\ Len(p \o SubSeq(g, n + 1, m)) = Len(p) + (m - n)
  BY JoinIs
<1>2. \A i \in 1 .. Len(p) : (p \o SubSeq(g, n + 1, m))[i] = p[i]
  BY JoinIs
<1>3. \A j \in n + 1 .. m : (p \o SubSeq(g, n + 1, m))[Len(p) + (j - n)] = g[j]
  BY JoinIs
<1>4. PICK w \in Seq(S) : w = p \o SubSeq(g, n + 1, m)
  BY <1>1
<1>5. Joins(w, p, g, n, m)
  BY <1>1, <1>2, <1>3, <1>4 DEF Joins
<1> QED
  BY <1>4, <1>5

\* The first argument that is no plain one.
LEMMA FirstIs ==
  ASSUME NEW p \in Seq(Arguments), \A i \in 1 .. Len(p) : p[i].kind = "plain",
         given \in Seq(Arguments), NEW n \in 0 .. Len(given),
         argv = p \o SubSeq(given, n + 1, Len(given))
  PROVE  \/ FirstOption = 0 /\ \A i \in n + 1 .. Len(given) : given[i].kind = "plain"
         \/ \E m \in n + 1 .. Len(given) :
              /\ FirstOption = Len(p) + (m - n) /\ argv[FirstOption] = given[m] /\ given[m].kind # "plain"
              /\ \A i \in n + 1 .. m - 1 : given[i].kind = "plain"
<1> DEFINE L == Len(given)
           I == {i \in 1 .. Len(argv) : argv[i].kind # "plain"}
           q == Len(p)
<1>1. FirstOption = IF I # {} THEN Min(I) ELSE 0
  BY DEF FirstOption, SelectInSeq
<1>2. q \in Nat /\ L \in Nat /\ n \in Nat /\ n <= L /\ L \in n .. L
  OBVIOUS
<1>3. /\ Len(argv) = q + (L - n) /\ \A i \in 1 .. q : argv[i] = p[i]
      /\ \A j \in n + 1 .. L : argv[q + (j - n)] = given[j]
  <2>0. /\ p \in Seq(Arguments) /\ given \in Seq(Arguments) /\ n \in 0 .. Len(given)
        /\ Len(given) \in n .. Len(given)
    BY <1>2 DEF L
  <2>1. Joins(p \o SubSeq(given, n + 1, Len(given)), p, given, n, Len(given))
    BY <2>0, JoinJoins
  <2> QED
    BY <2>1, Zenon DEF Joins, L, q
<1>4. \A i \in 1 .. Len(argv) : i \in 1 .. q \/ \E j \in n + 1 .. L : i = q + (j - n)
  <2> HIDE DEF L, q
  <2>1. Len(argv) = q + (L - n)
    BY <1>3
  <2>2. ASSUME NEW i \in 1 .. q + (L - n) PROVE i \in 1 .. q \/ \E j \in n + 1 .. L : i = q + (j - n)
    <3>1. q \in Nat /\ n \in Nat /\ L \in Nat /\ n <= L
      BY <1>2
    <3> QED
      BY <3>1, PlaceIs
  <2> QED
    BY <2>1, <2>2, Zenon
<1>5. \A j \in n + 1 .. L : q + (j - n) \in 1 .. Len(argv) /\ argv[q + (j - n)] = given[j]
  <2> HIDE DEF L, q
  <2> QED
    BY <1>2, <1>3
<1> HIDE DEF L, q
<1>6. CASE I = {}
  <2>1. \A j \in n + 1 .. L : given[j].kind = "plain"
    BY <1>5, <1>6
  <2> QED
    BY <1>1, <1>6, <2>1 DEF L
<1>7. CASE I # {}
  <2>1. I \subseteq Nat
    BY <1>2
  <2>2. PICK x \in I : x = Min(I) /\ \A y \in I : x <= y
    <3> HIDE DEF I
    <3>1. PICK x \in I : \A y \in I : <<y, x>> \notin OpToRel(<, Nat)
      BY <1>7, <2>1, NatLessThanWellFounded, WFMin, Zenon
    <3>2. \A y \in I : ~(y < x)
      BY <2>1, <3>1 DEF OpToRel
    <3>3. \A y \in I : x <= y
      BY <2>1, <3>2
    <3>4. Min(I) \in I /\ \A y \in I : Min(I) <= y
      BY <3>3 DEF Min
    <3> QED
      BY <3>4
  <2>3. FirstOption = x
    BY <1>1, <1>7, <2>2
  <2>4. x \notin 1 .. q
    BY <1>3, <2>2 DEF q
  <2>5. PICK m \in n + 1 .. L : x = q + (m - n)
    BY <1>4, <2>2, <2>4
  <2>6. argv[x] = given[m] /\ given[m].kind # "plain"
    BY <1>5, <2>2, <2>5
  <2>7. ASSUME NEW i \in n + 1 .. m - 1 PROVE given[i].kind = "plain"
    <3>1. i \in n + 1 .. L /\ ~(x <= q + (i - n))
      BY <1>2, <2>5
    <3>2. q + (i - n) \notin I
      BY <2>2, <3>1
    <3> QED
      BY <1>5, <3>1, <3>2
  <2> QED
    BY <2>3, <2>5, <2>6, <2>7 DEF L, q
<1> QED
  BY <1>6, <1>7

\* What is left of a sequence without one of its items.
Without(g, k, s, t) ==
  /\ RemoveAt(g, k) = s \o t
  /\ Len(s) = k - 1 /\ \A i \in 1 .. k - 1 : s[i] = g[i]
  /\ Len(t) = Len(g) - k /\ \A i \in 1 .. Len(g) - k : t[i] = g[k + i]

LEMMA RemovedIs ==
  ASSUME NEW S, NEW g \in Seq(S), NEW k \in 1 .. Len(g)
  PROVE  \E s \in Seq(S), t \in Seq(S) : Without(g, k, s, t)
<1>1. k \in 0 .. Len(g) /\ k - 1 \in 0 .. Len(g) /\ Len(g) \in k .. Len(g) /\ 0 \in 0 .. Len(g) /\ 0 + 1 = 1
  OBVIOUS
<1>2. PICK h \in 0 .. Len(g) : h = k - 1
  BY <1>1
<1>3. /\ SubSeq(g, 0 + 1, h) \in Seq(S) /\ Len(SubSeq(g, 0 + 1, h)) = h - 0
      /\ \A i \in 1 .. h - 0 : SubSeq(g, 0 + 1, h)[i] = g[0 + i]
  BY <1>1, PartIs
<1>4. /\ SubSeq(g, k + 1, Len(g)) \in Seq(S) /\ Len(SubSeq(g, k + 1, Len(g))) = Len(g) - k
      /\ \A i \in 1 .. Len(g) - k : SubSeq(g, k + 1, Len(g))[i] = g[k + i]
  BY <1>1, PartIs
<1>5. PICK s \in Seq(S) : s = SubSeq(g, 1, h)
  BY <1>1, <1>3
<1>6. PICK t \in Seq(S) : t = SubSeq(g, k + 1, Len(g))
  BY <1>4
<1>7. RemoveAt(g, k) = s \o t
  BY <1>2, <1>5, <1>6 DEF RemoveAt
<1>8. Len(s) = k - 1 /\ \A i \in 1 .. k - 1 : s[i] = g[i]
  <2>1. h - 0 = k - 1 /\ \A i \in 1 .. k - 1 : 0 + i = i
    BY <1>2
  <2> QED
    BY <1>1, <1>3, <1>5, <2>1
<1>9. Without(g, k, s, t)
  BY <1>4, <1>6, <1>7, <1>8 DEF Without
<1> QED
  BY <1>9

\* Without the one that comes from m, it is two such parts.
LEMMA JoinWithout ==
  ASSUME NEW S, NEW p \in Seq(S), NEW g \in Seq(S), NEW n \in 0 .. Len(g), NEW m \in n + 1 .. Len(g),
         NEW h \in n .. Len(g), h = m - 1
  PROVE  RemoveAt(p \o SubSeq(g, n + 1, Len(g)), Len(p) + (m - n))
           = (p \o SubSeq(g, n + 1, h)) \o SubSeq(g, m + 1, Len(g))
<1> DEFINE L == Len(g)
           q == Len(p)
           k == q + (m - n)
<1>1. /\ q \in Nat /\ L \in Nat /\ n \in Nat /\ n <= L /\ m \in Nat /\ n < m /\ m <= L
      /\ L \in n .. L /\ L \in m .. L /\ m \in 0 .. L /\ n \in 0 .. L
  OBVIOUS
<1>2. PICK w \in Seq(S) : w = p \o SubSeq(g, n + 1, L) /\ Joins(w, p, g, n, L)
  <2> HIDE DEF L
  <2> QED
    BY <1>1, JoinJoins DEF L
<1>3. PICK u \in Seq(S) : u = p \o SubSeq(g, n + 1, h) /\ Joins(u, p, g, n, h)
  BY JoinJoins
<1>4. PICK v \in Seq(S) : v = SubSeq(g, m + 1, L) /\ Len(v) = L - m /\ \A i \in 1 .. L - m : v[i] = g[m + i]
  <2>1. /\ SubSeq(g, m + 1, L) \in Seq(S) /\ Len(SubSeq(g, m + 1, L)) = L - m
        /\ \A i \in 1 .. L - m : SubSeq(g, m + 1, L)[i] = g[m + i]
    BY <1>1, PartIs
  <2> QED
    BY <2>1
<1>5. k \in 1 .. Len(w) /\ k - 1 = q + (h - n) /\ Len(w) - k = L - m
  BY <1>1, <1>2 DEF Joins
<1>6. PICK s \in Seq(S), t \in Seq(S) : Without(w, k, s, t)
  <2> HIDE DEF k
  <2> QED
    BY <1>5, RemovedIs
<1> HIDE DEF L, q, k
<1>7. s = u
  <2>1. \A i \in 1 .. q + (h - n) : i \in 1 .. q \/ \E j \in n + 1 .. h : i = q + (j - n)
    <3>1. h \in Nat /\ n <= h
      BY <1>1
    <3> QED
      BY <1>1, <3>1, PlaceIs
  <2>2. Len(s) = Len(u) /\ Len(s) = q + (h - n)
    BY <1>3, <1>5, <1>6 DEF Joins, Without, q
  <2>3. ASSUME NEW i \in 1 .. Len(s) PROVE s[i] = u[i]
    <3>1. i \in 1 .. k - 1 /\ s[i] = w[i]
      BY <1>5, <1>6, <2>2 DEF Without
    <3>2. CASE i \in 1 .. q
      BY <1>2, <1>3, <3>1, <3>2 DEF Joins, q
    <3>3. CASE \E j \in n + 1 .. h : i = q + (j - n)
      <4>1. PICK j \in n + 1 .. h : i = q + (j - n)
        BY <3>3
      <4>2. j \in n + 1 .. L
        BY <1>1
      <4>3. w[q + (j - n)] = g[j]
        BY <1>2, <4>2 DEF Joins, q
      <4>4. u[q + (j - n)] = g[j]
        BY <1>3 DEF Joins, q
      <4> QED
        BY <3>1, <4>1, <4>3, <4>4
    <3> QED
      BY <2>1, <2>2, <3>2, <3>3
  <2> QED
    BY <2>2, <2>3, SeqEqual
<1>8. t = v
  <2>1. ASSUME NEW i \in 1 .. L - m PROVE w[k + i] = g[m + i]
    <3>1. PICK j \in n + 1 .. L : j = m + i /\ q + (j - n) = k + i
      BY <1>1 DEF k
    <3>2. w[q + (j - n)] = g[j]
      BY <1>2 DEF Joins, q
    <3> QED
      BY <3>1, <3>2
  <2>2. Len(t) = L - m /\ \A i \in 1 .. L - m : t[i] = w[k + i]
    BY <1>5, <1>6 DEF Without
  <2>3. Len(t) = Len(v) /\ \A i \in 1 .. Len(t) : t[i] = v[i]
    BY <1>4, <2>1, <2>2
  <2> QED
    BY <2>3, SeqEqual
<1>9. RemoveAt(w, k) = u \o v
  BY <1>6, <1>7, <1>8 DEF Without
<1> QED
  BY <1>2, <1>3, <1>4, <1>9 DEF L, k, q

LEMMA TakenOut ==
  ASSUME NEW p \in Seq(Arguments), given \in Seq(Arguments), NEW n \in 0 .. Len(given),
         argv = p \o SubSeq(given, n + 1, Len(given)), NEW m \in n + 1 .. Len(given)
  PROVE  RemoveAt(argv, Len(p) + (m - n))
           = (p \o SubSeq(given, n + 1, m - 1)) \o SubSeq(given, m + 1, Len(given))
<1>1. PICK h \in n .. Len(given) : h = m - 1
  OBVIOUS
<1> QED
  BY <1>1, JoinWithout

-----------------------------------------------------------------------------
(* Where the options end, and what the file holds.                          *)

LEMMA SameArguments ==
  ASSUME given' = given
  PROVE  Plain' = Plain /\ Settings' = Settings /\ Read' = Read
<1>1. Plain' = Plain
  BY DEF Plain
<1>2. Settings' = Settings
  BY DEF Settings
<1>3. EndAt' = EndAt
  BY DEF EndAt, SelectInSeq
<1>4. Read' = Read
  BY <1>3 DEF Read
<1> QED
  BY <1>1, <1>2, <1>4

\* The options are read up to the first "--", or all of them.
LEMMA ReadIs ==
  ASSUME given \in Seq(Arguments)
  PROVE  /\ (\A i \in 1 .. Len(given) : given[i].kind # "end") => Read = Len(given)
         /\ \A m \in 1 .. Len(given) :
              given[m].kind = "end" /\ (\A i \in 1 .. m - 1 : given[i].kind # "end") => Read = m - 1
         /\ Read \in 0 .. Len(given)
<1> DEFINE L == Len(given)
           I == {i \in 1 .. L : given[i].kind = "end"}
<1>1. EndAt = IF I # {} THEN Min(I) ELSE 0
  BY DEF EndAt, SelectInSeq
<1>2. L \in Nat
  OBVIOUS
<1> HIDE DEF L
<1>3. CASE I = {}
  <2>1. Read = L
    BY <1>1, <1>3 DEF Read, L
  <2>2. L \in 0 .. L
    BY <1>2
  <2> QED
    BY <1>3, <2>1, <2>2 DEF L
<1>4. CASE I # {}
  <2>1. I \subseteq Nat
    BY <1>2
  <2>2. PICK x \in I : x = Min(I) /\ \A y \in I : x <= y
    <3> HIDE DEF I
    <3>1. PICK x \in I : \A y \in I : <<y, x>> \notin OpToRel(<, Nat)
      BY <1>4, <2>1, NatLessThanWellFounded, WFMin, Zenon
    <3>2. \A y \in I : ~(y < x)
      BY <2>1, <3>1 DEF OpToRel
    <3>3. \A y \in I : x <= y
      BY <2>1, <3>2
    <3>4. Min(I) \in I /\ \A y \in I : Min(I) <= y
      BY <3>3 DEF Min
    <3> QED
      BY <3>4
  <2>3. x \in 1 .. L /\ given[x].kind = "end" /\ EndAt = x
    BY <1>1, <1>4, <2>2
  <2>4. Read = x - 1
    BY <1>2, <2>3 DEF Read
  <2>5. ASSUME NEW m \in 1 .. L, given[m].kind = "end", \A i \in 1 .. m - 1 : given[i].kind # "end"
        PROVE  m = x
    <3>1. m \in I
      BY <2>5
    <3>2. x <= m
      BY <2>2, <3>1
    <3>3. x \notin 1 .. m - 1
      BY <2>3, <2>5
    <3> QED
      BY <1>2, <2>3, <3>2, <3>3
  <2>6. ~ \A i \in 1 .. L : given[i].kind # "end"
    BY <2>3
  <2>7. Read \in 0 .. L
    BY <1>2, <2>3, <2>4
  <2>8. \A m \in 1 .. L : given[m].kind = "end" /\ (\A i \in 1 .. m - 1 : given[i].kind # "end") => Read = m - 1
    BY <2>4, <2>5
  <2> QED
    BY <2>6, <2>7, <2>8 DEF L
<1> QED
  BY <1>3, <1>4

\* A configuration that was just created holds nothing.
LEMMA CreatedIs ==
  ASSUME ConfAssumption, NEW a \in Ways
  PROVE  st_conf_create(a).c \in ConfSet /\ Sound(st_conf_create(a).c) /\ Store(st_conf_create(a).c) = << >>
<1>1. NewSecIs(NoConf, DEF_SEC_NAME, st_conf_create(a))
  BY CreateConf
<1>2. << >> \in Seq(SecSet) /\ DEF_SEC_NAME \in Seq(Labels)
  BY DEF DEF_SEC_NAME
<1>3. /\ NoConf \in ConfSet /\ NoConf.secs = << >> /\ NoConf.sec_cap = 0
      /\ Len(<< >>) = 0 /\ DOMAIN << >> = {}
  BY <1>2 DEF NoConf, ConfSet
<1>4. Open(NoConf)
  BY <1>3 DEF Open, SecsSound
<1>5. st_conf_create(a).ok = TRUE
  BY <1>2, <1>4, NewSecFound DEF st_conf_create
<1> DEFINE r == st_conf_create(a)
<1> HIDE DEF r
<1>6. r.c \in ConfSet /\ Sound(r.c) /\ SameParams(NoConf, r.c)
  BY <1>1, <1>5 DEF NewSecIs, r
<1>7. Store(r.c) = << >>
  BY <1>6, CreatedMap
<1> QED
  BY <1>6, <1>7 DEF r

\* What is loaded so far.
Results == [c : ConfSet, at : Nat, ok : {TRUE}, text : {NotSet}, value : {Unset}, fault : {FALSE}, lost : BOOLEAN]
Loads == {r \in Results : Sound(r.c)}
LineSays(q, l, r) ==
  /\ r \in Loads /\ (r.lost = FALSE => q.lost = FALSE)
  /\ r.lost = FALSE =>
       \A x : TextOf(r.c, x) = IF x = <<l.name, Fold[l.key]>> THEN l.text ELSE TextOf(q.c, x)

LEMMA LineIs ==
  ASSUME ConfAssumption, OptAssumption, NEW q \in Loads, NEW l \in FileLines, NEW a \in Ways
  PROVE  LineSays(q, l, LoadLine(q, l, a))
<1>1. l.name \in Seq(Labels) /\ l.key \in Keys /\ l.text \in Texts
  BY DEF OptAssumption
<1>2. q.c \in ConfSet /\ Sound(q.c) /\ q.lost \in BOOLEAN
  BY DEF Loads, Results
<1> DEFINE add == AddTo(q.c, l.name, l.key, l.text, a)
           r == LoadLine(q, l, a)
<1>3. AddToSays(q.c, <<l.name, Fold[l.key]>>, l.text, add)
  BY <1>1, <1>2, AddToIs
<1>4. r = [add EXCEPT !.lost = @ \/ q.lost]
  BY DEF LoadLine
<1> HIDE DEF add, r
<1>5. PICK b \in BOOLEAN : add = [c |-> add.c, at |-> add.at, ok |-> TRUE, text |-> NotSet, value |-> Unset,
                                  fault |-> FALSE, lost |-> b]
  BY <1>3 DEF AddToSays, PlainResult
<1>6. add.c \in ConfSet /\ Sound(add.c) /\ add.at \in Nat /\ add.lost = b
  BY <1>3, <1>5 DEF AddToSays
<1>7. PICK d \in BOOLEAN : d = (b \/ q.lost)
  BY <1>2
<1>8. r = [c |-> add.c, at |-> add.at, ok |-> TRUE, text |-> NotSet, value |-> Unset, fault |-> FALSE, lost |-> d]
  <2>1. (add.lost \/ q.lost) = d
    BY <1>6, <1>7
  <2>2. r = [add EXCEPT !.lost = d]
    BY <1>4, <2>1, Zenon
  <2>3. PICK x : x = add.c
    OBVIOUS
  <2>4. PICK y : y = add.at
    OBVIOUS
  <2>5. add = [c |-> x, at |-> y, ok |-> TRUE, text |-> NotSet, value |-> Unset, fault |-> FALSE, lost |-> b]
    BY <1>5, <2>3, <2>4
  <2>6. r = [[c |-> x, at |-> y, ok |-> TRUE, text |-> NotSet, value |-> Unset, fault |-> FALSE, lost |-> b]
               EXCEPT !.lost = d]
    BY <2>2, <2>5, Zenon
  <2>7. r = [c |-> x, at |-> y, ok |-> TRUE, text |-> NotSet, value |-> Unset, fault |-> FALSE, lost |-> d]
    BY <2>6
  <2> QED
    BY <2>3, <2>4, <2>7
<1>9. r \in Loads
  BY <1>6, <1>8 DEF Loads, Results
<1>10. r.c = add.c /\ r.lost = d
  BY <1>8
<1>11. d = FALSE => b = FALSE /\ q.lost = FALSE
  BY <1>2, <1>7
<1>12. LineSays(q, l, r)
  BY <1>3, <1>6, <1>9, <1>10, <1>11 DEF LineSays, AddToSays
<1> QED
  BY <1>12 DEF r

\* The file that was loaded: its lines, if none was lost.
LoadSays(r) ==
  /\ r.c \in ConfSet /\ Sound(r.c) /\ r.lost \in BOOLEAN
  /\ r.lost = FALSE => Reflects(r.c, file, Len(file))

LEMMA LoadIs ==
  ASSUME ConfAssumption, OptAssumption, file \in Seq(FileLines), NEW a \in Ways,
         NEW c \in ConfSet, Sound(c), Store(c) = << >>
  PROVE  LoadSays(Load(c, a))
<1> DEFINE L == Len(file)
           E(r, n) == LoadLine(r, file[n], a)
           step == [x \in Loads \X (1 .. L) |-> E(x[1], x[2])]
           b == Result(c, 0, TRUE)
           Is(f) == f = [n \in 0 .. L |-> IF n = 0 THEN b ELSE E(f[n - 1], n)]
           load == CHOOSE f : Is(f)
<1>1. L \in Nat /\ \A n \in 1 .. L : file[n] \in FileLines
  OBVIOUS
<1>2. b \in Loads /\ b.c = c
  <2>1. b = [c |-> c, at |-> 0, ok |-> TRUE, text |-> NotSet, value |-> Unset, fault |-> FALSE, lost |-> FALSE]
    BY DEF Result
  <2> HIDE DEF b
  <2>2. b.c = c
    BY <2>1
  <2>3. b \in Results
    BY <2>1 DEF Results
  <2> QED
    BY <2>2, <2>3 DEF Loads
<1>3. \A r \in Loads, n \in 1 .. L : LineSays(r, file[n], E(r, n))
  BY <1>1, LineIs
<1>4. Load(c, a) = load[L]
  BY DEF Load
<1> HIDE DEF E, L, b
<1>5. \A r \in Loads, n \in 1 .. L : E(r, n) \in Loads
  BY <1>3 DEF LineSays
<1>6. step \in [Loads \X (1 .. L) -> Loads] /\ \A r \in Loads, n \in 1 .. L : step[<<r, n>>] = E(r, n)
  BY <1>5
<1> HIDE DEF step
<1>7. PICK f \in [0 .. L -> Loads] : f = [n \in 0 .. L |-> IF n = 0 THEN b ELSE step[<<f[n - 1], n>>]]
  <2>1. PICK f \in [0 .. L -> Loads] : Recursion(f, L, b, step)
    BY <1>1, <1>2, <1>6, RecursionExists
  <2> QED
    BY <2>1 DEF Recursion
<1>8. \A n \in 1 .. L : n # 0 /\ n - 1 \in 0 .. L /\ n \in 0 .. L
  BY <1>1
<1>9. Is(f)
  <2>1. \A n \in 0 .. L : n # 0 => f[n - 1] \in Loads /\ step[<<f[n - 1], n>>] = E(f[n - 1], n)
    BY <1>1, <1>6, <1>7
  <2> QED
    BY <1>7, <2>1
<1>10. Is(load)
  BY <1>9, Zenon
<1> HIDE DEF Is, load
<1>11. load = [n \in 0 .. L |-> IF n = 0 THEN b ELSE E(load[n - 1], n)]
  BY <1>10 DEF Is
<1>12. load[0] = b /\ \A n \in 1 .. L : load[n] = E(load[n - 1], n)
  <2>1. 0 \in 0 .. L
    BY <1>1
  <2> QED
    BY <1>8, <1>11, <2>1
<1> DEFINE Good == {n \in 0 .. L : load[n] \in Loads /\ (load[n].lost = FALSE => Reflects(load[n].c, file, n))}
<1>13. 0 \in Good
  <2>1. Reflects(c, file, 0)
    BY ReflectsNothing
  <2>2. 0 \in 0 .. L
    BY <1>1
  <2> QED
    BY <1>2, <1>12, <2>1, <2>2
<1>14. ASSUME NEW n \in 1 .. L, n - 1 \in Good PROVE n \in Good
  <2>1. PICK q \in Loads : q = load[n - 1] /\ (q.lost = FALSE => Reflects(q.c, file, n - 1))
    BY <1>14
  <2>2. PICK l \in FileLines : l = file[n]
    BY <1>1
  <2>3. PICK r \in Loads : r = load[n] /\ LineSays(q, l, r)
    <3>1. load[n] = E(q, n)
      BY <1>12, <2>1
    <3> QED
      BY <1>3, <1>5, <2>1, <2>2, <3>1
  <2>4. ASSUME r.lost = FALSE PROVE Reflects(r.c, file, n)
    <3>1. q.lost = FALSE /\ Reflects(q.c, file, n - 1)
      BY <2>1, <2>3, <2>4 DEF LineSays
    <3>2. l.key \in Keys
      BY <2>2 DEF OptAssumption
    <3>3. \A x : TextOf(r.c, x) = IF x = <<l.name, Fold[l.key]>> THEN l.text ELSE TextOf(q.c, x)
      BY <2>3, <2>4 DEF LineSays
    <3>4. PICK m \in Nat : m = n - 1 /\ m < n
      BY <1>1
    <3>5. n \in Nat /\ \A i \in m + 1 .. n - 1 : file[i].key = Blank
      BY <1>1, <3>4
    <3>6. file[n].key \in Keys
      BY <2>2, <3>2
    <3>7. PICK o : o = <<file[n].name, Fold[file[n].key]>>
      OBVIOUS
    <3>8. \A x : TextOf(r.c, x) = IF x = o THEN file[n].text ELSE TextOf(q.c, x)
      BY <2>2, <3>3, <3>7
    <3>9. Reflects(q.c, file, m)
      BY <3>1, <3>4
    <3> QED
      BY <3>4, <3>5, <3>6, <3>7, <3>8, <3>9, ReflectsNext
  <2> QED
    BY <1>8, <2>3, <2>4
<1>15. Good = 0 .. L
  <2>1. Good \in SUBSET (0 .. L)
    OBVIOUS
  <2> HIDE DEF Good
  <2> QED
    BY <1>1, <1>13, <1>14, <2>1, RecursionKeeps
<1>16. load[L] \in Loads /\ (load[L].lost = FALSE => Reflects(load[L].c, file, L))
  <2>1. L \in 0 .. L
    BY <1>1
  <2> QED
    BY <1>15, <2>1
<1>17. LoadSays(load[L])
  BY <1>16 DEF LoadSays, L, Loads, Results
<1> QED
  BY <1>4, <1>17

-----------------------------------------------------------------------------
(* The invariant of the options.  While they are parsed, the first n        *)
(* arguments were dealt with: what was plain among them is left, and what   *)
(* was set by them is held.  Once they are parsed, this holds of all that   *)
(* are looked at, and of the file.                                          *)

Reached(n) ==
  /\ \A i \in 1 .. n : given[i].kind # "end"
  /\ argv = Plain[n] \o SubSeq(given, n + 1, Len(given))
  /\ ~optLost => Reflects(cmd_conf, Settings, n)
Parsing == ~loaded /\ optAnswer.call # "get" /\ \E n \in 0 .. Len(given) : Reached(n)
Parsed ==
  /\ argv = Plain[Read] \o SubSeq(given, Read + 2, Len(given))
  /\ ~optLost => Reflects(cmd_conf, Settings, Read)
  /\ loaded /\ ~optLost => Reflects(file_conf, file, Len(file))
OptTypesOK ==
  /\ given \in Seq(Arguments) /\ file \in Seq(FileLines) /\ loaded \in BOOLEAN /\ optLost \in BOOLEAN
  /\ help_plugs \in Seq(Plugins) /\ pc \in {"parsing", "ready", "error"}
  /\ cmd_conf \in ConfSet /\ Sound(cmd_conf)
  /\ loaded => file_conf \in ConfSet /\ Sound(file_conf)
OptInv ==
  /\ OptTypesOK /\ CommandLineWins
  /\ pc = "parsing" => Parsing
  /\ pc = "ready" => Parsed
  /\ pc = "error" => optAnswer.call # "get"

LEMMA UpToSeq ==
  ASSUME NEW S, NEW n \in Nat, NEW x \in UpTo(S, n)
  PROVE  x \in Seq(S)
<1>1. PICK m \in 0 .. n : x \in [1 .. m -> S]
  BY DEF UpTo
<1>2. m \in Nat
  OBVIOUS
<1> QED
  BY <1>1, <1>2

LEMMA OptInitInv == ASSUME ConfAssumption, OptAssumption, OptInit PROVE OptInv
<1>1. given \in Seq(Arguments) /\ file \in Seq(FileLines)
  <2>1. given \in UpTo(Arguments, MaxArgs) /\ file \in UpTo(FileLines, MaxFileLines)
    BY DEF OptInit
  <2>2. MaxArgs \in Nat /\ MaxFileLines \in Nat
    BY DEF OptAssumption
  <2> QED
    BY <2>1, <2>2, UpToSeq
<1>2. cmd_conf \in ConfSet /\ Sound(cmd_conf) /\ Store(cmd_conf) = << >>
  <2>1. PICK a \in Ways : cmd_conf = st_conf_create(a).c
    BY DEF OptInit
  <2> QED
    BY <2>1, CreatedIs
<1>3. /\ loaded = FALSE /\ optLost = FALSE /\ help_plugs = << >> /\ pc = "parsing"
      /\ optAnswer.call # "get" /\ argv = given
  BY DEF OptInit, NoAnswer
<1>4. OptTypesOK
  <2>1. << >> \in Seq(Plugins)
    OBVIOUS
  <2> QED
    BY <1>1, <1>2, <1>3, <2>1 DEF OptTypesOK
<1>5. Reached(0)
  <2>1. Plain[0] = << >>
    BY <1>1, PlainIs
  <2>2. SubSeq(given, 0 + 1, Len(given)) = given /\ << >> \o given = given
    <3>1. SubSeq(given, 1, Len(given)) = given
      BY <1>1, SubSeqFull
    <3>2. << >> \o given = given
      BY <1>1, ConcatEmptySeq
    <3> QED
      BY <3>1, <3>2
  <2>3. Reflects(cmd_conf, Settings, 0)
    BY <1>2, ReflectsNothing
  <2>4. \A i \in 1 .. 0 : given[i].kind # "end"
    OBVIOUS
  <2> QED
    BY <1>3, <2>1, <2>2, <2>3, <2>4 DEF Reached
<1>6. Parsing
  <2>1. 0 \in 0 .. Len(given)
    BY <1>1
  <2> QED
    BY <1>3, <1>5, <2>1 DEF Parsing
<1>7. CommandLineWins
  BY <1>3 DEF CommandLineWins
<1> QED
  BY <1>3, <1>4, <1>6, <1>7 DEF OptInv

\* A step of parsing that answers nothing.
LEMMA ParsingOn ==
  ASSUME OptInv, pc = "parsing", pc' \in {"parsing", "error"}, given' = given, file' = file,
         UNCHANGED <<loaded, file_conf, optAnswer>>,
         help_plugs' \in Seq(Plugins), optLost' \in BOOLEAN,
         cmd_conf' \in ConfSet, Sound(cmd_conf'),
         pc' = "parsing" =>
           \E n \in 0 .. Len(given) :
             /\ \A i \in 1 .. n : given[i].kind # "end"
             /\ argv' = Plain[n] \o SubSeq(given, n + 1, Len(given))
             /\ ~optLost' => Reflects(cmd_conf', Settings, n)
  PROVE  OptInv'
<1>1. Plain' = Plain /\ Settings' = Settings
  BY SameArguments
<1>2. Parsing
  BY DEF OptInv
<1>3. ~loaded' /\ optAnswer'.call # "get"
  BY <1>2 DEF Parsing
<1>4. OptTypesOK'
  BY <1>3 DEF OptInv, OptTypesOK
<1>5. CommandLineWins'
  BY <1>3 DEF CommandLineWins
<1>6. pc' = "parsing" => Parsing'
  <2>1. ASSUME NEW n \in 0 .. Len(given), \A i \in 1 .. n : given[i].kind # "end",
               argv' = Plain[n] \o SubSeq(given, n + 1, Len(given)),
               ~optLost' => Reflects(cmd_conf', Settings, n)
        PROVE  Reached(n)'
    BY <1>1, <2>1 DEF Reached
  <2> QED
    BY <1>3, <2>1 DEF Parsing
<1> QED
  BY <1>3, <1>4, <1>5, <1>6 DEF OptInv

LEMMA PluginInv ==
  ASSUME OptInv, NEW o \in Plugins, st_opt_add_help_plugin(o)
  PROVE  OptInv'
<1>1. pc = "parsing" /\ UNCHANGED <<argv, given, file, cmd_conf, file_conf, loaded, pc, optAnswer, optLost>>
      /\ help_plugs' = Append(help_plugs, o)
  BY DEF st_opt_add_help_plugin
<1>2. help_plugs \in Seq(Plugins) /\ optLost \in BOOLEAN /\ cmd_conf \in ConfSet /\ Sound(cmd_conf)
  BY DEF OptInv, OptTypesOK
<1>3. help_plugs' \in Seq(Plugins)
  BY <1>1, <1>2
<1>4. PICK n \in 0 .. Len(given) : Reached(n)
  BY <1>1 DEF OptInv, Parsing
<1>5. /\ \A i \in 1 .. n : given[i].kind # "end"
      /\ argv' = Plain[n] \o SubSeq(given, n + 1, Len(given))
      /\ ~optLost' => Reflects(cmd_conf', Settings, n)
  BY <1>1, <1>4 DEF Reached
<1>6. cmd_conf' \in ConfSet /\ Sound(cmd_conf') /\ optLost' \in BOOLEAN /\ pc' \in {"parsing", "error"}
  BY <1>1, <1>2
<1> QED
  BY <1>1, <1>3, <1>5, <1>6, ParsingOn

\* The next option: it is the one of some m, with only plain arguments before it.
LEMMA NextOption ==
  ASSUME given \in Seq(Arguments), NEW n \in 0 .. Len(given), Reached(n), FirstOption # 0
  PROVE  \E m \in n + 1 .. Len(given) :
           /\ argv[FirstOption] = given[m] /\ given[m].kind # "plain"
           /\ \A i \in n + 1 .. m - 1 : given[i].kind = "plain"
           /\ RemoveAt(argv, FirstOption) = Plain[m - 1] \o SubSeq(given, m + 1, Len(given))
<1>1. PICK p \in Seq(Arguments) : p = Plain[n] /\ \A i \in 1 .. Len(p) : p[i].kind = "plain"
  BY PlainAll
<1>2. argv = p \o SubSeq(given, n + 1, Len(given))
  BY <1>1 DEF Reached
<1>3. PICK m \in n + 1 .. Len(given) :
        /\ FirstOption = Len(p) + (m - n) /\ argv[FirstOption] = given[m] /\ given[m].kind # "plain"
        /\ \A i \in n + 1 .. m - 1 : given[i].kind = "plain"
  BY <1>1, <1>2, FirstIs
<1>4. RemoveAt(argv, FirstOption) = (p \o SubSeq(given, n + 1, m - 1)) \o SubSeq(given, m + 1, Len(given))
  BY <1>2, <1>3, TakenOut
<1>5. PICK h \in n .. Len(given) : h = m - 1
  OBVIOUS
<1>6. Plain[h] = Plain[n] \o SubSeq(given, n + 1, h)
  BY <1>3, <1>5, PlainOn
<1> QED
  BY <1>1, <1>3, <1>4, <1>5, <1>6

\* No option is left.
LEMMA NoOption ==
  ASSUME given \in Seq(Arguments), NEW n \in 0 .. Len(given), Reached(n), FirstOption = 0
  PROVE  argv = Plain[Len(given)] /\ \A i \in n + 1 .. Len(given) : given[i].kind = "plain"
<1>1. PICK p \in Seq(Arguments) : p = Plain[n] /\ \A i \in 1 .. Len(p) : p[i].kind = "plain"
  BY PlainAll
<1>2. argv = p \o SubSeq(given, n + 1, Len(given))
  BY <1>1 DEF Reached
<1>3. Len(p) \in Nat /\ n \in Nat
  OBVIOUS
<1>4. \A m \in n + 1 .. Len(given) : Len(p) + (m - n) # 0
  BY <1>3
<1>5. \A i \in n + 1 .. Len(given) : given[i].kind = "plain"
  BY <1>1, <1>2, <1>4, FirstIs
<1>6. PICK h \in n .. Len(given) : h = Len(given)
  OBVIOUS
<1>7. Plain[h] = Plain[n] \o SubSeq(given, n + 1, h)
  BY <1>5, <1>6, PlainOn
<1> QED
  BY <1>1, <1>2, <1>5, <1>6, <1>7

LEMMA ParseOneInv ==
  ASSUME ConfAssumption, OptAssumption, OptInv, st_opt_parse_one
  PROVE  OptInv'
<1> DEFINE x == argv[FirstOption]
<1>1. /\ pc = "parsing" /\ FirstOption # 0 /\ x.kind = "option"
      /\ UNCHANGED <<given, file, file_conf, loaded, help_plugs, optAnswer>>
  BY DEF st_opt_parse_one
<1>2. /\ given \in Seq(Arguments) /\ help_plugs \in Seq(Plugins) /\ optLost \in BOOLEAN
      /\ cmd_conf \in ConfSet /\ Sound(cmd_conf)
  BY DEF OptInv, OptTypesOK
<1>3. PICK n \in 0 .. Len(given) : Reached(n)
  BY <1>1 DEF OptInv, Parsing
<1>4. PICK m \in n + 1 .. Len(given) :
        /\ x = given[m] /\ given[m].kind # "plain"
        /\ \A i \in n + 1 .. m - 1 : given[i].kind = "plain"
        /\ RemoveAt(argv, FirstOption) = Plain[m - 1] \o SubSeq(given, m + 1, Len(given))
  BY <1>1, <1>2, <1>3, NextOption
<1>5. m \in 1 .. Len(given) /\ m \in 0 .. Len(given) /\ n \in Nat /\ m \in Nat /\ n < m
  BY <1>2
<1>6. CASE Malformed(x)
  <2>1. pc' = "error" /\ UNCHANGED <<cmd_conf, optLost>>
    BY <1>6 DEF st_opt_parse_one
  <2>2. cmd_conf' \in ConfSet /\ Sound(cmd_conf') /\ optLost' \in BOOLEAN
    BY <1>2, <2>1
  <2>3. pc' \in {"parsing", "error"} /\ help_plugs' \in Seq(Plugins) /\ pc' # "parsing"
    BY <1>1, <1>2, <2>1
  <2> QED
    BY <1>1, <2>2, <2>3, ParsingOn
<1>7. CASE ~Malformed(x)
  <2> DEFINE Added(a) == AddTo(cmd_conf, x.name, x.key, OptionText(x), a)
  <2>1. PICK a \in Ways :
          /\ cmd_conf' = Added(a).c
          /\ optLost' = (optLost \/ Added(a).lost)
          /\ argv' = RemoveAt(argv, FirstOption) /\ pc' = pc
    BY <1>7 DEF st_opt_parse_one, st_opt_consume
  <2> HIDE DEF x
  <2>2. /\ x.name \in Seq(Labels) /\ x.key \in Keys /\ OptionText(x) \in Texts
        /\ Settings[m].name = x.name /\ Settings[m].key = x.key /\ Settings[m].text = OptionText(x)
    BY <1>1, <1>2, <1>4, <1>5, ArgumentIs, SettingIs
  <2>3. PICK add : add = Added(a)
    OBVIOUS
  <2>4. AddToSays(cmd_conf, <<x.name, Fold[x.key]>>, OptionText(x), add)
    BY <1>2, <2>2, <2>3, AddToIs
  <2>5. add.c \in ConfSet /\ Sound(add.c) /\ add.lost \in BOOLEAN
    BY <2>4, PlainSays DEF AddToSays
  <2>6. cmd_conf' = add.c /\ optLost' = (optLost \/ add.lost)
    BY <2>1, <2>3
  <2>7. cmd_conf' \in ConfSet /\ Sound(cmd_conf')
    BY <2>5, <2>6
  <2>8. optLost' \in BOOLEAN
    BY <1>2, <2>5, <2>6
  <2>9. \A i \in n + 1 .. m - 1 : Settings[i].key = Blank /\ given[i].kind # "end"
    <3>1. ASSUME NEW i \in n + 1 .. m - 1 PROVE Settings[i].key = Blank /\ given[i].kind # "end"
      <4>1. i \in 1 .. Len(given) /\ given[i].kind = "plain"
        BY <1>4, <1>5
      <4> QED
        BY <1>2, <4>1, ArgumentIs, SettingIs
    <3> QED
      BY <3>1
  <2>10. \A i \in 1 .. m : given[i].kind # "end"
    <3>1. \A i \in 1 .. m : i \in 1 .. n \/ i \in n + 1 .. m - 1 \/ i = m
      BY <1>5
    <3>2. given[m].kind # "end"
      BY <1>1, <1>4
    <3> QED
      BY <1>3, <2>9, <3>1, <3>2 DEF Reached
  <2>11. argv' = Plain[m] \o SubSeq(given, m + 1, Len(given))
    <3>1. Plain[m] = Plain[m - 1]
      BY <1>2, <1>4, <1>5, PlainIs, <1>1
    <3> QED
      BY <1>4, <2>1, <3>1
  <2>12. ~optLost' => Reflects(cmd_conf', Settings, m)
    <3>1. SUFFICES ASSUME ~optLost' PROVE Reflects(add.c, Settings, m)
      BY <2>6
    <3>2. ~optLost /\ add.lost = FALSE
      BY <2>5, <2>6, <3>1
    <3>3. Reflects(cmd_conf, Settings, n)
      BY <1>3, <3>2 DEF Reached
    <3>4. PICK o : o = <<Settings[m].name, Fold[Settings[m].key]>>
      OBVIOUS
    <3>5. \A y : TextOf(add.c, y) = IF y = o THEN Settings[m].text ELSE TextOf(cmd_conf, y)
      BY <2>2, <2>4, <3>2, <3>4 DEF AddToSays
    <3>6. Settings[m].key \in Keys
      BY <2>2
    <3> QED
      BY <1>5, <2>9, <3>3, <3>4, <3>5, <3>6, ReflectsNext
  <2>13. pc' \in {"parsing", "error"} /\ help_plugs' \in Seq(Plugins)
    BY <1>1, <1>2, <2>1
  <2> QED
    BY <1>1, <1>5, <2>7, <2>8, <2>10, <2>11, <2>12, <2>13, ParsingOn
<1> QED
  BY <1>6, <1>7

\* Where the options end: the arguments that are left, and where that is.
LEMMA EndFound ==
  ASSUME given \in Seq(Arguments), NEW n \in 0 .. Len(given), Reached(n),
         IF FirstOption = 0 THEN UNCHANGED argv
         ELSE argv[FirstOption].kind = "end" /\ st_opt_consume(FirstOption)
  PROVE  /\ argv' = Plain[Read] \o SubSeq(given, Read + 2, Len(given))
         /\ Read \in n .. Len(given) /\ \A i \in n + 1 .. Read : given[i].kind = "plain"
<1> DEFINE L == Len(given)
<1>1. L \in Nat /\ n \in Nat /\ n <= L /\ \A i \in 1 .. n : given[i].kind # "end"
  BY DEF Reached
<1>2. CASE FirstOption = 0
  <2>1. argv = Plain[L] /\ \A i \in n + 1 .. L : given[i].kind = "plain"
    BY <1>2, NoOption
  <2>2. \A i \in 1 .. L : given[i].kind # "end"
    <3>1. \A i \in 1 .. L : i \in 1 .. n \/ i \in n + 1 .. L
      BY <1>1
    <3> QED
      BY <1>1, <2>1, <3>1
  <2>3. Read = L
    BY <2>2, ReadIs
  <2>4. SubSeq(given, L + 2, L) = << >>
    BY <1>1, SubSeqEmpty
  <2>5. Plain[L] \o << >> = Plain[L]
    <3>1. Plain[L] \in Seq(Arguments)
      BY <1>1, PlainIs
    <3> QED
      BY <3>1, ConcatEmptySeq
  <2>6. argv' = argv
    BY <1>2
  <2>7. L \in n .. L
    BY <1>1
  <2> QED
    BY <2>1, <2>3, <2>4, <2>5, <2>6, <2>7
<1>3. CASE FirstOption # 0
  <2>1. argv[FirstOption].kind = "end" /\ argv' = RemoveAt(argv, FirstOption)
    BY <1>3 DEF st_opt_consume
  <2>2. PICK m \in n + 1 .. L :
          /\ argv[FirstOption] = given[m]
          /\ \A i \in n + 1 .. m - 1 : given[i].kind = "plain"
          /\ RemoveAt(argv, FirstOption) = Plain[m - 1] \o SubSeq(given, m + 1, L)
    BY <1>3, NextOption
  <2>3. \A i \in 1 .. m - 1 : given[i].kind # "end"
    <3>1. \A i \in 1 .. m - 1 : i \in 1 .. n \/ i \in n + 1 .. m - 1
      BY <1>1
    <3> QED
      BY <1>1, <2>2, <3>1
  <2>4. m \in 1 .. L /\ given[m].kind = "end"
    BY <1>1, <2>1, <2>2
  <2>5. Read = m - 1
    BY <2>3, <2>4, ReadIs
  <2>6. Read + 2 = m + 1 /\ m - 1 \in n .. L
    BY <1>1, <2>4, <2>5
  <2> QED
    BY <2>1, <2>2, <2>5, <2>6
<1> QED
  BY <1>2, <1>3

LEMMA ParseInv ==
  ASSUME ConfAssumption, OptAssumption, OptInv, st_opt_parse
  PROVE  OptInv'
<1>1. pc = "parsing" /\ UNCHANGED <<given, file, help_plugs, optAnswer>>
  BY DEF st_opt_parse
<1>2. /\ given \in Seq(Arguments) /\ file \in Seq(FileLines) /\ help_plugs \in Seq(Plugins)
      /\ optLost \in BOOLEAN /\ cmd_conf \in ConfSet /\ Sound(cmd_conf)
  BY DEF OptInv, OptTypesOK
<1>3. loaded = FALSE /\ optAnswer.call # "get"
  BY <1>1 DEF OptInv, Parsing, OptTypesOK
<1>4. PICK n \in 0 .. Len(given) : Reached(n)
  BY <1>1 DEF OptInv, Parsing
<1>5. IF FirstOption = 0 THEN UNCHANGED argv
      ELSE argv[FirstOption].kind = "end" /\ st_opt_consume(FirstOption)
  BY DEF st_opt_parse
<1>6. /\ argv' = Plain[Read] \o SubSeq(given, Read + 2, Len(given))
      /\ Read \in n .. Len(given) /\ \A i \in n + 1 .. Read : given[i].kind = "plain"
  BY <1>2, <1>4, <1>5, EndFound
<1>7. ASSUME ~optLost PROVE Reflects(cmd_conf, Settings, Read)
  <2>1. Reflects(cmd_conf, Settings, n)
    BY <1>4, <1>7 DEF Reached
  <2>2. \A i \in n + 1 .. Read : Settings[i].key = Blank
    <3>1. ASSUME NEW i \in n + 1 .. Read PROVE Settings[i].key = Blank
      <4>1. i \in 1 .. Len(given) /\ given[i].kind = "plain"
        BY <1>2, <1>6
      <4> QED
        BY <1>2, <4>1, ArgumentIs, SettingIs
    <3> QED
      BY <3>1
  <2>3. Read \in Nat /\ n \in Nat /\ n <= Read
    BY <1>2, <1>6
  <2> QED
    BY <2>1, <2>2, <2>3, ReflectsOn
<1> DEFINE G(a) == GetOption(cmd_conf, file_conf, loaded, "str", DEF_SEC_NAME, ConfigKey, Unset, NotSet, a)
           R(a) == Load(st_conf_create(a).c, a)
<1>8. PICK a \in Ways :
        /\ cmd_conf' = G(a).cmd
        /\ IF G(a).value = NotSet
           THEN pc' = "ready" /\ UNCHANGED <<file_conf, loaded, optLost>>
           ELSE /\ loaded' = TRUE
                /\ \/ file_conf' = R(a).c /\ pc' = "ready" /\ optLost' = (optLost \/ R(a).lost)
                   \/ file_conf' = st_conf_create(a).c /\ pc' = "error" /\ UNCHANGED optLost
  BY DEF st_opt_parse
<1>9. OptionSays(cmd_conf, file_conf, loaded, <<DEF_SEC_NAME, Fold[ConfigKey]>>, "str", Unset, NotSet, G(a))
  <2>1. DEF_SEC_NAME \in Seq(Labels) /\ ConfigKey \in Keys /\ "str" \in Types /\ loaded \in BOOLEAN
    <3>1. DEF_SEC_NAME \in Seq(Labels)
      BY DEF DEF_SEC_NAME
    <3>2. ConfigKey \in Keys
      BY DEF OptAssumption
    <3> QED
      BY <1>3, <3>1, <3>2 DEF Types
  <2> QED
    BY <1>2, <1>3, <2>1, OptionAsked
<1>10. st_conf_create(a).c \in ConfSet /\ Sound(st_conf_create(a).c) /\ Store(st_conf_create(a).c) = << >>
  BY CreatedIs
<1>11. LoadSays(R(a))
  BY <1>2, <1>10, LoadIs
<1> HIDE DEF G, R
<1>12. cmd_conf' \in ConfSet /\ Sound(cmd_conf') /\ Store(cmd_conf') = Store(cmd_conf)
  BY <1>8, <1>9 DEF OptionSays, StillHolds
<1>13. /\ pc' \in {"ready", "error"} /\ loaded' \in BOOLEAN /\ optLost' \in BOOLEAN
       /\ loaded' => file_conf' \in ConfSet /\ Sound(file_conf')
       /\ ~optLost' => ~optLost
       /\ pc' = "ready" /\ loaded' /\ ~optLost' => Reflects(file_conf', file, Len(file))
  <2>1. CASE G(a).value = NotSet
    BY <1>2, <1>3, <1>8, <2>1
  <2>2. CASE G(a).value # NotSet
    <3>1. CASE file_conf' = R(a).c /\ pc' = "ready" /\ optLost' = (optLost \/ R(a).lost) /\ loaded' = TRUE
      <4>1. R(a).lost \in BOOLEAN /\ R(a).c \in ConfSet /\ Sound(R(a).c)
        BY <1>11 DEF LoadSays
      <4>2. optLost' \in BOOLEAN /\ (~optLost' => ~optLost /\ R(a).lost = FALSE)
        BY <1>2, <3>1, <4>1
      <4>3. ~optLost' => Reflects(R(a).c, file, Len(file))
        BY <1>11, <4>2 DEF LoadSays
      <4> QED
        BY <3>1, <4>1, <4>2, <4>3
    <3>2. CASE file_conf' = st_conf_create(a).c /\ pc' = "error" /\ UNCHANGED optLost /\ loaded' = TRUE
      BY <1>2, <1>10, <3>2
    <3> QED
      BY <1>8, <2>2, <3>1, <3>2
  <2> QED
    BY <2>1, <2>2
<1>14. OptTypesOK'
  BY <1>1, <1>2, <1>12, <1>13 DEF OptTypesOK
<1>15. CommandLineWins' /\ (pc' = "error" => optAnswer'.call # "get")
  BY <1>1, <1>3 DEF CommandLineWins
<1>16. pc' = "ready" => Parsed'
  <2>1. Plain' = Plain /\ Settings' = Settings /\ Read' = Read
    BY <1>1, SameArguments
  <2>2. argv' = Plain'[Read'] \o SubSeq(given', Read' + 2, Len(given'))
    BY <1>1, <1>6, <2>1
  <2>3. ~optLost' => Reflects(cmd_conf', Settings', Read')
    BY <1>7, <1>12, <1>13, <2>1, StillReflects
  <2>4. pc' = "ready" /\ loaded' /\ ~optLost' => Reflects(file_conf', file', Len(file'))
    BY <1>1, <1>13
  <2> QED
    BY <2>2, <2>3, <2>4 DEF Parsed
<1> QED
  BY <1>13, <1>14, <1>15, <1>16 DEF OptInv

\* What a getter answers is what takes effect.
LEMMA EffectiveIs ==
  ASSUME ConfAssumption, OptAssumption, OptInv, pc = "ready", ~optLost,
         NEW name \in Seq(Labels), NEW key \in Keys, NEW type \in Types, NEW o, o = <<name, Fold[key]>>,
         NEW g, OptionSays(cmd_conf, file_conf, loaded, o, type, Unset, Default, g)
  PROVE  g.value = Effective(type, o)
<1>1. given \in Seq(Arguments) /\ file \in Seq(FileLines) /\ loaded \in BOOLEAN
  BY DEF OptInv, OptTypesOK
<1>2. Parsed
  BY DEF OptInv
<1>3. TextOf(cmd_conf, o) = FromCmd(o)
  BY <1>2 DEF Parsed, Reflects, FromCmd
<1>4. FromCmd(o) \in Texts \cup {NotSet}
  <2>1. Read \in Nat /\ Read <= Len(given) /\ Len(given) \in Nat
    BY <1>1, ReadIs
  <2>2. \A i \in 1 .. Read : Settings[i].key # Blank => Settings[i].text \in Texts
    <3>1. ASSUME NEW i \in 1 .. Read, Settings[i].key # Blank PROVE Settings[i].text \in Texts
      <4>1. i \in 1 .. Len(given)
        BY <2>1
      <4> QED
        BY <1>1, <3>1, <4>1, ArgumentIs, SettingIs
    <3> QED
      BY <3>1
  <2> QED
    BY <2>1, <2>2, LastTextIn DEF FromCmd
<1>5. CASE loaded
  <2>1. TextOf(file_conf, o) = LastText(file, Len(file), o)
    BY <1>2, <1>5 DEF Parsed, Reflects
  <2>2. FromFile(o) = LastText(file, Len(file), o)
    BY <1>5 DEF FromFile
  <2>3. FromFile(o) \in Texts \cup {NotSet}
    <3>1. Len(file) \in Nat /\ \A i \in 1 .. Len(file) : file[i].text \in Texts
      BY <1>1 DEF OptAssumption
    <3> QED
      BY <2>2, <3>1, LastTextIn
  <2>4. g.value = Over(type, FromCmd(o), First(type, FromFile(o), Unset, Default))
    BY <1>3, <1>5, <2>1, <2>2 DEF OptionSays
  <2>5. First(type, FromFile(o), Unset, Default) = Means(type, FromFile(o), Base(type, FromFile(o)))
    BY <2>3, FirstMeans
  <2>6. PICK v : v = Means(type, FromFile(o), Base(type, FromFile(o)))
    OBVIOUS
  <2>7. Over(type, FromCmd(o), v) = Means(type, FromCmd(o), v)
    BY <1>4, OverMeans
  <2>8. Effective(type, o) = Means(type, FromCmd(o), v)
    BY <1>5, <2>6 DEF Effective
  <2> QED
    BY <2>4, <2>5, <2>6, <2>7, <2>8
<1>6. CASE ~loaded
  <2>1. g.value = First(type, FromCmd(o), Unset, Default)
    BY <1>3, <1>6 DEF OptionSays
  <2>2. First(type, FromCmd(o), Unset, Default) = Means(type, FromCmd(o), Base(type, FromCmd(o)))
    BY <1>4, FirstMeans
  <2>3. FromFile(o) = NotSet
    BY <1>6 DEF FromFile
  <2>4. PICK v : v = Base(type, FromCmd(o))
    OBVIOUS
  <2>5. Means(type, NotSet, v) = v
    BY DEF Means
  <2>6. Effective(type, o) = Means(type, FromCmd(o), v)
    BY <1>6, <2>3, <2>4, <2>5 DEF Effective
  <2> QED
    BY <2>1, <2>2, <2>4, <2>6
<1> QED
  BY <1>1, <1>5, <1>6

\* A step after parsing: the configurations hold what they held.
LEMMA ReadyOn ==
  ASSUME OptInv, pc = "ready", UNCHANGED <<argv, given, file, loaded, help_plugs, pc, optLost>>,
         StillHolds(cmd_conf, cmd_conf'), loaded => StillHolds(file_conf, file_conf'),
         CommandLineWins'
  PROVE  OptInv'
<1>1. Plain' = Plain /\ Settings' = Settings /\ Read' = Read
  BY SameArguments
<1>2. Parsed /\ OptTypesOK
  BY DEF OptInv
<1>3. OptTypesOK'
  BY <1>2 DEF OptTypesOK, StillHolds
<1>4. ~optLost => Reflects(cmd_conf', Settings, Read)
  BY <1>2, StillReflects DEF Parsed, StillHolds
<1>5. loaded /\ ~optLost => Reflects(file_conf', file, Len(file))
  BY <1>2, StillReflects DEF Parsed, StillHolds
<1>6. Parsed'
  BY <1>1, <1>2, <1>4, <1>5 DEF Parsed
<1> QED
  BY <1>3, <1>6 DEF OptInv

LEMMA GetInv ==
  ASSUME ConfAssumption, OptAssumption, OptInv, NEW type \in OptTypes, NEW l \in FileLines,
         st_opt_get(type, l.name, l.key)
  PROVE  OptInv'
<1> DEFINE G(a) == GetOption(cmd_conf, file_conf, loaded, type, l.name, l.key, Unset, Default, a)
           o == <<l.name, Fold[l.key]>>
<1>1. pc = "ready" /\ UNCHANGED <<argv, given, file, loaded, help_plugs, pc, optLost>>
  BY DEF st_opt_get, MayAsk
<1>2. PICK a \in Ways :
        /\ cmd_conf' = G(a).cmd /\ file_conf' = G(a).from
        /\ optAnswer' = [call |-> "get", type |-> type, option |-> o, value |-> G(a).value]
  BY DEF st_opt_get
<1>3. l.name \in Seq(Labels) /\ l.key \in Keys /\ type \in Types
  BY DEF OptAssumption
<1>4. /\ cmd_conf \in ConfSet /\ Sound(cmd_conf) /\ loaded \in BOOLEAN
      /\ loaded => file_conf \in ConfSet /\ Sound(file_conf)
  BY DEF OptInv, OptTypesOK
<1>5. OptionSays(cmd_conf, file_conf, loaded, o, type, Unset, Default, G(a))
  BY <1>3, <1>4, OptionAsked
<1>6. PICK g : g = G(a)
  OBVIOUS
<1>7. PICK p : p = o
  OBVIOUS
<1> HIDE DEF G
<1>8. StillHolds(cmd_conf, cmd_conf') /\ (loaded => StillHolds(file_conf, file_conf'))
  BY <1>2, <1>5 DEF OptionSays
<1>9. ASSUME ~optLost' PROVE g.value = Effective(type, p)
  <2>1. ~optLost
    BY <1>1, <1>9
  <2>2. OptionSays(cmd_conf, file_conf, loaded, p, type, Unset, Default, g)
    BY <1>5, <1>6, <1>7
  <2> QED
    BY <1>1, <1>3, <1>7, <2>1, <2>2, EffectiveIs
<1> HIDE DEF o
<1>10. optAnswer'.type = type /\ optAnswer'.option = p /\ optAnswer'.value = g.value
  BY <1>2, <1>6, <1>7
<1>11. Effective(type, p)' = Effective(type, p)
  <2>1. Settings' = Settings /\ Read' = Read
    BY <1>1, SameArguments
  <2>2. FromCmd(p)' = FromCmd(p) /\ FromFile(p)' = FromFile(p)
    BY <1>1, <2>1 DEF FromCmd, FromFile
  <2> QED
    BY <1>1, <2>2 DEF Effective
<1>12. CommandLineWins'
  <2>1. SUFFICES ASSUME ~optLost'
                 PROVE  optAnswer'.value = Effective(optAnswer.type, optAnswer.option)'
    BY DEF CommandLineWins
  <2>2. Effective(optAnswer.type, optAnswer.option)' = Effective(type, p)'
    BY <1>10
  <2> QED
    BY <1>9, <1>10, <1>11, <2>1, <2>2
<1> QED
  BY <1>1, <1>8, <1>12, ReadyOn

LEMMA OptCheckInv == ASSUME OptInv, st_opt_check PROVE OptInv'
<1>1. pc = "ready" /\ UNCHANGED <<argv, given, file, cmd_conf, file_conf, loaded, help_plugs, pc, optLost>>
      /\ optAnswer'.call = "check"
  BY DEF st_opt_check
<1>2. StillHolds(cmd_conf, cmd_conf') /\ (loaded => StillHolds(file_conf, file_conf'))
  BY <1>1 DEF StillHolds, OptInv, OptTypesOK
<1>3. CommandLineWins'
  BY <1>1 DEF CommandLineWins
<1> QED
  BY <1>1, <1>2, <1>3, ReadyOn

LEMMA PrintInv == ASSUME OptInv, st_opt_print_cmd PROVE OptInv'
<1>1. pc = "ready" /\ UNCHANGED <<argv, given, file, cmd_conf, file_conf, loaded, help_plugs, pc, optLost>>
  BY DEF st_opt_print_cmd
<1>2. optAnswer'.call = "print"
  <2>1. \E x, y : optAnswer' = [call |-> "print", lines |-> x, lost |-> y]
    BY Zenon DEF st_opt_print_cmd
  <2> QED
    BY <2>1
<1>3. StillHolds(cmd_conf, cmd_conf') /\ (loaded => StillHolds(file_conf, file_conf'))
  BY <1>1 DEF StillHolds, OptInv, OptTypesOK
<1>4. CommandLineWins'
  BY <1>2 DEF CommandLineWins
<1> QED
  BY <1>1, <1>3, <1>4, ReadyOn

\* What is asked for the usage so far.
Options == Seq(Labels) \X Keys
Asks ==
  {s \in [cmd : ConfSet, from : ConfSet \cup {file_conf}, called : SUBSET Options] :
     StillHolds(cmd_conf, s.cmd) /\ IF loaded THEN StillHolds(file_conf, s.from) ELSE s.from = file_conf}

LEMMA AskUsageIs ==
  ASSUME ConfAssumption, OptAssumption, loaded \in BOOLEAN, NEW s \in Asks, NEW o \in Options
  PROVE  AskUsage(s, o) \in Asks
<1> DEFINE a == [x \in Arrays |-> "stays"]
           G == GetOption(s.cmd, s.from, loaded, "bool", o[1], o[2], Unset, FALSE, a)
<1>1. a \in Ways
  <2>1. a = [x \in Arrays |-> IF x = "param" THEN "stays" ELSE "stays"]
    OBVIOUS
  <2> QED
    BY <2>1 DEF Ways
<1>2. /\ s.cmd \in ConfSet /\ Sound(s.cmd) /\ Store(s.cmd) = Store(cmd_conf) /\ s.called \in SUBSET Options
      /\ IF loaded THEN StillHolds(file_conf, s.from) ELSE s.from = file_conf
  BY DEF Asks, StillHolds
<1>3. loaded => s.from \in ConfSet /\ Sound(s.from) /\ Store(s.from) = Store(file_conf)
  BY <1>2 DEF StillHolds
<1>4. o[1] \in Seq(Labels) /\ o[2] \in Keys /\ "bool" \in Types
  BY DEF Options, Types
<1> HIDE DEF a
<1>5. OptionSays(s.cmd, s.from, loaded, <<o[1], Fold[o[2]]>>, "bool", Unset, FALSE, G)
  BY <1>1, <1>2, <1>3, <1>4, OptionAsked
<1>6. AskUsage(s, o) = [cmd |-> G.cmd, from |-> G.from,
                        called |-> IF G.value = TRUE THEN s.called \cup {o} ELSE s.called]
  BY DEF AskUsage, a
<1> HIDE DEF G
<1>7. StillHolds(cmd_conf, G.cmd) /\ G.cmd \in ConfSet
  BY <1>2, <1>5 DEF OptionSays, StillHolds
<1>8. /\ IF loaded THEN StillHolds(file_conf, G.from) ELSE G.from = file_conf
      /\ G.from \in ConfSet \cup {file_conf}
  <2>1. CASE loaded
    BY <1>3, <1>5, <2>1 DEF OptionSays, StillHolds
  <2>2. CASE ~loaded
    BY <1>2, <1>5, <2>2 DEF OptionSays
  <2> QED
    BY <2>1, <2>2
<1>9. PICK t \in SUBSET Options : t = IF G.value = TRUE THEN s.called \cup {o} ELSE s.called
  <2>1. s.called \cup {o} \in SUBSET Options
    BY <1>2
  <2> QED
    BY <1>2, <2>1
<1>10. PICK r : r = [cmd |-> G.cmd, from |-> G.from, called |-> t]
  OBVIOUS
<1>11. r \in [cmd : ConfSet, from : ConfSet \cup {file_conf}, called : SUBSET Options] /\ r.cmd = G.cmd /\ r.from = G.from
  BY <1>7, <1>8, <1>9, <1>10
<1>12. r \in Asks
  BY <1>7, <1>8, <1>11 DEF Asks
<1> QED
  BY <1>6, <1>9, <1>10, <1>12

LEMMA UsageInv ==
  ASSUME ConfAssumption, OptAssumption, OptInv, st_opt_show_usage
  PROVE  OptInv'
<1> DEFINE asked == <<<<DEF_SEC_NAME, HelpConfigKey>>>> \o help_plugs
           L == Len(asked)
           E(r, n) == AskUsage(r, asked[n])
           step == [x \in Asks \X (1 .. L) |-> E(x[1], x[2])]
           b == [cmd |-> cmd_conf, from |-> file_conf, called |-> {}]
           Is(f) == f = [n \in 0 .. L |-> IF n = 0 THEN b ELSE E(f[n - 1], n)]
           after == CHOOSE f : Is(f)
<1>1. /\ pc = "ready" /\ UNCHANGED <<argv, given, file, loaded, help_plugs, pc, optLost>>
      /\ cmd_conf' = after[L].cmd /\ file_conf' = after[L].from
  BY DEF st_opt_show_usage, MayAsk
<1>2. optAnswer'.call = "usage"
  <2>1. \E x : optAnswer' = [call |-> "usage", called |-> x]
    BY Zenon DEF st_opt_show_usage
  <2> QED
    BY <2>1
<1>3. /\ help_plugs \in Seq(Plugins) /\ loaded \in BOOLEAN /\ cmd_conf \in ConfSet /\ Sound(cmd_conf)
      /\ loaded => file_conf \in ConfSet /\ Sound(file_conf)
  BY DEF OptInv, OptTypesOK
<1>4. asked \in Seq(Options)
  <2>1. <<DEF_SEC_NAME, HelpConfigKey>> \in Options
    <3>1. DEF_SEC_NAME \in Seq(Labels)
      BY DEF DEF_SEC_NAME
    <3>2. HelpConfigKey \in Keys
      BY DEF OptAssumption
    <3> QED
      BY <3>1, <3>2 DEF Options
  <2>2. help_plugs \in Seq(Options)
    <3>1. Plugins \subseteq Options
      BY DEF OptAssumption, Options
    <3> QED
      BY <1>3, <3>1
  <2>3. PICK h \in Options : h = <<DEF_SEC_NAME, HelpConfigKey>>
    BY <2>1
  <2>4. <<h>> \in Seq(Options)
    OBVIOUS
  <2>5. <<h>> \o help_plugs \in Seq(Options)
    BY <2>2, <2>4, ConcatProperties
  <2> QED
    BY <2>3, <2>5
<1> HIDE DEF asked
<1>5. L \in Nat /\ \A n \in 1 .. L : asked[n] \in Options
  BY <1>4
<1>6. b \in Asks
  <2>1. b \in [cmd : ConfSet, from : ConfSet \cup {file_conf}, called : SUBSET Options]
        /\ b.cmd = cmd_conf /\ b.from = file_conf
    BY <1>3
  <2>2. StillHolds(cmd_conf, cmd_conf) /\ (loaded => StillHolds(file_conf, file_conf))
    BY <1>3 DEF StillHolds
  <2> HIDE DEF b
  <2> QED
    BY <2>1, <2>2 DEF Asks
<1>7. \A r \in Asks, n \in 1 .. L : E(r, n) \in Asks
  BY <1>3, <1>5, AskUsageIs
<1> HIDE DEF E, L, b
<1>8. step \in [Asks \X (1 .. L) -> Asks] /\ \A r \in Asks, n \in 1 .. L : step[<<r, n>>] = E(r, n)
  BY <1>7
<1> HIDE DEF step
<1>9. PICK f \in [0 .. L -> Asks] : f = [n \in 0 .. L |-> IF n = 0 THEN b ELSE step[<<f[n - 1], n>>]]
  <2>1. PICK f \in [0 .. L -> Asks] : Recursion(f, L, b, step)
    BY <1>5, <1>6, <1>8, RecursionExists
  <2> QED
    BY <2>1 DEF Recursion
<1>10. \A n \in 1 .. L : n # 0 /\ n - 1 \in 0 .. L /\ n \in 0 .. L
  BY <1>5
<1>11. Is(f)
  <2>1. \A n \in 0 .. L : n # 0 => f[n - 1] \in Asks /\ step[<<f[n - 1], n>>] = E(f[n - 1], n)
    BY <1>5, <1>8, <1>9
  <2> QED
    BY <1>9, <2>1
<1>12. Is(after)
  BY <1>11, Zenon
<1> HIDE DEF Is, after
<1>13. after = [n \in 0 .. L |-> IF n = 0 THEN b ELSE E(after[n - 1], n)]
  BY <1>12 DEF Is
<1>14. after[0] = b /\ \A n \in 1 .. L : after[n] = E(after[n - 1], n)
  <2>1. 0 \in 0 .. L
    BY <1>5
  <2> QED
    BY <1>10, <1>13, <2>1
<1> DEFINE Good == {n \in 0 .. L : after[n] \in Asks}
<1>15. Good = 0 .. L
  <2>1. 0 \in Good
    BY <1>5, <1>6, <1>14
  <2>2. ASSUME NEW n \in 1 .. L, n - 1 \in Good PROVE n \in Good
    BY <1>7, <1>10, <1>14, <2>2
  <2>3. Good \in SUBSET (0 .. L)
    OBVIOUS
  <2> HIDE DEF Good
  <2> QED
    BY <1>5, <2>1, <2>2, <2>3, RecursionKeeps
<1>16. after[L] \in Asks
  <2>1. L \in 0 .. L
    BY <1>5
  <2> QED
    BY <1>15, <2>1
<1>17. StillHolds(cmd_conf, cmd_conf') /\ (loaded => StillHolds(file_conf, file_conf'))
  BY <1>1, <1>16 DEF Asks
<1>18. CommandLineWins'
  BY <1>2 DEF CommandLineWins
<1> QED
  BY <1>1, <1>17, <1>18, ReadyOn

LEMMA OptNextInv == ASSUME ConfAssumption, OptAssumption, OptInv, [OptNext]_optVars PROVE OptInv'
<1>1. CASE UNCHANGED optVars
  <2>1. UNCHANGED <<argv, given, file, cmd_conf, file_conf, loaded, help_plugs, pc, optAnswer, optLost>>
    BY <1>1 DEF optVars
  <2>2. Plain' = Plain /\ Settings' = Settings /\ Read' = Read
    BY <2>1, SameArguments
  <2>3. OptTypesOK' = OptTypesOK
    BY <2>1 DEF OptTypesOK
  <2>4. \A n : Reached(n)' = Reached(n)
    BY <2>1, <2>2 DEF Reached
  <2>5. Parsing' = Parsing
    BY <2>1, <2>4 DEF Parsing
  <2>6. Parsed' = Parsed
    BY <2>1, <2>2 DEF Parsed
  <2>7. \A type, o : Effective(type, o)' = Effective(type, o)
    BY <2>1, <2>2 DEF Effective, FromCmd, FromFile
  <2>8. CommandLineWins => CommandLineWins'
    BY <2>1, <2>7 DEF CommandLineWins
  <2> QED
    BY <2>1, <2>3, <2>5, <2>6, <2>8 DEF OptInv
<1>2. CASE OptNext
  <2>1. CASE \E o \in Plugins : st_opt_add_help_plugin(o)
    BY <2>1, PluginInv
  <2>2. CASE \E type \in OptTypes, l \in FileLines : st_opt_get(type, l.name, l.key)
    BY <2>2, GetInv
  <2> QED
    BY <1>2, <2>1, <2>2, ParseOneInv, ParseInv, OptCheckInv, UsageInv, PrintInv DEF OptNext
<1> QED
  BY <1>1, <1>2

LEMMA OptInvariant == OptSpec => []OptInv
<1>1. ConfAssumption /\ OptAssumption
  BY ConfAssumption, OptAssumption
<1>2. OptInit => OptInv
  BY <1>1, OptInitInv
<1>3. OptInv /\ [OptNext]_optVars => OptInv'
  BY <1>1, OptNextInv
<1> QED
  BY <1>2, <1>3, PTL DEF OptSpec

\* CommandLineWins: whatever is asked for, with any getter, is answered as the last
\* setting of the command line says, then the last one of the file, then the default,
\* unless a setting was written to an array that was moved.
THEOREM CommandLineAlwaysWins == OptSpec => []CommandLineWins
<1>1. OptInv => CommandLineWins
  BY DEF OptInv
<1> QED
  BY <1>1, OptInvariant, PTL

\* ArgumentsLeft: after parsing the program is left with the arguments that are no
\* options, in their order, and with all that came after the first "--".
THEOREM ArgumentsAreLeft == OptSpec => []ArgumentsLeft
<1>1. OptInv => ArgumentsLeft
  BY DEF OptInv, Parsed, ArgumentsLeft
<1> QED
  BY <1>1, OptInvariant, PTL
=============================================================================
