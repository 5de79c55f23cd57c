-------------------------------- MODULE Opt --------------------------------
(***************************************************************************)
(* st_opt: the options of a program, from its command line and from the    *)
(* file the command line names.  Each source is a configuration of its     *)
(* own; a getter asks the file's first and lets the command line override. *)
(*                                                                         *)
(* The file is loaded at once and loads no other (see ConfLoader); the     *)
(* allocations succeed, where they put the arrays is left open.            *)
(***************************************************************************)
EXTENDS Conf

CONSTANTS
  ConfigKey, HelpKey, HelpConfigKey,    \* the keys the program itself asks for
  Arguments,       \* [kind |-> "plain" | "end" | "option", name, key, text]
  FileLines,       \* [name, key, text] lines of a file, under their section
  OptTypes, Default, Plugins,
  INFO_NUM, MaxArgs, MaxFileLines, MaxGets

TrueText == [form |-> "true", n |-> 0]

\* An argument that is no option has no key; an option without a value has an empty text.
OptAssumption ==
  /\ {ConfigKey, HelpKey, HelpConfigKey} \subseteq Keys
  /\ \A x \in Arguments :
       /\ x = [kind |-> x.kind, name |-> x.name, key |-> x.key, text |-> x.text]
       /\ x.kind \in {"plain", "end", "option"} /\ x.name \in Seq(Labels)
       /\ IF x.kind = "option" THEN x.key \in Keys /\ x.text \in Texts ELSE x.key = Blank
  /\ \A l \in FileLines : l.name \in Seq(Labels) /\ l.key \in Keys /\ l.text \in Texts
  /\ Plugins \subseteq Seq(Labels) \X Keys
  /\ OptTypes \subseteq Types
  /\ TrueText \in Texts /\ \A t \in Texts : t.n \in Nat
  /\ IntWord \in Nat \ {0} /\ LongWord \in Nat \ {0}
  /\ MaxArgs \in Nat /\ MaxFileLines \in Nat
ASSUME OptAssumption

VARIABLES
  argv, given,     \* the arguments left, and those the program was started with
  file,            \* what the file holds
  cmd_conf, file_conf, loaded,
  info_num, info_cap,
  help_plugs,      \* the options that have a help text of their own
  pc,              \* "parsing", "ready" or "error"
  optAnswer, optLost

optVars == <<argv, given, file, cmd_conf, file_conf, loaded, info_num, info_cap, help_plugs,
             pc, optAnswer, optLost>>

\* Pointers to sections are used at once here: only where parameters are put matters.
Ways == {[x \in Arrays |-> IF x = "param" THEN how ELSE "stays"] : how \in {"stays", "moves"}}
NoAnswer == [call |-> "none"]
UpTo(S, n) == UNION {[1 .. m -> S] : m \in 0 .. n}

OptInit ==
  /\ given \in UpTo(Arguments, MaxArgs) /\ argv = given
  /\ file \in {f \in UpTo(FileLines, MaxFileLines) :
                 \A i, j \in DOMAIN f : i < j /\ f[j].name = DEF_SEC_NAME => f[i].name = DEF_SEC_NAME}
  /\ \E a \in Ways : cmd_conf = st_conf_create(a).c
  /\ file_conf = NoConf /\ loaded = FALSE
  /\ info_num = 0 /\ info_cap = INFO_NUM /\ help_plugs = << >>
  /\ pc = "parsing" /\ optAnswer = NoAnswer /\ optLost = FALSE

Alone(c, from) == [cmd |-> c.c, from |-> from, ok |-> c.ok, value |-> c.value]

\* Mutant: the file has the last word.
OverriddenByFile(f, c) == [cmd |-> c.c, from |-> f.c, ok |-> c.ok \/ f.ok, value |-> IF f.ok THEN f.value ELSE c.value]

\* What the file or the default gave, f, stays when the command line, c, has no text
\* for the option or one that is not converted: c began with the value of f.
Overridden(f, c) == [cmd |-> c.c, from |-> f.c, ok |-> c.ok \/ f.ok, value |-> c.value]

\* An option is asked for in both configurations.
InBoth(f, cmd, type, name, key) == Overridden(f, Get(type, cmd, name, key, f.value))
GetOption(cmd, from, hasFile, type, name, key, old, d, a) ==
  IF hasFile THEN InBoth(GetDef(type, from, name, key, old, d, a), cmd, type, name, key)
  ELSE Alone(GetDef(type, cmd, name, key, old, d, a), from)

\* Each get that succeeds adds a line to the usage text; room is made before it is written.
st_opt_add_info(n) ==
  /\ info_num' = info_num + n
  /\ info_cap' = IF info_num + n > info_cap THEN info_cap + INFO_NUM ELSE info_cap

\* Mutant: "--" is passed over.
FirstOptionPastEnd == SelectInSeq(argv, LAMBDA x : x.kind = "option")

FirstOption == SelectInSeq(argv, LAMBDA x : x.kind # "plain")
st_opt_consume(i) == argv' = RemoveAt(argv, i)

\* --key=value or --section.key=value.  An empty value is no value to split_line;
\* without one only --help is taken, in any spelling of it, and of no section: it is the
\* whole of "section.key" that st_conf_strcmp looks at.
AsksHelp(x) == x.name = DEF_SEC_NAME /\ Same(x.key, HelpKey)
Malformed(x) == x.kind = "option" /\ x.text.form = "empty" /\ ~AsksHelp(x)
OptionText(x) == IF x.text.form = "empty" THEN TrueText ELSE x.text

\* A parameter is added under its section, which is made when it is not there.
AddTo(c, name, key, text, a) ==
  LET sec == st_conf_new_sec(c, name, a) IN st_conf_add_param(sec.c, sec.at, key, text, a)

st_opt_parse_one ==
  LET x == argv[FirstOption]
  IN /\ pc = "parsing" /\ FirstOption # 0
     /\ x.kind = "option"
     /\ IF Malformed(x)
        THEN pc' = "error" /\ UNCHANGED <<argv, cmd_conf, optLost>>
        ELSE \E a \in Ways :
               LET add == AddTo(cmd_conf, x.name, x.key, OptionText(x), a)
               IN /\ cmd_conf' = add.c
                  /\ optLost' = (optLost \/ add.lost)
                  /\ st_opt_consume(FirstOption)
                  /\ UNCHANGED pc
     /\ UNCHANGED <<given, file, file_conf, loaded, info_num, info_cap, help_plugs, optAnswer>>

\* The lines of the file, each under its section.
LoadLine(r, l, a) == [AddTo(r.c, l.name, l.key, l.text, a) EXCEPT !.lost = @ \/ r.lost]
Load(c, a) ==
  LET load[n \in 0 .. Len(file)] ==
        IF n = 0 THEN Result(c, 0, TRUE) ELSE LoadLine(load[n - 1], file[n], a)
  IN load[Len(file)]

\* No option is left, or they end at "--": the file is loaded if the options name one.
st_opt_parse ==
  /\ pc = "parsing"
  /\ IF FirstOption = 0 THEN UNCHANGED argv
     ELSE argv[FirstOption].kind = "end" /\ st_opt_consume(FirstOption)
  /\ \E a \in Ways :
       LET g == GetOption(cmd_conf, file_conf, loaded, "str", DEF_SEC_NAME, ConfigKey, Unset, NotSet, a)
           r == Load(st_conf_create(a).c, a)
       IN /\ cmd_conf' = g.cmd
          /\ st_opt_add_info(1)
          /\ IF g.value = NotSet
             THEN pc' = "ready" /\ UNCHANGED <<file_conf, loaded, optLost>>
             ELSE /\ loaded' = TRUE
                  /\ \/ file_conf' = r.c /\ pc' = "ready" /\ optLost' = (optLost \/ r.lost)
                     \/ file_conf' = st_conf_create(a).c /\ pc' = "error" /\ UNCHANGED optLost \* st_fopen fails
  /\ UNCHANGED <<given, file, help_plugs, optAnswer>>

MayAsk == pc = "ready" /\ info_num < MaxGets

st_opt_get(type, name, key) ==
  /\ MayAsk
  /\ \E a \in Ways :
       LET g == GetOption(cmd_conf, file_conf, loaded, type, name, key, Unset, Default, a)
       IN /\ cmd_conf' = g.cmd /\ file_conf' = g.from
          /\ optAnswer' = [call |-> "get", type |-> type, option |-> <<name, Fold[key]>>, value |-> g.value]
  /\ st_opt_add_info(1)
  /\ UNCHANGED <<argv, given, file, loaded, help_plugs, pc, optLost>>

st_opt_check ==
  /\ pc = "ready"
  /\ optAnswer' = [call |-> "check", ret |-> (loaded => st_conf_check(file_conf).ok) /\ st_conf_check(cmd_conf).ok]
  /\ UNCHANGED <<argv, given, file, cmd_conf, file_conf, loaded, info_num, info_cap, help_plugs, pc, optLost>>

\* Plugins are registered before the options are parsed.
st_opt_add_help_plugin(o) ==
  /\ pc = "parsing" /\ argv = given /\ help_plugs = << >>
  /\ help_plugs' = Append(help_plugs, o)
  /\ UNCHANGED <<argv, given, file, cmd_conf, file_conf, loaded, info_num, info_cap, pc, optAnswer, optLost>>

\* Asks for --help-config and then for the option of each plugin, and calls the ones
\* that are set; what it asks for becomes part of the usage text itself.
AskUsage(s, o) ==
  LET g == GetOption(s.cmd, s.from, loaded, "bool", o[1], o[2], Unset, FALSE, [x \in Arrays |-> "stays"])
  IN [cmd |-> g.cmd, from |-> g.from, called |-> IF g.value = TRUE THEN s.called \cup {o} ELSE s.called]
st_opt_show_usage ==
  LET asked == <<<<DEF_SEC_NAME, HelpConfigKey>>>> \o help_plugs
      after[n \in 0 .. Len(asked)] ==
        IF n = 0 THEN [cmd |-> cmd_conf, from |-> file_conf, called |-> {}]
        ELSE AskUsage(after[n - 1], asked[n])
      end == after[Len(asked)]
  IN /\ MayAsk
     /\ cmd_conf' = end.cmd /\ file_conf' = end.from
     /\ st_opt_add_info(Len(asked))
     /\ optAnswer' = [call |-> "usage", called |-> end.called]
     /\ UNCHANGED <<argv, given, file, loaded, help_plugs, pc, optLost>>

\* The command line that would set every option as it is set now: --config first,
\* then what a merge of the command line over the file holds.
st_opt_print_cmd ==
  /\ pc = "ready"
  /\ \E a \in Ways :
       LET m == IF loaded THEN st_conf_merge(st_conf_create(a).c, file_conf, a)
                ELSE Result(st_conf_create(a).c, 0, TRUE)
           r == st_conf_merge(m.c, cmd_conf, a)
           IsConfig(name, p) == name = DEF_SEC_NAME /\ Same(p.key, ConfigKey)
           Lines(s, Shown(_, _)) ==
             LET shown == SelectSeq(s.param, LAMBDA p : Shown(s.name, p))
             IN [p \in DOMAIN shown |-> [name |-> s.name, key |-> shown[p].key, text |-> shown[p].text]]
           sorted == st_conf_sort_secs(r.c).secs
           configLines == IF loaded THEN Lines(cmd_conf.secs[SecAt(cmd_conf, DEF_SEC_NAME)], IsConfig) ELSE << >>
           rest == FlattenSeq([s \in DOMAIN sorted |-> Lines(sorted[s], LAMBDA n, p : ~IsConfig(n, p))])
       IN optAnswer' = [call |-> "print", lines |-> configLines \o rest, lost |-> m.lost \/ r.lost]
  /\ UNCHANGED <<argv, given, file, cmd_conf, file_conf, loaded, info_num, info_cap, help_plugs, pc, optLost>>

OptNext ==
  \/ st_opt_parse_one \/ st_opt_parse \/ st_opt_check \/ st_opt_show_usage \/ st_opt_print_cmd
  \/ \E o \in Plugins : st_opt_add_help_plugin(o)
  \/ \E type \in OptTypes, l \in FileLines : st_opt_get(type, l.name, l.key)

OptSpec == OptInit /\ [][OptNext]_optVars

-----------------------------------------------------------------------------
\* The options, against the arguments and the file they were read from: the arguments
\* before the first "--", which are looked at for options, and those that are none.
EndAt == SelectInSeq(given, LAMBDA x : x.kind = "end")
Read == IF EndAt = 0 THEN Len(given) ELSE EndAt - 1
Plain[n \in 0 .. Len(given)] ==
  IF n = 0 THEN << >>
  ELSE IF given[n].kind = "plain" THEN Append(Plain[n - 1], given[n]) ELSE Plain[n - 1]

\* The last text that the first n of some settings give an option, NotSet without one.
Sets(x, o) == x.key # Blank /\ x.name = o[1] /\ Fold[x.key] = o[2]
LastText(settings, n, o) ==
  LET hits == {i \in 1 .. n : Sets(settings[i], o)}
  IN IF hits = {} THEN NotSet ELSE settings[Max(hits)].text

Settings == [i \in DOMAIN given |-> [given[i] EXCEPT !.text = OptionText(given[i])]]
FromCmd(o) == LastText(Settings, Read, o)
FromFile(o) == IF loaded THEN LastText(file, Len(file), o) ELSE NotSet

\* The numbers a getter's type holds; st_conf_get_long reads no more than an int.
Fits == [bool |-> {}, str |-> {}, int |-> 0 .. IntWord \div 2 - 1, long |-> 0 .. IntWord \div 2 - 1,
         uint |-> 0 .. IntWord - 1, ulong |-> 0 .. LongWord - 1, double |-> Nat]

\* What a text means for a getter, base when it is not set or means nothing to it.
Means(type, text, base) ==
  IF text = NotSet THEN base
  ELSE IF text.form = "number" /\ text.n \in Fits[type] THEN text.n
  ELSE Convert(type, text, base).value

\* What is asked for first, the file when there is one, is given the default; sscanf
\* leaves what the default would replace: a word asked for as an unsigned number gives
\* the caller its own variable back.
Base(type, first) ==
  IF type \in {"uint", "ulong"} /\ first # NotSet /\ first.form # "empty" THEN Unset ELSE Default

\* The command line wins over the file and the file over the default, the last of
\* several settings over the others, for every option and every way to ask for it, as
\* long as nothing was lost to an array that moved; a number that fits the type is
\* answered as it was given, a text the getter cannot convert counts as not given.
Effective(type, o) ==
  Means(type, FromCmd(o),
        Means(type, FromFile(o), Base(type, IF loaded THEN FromFile(o) ELSE FromCmd(o))))
CommandLineWins ==
  optAnswer.call = "get" /\ ~optLost => optAnswer.value = Effective(optAnswer.type, optAnswer.option)

\* When the options are parsed the program keeps the arguments that are none, and
\* everything after the first "--".
ArgumentsLeft == pc = "ready" => argv = Plain[Read] \o SubSeq(given, Read + 2, Len(given))
=============================================================================
