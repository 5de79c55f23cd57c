------------------------------- MODULE MCConf -------------------------------
(***************************************************************************)
(* Small instances of ConfLoader and Opt.  They share no state: a          *)
(* behaviour is about one of them.                                         *)
(***************************************************************************)
EXTENDS ConfLoader, Opt

CONSTANTS l1, k1, K1, k2, config, help, Help, helpConfig

VARIABLE object          \* what the behaviour is about: a configuration or the options

MCFold == [k \in Keys |-> IF k = K1 THEN k1 ELSE IF k = Help THEN help ELSE k]
Number(n) == [form |-> "number", n |-> n]
Form(f) == [form |-> f, n |-> 0]
TwoTexts == {Number(1), Form("word")}
AllTexts == {Number(n) : n \in {0, 1, 3}} \cup {Form(f) : f \in {"word", "true", "empty"}}

-----------------------------------------------------------------------------
(***************************************************************************)
(* The arguments and the file of the options.                              *)
(***************************************************************************)
Option(kind, name, key, text) == [kind |-> kind, name |-> name, key |-> key, text |-> text]
Empty == Form("empty")
MCArguments ==
  {Option("plain", DEF_SEC_NAME, Blank, Empty), Option("end", DEF_SEC_NAME, Blank, Empty),
   Option("option", DEF_SEC_NAME, k1, Number(1)), Option("option", DEF_SEC_NAME, K1, Form("word")),
   Option("option", <<l1>>, k1, Number(0)), Option("option", <<l1>>, help, Empty),
   Option("option", DEF_SEC_NAME, Help, Empty),
   Option("option", DEF_SEC_NAME, config, Form("word"))}
OnePlugin == {<<DEF_SEC_NAME, k1>>}
Line(name, key, text) == [name |-> name, key |-> key, text |-> text]
MCFileLines == {Line(DEF_SEC_NAME, k1, Number(3)), Line(DEF_SEC_NAME, K1, Number(0)), Line(<<l1>>, k1, Form("word"))}

\* The command line that st_opt_print_cmd prints sets each option once, to the text
\* the program runs with.
PrintedParsesBack ==
  optAnswer.call = "print" /\ ~optLost /\ ~optAnswer.lost =>
    \A k \in {Fold[k] : k \in Keys}, n \in {DEF_SEC_NAME, <<l1>>} :
      LET o == <<n, k>>
          printed == SelectSeq(optAnswer.lines, LAMBDA x : x.name = n /\ Fold[x.key] = k)
          text == IF FromCmd(o) # NotSet \/ k = config THEN FromCmd(o) ELSE FromFile(o)
      IN IF text = NotSet THEN printed = << >> ELSE Len(printed) = 1 /\ printed[1].text = text

-----------------------------------------------------------------------------
MCInit ==
  /\ Init /\ OptInit
  /\ \/ object = "conf" /\ given = << >> /\ file = << >>
     \/ object = "options"

MCNext ==
  \/ object = "conf" /\ Next /\ UNCHANGED <<object, optVars>>
  \/ object = "options" /\ OptNext /\ UNCHANGED <<object, vars>>

MCSpec == MCInit /\ [][MCNext]_<<object, vars, optVars>>

\* The last call of a configuration is looked at in its own step only.
View == <<object, conf, stack, lines, open, fault, failed, lost, grown, optVars>>
=============================================================================
