--------------------------- MODULE Configuration ---------------------------
(***************************************************************************)
(* What a configuration promises: a map from the options, a key in a       *)
(* section, to their texts, which remembers the options that were asked    *)
(* for since they were set.                                                *)
(***************************************************************************)
CONSTANT NotSet

VARIABLES
  store,      \* the text of each option that is set
  asked,      \* the options asked for since they were set
  answer      \* the last call, with its arguments and its answer

avars == <<store, asked, answer>>

AInit == store = << >> /\ asked = {}

Put ==
  /\ answer'.call = "put"
  /\ store' = [o \in DOMAIN store \cup {answer'.option} |->
                 IF o = answer'.option THEN answer'.text ELSE store[o]]
  /\ asked' = asked \ {answer'.option}

Get ==
  /\ answer'.call = "get"
  /\ answer'.text = IF answer'.option \in DOMAIN store THEN store[answer'.option] ELSE NotSet
  /\ asked' = IF answer'.text = NotSet THEN asked ELSE asked \cup {answer'.option}
  /\ UNCHANGED store

\* Are all options that are set asked for?
Check ==
  /\ answer'.call = "check"
  /\ answer'.ret = (DOMAIN store \subseteq asked)
  /\ UNCHANGED <<store, asked>>

\* Calls that neither set an option nor ask for one: the opening and closing of
\* files, headings, orderings, and calls that failed.
Other == answer'.call = "other" /\ UNCHANGED <<store, asked>>

Destroy == answer'.call = "destroy" /\ AInit'

ANext == Put \/ Get \/ Check \/ Other \/ Destroy
=============================================================================
