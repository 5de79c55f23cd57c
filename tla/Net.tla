-------------------------------- MODULE Net --------------------------------
(***************************************************************************)
(* The reads and writes of a connection (st_net.c) under a budget of time  *)
(* that the caller passes from call to call.  What the system answers to   *)
(* each read and write, and how long it takes, is chosen.                  *)
(***************************************************************************)
EXTENDS Integers

CONSTANTS
  Budget,       \* what callers begin with
  Delays,       \* what a system call may take
  MaxLen        \* the most bytes a caller reads

ASSUME NetAssumption == Budget \in Int /\ Delays \subseteq Int /\ MaxLen \in Nat

VARIABLES
  tmo,          \* the budget that is left
  netPc, len,      \* the call, and how many bytes it is for
  began, spent, \* the budget when the call began, and the time since
  remain_len,   \* the bytes that are missing
  read_pos,     \* where the next go
  buf,          \* which byte of the connection is at each place
  taken,        \* how many bytes the call has taken from the connection
  unwell,       \* a read of the call has failed
  answer

netVars == <<tmo, netPc, len, began, spent, remain_len, read_pos, buf, taken, unwell, answer>>

Ok == 0
ST_NET_SND_RCV_TIMEOUT == -3
ST_NET_NETWORK == -4
None == 1

NetInit ==
  /\ tmo = Budget /\ netPc = "idle" /\ answer = None
  /\ len = 0 /\ began = 0 /\ spent = 0 /\ remain_len = 0 /\ read_pos = 0 /\ buf = << >> /\ taken = 0
  /\ unwell = FALSE

Late(took) == tmo - took <= 0
update_timeout(took) == tmo' = tmo - took

\* A write is one call: fewer bytes than asked for are an error.
st_write ==
  /\ netPc = "idle" /\ tmo > 0
  /\ \E took \in Delays :
       \/ answer' = Ok /\ update_timeout(took) /\ spent' = took
       \/ answer' = (IF Late(took) THEN ST_NET_SND_RCV_TIMEOUT ELSE ST_NET_NETWORK)
          /\ spent' = took /\ UNCHANGED tmo
  /\ began' = tmo /\ len' = 0 /\ remain_len' = 0 /\ read_pos' = 0 /\ buf' = << >> /\ taken' = 0 /\ unwell' = FALSE
  /\ UNCHANGED netPc

st_read ==
  /\ netPc = "idle" /\ tmo > 0
  /\ netPc' = "read" /\ answer' = None
  /\ len' \in 1 .. MaxLen /\ remain_len' = len'
  /\ began' = tmo /\ spent' = 0 /\ read_pos' = 0 /\ buf' = << >> /\ taken' = 0 /\ unwell' = FALSE
  /\ UNCHANGED tmo

Reading(took) ==
  /\ netPc = "read" /\ remain_len > 0
  /\ spent' = spent + took
  /\ UNCHANGED <<len, began>>

\* Mutant: a read that was late ends the call whatever it has brought.
AfterLate(missing) == ST_NET_SND_RCV_TIMEOUT

AfterLast(missing) == IF missing > 0 THEN ST_NET_SND_RCV_TIMEOUT ELSE Ok

\* With n bytes still missing: the loop ends for want of time, or with the last byte,
\* or goes on with the budget that is left.
Went(took, n) ==
  \/ Late(took) /\ netPc' = "idle" /\ answer' = AfterLast(n) /\ UNCHANGED tmo
  \/ ~Late(took) /\ update_timeout(took)
     /\ IF n > 0 THEN UNCHANGED <<netPc, answer>> ELSE netPc' = "idle" /\ answer' = Ok

ReadSome(k, took) ==
  /\ Reading(took) /\ k <= remain_len
  /\ buf' = [p \in DOMAIN buf \cup read_pos .. read_pos + k - 1 |->
               IF p >= read_pos THEN taken + p - read_pos ELSE buf[p]]
  /\ read_pos' = read_pos + k /\ remain_len' = remain_len - k /\ taken' = taken + k
  /\ Went(took, remain_len - k)
  /\ UNCHANGED unwell

\* The -1 of read becomes a size_t: the place goes back by one byte, and one more is
\* missing.  Bound: one such read in a call.
ReadFails(took) ==
  /\ Reading(took) /\ ~unwell
  /\ read_pos' = read_pos - 1 /\ remain_len' = remain_len + 1 /\ unwell' = TRUE
  /\ Went(took, remain_len + 1)
  /\ UNCHANGED <<buf, taken>>

\* The other side has closed the connection.
ReadEnds(took) ==
  /\ Reading(took)
  /\ netPc' = "idle" /\ answer' = (IF Late(took) THEN ST_NET_SND_RCV_TIMEOUT ELSE ST_NET_NETWORK)
  /\ UNCHANGED <<tmo, remain_len, read_pos, buf, taken, unwell>>

NetNext ==
  \/ st_write \/ st_read
  \/ \E took \in Delays :
       ReadFails(took) \/ ReadEnds(took) \/ \E k \in 1 .. MaxLen + 1 : ReadSome(k, took)

-----------------------------------------------------------------------------
\* st_read answers 0 exactly when the bytes it was asked for are in the buffer, one
\* behind the other from the first on and no others, also when the last of them came
\* late; it answers a timeout exactly when bytes are missing and the budget it began with
\* is used up, over however many reads.  (One read that fails, and the call overwrites what
\* it has read: nothing is said of the buffer then.)
ReadExact ==
  netPc = "idle" /\ len > 0 =>
    /\ ~unwell => ((answer = Ok) <=> (buf = [p \in 0 .. len - 1 |-> p]))
    /\ ~unwell => taken = len - remain_len
    /\ (answer = ST_NET_SND_RCV_TIMEOUT) <=> (remain_len > 0 /\ began - spent <= 0)
=============================================================================
