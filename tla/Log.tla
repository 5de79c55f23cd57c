-------------------------------- MODULE Log --------------------------------
(***************************************************************************)
(* The log (st_log.c): threads write lines in several pieces, under a lock *)
(* once st_log_open_mt was called; opening and closing take no lock.       *)
(***************************************************************************)
EXTENDS Integers, Sequences, FiniteSets

CONSTANTS
  Threads, Unlocked,
  Levels,           \* the levels of the lines written
  Masks             \* the levels logs are opened with

LogAssumption == Unlocked \notin Threads /\ Levels \subseteq Int

CLEANEST == 1
CLEANER == 2
CLEAN == 3
WARNING == 6
DEBUG == 9

VARIABLES
  g_normal_fp, g_wf_fp, g_mask, g_mt,
  files,            \* the files that are open
  g_lock,           \* the thread that has it
  logPc, lev, fp,   \* of each thread: where it is, its level and its stream
  partial,          \* [thread, stream]: it has written part of a line there
  opened,           \* the program has opened the log
  mixed,            \* a piece went between the pieces of another line
  logFault,         \* a piece was written to a stream that is not there
  disturbed         \* a line was written without the lock, or the log was opened or
                    \* closed during one

logVars == <<g_normal_fp, g_wf_fp, g_mask, g_mt, files, g_lock, logPc, lev, fp, partial,
             opened, mixed, logFault, disturbed>>
globals == <<g_normal_fp, g_wf_fp, g_mask, g_mt, files, opened>>

Null == "null"
Std == {"stdout", "stderr"}
Writing == {t \in Threads : logPc[t] # "idle"}

LogInit ==
  /\ g_normal_fp = Null /\ g_wf_fp = Null /\ g_mask = 255 /\ g_mt = 0 /\ files = {}
  /\ g_lock = Unlocked
  /\ logPc = [t \in Threads |-> "idle"] /\ lev = [t \in Threads |-> 0] /\ fp = [t \in Threads |-> Null]
  /\ partial = {} /\ opened = FALSE
  /\ mixed = FALSE /\ logFault = FALSE /\ disturbed = FALSE

Go(t, to) == logPc' = [logPc EXCEPT ![t] = to]

\* The log is written to a standard stream, or to a file and one for warnings, where a
\* file that cannot be opened is replaced by a standard stream.
st_log_open(mt) ==
  /\ \E normal \in {"stdout", "stderr", "log"}, wf \in {"stderr", "log.wf"} :
       /\ normal = "stderr" => wf = "stderr"
       /\ g_normal_fp' = normal /\ g_wf_fp' = wf
       /\ files' = files \cup ({normal, wf} \ Std)
  /\ g_mask' \in Masks
  /\ g_mt' = IF mt THEN 1 ELSE g_mt
  /\ opened' = TRUE
  /\ disturbed' = (disturbed \/ Writing # {})
  /\ UNCHANGED <<g_lock, logPc, lev, fp, partial, mixed, logFault>>

\* Callers close what they have opened.
st_log_close ==
  /\ opened /\ opened' = FALSE
  /\ files' = files \ {g_normal_fp, g_wf_fp}
  /\ g_normal_fp' = IF g_normal_fp \in Std THEN g_normal_fp ELSE Null
  /\ g_wf_fp' = IF g_wf_fp \in Std THEN g_wf_fp ELSE Null
  /\ disturbed' = (disturbed \/ Writing # {})
  /\ UNCHANGED <<g_mask, g_mt, g_lock, logPc, lev, fp, partial, mixed, logFault>>

\* The streams are looked at, and a missing one replaced, before the lock is taken.
Check(t, l) ==
  /\ logPc[t] = "idle"
  /\ g_normal_fp' = IF g_normal_fp = Null THEN "stdout" ELSE g_normal_fp
  /\ g_wf_fp' = IF g_wf_fp = Null THEN "stderr" ELSE g_wf_fp
  /\ \/ l <= g_mask /\ lev' = [lev EXCEPT ![t] = l] /\ Go(t, "checked")
     \/ l > g_mask /\ UNCHANGED <<lev, logPc>>
  /\ UNCHANGED <<g_mask, g_mt, files, g_lock, fp, partial, opened, mixed, logFault, disturbed>>

\* Mutant: a line of one piece takes no lock.
MustLockLong(t) == g_mt = 1 /\ lev[t] # CLEANEST

MustLock(t) == g_mt = 1

Locked(t) ==
  /\ logPc[t] = "checked"
  /\ MustLock(t) => g_lock = Unlocked
  /\ g_lock' = IF MustLock(t) THEN t ELSE g_lock
  /\ disturbed' = (disturbed \/ g_mt = 0)
  /\ Go(t, IF lev[t] < CLEANEST \/ lev[t] > DEBUG THEN "unlock" ELSE "first")
  /\ UNCHANGED <<globals, lev, fp, partial, mixed, logFault>>

\* A piece of a line to a stream: another line is cut in two if it is only half there.
Piece(t, f, last) ==
  /\ mixed' = (mixed \/ \E o \in Threads \ {t} : <<o, f>> \in partial)
  /\ logFault' = (logFault \/ f = Null \/ (f \notin Std /\ f \notin files))
  /\ partial' = IF last THEN partial \ {<<t, f>>} ELSE partial \cup {<<t, f>>}

\* The stream of the level; the two lowest write the message at once, those above
\* CLEAN their name first.
First(t) ==
  /\ logPc[t] = "first"
  /\ LET f == IF lev[t] \in CLEAN + 1 .. WARNING THEN g_wf_fp ELSE g_normal_fp
     IN /\ fp' = [fp EXCEPT ![t] = f]
        /\ IF lev[t] = CLEAN THEN UNCHANGED <<partial, mixed, logFault>> ELSE Piece(t, f, lev[t] = CLEANEST)
  /\ Go(t, IF lev[t] = CLEANEST THEN "unlock" ELSE IF lev[t] = CLEANER THEN "end" ELSE "tid")
  /\ UNCHANGED <<globals, g_lock, lev, disturbed>>

\* The thread, the time and the message, and the newline are written apart.
NextPiece(t) == [tid |-> "message", message |-> "end", end |-> "unlock"][logPc[t]]
More(t) ==
  /\ logPc[t] \in {"tid", "message", "end"}
  /\ IF logPc[t] = "tid" /\ g_mt = 0 THEN UNCHANGED <<partial, mixed, logFault>>
     ELSE Piece(t, fp[t], logPc[t] = "end")
  /\ Go(t, NextPiece(t))
  /\ UNCHANGED <<globals, g_lock, lev, fp, disturbed>>

\* g_mt is read again: who found it 0 unlocks what it does not hold if it is 1 now.
Unlock(t) ==
  /\ logPc[t] = "unlock"
  /\ g_lock' = IF g_mt = 1 THEN Unlocked ELSE g_lock
  /\ Go(t, "idle")
  /\ lev' = [lev EXCEPT ![t] = 0] /\ fp' = [fp EXCEPT ![t] = Null]
  /\ UNCHANGED <<globals, partial, mixed, logFault, disturbed>>

st_log_write(t) == Locked(t) \/ First(t) \/ More(t) \/ Unlock(t) \/ \E l \in Levels : Check(t, l)

LogNext ==
  /\ ~logFault
  /\ (\E mt \in BOOLEAN : st_log_open(mt)) \/ st_log_close \/ \E t \in Threads : st_log_write(t)

LogSpec == LogInit /\ [][LogNext]_logVars

-----------------------------------------------------------------------------
\* Lines of different threads stay whole in each stream, and are written to streams
\* that are open, as long as the log was opened for several threads before the first
\* line and is neither opened nor closed during one; and whoever holds the lock then
\* is writing, so that it is given back at whatever level the line was.
LogLinesWhole ==
  ~disturbed => /\ ~mixed /\ ~logFault
                /\ g_lock # Unlocked => logPc[g_lock] \notin {"idle", "checked"}
                /\ \A t \in Threads : logPc[t] = "idle" => \A f \in Std \cup files : <<t, f>> \notin partial
=============================================================================
