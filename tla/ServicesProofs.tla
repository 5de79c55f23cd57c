--------------------------- MODULE ServicesProofs ---------------------------
(***************************************************************************)
(* Proofs about services of the library, each on its own and for any       *)
(* values of its constants: the log, the streams and their children, the   *)
(* reads of a connection, alphabets, the memory statistics, the lines of a *)
(* file, aligned blocks, unions of segments.                               *)
(***************************************************************************)
EXTENDS Log, Streams, Net, Alphabet, MemUsage, Segments, AlignedMem, LineReader, Remainders, SequenceTheorems, FiniteSetTheorems,
        WellFoundedInduction, TLAPS

-----------------------------------------------------------------------------
(* The log.                                                                 *)

Streams == {"null", "stdout", "stderr", "log", "log.wf"}
Inside == {"first", "tid", "message", "end", "unlock"}
Half == {"tid", "message", "end"}
Places == {"idle", "checked"} \cup Inside

\* The types of what decides where a piece goes.
LogTypes ==
  /\ g_lock \in Threads \cup {Unlocked}
  /\ logPc \in [Threads -> Places] /\ fp \in [Threads -> Streams]
  /\ g_normal_fp \in Streams /\ g_wf_fp \in Streams
  /\ files \subseteq {"log", "log.wf"}
  /\ g_mt \in {0, 1}

\* A thread within a line has the lock, and the lock is had by such a thread.
OneWriter ==
  /\ \A t \in Threads : logPc[t] \in Inside => g_lock = t /\ g_mt = 1
  /\ g_lock # Unlocked => logPc[g_lock] \in Inside

\* A line that is half there is that of a thread between two pieces, in its stream.
HalfLines ==
  \A t \in Threads, f \in Streams : <<t, f>> \in partial => logPc[t] \in Half /\ fp[t] = f

\* The streams of the log are there or none, and are there while a thread writes.
StreamsOpen ==
  /\ {g_normal_fp, g_wf_fp} \subseteq {Null} \cup Std \cup files
  /\ \A t \in Threads : logPc[t] # "idle" => g_normal_fp # Null /\ g_wf_fp # Null
  /\ \A t \in Threads : logPc[t] \in Half => fp[t] \in Std \cup files

LogInv ==
  ~disturbed => /\ LogTypes /\ OneWriter /\ HalfLines /\ StreamsOpen
                /\ ~mixed /\ ~logFault

LEMMA LogInvInit == ASSUME LogAssumption, LogInit PROVE LogInv
<1>1. LogTypes
  BY DEF LogInit, LogTypes, Null, Streams, Places
<1>2. \A t \in Threads : logPc[t] = "idle"
  BY DEF LogInit
<1>3. OneWriter /\ HalfLines /\ StreamsOpen
  BY <1>2 DEF LogInit, OneWriter, HalfLines, StreamsOpen, Inside, Half, Null
<1> QED
  BY <1>1, <1>3 DEF LogInit, LogInv

-----------------------------------------------------------------------------
\* A piece of the thread that has the lock cuts no line and goes to a stream that is there.
LEMMA PieceKeeps ==
  ASSUME LogTypes, OneWriter, HalfLines, ~mixed, ~logFault, NEW t \in Threads, logPc[t] \in Inside,
         NEW f \in Streams, f \in Std \cup files, NEW last \in BOOLEAN, Piece(t, f, last)
  PROVE  /\ ~mixed' /\ ~logFault'
         /\ \A o \in Threads, g \in Streams : <<o, g>> \in partial' =>
              \/ <<o, g>> \in partial /\ (last => <<o, g>> # <<t, f>>)
              \/ ~last /\ o = t /\ g = f
<1>1. \A o \in Threads \ {t} : <<o, f>> \notin partial
  BY DEF OneWriter, HalfLines, Half, Inside
<1>2. f # Null
  BY DEF LogTypes, Std, Null
<1> QED
  BY <1>1, <1>2 DEF Piece

\* What a step of thread t inside its line must leave to be shown: where t goes, and
\* which lines are half there after it.
LEMMA WriterKeeps ==
  ASSUME LogTypes, OneWriter, HalfLines, StreamsOpen, NEW t \in Threads, logPc[t] \in Inside,
         NEW to \in Inside, logPc' = [logPc EXCEPT ![t] = to], UNCHANGED <<globals, g_lock>>,
         NEW f \in Streams, f \in Std \cup files, fp' = [fp EXCEPT ![t] = f],
         \A o \in Threads, g \in Streams : <<o, g>> \in partial' => o = t /\ g = f /\ to \in Half
  PROVE  LogTypes' /\ OneWriter' /\ HalfLines' /\ StreamsOpen'
<1>1. /\ \A o \in Threads : logPc'[o] = IF o = t THEN to ELSE logPc[o]
      /\ \A o \in Threads : fp'[o] = IF o = t THEN f ELSE fp[o]
      /\ g_lock' = g_lock /\ g_mt' = g_mt /\ files' = files
      /\ g_normal_fp' = g_normal_fp /\ g_wf_fp' = g_wf_fp
  BY DEF LogTypes, globals
<1>2. LogTypes'
  BY <1>1 DEF LogTypes, Places
<1>3. g_lock = t /\ g_mt = 1 /\ \A o \in Threads : logPc[o] \in Inside => o = t
  BY DEF OneWriter
<1>4. OneWriter'
  BY <1>1, <1>3 DEF OneWriter
<1>5. HalfLines'
  BY <1>1 DEF HalfLines
<1>6. StreamsOpen'
  BY <1>1 DEF StreamsOpen, Inside
<1> QED
  BY <1>2, <1>4, <1>5, <1>6

\* Only a line under way is half there.
LEMMA OwnHalf ==
  ASSUME LogTypes, OneWriter, HalfLines, NEW t \in Threads, logPc[t] \in Inside,
         NEW o \in Threads, NEW g \in Streams, <<o, g>> \in partial
  PROVE  o = t /\ g = fp[t] /\ logPc[t] \in Half
BY DEF OneWriter, HalfLines, Half, Inside

LEMMA CheckKeeps ==
  ASSUME LogAssumption, LogInv, ~disturbed, NEW t \in Threads, NEW l \in Levels, Check(t, l)
  PROVE  LogInv'
<1>1. LogTypes /\ OneWriter /\ HalfLines /\ StreamsOpen /\ ~mixed /\ ~logFault
  BY DEF LogInv
<1>2. /\ g_normal_fp' \in Streams /\ g_wf_fp' \in Streams /\ g_normal_fp' # Null /\ g_wf_fp' # Null
      /\ g_normal_fp' \in Std \cup files /\ g_wf_fp' \in Std \cup files
  BY <1>1 DEF Check, LogTypes, StreamsOpen, Streams, Null, Std
<1>3. /\ g_lock' = g_lock /\ g_mt' = g_mt /\ files' = files /\ fp' = fp /\ partial' = partial
      /\ mixed' = mixed /\ logFault' = logFault
  BY DEF Check
<1>4. logPc[t] = "idle" /\ (logPc' = logPc \/ logPc' = [logPc EXCEPT ![t] = "checked"])
  BY DEF Check, Go
<1>5. \A o \in Threads : logPc'[o] = logPc[o] \/ (o = t /\ logPc'[o] = "checked")
  BY <1>1, <1>4 DEF LogTypes
<1>6. logPc' \in [Threads -> Places]
  BY <1>1, <1>4 DEF LogTypes, Places
<1>7. LogTypes'
  BY <1>1, <1>2, <1>3, <1>6 DEF LogTypes
<1>8. \A o \in Threads : /\ logPc'[o] \in Inside <=> logPc[o] \in Inside
                         /\ logPc'[o] \in Half <=> logPc[o] \in Half
  BY <1>4, <1>5 DEF Inside, Half
<1>9. OneWriter'
  BY <1>1, <1>3, <1>8 DEF OneWriter, LogTypes
<1>10. HalfLines'
  BY <1>1, <1>3, <1>8 DEF HalfLines
<1>11. StreamsOpen'
  BY <1>1, <1>2, <1>3, <1>8 DEF StreamsOpen
<1> QED
  BY <1>1, <1>3, <1>7, <1>9, <1>10, <1>11 DEF LogInv

LEMMA LockedKeeps ==
  ASSUME LogAssumption, LogInv, ~disturbed, NEW t \in Threads, Locked(t)
  PROVE  LogInv'
<1> SUFFICES ASSUME ~disturbed' PROVE LogInv'
  BY DEF LogInv
<1>1. LogTypes /\ OneWriter /\ HalfLines /\ StreamsOpen /\ ~mixed /\ ~logFault
  BY DEF LogInv
<1>2. /\ logPc[t] = "checked" /\ g_mt # 0
      /\ MustLock(t) => g_lock = Unlocked
      /\ g_lock' = IF MustLock(t) THEN t ELSE g_lock
      /\ UNCHANGED <<globals, lev, fp, partial, mixed, logFault>>
  BY DEF Locked
<1>3. PICK to \in {"unlock", "first"} : logPc' = [logPc EXCEPT ![t] = to]
  BY <1>2 DEF Locked, Go
<1>4. g_mt = 1 /\ g_lock = Unlocked /\ g_lock' = t
  BY <1>1, <1>2 DEF LogTypes, MustLock
<1>5. /\ g_mt' = 1 /\ files' = files /\ fp' = fp /\ partial' = partial
      /\ g_normal_fp' = g_normal_fp /\ g_wf_fp' = g_wf_fp /\ ~mixed' /\ ~logFault'
  BY <1>1, <1>2, <1>4 DEF globals
<1>6. \A o \in Threads : logPc'[o] = IF o = t THEN to ELSE logPc[o]
  BY <1>1, <1>3 DEF LogTypes
<1>7. \A o \in Threads : logPc[o] \notin Inside
  BY <1>1, <1>4 DEF OneWriter, LogAssumption
<1>8. LogTypes'
  <2>1. logPc' \in [Threads -> Places]
    BY <1>1, <1>3 DEF LogTypes, Places, Inside
  <2> QED
    BY <1>1, <1>4, <1>5, <2>1 DEF LogTypes
<1>9. OneWriter'
  BY <1>4, <1>5, <1>6, <1>7 DEF OneWriter, Inside
<1>10. HalfLines'
  BY <1>1, <1>5, <1>7 DEF HalfLines, Half, Inside
<1>11. StreamsOpen'
  <2>1. \A o \in Threads : logPc'[o] # "idle" => logPc[o] # "idle"
    BY <1>2, <1>6
  <2>2. \A o \in Threads : logPc'[o] \notin Half
    BY <1>6, <1>7 DEF Half, Inside
  <2> QED
    BY <1>1, <1>5, <2>1, <2>2 DEF StreamsOpen
<1> QED
  BY <1>5, <1>8, <1>9, <1>10, <1>11 DEF LogInv

LEMMA FirstKeeps ==
  ASSUME LogAssumption, LogInv, ~disturbed, NEW t \in Threads, First(t)
  PROVE  LogInv'
<1>1. LogTypes /\ OneWriter /\ HalfLines /\ StreamsOpen /\ ~mixed /\ ~logFault
  BY DEF LogInv
<1>2. PICK f \in {g_wf_fp, g_normal_fp} :
        /\ fp' = [fp EXCEPT ![t] = f]
        /\ IF lev[t] = CLEAN THEN UNCHANGED <<partial, mixed, logFault>>
                             ELSE Piece(t, f, lev[t] = CLEANEST)
  BY DEF First
<1>3. PICK to \in {"unlock", "end", "tid"} :
        /\ logPc' = [logPc EXCEPT ![t] = to]
        /\ to = "unlock" <=> lev[t] = CLEANEST
  BY DEF First, Go
<1>4. logPc[t] = "first" /\ UNCHANGED <<globals, g_lock>>
  BY DEF First
<1>5. logPc[t] \in Inside /\ logPc[t] \notin Half /\ to \in Inside /\ (to # "unlock" => to \in Half)
  BY <1>4 DEF Inside, Half
<1>6. f \in Streams /\ f \in Std \cup files
  BY <1>1, <1>4 DEF LogTypes, StreamsOpen
<1>7. \A o \in Threads, g \in Streams : <<o, g>> \notin partial
  BY <1>1, <1>5, OwnHalf
<1>8. /\ ~mixed' /\ ~logFault'
      /\ \A o \in Threads, g \in Streams : <<o, g>> \in partial' => o = t /\ g = f /\ to \in Half
  <2>1. CASE lev[t] = CLEAN
    BY <1>1, <1>2, <1>7, <2>1
  <2>2. CASE lev[t] # CLEAN
    <3> DEFINE last == lev[t] = CLEANEST
    <3>1. Piece(t, f, last) /\ last \in BOOLEAN /\ (last <=> to = "unlock")
      BY <1>2, <1>3, <2>2
    <3> HIDE DEF last
    <3> QED
      BY <1>1, <1>5, <1>6, <1>7, <3>1, PieceKeeps
  <2> QED
    BY <2>1, <2>2
<1>9. LogTypes' /\ OneWriter' /\ HalfLines' /\ StreamsOpen'
  BY <1>1, <1>2, <1>3, <1>4, <1>5, <1>6, <1>8, WriterKeeps
<1> QED
  BY <1>8, <1>9 DEF LogInv

LEMMA MoreKeeps ==
  ASSUME LogAssumption, LogInv, ~disturbed, NEW t \in Threads, More(t)
  PROVE  LogInv'
<1>1. LogTypes /\ OneWriter /\ HalfLines /\ StreamsOpen /\ ~mixed /\ ~logFault
  BY DEF LogInv
<1>2. logPc[t] \in Half /\ UNCHANGED <<globals, g_lock, fp>>
  BY DEF More, Half
<1>3. logPc[t] \in Inside /\ g_mt = 1
  BY <1>1, <1>2 DEF OneWriter, Half, Inside
<1> DEFINE last == logPc[t] = "end"
<1>4. last \in BOOLEAN /\ Piece(t, fp[t], last)
  BY <1>3 DEF More
<1>5. PICK to \in Inside : /\ logPc' = [logPc EXCEPT ![t] = to]
                           /\ ~last => to \in Half
  <2>1. NextPiece(t) \in Inside /\ (~last => NextPiece(t) \in Half)
    BY <1>2 DEF NextPiece, Inside, Half
  <2> QED
    BY <2>1 DEF More, Go
<1> HIDE DEF last
<1>6. fp[t] \in Streams /\ fp[t] \in Std \cup files
  BY <1>1, <1>2 DEF LogTypes, StreamsOpen
<1>7. fp' = [fp EXCEPT ![t] = fp[t]]
  BY <1>1, <1>2 DEF LogTypes
<1>8. /\ ~mixed' /\ ~logFault'
      /\ \A o \in Threads, g \in Streams : <<o, g>> \in partial' =>
           \/ <<o, g>> \in partial /\ (last => <<o, g>> # <<t, fp[t]>>)
           \/ ~last /\ o = t /\ g = fp[t]
  BY <1>1, <1>3, <1>4, <1>6, PieceKeeps
<1>9. \A o \in Threads, g \in Streams : <<o, g>> \in partial' => o = t /\ g = fp[t] /\ to \in Half
  <2> SUFFICES ASSUME NEW o \in Threads, NEW g \in Streams, <<o, g>> \in partial'
               PROVE  o = t /\ g = fp[t] /\ to \in Half
    OBVIOUS
  <2>1. <<o, g>> \in partial => o = t /\ g = fp[t]
    BY <1>1, <1>3, OwnHalf
  <2> QED
    BY <1>5, <1>8, <2>1
<1>10. PICK f \in Streams : f = fp[t]
  BY <1>6
<1>11. /\ f \in Std \cup files /\ fp' = [fp EXCEPT ![t] = f]
       /\ \A o \in Threads, g \in Streams : <<o, g>> \in partial' => o = t /\ g = f /\ to \in Half
  BY <1>6, <1>7, <1>9, <1>10
<1>12. UNCHANGED <<globals, g_lock>>
  BY <1>2
<1>13. LogTypes' /\ OneWriter' /\ HalfLines' /\ StreamsOpen'
  BY <1>1, <1>3, <1>5, <1>11, <1>12, WriterKeeps
<1> QED
  BY <1>8, <1>13 DEF LogInv

LEMMA UnlockKeeps ==
  ASSUME LogAssumption, LogInv, ~disturbed, NEW t \in Threads, Unlock(t)
  PROVE  LogInv'
<1>1. LogTypes /\ OneWriter /\ HalfLines /\ StreamsOpen /\ ~mixed /\ ~logFault
  BY DEF LogInv
<1>2. logPc[t] = "unlock" /\ logPc[t] \in Inside /\ logPc[t] \notin Half
  BY DEF Unlock, Inside, Half
<1>3. g_mt = 1 /\ \A o \in Threads : logPc[o] \in Inside => o = t
  BY <1>1, <1>2 DEF OneWriter
<1>4. /\ g_lock' = Unlocked /\ g_mt' = g_mt /\ files' = files /\ partial' = partial
      /\ g_normal_fp' = g_normal_fp /\ g_wf_fp' = g_wf_fp /\ ~mixed' /\ ~logFault'
  BY <1>1, <1>3 DEF Unlock, globals
<1>5. logPc' = [logPc EXCEPT ![t] = "idle"] /\ fp' = [fp EXCEPT ![t] = Null]
  BY DEF Unlock, Go
<1>6. \A o \in Threads : logPc'[o] = IF o = t THEN "idle" ELSE logPc[o]
  BY <1>1, <1>5 DEF LogTypes
<1>7. \A o \in Threads : logPc'[o] \notin Inside /\ logPc'[o] \notin Half
  BY <1>3, <1>6 DEF Inside, Half
<1>8. LogTypes'
  <2>1. logPc' \in [Threads -> Places] /\ fp' \in [Threads -> Streams]
    BY <1>1, <1>5 DEF LogTypes, Places, Streams, Null
  <2> QED
    BY <1>1, <1>4, <2>1 DEF LogTypes
<1>9. OneWriter'
  BY <1>4, <1>7 DEF OneWriter
<1>10. \A o \in Threads, g \in Streams : <<o, g>> \notin partial
  BY <1>1, <1>2, OwnHalf
<1>11. HalfLines'
  BY <1>4, <1>10 DEF HalfLines
<1>12. StreamsOpen'
  BY <1>1, <1>4, <1>6, <1>7 DEF StreamsOpen
<1> QED
  BY <1>4, <1>8, <1>9, <1>11, <1>12 DEF LogInv

-----------------------------------------------------------------------------
\* The log is opened and closed while nobody writes: nobody has the lock and no line
\* is half there.
LEMMA QuietKeeps ==
  ASSUME LogAssumption, LogTypes, OneWriter, HalfLines, ~mixed, ~logFault, Writing = {},
         UNCHANGED <<g_lock, logPc, fp, partial, mixed, logFault>>,
         g_normal_fp' \in Streams, g_wf_fp' \in Streams, g_mt' \in {0, 1},
         files' \subseteq {"log", "log.wf"},
         {g_normal_fp', g_wf_fp'} \subseteq {Null} \cup Std \cup files'
  PROVE  LogInv'
<1>1. \A t \in Threads : logPc'[t] = "idle"
  BY DEF Writing
<1>2. g_lock' = Unlocked
  BY DEF OneWriter, LogTypes, Inside, Writing
<1>3. LogTypes'
  BY DEF LogTypes
<1>4. OneWriter'
  BY <1>1, <1>2 DEF OneWriter, Inside
<1>5. HalfLines'
  BY DEF HalfLines
<1>6. StreamsOpen'
  BY <1>1 DEF StreamsOpen, Half
<1> QED
  BY <1>3, <1>4, <1>5, <1>6 DEF LogInv

LEMMA LogInvStep == ASSUME LogAssumption, LogInv, [LogNext]_logVars PROVE LogInv'
<1> SUFFICES ASSUME ~disturbed' PROVE LogInv'
  BY DEF LogInv
<1>1. CASE UNCHANGED logVars
  BY <1>1 DEF logVars, LogInv, LogTypes, OneWriter, HalfLines, StreamsOpen
<1>2. ASSUME NEW mt \in BOOLEAN, st_log_open(mt) PROVE LogInv'
  <2>1. ~disturbed /\ Writing = {} /\ UNCHANGED <<g_lock, logPc, fp, partial, mixed, logFault>>
    BY <1>2 DEF st_log_open
  <2>2. LogTypes /\ OneWriter /\ HalfLines /\ ~mixed /\ ~logFault
    BY <2>1 DEF LogInv
  <2>3. PICK normal \in {"stdout", "stderr", "log"} :
          g_normal_fp' = normal /\ g_wf_fp' \in {"stderr", "log.wf"}
            /\ files' = files \cup ({normal, g_wf_fp'} \ Std)
    BY <1>2 DEF st_log_open
  <2>4. g_mt' \in {0, 1}
    BY <1>2, <2>2 DEF st_log_open, LogTypes
  <2> QED
    BY <2>1, <2>2, <2>3, <2>4, QuietKeeps DEF LogTypes, Streams, Std, Null
<1>3. CASE st_log_close
  <2>1. ~disturbed /\ Writing = {} /\ UNCHANGED <<g_lock, logPc, fp, partial, mixed, logFault>>
    BY <1>3 DEF st_log_close
  <2>2. LogTypes /\ OneWriter /\ HalfLines /\ ~mixed /\ ~logFault
    BY <2>1 DEF LogInv
  <2>3. /\ g_normal_fp' \in {Null} \cup Std /\ g_wf_fp' \in {Null} \cup Std
        /\ files' \subseteq files /\ g_mt' = g_mt
    BY <1>3 DEF st_log_close
  <2> QED
    BY <2>1, <2>2, <2>3, QuietKeeps DEF LogTypes, Streams, Std, Null
<1>4. ASSUME NEW t \in Threads, st_log_write(t) PROVE LogInv'
  <2>1. ~disturbed
    BY <1>4 DEF st_log_write, Locked, First, More, Unlock, Check
  <2> QED
    BY <1>4, <2>1, CheckKeeps, LockedKeeps, FirstKeeps, MoreKeeps, UnlockKeeps DEF st_log_write
<1> QED
  BY <1>1, <1>2, <1>3, <1>4 DEF LogNext

-----------------------------------------------------------------------------
\* Whatever threads write, at whatever levels: in a log opened for threads before the
\* first line, and not opened or closed during one, st_log_write never cuts the line of
\* another thread, never uses a stream that is not there, and gives the lock back.
THEOREM LogLinesAreWhole == ASSUME LogAssumption PROVE LogSpec => []LogLinesWhole
<1>1. LogInv => LogLinesWhole
  <2> SUFFICES ASSUME LogInv, ~disturbed PROVE LogLinesWhole
    BY DEF LogLinesWhole
  <2>1. LogTypes /\ OneWriter /\ HalfLines /\ ~mixed /\ ~logFault
    BY DEF LogInv
  <2>2. g_lock # Unlocked => logPc[g_lock] \notin {"idle", "checked"}
    BY <2>1 DEF OneWriter, Inside
  <2>3. Std \cup files \subseteq Streams
    BY <2>1 DEF LogTypes, Std, Streams
  <2>4. \A t \in Threads : logPc[t] = "idle" => \A f \in Std \cup files : <<t, f>> \notin partial
    BY <2>1, <2>3 DEF HalfLines, Half
  <2> QED
    BY <2>1, <2>2, <2>4 DEF LogLinesWhole
<1> QED
  BY <1>1, LogInvInit, LogInvStep, PTL DEF LogSpec

-----------------------------------------------------------------------------
(* Streams and children.                                                    *)

\* The first node of the list with an address fp is of the child pid.
FirstIs(list, f, pid) ==
  \E k \in DOMAIN list :
    list[k] = [fp |-> f, pid |-> pid] /\ \A j \in 1 .. k - 1 : list[j].fp # f

PipeTo(s, f, pid) == s[f].kind = "pipe" /\ s[f].pid = pid

\* The nodes of the list of children, and what can be open at an address.
ListNodes == [fp : Fps, pid : Pids]
StreamStates == {Closed, File, Fifo} \cup {Pipe(pid, mode) : pid \in Pids, mode \in {"r", "w"}}

StreamTypes ==
  /\ stream \in [Fps -> StreamStates]
  /\ pidlist \in Seq(ListNodes)
  /\ unwaited \subseteq Pids /\ abandoned \subseteq unwaited /\ leaked \subseteq Fps
  /\ inherits \in [Pids -> SUBSET Pids]

\* The list has each child once, and only children that were not waited for.
ListedOnce ==
  /\ \A i, j \in DOMAIN pidlist : pidlist[i].pid = pidlist[j].pid => i = j
  /\ \A i \in DOMAIN pidlist : pidlist[i].pid \in unwaited

\* The stream of a command finds its child first; a child in the list is abandoned
\* when it is not that of the stream open there.
PipesListed == \A f \in Fps : stream[f].kind = "pipe" => FirstIs(pidlist, f, stream[f].pid)
AbandonedExact ==
  \A i \in DOMAIN pidlist :
    pidlist[i].pid \in abandoned <=> ~PipeTo(stream, pidlist[i].fp, pidlist[i].pid)

Children ==
  /\ unwaited \ abandoned = OpenPipes(Fps)
  /\ \A child \in unwaited : inherits[child] = {}
  /\ \A f \in leaked : stream[f] = Fifo

StreamsInv == StreamTypes /\ ListedOnce /\ PipesListed /\ AbandonedExact /\ Children

LEMMA LeastNatural ==
  ASSUME NEW T, T \subseteq Nat, T # {}
  PROVE  Min(T) \in T /\ \A n \in T : Min(T) <= n
<1>1. PICK x \in T : \A y \in T : <<y, x>> \notin OpToRel(<, Nat)
  BY NatLessThanWellFounded, WFMin, Zenon
<1>2. \A y \in T : ~(y < x)
  BY <1>1 DEF OpToRel
<1>3. \A y \in T : x <= y
  BY <1>2
<1> QED
  BY <1>3 DEF Min

LEMMA EntryIs ==
  ASSUME pidlist \in Seq(ListNodes), NEW f \in Fps
  PROVE  /\ Entry(f) \in 0 .. Len(pidlist)
         /\ Entry(f) = 0 <=> \A j \in DOMAIN pidlist : pidlist[j].fp # f
         /\ Entry(f) # 0 => /\ Entry(f) \in DOMAIN pidlist /\ pidlist[Entry(f)].fp = f
                            /\ \A j \in 1 .. Entry(f) - 1 : pidlist[j].fp # f
<1> DEFINE I == {i \in 1 .. Len(pidlist) : pidlist[i].fp = f}
<1>1. Entry(f) = IF I # {} THEN Min(I) ELSE 0
  BY DEF Entry, SelectInSeq
<1>2. ASSUME I # {} PROVE Min(I) \in I /\ \A j \in I : Min(I) <= j
  <2>1. I \subseteq Nat
    OBVIOUS
  <2> HIDE DEF I
  <2> QED
    BY <1>2, <2>1, LeastNatural
<1>3. CASE I = {}
  <2>1. \A j \in DOMAIN pidlist : pidlist[j].fp # f
    BY <1>3
  <2>2. Entry(f) = 0
    BY <1>1, <1>3
  <2> QED
    BY <2>1, <2>2
<1>4. CASE I # {}
  <2>1. Entry(f) \in I /\ \A j \in I : Entry(f) <= j
    BY <1>1, <1>2, <1>4
  <2>2. /\ Entry(f) \in DOMAIN pidlist /\ Entry(f) \in 1 .. Len(pidlist) /\ pidlist[Entry(f)].fp = f
    BY <2>1
  <2>3. ASSUME NEW j \in 1 .. Entry(f) - 1 PROVE pidlist[j].fp # f
    BY <2>1, <2>2
  <2> QED
    BY <2>2, <2>3
<1> QED
  BY <1>3, <1>4

\* Whose node comes first decides whom a close waits for.
LEMMA EntryFirst ==
  ASSUME pidlist \in Seq(ListNodes), NEW f \in Fps, NEW pid
  PROVE  FirstIs(pidlist, f, pid) <=> Entry(f) # 0 /\ pidlist[Entry(f)].pid = pid
<1>1. ASSUME FirstIs(pidlist, f, pid) PROVE Entry(f) # 0 /\ pidlist[Entry(f)].pid = pid
  <2>1. PICK k \in DOMAIN pidlist :
          pidlist[k] = [fp |-> f, pid |-> pid] /\ \A j \in 1 .. k - 1 : pidlist[j].fp # f
    BY <1>1 DEF FirstIs
  <2>2. pidlist[k].fp = f /\ pidlist[k].pid = pid /\ k \in Nat \ {0}
    BY <2>1
  <2>3. Entry(f) # 0
    BY <2>2, EntryIs
  <2>4. Entry(f) = k
    <3>1. /\ Entry(f) \in Nat /\ pidlist[Entry(f)].fp = f
          /\ \A j \in 1 .. Entry(f) - 1 : pidlist[j].fp # f /\ Entry(f) \in DOMAIN pidlist
      BY <2>3, EntryIs
    <3>2. ~(k < Entry(f))
      BY <2>2, <3>1
    <3>3. ~(Entry(f) < k)
      <4>1. Entry(f) < k => Entry(f) \in 1 .. k - 1
        BY <2>2, <2>3, <3>1
      <4> QED
        BY <2>1, <3>1, <4>1
    <3> QED
      BY <2>2, <3>1, <3>2, <3>3
  <2> QED
    BY <2>2, <2>3, <2>4
<1>2. ASSUME Entry(f) # 0, pidlist[Entry(f)].pid = pid PROVE FirstIs(pidlist, f, pid)
  <2>1. /\ Entry(f) \in DOMAIN pidlist /\ pidlist[Entry(f)].fp = f
        /\ \A j \in 1 .. Entry(f) - 1 : pidlist[j].fp # f
    BY <1>2, EntryIs
  <2>2. pidlist[Entry(f)] \in ListNodes
    <3>1. pidlist \in Seq(ListNodes)
      OBVIOUS
    <3>2. \A k \in DOMAIN pidlist : pidlist[k] \in ListNodes
      BY <3>1
    <3> QED
      BY <2>1, <3>2
  <2>3. pidlist[Entry(f)] = [fp |-> f, pid |-> pid]
    BY <1>2, <2>1, <2>2 DEF ListNodes
  <2> QED
    BY <2>1, <2>3 DEF FirstIs
<1> QED
  BY <1>1, <1>2

\* A child that is started holds none of the pipes there are: all are in the list.
LEMMA NothingInherited ==
  ASSUME StreamsInv
  PROVE  Inherited = {}
<1>1. \A f \in Fps : stream[f].kind = "pipe" => f \in Listed
  <2>1. ASSUME NEW f \in Fps, stream[f].kind = "pipe" PROVE f \in Listed
    <3>1. PICK k \in DOMAIN pidlist : pidlist[k] = [fp |-> f, pid |-> stream[f].pid]
      BY <2>1 DEF StreamsInv, PipesListed, FirstIs
    <3> QED
      BY <3>1 DEF Listed
  <2> QED
    BY <2>1
<1> QED
  BY <1>1 DEF Inherited, OpenPipes

\* The list with a node before it.
LEMMA Prepended ==
  ASSUME NEW f \in Fps, NEW pid \in Pids, NEW list \in Seq(ListNodes),
         NEW new, new = <<[fp |-> f, pid |-> pid]>> \o list
  PROVE  /\ new \in Seq(ListNodes) /\ 1 \in DOMAIN new
         /\ new[1] = [fp |-> f, pid |-> pid]
         /\ \A i \in DOMAIN new : /\ i \in Nat
                                  /\ i # 1 => i - 1 \in DOMAIN list /\ new[i] = list[i - 1]
         /\ FirstIs(new, f, pid)
         /\ \A g, p : g # f /\ FirstIs(list, g, p) => FirstIs(new, g, p)
<1> DEFINE node == [fp |-> f, pid |-> pid]
<1>6. new = <<node>> \o list
  OBVIOUS
<1>1. node \in ListNodes /\ node.fp = f
  BY DEF ListNodes
<1> HIDE DEF node
<1>5. node \in ListNodes /\ list \in Seq(ListNodes)
  BY <1>1
<1>2. /\ new \in Seq(ListNodes) /\ Len(new) = Len(list) + 1 /\ new[1] = node
      /\ \A i \in DOMAIN list : i + 1 \in DOMAIN new /\ new[i + 1] = list[i]
      /\ \A i \in DOMAIN new : i # 1 => i - 1 \in DOMAIN list /\ new[i] = list[i - 1]
      /\ 1 \in DOMAIN new
  <2>1. /\ new \in Seq(ListNodes) /\ Len(new) = Len(list) + 1 /\ Len(list) \in Nat
        /\ DOMAIN new = 1 .. Len(list) + 1 /\ DOMAIN list = 1 .. Len(list)
    BY <1>5, <1>6
  <2>2. \A i \in 1 .. Len(list) + 1 : new[i] = IF i = 1 THEN node ELSE list[i - 1]
    BY <1>5, <1>6
  <2>3. ASSUME NEW i \in DOMAIN list PROVE i + 1 \in DOMAIN new /\ new[i + 1] = list[i]
    <3>1. i + 1 \in 1 .. Len(list) + 1 /\ i + 1 # 1 /\ (i + 1) - 1 = i
      BY <2>1
    <3> QED
      BY <2>1, <2>2, <3>1
  <2>4. ASSUME NEW i \in DOMAIN new PROVE i # 1 => i - 1 \in DOMAIN list /\ new[i] = list[i - 1]
    <3>1. CASE i # 1
      <4>1. i \in 1 .. Len(list) + 1 /\ i - 1 \in 1 .. Len(list)
        BY <2>1, <3>1
      <4> QED
        BY <2>1, <2>2, <3>1, <4>1
    <3> QED
      BY <3>1
  <2>5. 1 \in DOMAIN new /\ new[1] = node
    <3>1. 1 \in 1 .. Len(list) + 1
      BY <2>1
    <3> QED
      BY <2>1, <2>2, <3>1
  <2> QED
    BY <2>1, <2>3, <2>4, <2>5
<1>3. FirstIs(new, f, pid)
  <2>1. \A j \in 1 .. 1 - 1 : new[j].fp # f
    OBVIOUS
  <2> QED
    BY <1>2, <2>1 DEF FirstIs, node
<1>4. ASSUME NEW g, NEW p, g # f, FirstIs(list, g, p) PROVE FirstIs(new, g, p)
  <2>1. PICK k \in DOMAIN list :
          list[k] = [fp |-> g, pid |-> p] /\ \A j \in 1 .. k - 1 : list[j].fp # g
    BY <1>4 DEF FirstIs
  <2>2. k \in Nat /\ k + 1 \in DOMAIN new /\ new[k + 1] = [fp |-> g, pid |-> p]
    BY <1>2, <2>1
  <2>3. \A j \in 1 .. k : new[j].fp # g
    <3>1. ASSUME NEW j \in 1 .. k PROVE new[j].fp # g
      <4>1. CASE j = 1
        BY <1>1, <1>2, <1>4, <4>1
      <4>2. CASE j # 1
        <5>1. j - 1 \in 1 .. k - 1 /\ j - 1 \in DOMAIN list /\ new[j] = list[j - 1]
          BY <1>2, <2>1, <2>2, <4>2
        <5> QED
          BY <2>1, <5>1
      <4> QED
        BY <4>1, <4>2
    <3> QED
      BY <3>1
  <2>4. (k + 1) - 1 = k
    BY <2>2
  <2> QED
    BY <2>2, <2>3, <2>4 DEF FirstIs
<1> QED
  <2>1. \A i \in DOMAIN new : i \in Nat
    BY <1>2
  <2> QED
    BY <1>2, <1>3, <1>4, <2>1 DEF node, ListNodes

\* The list without its k-th node, the first one with its address.
LEMMA Removed ==
  ASSUME NEW list \in Seq(ListNodes), NEW k \in DOMAIN list,
         NEW new, new = RemoveAt(list, k)
  PROVE  /\ new \in Seq(ListNodes)
         /\ \A i \in DOMAIN new : \E j \in DOMAIN list \ {k} :
              new[i] = list[j] /\ j = IF i < k THEN i ELSE i + 1
         /\ \A g, p : g # list[k].fp /\ FirstIs(list, g, p) => FirstIs(new, g, p)
<1>1. /\ new \in Seq(ListNodes) /\ Len(new) = Len(list) - 1 /\ Len(list) \in Nat
      /\ k \in 1 .. Len(list)
      /\ \A i \in 1 .. Len(new) : new[i] = IF i < k THEN list[i] ELSE list[i + 1]
  <2> DEFINE ahead == SubSeq(list, 1, k - 1)
             behind == SubSeq(list, k + 1, Len(list))
  <2>1. list \in Seq(ListNodes)
    OBVIOUS
  <2>2. k \in 1 .. Len(list) /\ Len(list) \in Nat
    BY <2>1
  <2>3. /\ ahead \in Seq(ListNodes) /\ Len(ahead) = k - 1
        /\ \A i \in 1 .. k - 1 : ahead[i] = list[i]
    BY <2>1, <2>2
  <2>4. /\ behind \in Seq(ListNodes) /\ Len(behind) = Len(list) - k
        /\ \A i \in 1 .. Len(list) - k : behind[i] = list[k + i]
    BY <2>1, <2>2
  <2>5. new = ahead \o behind
    BY DEF RemoveAt
  <2> HIDE DEF ahead, behind
  <2>6. new \in Seq(ListNodes) /\ Len(new) = Len(list) - 1
    BY <2>2, <2>3, <2>4, <2>5
  <2>7. \A i \in 1 .. Len(new) : new[i] = IF i <= k - 1 THEN ahead[i] ELSE behind[i - (k - 1)]
    BY <2>2, <2>3, <2>4, <2>5
  <2>8. ASSUME NEW i \in 1 .. Len(new) PROVE new[i] = IF i < k THEN list[i] ELSE list[i + 1]
    <3>1. CASE i < k
      BY <2>2, <2>3, <2>7, <3>1
    <3>2. CASE ~(i < k)
      <4>1. i - (k - 1) \in 1 .. Len(list) - k /\ k + (i - (k - 1)) = i + 1 /\ ~(i <= k - 1)
        BY <2>2, <2>6, <3>2
      <4> QED
        BY <2>4, <2>7, <3>2, <4>1
    <3> QED
      BY <3>1, <3>2
  <2> QED
    BY <2>2, <2>6, <2>8 DEF ListNodes
<1>2. \A i \in DOMAIN new : \E j \in DOMAIN list \ {k} :
        new[i] = list[j] /\ j = IF i < k THEN i ELSE i + 1
  <2>1. ASSUME NEW i \in DOMAIN new
        PROVE  \E j \in DOMAIN list \ {k} : new[i] = list[j] /\ j = IF i < k THEN i ELSE i + 1
    <3>1. CASE i < k
      BY <1>1, <3>1
    <3>2. CASE ~(i < k)
      <4>1. i + 1 \in DOMAIN list \ {k} /\ new[i] = list[i + 1]
        BY <1>1, <3>2
      <4> QED
        BY <3>2, <4>1
    <3> QED
      BY <3>1, <3>2
  <2> QED
    BY <2>1
<1>3. ASSUME NEW g, NEW p, g # list[k].fp, FirstIs(list, g, p) PROVE FirstIs(new, g, p)
  <2>1. PICK m \in DOMAIN list :
          list[m] = [fp |-> g, pid |-> p] /\ \A j \in 1 .. m - 1 : list[j].fp # g
    BY <1>3 DEF FirstIs
  <2>2. m # k /\ m \in Nat
    BY <1>3, <2>1
  <2> DEFINE n == IF m < k THEN m ELSE m - 1
  <2>3. n \in DOMAIN new /\ new[n] = [fp |-> g, pid |-> p]
    BY <1>1, <2>1, <2>2
  <2>4. ASSUME NEW j \in 1 .. n - 1 PROVE new[j].fp # g
    <3>1. CASE j < k
      <4>1. j \in 1 .. m - 1 /\ new[j] = list[j]
        BY SMTT(30), <1>1, <2>1, <2>2, <3>1
      <4> QED
        BY <2>1, <4>1
    <3>2. CASE ~(j < k)
      <4>1. n = m - 1 /\ m \in 1 .. Len(list) /\ k \in Nat /\ Len(list) \in Nat
        BY <1>1, <2>1, <2>2, <3>2
      <4>2. j + 1 \in 1 .. m - 1 /\ j \in 1 .. Len(new)
        BY <1>1, <4>1
      <4>3. new[j] = list[j + 1]
        BY <1>1, <3>2, <4>2
      <4> QED
        BY <2>1, <4>2, <4>3
    <3> QED
      BY <3>1, <3>2
  <2> QED
    BY <2>3, <2>4 DEF FirstIs
<1> QED
  BY <1>1, <1>2, <1>3

-----------------------------------------------------------------------------

LEMMA StreamsInvInit == StreamsInit => StreamsInv
<1> SUFFICES ASSUME StreamsInit PROVE StreamsInv
  OBVIOUS
<1>1. pidlist \in Seq(ListNodes) /\ pidlist = << >> /\ DOMAIN pidlist = {}
  BY DEF StreamsInit
<1>2. StreamTypes
  BY <1>1 DEF StreamsInit, StreamTypes, StreamStates
<1>3. \A f \in Fps : stream[f].kind = "closed"
  BY DEF StreamsInit, Closed
<1> QED
  BY <1>1, <1>2, <1>3 DEF StreamsInit, StreamsInv, ListedOnce, PipesListed, AbandonedExact, Children,
                          OpenPipes

\* What kinds of stream there are.
LEMMA StreamKinds ==
  /\ Closed.kind = "closed" /\ File.kind = "file" /\ Fifo.kind = "fifo"
  /\ \A pid, mode : Pipe(pid, mode).kind = "pipe" /\ Pipe(pid, mode).pid = pid
BY DEF Closed, File, Fifo, Pipe

LEMMA PipePids ==
  ASSUME StreamTypes, NEW f \in Fps, stream[f].kind = "pipe"
  PROVE  stream[f].pid \in Pids
BY StreamKinds DEF StreamTypes, StreamStates

\* A child whose stream is open is in the list, once, for that stream.
LEMMA PipeApart ==
  ASSUME StreamsInv, NEW f \in Fps, stream[f].kind = "pipe"
  PROVE  /\ stream[f].pid \in unwaited
         /\ \A i \in DOMAIN pidlist : pidlist[i].pid = stream[f].pid => pidlist[i].fp = f
         /\ \A g \in Fps : PipeTo(stream, g, stream[f].pid) => g = f
<1>1. PICK k \in DOMAIN pidlist : pidlist[k] = [fp |-> f, pid |-> stream[f].pid]
  BY DEF StreamsInv, PipesListed, FirstIs
<1>2. pidlist[k].fp = f /\ pidlist[k].pid = stream[f].pid
  BY <1>1
<1>3. \A i \in DOMAIN pidlist : pidlist[i].pid = stream[f].pid => pidlist[i].fp = f
  BY <1>2 DEF StreamsInv, ListedOnce
<1>4. ASSUME NEW g \in Fps, PipeTo(stream, g, stream[f].pid) PROVE g = f
  <2>1. PICK m \in DOMAIN pidlist : pidlist[m] = [fp |-> g, pid |-> stream[f].pid]
    BY <1>4 DEF StreamsInv, PipesListed, FirstIs, PipeTo
  <2>2. pidlist[m].fp = g /\ pidlist[m].pid = stream[f].pid
    BY <2>1
  <2> QED
    BY <1>3, <2>2
<1> QED
  BY <1>2, <1>3, <1>4 DEF StreamsInv, ListedOnce

\* A child is started for the stream f, which is opened unless it is abandoned.
LEMMA StartKeeps ==
  ASSUME StreamsInv, NEW f \in Fps, NEW pid \in Pids \ unwaited, stream[f] = Closed,
         pidlist' = <<[fp |-> f, pid |-> pid]>> \o pidlist,
         unwaited' = unwaited \cup {pid},
         inherits' = [inherits EXCEPT ![pid] = Inherited],
         \/ /\ \E mode \in {"r", "w"} : stream' = [stream EXCEPT ![f] = Pipe(pid, mode)]
            /\ abandoned' = abandoned
         \/ stream' = stream /\ abandoned' = abandoned \cup {pid},
         leaked' = leaked
  PROVE  StreamsInv'
<1>1. /\ StreamTypes /\ ListedOnce /\ PipesListed /\ AbandonedExact /\ Children
      /\ pidlist \in Seq(ListNodes)
  BY DEF StreamsInv, StreamTypes
<1>2. /\ pidlist' \in Seq(ListNodes)
      /\ 1 \in DOMAIN pidlist' /\ pidlist'[1] = [fp |-> f, pid |-> pid]
      /\ \A i \in DOMAIN pidlist' :
           /\ i \in Nat
           /\ i # 1 => i - 1 \in DOMAIN pidlist /\ pidlist'[i] = pidlist[i - 1]
      /\ FirstIs(pidlist', f, pid)
      /\ \A g, p : g # f /\ FirstIs(pidlist, g, p) => FirstIs(pidlist', g, p)
  <2>1. pid \in Pids
    OBVIOUS
  <2> QED
    <3>1. pidlist' = <<[fp |-> f, pid |-> pid]>> \o pidlist /\ pidlist \in Seq(ListNodes)
      BY <1>1
    <3>2. pidlist' \in Seq(ListNodes)
      BY <2>1, <3>1, Prepended
    <3>3. FirstIs(pidlist', f, pid)
      BY <2>1, <3>1, Prepended
    <3>4. 1 \in DOMAIN pidlist' /\ pidlist'[1] = [fp |-> f, pid |-> pid]
      BY <2>1, <3>1, Prepended
    <3>5. ASSUME NEW i \in DOMAIN pidlist'
          PROVE  i \in Nat /\ (i # 1 => i - 1 \in DOMAIN pidlist /\ pidlist'[i] = pidlist[i - 1])
      BY <2>1, <3>1, Prepended
    <3>6. \A g, p : g # f /\ FirstIs(pidlist, g, p) => FirstIs(pidlist', g, p)
      BY <2>1, <3>1, Prepended
    <3> QED
      BY <3>2, <3>3, <3>4, <3>5, <3>6
<1>3. pidlist'[1].fp = f /\ pidlist'[1].pid = pid
  BY <1>2
<1>4. /\ \A g \in Fps \ {f} : stream'[g] = stream[g]
      /\ stream[f].kind = "closed" /\ pid \notin abandoned
      /\ \/ stream'[f].kind = "pipe" /\ stream'[f].pid = pid /\ abandoned' = abandoned
         \/ stream'[f].kind = "closed" /\ stream' = stream /\ abandoned' = abandoned \cup {pid}
  BY <1>1, StreamKinds DEF StreamTypes
<1>5. StreamTypes'
  <2>1. Inherited \in SUBSET Pids
    BY NothingInherited
  <2>2. stream' \in [Fps -> StreamStates]
    BY <1>1 DEF StreamTypes, StreamStates
  <2>3. inherits' \in [Pids -> SUBSET Pids]
    BY <1>1, <2>1 DEF StreamTypes
  <2> QED
    BY <1>1, <1>2, <2>2, <2>3 DEF StreamTypes
<1>6. \A i \in DOMAIN pidlist : pidlist[i].pid \in unwaited /\ pidlist[i].pid # pid
  BY <1>1 DEF ListedOnce
<1>7. ListedOnce'
  <2>1. ASSUME NEW i \in DOMAIN pidlist', NEW j \in DOMAIN pidlist', pidlist'[i].pid = pidlist'[j].pid
        PROVE  i = j
    <3>1. CASE i = 1
      BY <1>2, <1>3, <1>6, <2>1, <3>1
    <3>2. CASE j = 1
      BY <1>2, <1>3, <1>6, <2>1, <3>2
    <3>3. CASE i # 1 /\ j # 1
      <4>1. i - 1 = j - 1 /\ i \in Nat /\ j \in Nat
        BY <1>1, <1>2, <2>1, <3>3 DEF ListedOnce
      <4> QED
        BY <4>1
    <3> QED
      BY <3>1, <3>2, <3>3
  <2>2. \A i \in DOMAIN pidlist' : pidlist'[i].pid \in unwaited'
    BY <1>2, <1>3, <1>6
  <2> QED
    BY <2>1, <2>2 DEF ListedOnce
<1>8. PipesListed'
  <2>1. ASSUME NEW g \in Fps, stream'[g].kind = "pipe" PROVE FirstIs(pidlist', g, stream'[g].pid)
    <3>1. CASE g = f
      BY <1>2, <1>4, <2>1, <3>1
    <3>2. CASE g # f
      <4>1. stream'[g] = stream[g] /\ FirstIs(pidlist, g, stream[g].pid)
        BY <1>1, <1>4, <2>1, <3>2 DEF PipesListed
      <4> QED
        BY <1>2, <3>2, <4>1
    <3> QED
      BY <3>1, <3>2
  <2> QED
    BY <2>1 DEF PipesListed
<1>9. AbandonedExact'
  <2>1. ASSUME NEW i \in DOMAIN pidlist'
        PROVE  pidlist'[i].pid \in abandoned' <=> ~PipeTo(stream', pidlist'[i].fp, pidlist'[i].pid)
    <3>1. CASE i = 1
      BY <1>3, <1>4, <3>1 DEF PipeTo
    <3>2. CASE i # 1
      <4>1. i - 1 \in DOMAIN pidlist /\ pidlist'[i] = pidlist[i - 1]
        BY <1>2, <3>2
      <4> DEFINE node == pidlist[i - 1]
      <4>2. node.pid # pid /\ (node.pid \in abandoned <=> ~PipeTo(stream, node.fp, node.pid))
        BY <1>1, <1>6, <4>1 DEF AbandonedExact
      <4>3. node.pid \in abandoned' <=> node.pid \in abandoned
        BY <1>4, <4>2
      <4>4. PipeTo(stream', node.fp, node.pid) <=> PipeTo(stream, node.fp, node.pid)
        <5>1. node.fp \in Fps
          <6>1. pidlist \in Seq(ListNodes)
            BY <1>1 DEF StreamTypes
          <6>2. node \in ListNodes
            BY <4>1, <6>1
          <6> QED
            BY <6>2 DEF ListNodes
        <5> QED
          BY <1>4, <4>2, <5>1 DEF PipeTo
      <4> QED
        BY <4>1, <4>2, <4>3, <4>4
    <3> QED
      BY <3>1, <3>2
  <2> QED
    BY <2>1 DEF AbandonedExact
<1>10. Children'
  <2>1. \A g \in Fps : stream[g].kind = "pipe" => stream[g].pid # pid
    BY PipeApart
  <2>2. unwaited' \ abandoned' = OpenPipes(Fps)'
    <3>1. unwaited \ abandoned = OpenPipes(Fps)
      BY <1>1 DEF Children
    <3>2. CASE stream'[f].kind = "pipe" /\ stream'[f].pid = pid /\ abandoned' = abandoned
      <4>1. OpenPipes(Fps)' = OpenPipes(Fps) \cup {pid}
        <5>1. \A g \in Fps : stream'[g].kind = "pipe" <=> g = f \/ stream[g].kind = "pipe"
          BY <1>4, <3>2
        <5>2. \A g \in Fps : g # f => stream'[g] = stream[g]
          BY <1>4
        <5>3. ASSUME NEW g \in Fps, stream'[g].kind = "pipe"
              PROVE  stream'[g].pid \in OpenPipes(Fps) \cup {pid}
          BY <3>2, <5>1, <5>2, <5>3 DEF OpenPipes
        <5>4. ASSUME NEW g \in Fps, stream[g].kind = "pipe"
              PROVE  stream[g].pid \in OpenPipes(Fps)'
          <6>1. g # f
            BY <1>4, <5>4
          <6> QED
            BY <5>1, <5>2, <5>4, <6>1 DEF OpenPipes
        <5>5. pid \in OpenPipes(Fps)'
          BY <3>2 DEF OpenPipes
        <5> QED
          BY <5>3, <5>4, <5>5 DEF OpenPipes
      <4> QED
        BY <1>4, <3>1, <3>2, <4>1
    <3>3. CASE stream' = stream /\ abandoned' = abandoned \cup {pid}
      <4>1. OpenPipes(Fps)' = OpenPipes(Fps)
        BY <3>3 DEF OpenPipes
      <4> QED
        BY <3>1, <3>3, <4>1
    <3> QED
      BY <1>4, <3>2, <3>3
  <2>3. \A child \in unwaited' : inherits'[child] = {}
    BY <1>1, NothingInherited DEF Children, StreamTypes
  <2>4. \A g \in leaked' : stream'[g] = Fifo
    <3>1. \A g \in leaked : stream[g] = Fifo /\ g \in Fps
      BY <1>1 DEF Children, StreamTypes
    <3> QED
      BY <1>4, <3>1, StreamKinds
  <2> QED
    BY <2>2, <2>3, <2>4 DEF Children
<1> QED
  BY <1>5, <1>7, <1>8, <1>9, <1>10 DEF StreamsInv

\* A stream that is no command's is opened or closed.
LEMMA PlainKeeps ==
  ASSUME StreamsInv, NEW f \in Fps, stream[f] = Closed \/ stream[f] = File,
         NEW s \in {Closed, File, Fifo}, stream' = [stream EXCEPT ![f] = s],
         UNCHANGED <<pidlist, unwaited, inherits, abandoned, leaked>>
  PROVE  StreamsInv'
<1>1. StreamTypes /\ ListedOnce /\ PipesListed /\ AbandonedExact /\ Children
  BY DEF StreamsInv
<1>2. /\ \A g \in Fps \ {f} : stream'[g] = stream[g]
      /\ stream[f].kind # "pipe" /\ stream'[f].kind # "pipe" /\ stream[f] # Fifo
  BY <1>1, StreamKinds DEF StreamTypes
<1>3. \A g \in Fps : \A pid : PipeTo(stream', g, pid) <=> PipeTo(stream, g, pid)
  BY <1>2 DEF PipeTo
<1>4. \A i \in DOMAIN pidlist : pidlist[i].fp \in Fps
  <2>1. pidlist \in Seq(ListNodes)
    BY <1>1 DEF StreamTypes
  <2>2. \A i \in DOMAIN pidlist : pidlist[i] \in ListNodes
    BY <2>1
  <2> QED
    BY <2>2 DEF ListNodes
<1>5. StreamTypes'
  BY <1>1 DEF StreamTypes, StreamStates
<1>6. ListedOnce'
  BY <1>1 DEF ListedOnce
<1>7. PipesListed'
  BY <1>1, <1>2 DEF PipesListed
<1>8. AbandonedExact'
  BY <1>1, <1>3, <1>4 DEF AbandonedExact
<1>9. Children'
  <2>1. OpenPipes(Fps)' = OpenPipes(Fps)
    BY <1>2 DEF OpenPipes
  <2>2. \A g \in leaked : stream[g] = Fifo /\ g \in Fps
    BY <1>1 DEF Children, StreamTypes
  <2> QED
    BY <1>1, <1>2, <2>1, <2>2 DEF Children
<1> QED
  BY <1>5, <1>6, <1>7, <1>8, <1>9 DEF StreamsInv

\* A stream that st_fclose takes for a command's.
LEMMA CloseKeeps ==
  ASSUME StreamsInv, NEW f \in Fps, Used(f), stream[f] # File, st_pclose(f)
  PROVE  StreamsInv'
<1>1. StreamTypes /\ ListedOnce /\ PipesListed /\ AbandonedExact /\ Children
  BY DEF StreamsInv
<1>2. pidlist \in Seq(ListNodes)
  BY <1>1 DEF StreamTypes
<1>3. stream[f].kind = "pipe" => Entry(f) # 0 /\ pidlist[Entry(f)].pid = stream[f].pid
  BY <1>1, <1>2, EntryFirst DEF PipesListed
<1>4. CASE Entry(f) = 0
  <2>1. leaked' = leaked \cup {f} /\ UNCHANGED <<stream, pidlist, unwaited, inherits, abandoned>>
    BY <1>4 DEF st_pclose
  <2>2. stream[f] = Fifo
    BY <1>1, <1>3, <1>4, StreamKinds DEF StreamTypes, StreamStates, Used
  <2>3. StreamTypes' /\ ListedOnce' /\ PipesListed' /\ AbandonedExact'
    BY <1>1, <2>1 DEF StreamTypes, ListedOnce, PipesListed, AbandonedExact
  <2>4. Children'
    BY <1>1, <2>1, <2>2 DEF Children, OpenPipes
  <2> QED
    BY <2>3, <2>4 DEF StreamsInv
<1>5. CASE Entry(f) # 0
  <2> DEFINE k == Entry(f)
             pid == pidlist[k].pid
  <2>1. /\ unwaited' = unwaited \ {pid} /\ inherits' = [inherits EXCEPT ![pid] = {}]
        /\ abandoned' = abandoned \ {pid} /\ stream' = [stream EXCEPT ![f] = Closed]
        /\ pidlist' = RemoveAt(pidlist, k) /\ leaked' = leaked
    BY <1>5 DEF st_pclose
  <2>2. k \in DOMAIN pidlist /\ pidlist[k].fp = f /\ pid \in unwaited
    BY <1>1, <1>2, <1>5, EntryIs DEF ListedOnce
  <2>3. /\ pidlist' \in Seq(ListNodes)
        /\ \A i \in DOMAIN pidlist' : \E j \in DOMAIN pidlist \ {k} :
             pidlist'[i] = pidlist[j] /\ j = IF i < k THEN i ELSE i + 1
        /\ \A g, p : g # f /\ FirstIs(pidlist, g, p) => FirstIs(pidlist', g, p)
    BY <1>2, <2>1, <2>2, Removed
  <2>4. \A g \in Fps \ {f} : stream'[g] = stream[g]
    BY <1>1, <2>1 DEF StreamTypes
  <2>5. stream'[f].kind # "pipe"
    <3>1. stream'[f] = Closed
      BY <1>1, <2>1 DEF StreamTypes
    <3> QED
      BY <3>1, StreamKinds
  <2>6. StreamTypes'
    <3>1. stream' \in [Fps -> StreamStates]
      BY <1>1, <2>1 DEF StreamTypes, StreamStates
    <3>2. inherits' \in [Pids -> SUBSET Pids]
      BY <1>1, <2>1 DEF StreamTypes
    <3> QED
      BY <1>1, <2>1, <2>3, <3>1, <3>2 DEF StreamTypes
  <2>7. ListedOnce'
    <3>1. ASSUME NEW i \in DOMAIN pidlist', NEW j \in DOMAIN pidlist', pidlist'[i].pid = pidlist'[j].pid
          PROVE  i = j
      <4>1. PICK m \in DOMAIN pidlist : pidlist'[i] = pidlist[m] /\ m = IF i < k THEN i ELSE i + 1
        BY <2>3
      <4>2. PICK n \in DOMAIN pidlist : pidlist'[j] = pidlist[n] /\ n = IF j < k THEN j ELSE j + 1
        BY <2>3
      <4>3. m = n
        BY <1>1, <3>1, <4>1, <4>2 DEF ListedOnce
      <4>4. i \in Nat /\ j \in Nat /\ k \in Nat
        BY <1>2, <2>2, <2>3
      <4> QED
        BY <4>1, <4>2, <4>3, <4>4
    <3>2. ASSUME NEW i \in DOMAIN pidlist' PROVE pidlist'[i].pid \in unwaited'
      <4>1. PICK m \in DOMAIN pidlist \ {k} : pidlist'[i] = pidlist[m]
        BY <2>3
      <4>2. pidlist[m].pid # pid /\ pidlist[m].pid \in unwaited
        BY <1>1, <2>2, <4>1 DEF ListedOnce
      <4> QED
        BY <2>1, <4>1, <4>2
    <3> QED
      BY <3>1, <3>2 DEF ListedOnce
  <2>8. PipesListed'
    <3>1. ASSUME NEW g \in Fps, stream'[g].kind = "pipe" PROVE FirstIs(pidlist', g, stream'[g].pid)
      <4>1. g # f
        BY <2>5, <3>1
      <4>2. stream'[g] = stream[g] /\ FirstIs(pidlist, g, stream[g].pid)
        BY <1>1, <2>4, <3>1, <4>1 DEF PipesListed
      <4> QED
        BY <2>3, <4>1, <4>2
    <3> QED
      BY <3>1 DEF PipesListed
  <2>9. \A m \in DOMAIN pidlist \ {k} : pidlist[m].pid # pid
    BY <1>1, <2>2 DEF ListedOnce
  <2>10. AbandonedExact'
    <3>1. ASSUME NEW i \in DOMAIN pidlist'
          PROVE  pidlist'[i].pid \in abandoned' <=> ~PipeTo(stream', pidlist'[i].fp, pidlist'[i].pid)
      <4>1. PICK m \in DOMAIN pidlist \ {k} : pidlist'[i] = pidlist[m]
        BY <2>3
      <4> DEFINE node == pidlist[m]
      <4>2. node.pid # pid /\ (node.pid \in abandoned <=> ~PipeTo(stream, node.fp, node.pid))
        BY <1>1, <2>9, <4>1 DEF AbandonedExact
      <4>3. node.fp \in Fps
        <5>1. pidlist \in Seq(ListNodes)
          BY <1>2
        <5>2. node \in ListNodes
          BY <4>1, <5>1
        <5> QED
          BY <5>2 DEF ListNodes
      <4>4. PipeTo(stream', node.fp, node.pid) <=> PipeTo(stream, node.fp, node.pid)
        <5>1. CASE node.fp = f
          <6>1. ~PipeTo(stream, f, node.pid)
            BY <1>3, <1>5, <4>2 DEF PipeTo
          <6> QED
            BY <2>5, <5>1, <6>1 DEF PipeTo
        <5>2. CASE node.fp # f
          BY <2>4, <4>3, <5>2 DEF PipeTo
        <5> QED
          BY <5>1, <5>2
      <4>5. node.pid \in abandoned' <=> node.pid \in abandoned
        BY <2>1, <4>2
      <4> QED
        BY <4>1, <4>2, <4>4, <4>5
    <3> QED
      BY <3>1 DEF AbandonedExact
  <2>11. Children'
    <3>1. unwaited \ abandoned = OpenPipes(Fps)
      BY <1>1 DEF Children
    <3>2. \A g \in Fps \ {f} : stream[g].kind = "pipe" => stream[g].pid # pid
      BY <2>2, PipeApart
    <3>3. OpenPipes(Fps)' = OpenPipes(Fps) \ {pid}
      <4>1. ASSUME NEW p \in OpenPipes(Fps)' PROVE p \in OpenPipes(Fps) /\ p # pid
        <5>1. PICK g \in Fps : stream'[g].kind = "pipe" /\ p = stream'[g].pid
          BY <4>1 DEF OpenPipes
        <5>2. g # f /\ stream'[g] = stream[g]
          BY <2>4, <2>5, <5>1
        <5> QED
          BY <3>2, <5>1, <5>2 DEF OpenPipes
      <4>2. ASSUME NEW p \in OpenPipes(Fps), p # pid PROVE p \in OpenPipes(Fps)'
        <5>1. PICK g \in Fps : stream[g].kind = "pipe" /\ p = stream[g].pid
          BY <4>2 DEF OpenPipes
        <5>2. g # f
          BY <1>3, <4>2, <5>1
        <5>3. stream'[g].kind = "pipe" /\ p = stream'[g].pid
          BY <2>4, <5>1, <5>2
        <5> QED
          BY <5>3 DEF OpenPipes
      <4> QED
        BY <4>1, <4>2
    <3>4. unwaited' \ abandoned' = OpenPipes(Fps)'
      BY <2>1, <3>1, <3>3
    <3>5. \A child \in unwaited' : inherits'[child] = {}
      BY <1>1, <2>1 DEF Children, StreamTypes
    <3>6. \A g \in leaked' : stream'[g] = Fifo
      BY <1>1, <2>1, <2>4 DEF Children, StreamTypes, Used
    <3> QED
      BY <3>4, <3>5, <3>6 DEF Children
  <2> QED
    BY <2>6, <2>7, <2>8, <2>10, <2>11 DEF StreamsInv
<1> QED
  BY <1>4, <1>5

LEMMA StreamsInvStep == StreamsInv /\ [StreamsNext]_streamVars => StreamsInv'
<1> SUFFICES ASSUME StreamsInv, [StreamsNext]_streamVars PROVE StreamsInv'
  OBVIOUS
<1>1. CASE UNCHANGED streamVars
  BY <1>1 DEF streamVars, StreamsInv, StreamTypes, ListedOnce, PipesListed, AbandonedExact, Children, OpenPipes
<1>2. ASSUME NEW f \in Fps, st_fopen(f) PROVE StreamsInv'
  <2>1. ASSUME NEW s \in {File, Fifo}, stream[f] = Closed, stream' = [stream EXCEPT ![f] = s],
               UNCHANGED <<pidlist, unwaited, inherits, abandoned, leaked>>
        PROVE  StreamsInv'
    BY <2>1, PlainKeeps
  <2>2. ASSUME NEW mode \in {"r", "w"}, st_popen(f, mode) PROVE StreamsInv'
    BY <2>2, StartKeeps DEF st_popen
  <2> QED
    BY <1>2, <2>1, <2>2 DEF st_fopen
<1>3. ASSUME NEW f \in Fps, st_fclose(f) PROVE StreamsInv'
  <2>1. CASE stream[f] = File /\ CloseFile(f) /\ UNCHANGED abandoned
    <3>1. /\ stream' = [stream EXCEPT ![f] = Closed] /\ Closed \in {Closed, File, Fifo}
          /\ UNCHANGED <<pidlist, unwaited, inherits, abandoned, leaked>>
      BY <2>1 DEF CloseFile
    <3> QED
      BY <2>1, <3>1, PlainKeeps
  <2>2. CASE stream[f] # File /\ st_pclose(f)
    BY <1>3, <2>2, CloseKeeps DEF st_fclose
  <2> QED
    BY <1>3, <2>1, <2>2 DEF st_fclose
<1>4. ASSUME NEW f \in Fps, st_count_lines(f) PROVE StreamsInv'
  BY <1>4, StartKeeps DEF st_count_lines
<1> QED
  BY <1>1, <1>2, <1>3, <1>4 DEF StreamsNext

\* Every child but those st_count_lines leaves behind is the one the close of its
\* stream waits for, and none holds the pipe of another, whatever is opened and closed
\* in what order and whichever addresses are used again.
THEOREM ChildrenAreWaited == StreamsInit /\ [][StreamsNext]_streamVars => []ChildrenWaited
<1>1. StreamsInv => ChildrenWaited
  <2> SUFFICES ASSUME StreamsInv PROVE ChildrenWaited
    OBVIOUS
  <2>1. pidlist \in Seq(ListNodes)
    BY DEF StreamsInv, StreamTypes
  <2>2. \A f \in Fps : stream[f].kind = "pipe" => Entry(f) # 0 /\ pidlist[Entry(f)].pid = stream[f].pid
    BY <2>1, EntryFirst DEF StreamsInv, PipesListed
  <2> QED
    BY <2>2 DEF StreamsInv, Children, ChildrenWaited
<1> QED
  BY <1>1, StreamsInvInit, StreamsInvStep, PTL

-----------------------------------------------------------------------------
(* The reads of a connection.                                               *)

NetTypes ==
  /\ tmo \in Int /\ began \in Int /\ spent \in Int
  /\ len \in Nat /\ remain_len \in Nat /\ read_pos \in Int /\ taken \in Nat

\* The first n bytes of the connection, one behind the other.
FirstBytes(n) == [p \in 0 .. n - 1 |-> p]

\* As long as no read of the call has failed, the buffer is what it has taken.
BufferIsTaken ==
  ~unwell => /\ read_pos = taken /\ taken = len - remain_len
             /\ buf = FirstBytes(taken)

\* The budget is what the time since the beginning has left of it.
BudgetExact == netPc = "read" => remain_len > 0 /\ began - spent = tmo

Answered ==
  netPc = "idle" /\ len > 0 =>
    /\ (answer = Ok) <=> (remain_len = 0)
    /\ (answer = ST_NET_SND_RCV_TIMEOUT) <=> (remain_len > 0 /\ began - spent <= 0)

NetInv == NetTypes /\ BufferIsTaken /\ BudgetExact /\ Answered

LEMMA NoByteYet == FirstBytes(0) = << >>
BY DEF FirstBytes

\* Two beginnings of the connection are one when they are equally long.
LEMMA BytesTell ==
  ASSUME NEW m \in Nat, NEW n \in Nat, FirstBytes(m) = FirstBytes(n)
  PROVE  m = n
<1>1. DOMAIN FirstBytes(m) = 0 .. m - 1 /\ DOMAIN FirstBytes(n) = 0 .. n - 1
  BY DEF FirstBytes
<1>2. 0 .. m - 1 = 0 .. n - 1
  BY <1>1
<1>3. CASE m < n
  <2>1. n - 1 \in 0 .. n - 1 /\ n - 1 \notin 0 .. m - 1
    BY <1>3
  <2> QED
    BY <1>2, <2>1
<1>4. CASE n < m
  <2>1. m - 1 \in 0 .. m - 1 /\ m - 1 \notin 0 .. n - 1
    BY <1>4
  <2> QED
    BY <1>2, <2>1
<1> QED
  BY <1>3, <1>4

LEMMA BytesGrow ==
  ASSUME NEW n \in Nat, NEW k \in Nat
  PROVE  [p \in DOMAIN FirstBytes(n) \cup n .. n + k - 1 |-> IF p >= n THEN n + p - n ELSE FirstBytes(n)[p]]
           = FirstBytes(n + k)
<1>1. DOMAIN FirstBytes(n) \cup n .. n + k - 1 = 0 .. n + k - 1
  BY DEF FirstBytes
<1>2. ASSUME NEW p \in 0 .. n + k - 1 PROVE (IF p >= n THEN n + p - n ELSE FirstBytes(n)[p]) = p
  BY DEF FirstBytes
<1> QED
  BY <1>1, <1>2 DEF FirstBytes

LEMMA NetInvInit == NetInit => NetInv
<1> SUFFICES ASSUME NetInit PROVE NetInv
  OBVIOUS
<1>1. buf = FirstBytes(taken)
  BY NoByteYet DEF NetInit
<1> QED
  BY <1>1, NetAssumption DEF NetInit, NetInv, NetTypes, BufferIsTaken, BudgetExact, Answered

\* A read that is not the end of the connection, when n bytes are missing after it.
LEMMA WentKeeps ==
  ASSUME NetInv, NEW took \in Delays, NEW n \in Nat, Reading(took), Went(took, n), remain_len' = n
  PROVE  BudgetExact' /\ Answered' /\ tmo' \in Int /\ spent' \in Int /\ began' \in Int /\ len' \in Nat
<1>1. /\ tmo \in Int /\ began \in Int /\ spent \in Int /\ len \in Nat /\ took \in Int
      /\ netPc = "read" /\ began - spent = tmo /\ spent' = spent + took /\ len' = len /\ began' = began
  BY NetAssumption DEF NetInv, NetTypes, BudgetExact, Reading
<1>2. Ok # ST_NET_SND_RCV_TIMEOUT
  BY DEF Ok, ST_NET_SND_RCV_TIMEOUT
<1>3. began' - spent' = tmo - took
  BY <1>1
<1>4. CASE Late(took) /\ netPc' = "idle" /\ answer' = AfterLast(n) /\ UNCHANGED tmo
  <2>1. tmo - took <= 0 /\ (answer' = Ok <=> n = 0) /\ (answer' = ST_NET_SND_RCV_TIMEOUT <=> n > 0)
    BY <1>2, <1>4 DEF Late, AfterLast
  <2> QED
    BY <1>1, <1>3, <1>4, <2>1 DEF BudgetExact, Answered
<1>5. CASE ~Late(took) /\ update_timeout(took)
           /\ IF n > 0 THEN UNCHANGED <<netPc, answer>> ELSE netPc' = "idle" /\ answer' = Ok
  <2>1. tmo' = tmo - took /\ ~(tmo - took <= 0)
    BY <1>5 DEF Late, update_timeout
  <2>2. CASE n > 0
    BY <1>1, <1>3, <1>5, <2>1, <2>2 DEF BudgetExact, Answered
  <2>3. CASE ~(n > 0)
    BY <1>1, <1>2, <1>3, <1>5, <2>1, <2>3 DEF BudgetExact, Answered
  <2> QED
    BY <2>2, <2>3
<1> QED
  BY <1>4, <1>5 DEF Went

LEMMA NetInvStep == NetInv /\ [NetNext]_netVars => NetInv'
<1> SUFFICES ASSUME NetInv, [NetNext]_netVars PROVE NetInv'
  OBVIOUS
<1>1. /\ tmo \in Int /\ began \in Int /\ spent \in Int
      /\ len \in Nat /\ remain_len \in Nat /\ read_pos \in Int /\ taken \in Nat
  BY DEF NetInv, NetTypes
<1>2. CASE UNCHANGED netVars
  BY <1>2 DEF netVars, NetInv, NetTypes, BufferIsTaken, BudgetExact, Answered
<1>3. CASE st_write
  <2>1. /\ tmo' \in Int /\ began' \in Int /\ spent' \in Int
        /\ len' = 0 /\ remain_len' = 0 /\ read_pos' = 0 /\ buf' = << >> /\ taken' = 0 /\ netPc' = "idle"
    <3>1. PICK took \in Delays : (UNCHANGED tmo \/ update_timeout(took)) /\ spent' = took
      BY <1>3 DEF st_write
    <3>2. took \in Int
      BY NetAssumption
    <3> QED
      BY <1>1, <1>3, <3>1, <3>2 DEF st_write, update_timeout
  <2>2. buf' = FirstBytes(0)
    BY <2>1, NoByteYet
  <2> QED
    BY <2>1, <2>2 DEF NetInv, NetTypes, BufferIsTaken, BudgetExact, Answered
<1>4. CASE st_read
  <2>1. /\ tmo' = tmo /\ began' = tmo /\ spent' = 0 /\ netPc' = "read"
        /\ len' \in 1 .. MaxLen /\ remain_len' = len' /\ read_pos' = 0 /\ buf' = << >> /\ taken' = 0
    BY <1>4 DEF st_read
  <2>2. len' \in Nat /\ len' > 0
    BY <2>1, NetAssumption
  <2>3. buf' = FirstBytes(0)
    BY <2>1, NoByteYet
  <2>4. NetTypes'
    BY <1>1, <2>1, <2>2 DEF NetTypes
  <2>5. BufferIsTaken'
    <3>1. read_pos' = taken' /\ taken' = len' - remain_len'
      <4>1. \A k \in Nat : k - k = 0
        OBVIOUS
      <4>2. len' - len' = 0
        BY <2>2, <4>1
      <4> QED
        BY <2>1, <4>2
    <3>2. buf' = FirstBytes(taken')
      BY <2>1, <2>3
    <3> QED
      BY <3>1, <3>2 DEF BufferIsTaken
  <2>6. BudgetExact' /\ Answered'
    BY <1>1, <2>1, <2>2 DEF BudgetExact, Answered
  <2> QED
    BY <2>4, <2>5, <2>6 DEF NetInv
<1>5. ASSUME NEW took \in Delays, ReadFails(took) PROVE NetInv'
  <2>1. /\ Reading(took) /\ read_pos' = read_pos - 1 /\ remain_len' = remain_len + 1 /\ unwell' = TRUE
        /\ Went(took, remain_len + 1) /\ taken' = taken /\ remain_len + 1 \in Nat
    BY <1>1, <1>5 DEF ReadFails
  <2>2. BudgetExact' /\ Answered' /\ tmo' \in Int /\ spent' \in Int /\ began' \in Int /\ len' \in Nat
    BY <2>1, WentKeeps
  <2> QED
    BY <1>1, <2>1, <2>2 DEF NetInv, NetTypes, BufferIsTaken
<1>6. ASSUME NEW took \in Delays, ReadEnds(took) PROVE NetInv'
  <2>1. /\ netPc = "read" /\ remain_len > 0 /\ began - spent = tmo /\ spent' = spent + took /\ took \in Int
        /\ netPc' = "idle" /\ answer' = (IF Late(took) THEN ST_NET_SND_RCV_TIMEOUT ELSE ST_NET_NETWORK)
        /\ UNCHANGED <<tmo, remain_len, read_pos, buf, taken, unwell, len, began>>
    BY <1>6, NetAssumption DEF NetInv, BudgetExact, ReadEnds, Reading
  <2>2. /\ answer' # Ok
        /\ (answer' = ST_NET_SND_RCV_TIMEOUT) <=> (tmo - took <= 0)
    BY <2>1 DEF Late, Ok, ST_NET_SND_RCV_TIMEOUT, ST_NET_NETWORK
  <2>3. began' - spent' = tmo - took
    BY <1>1, <2>1
  <2>4. Answered'
    BY <1>1, <2>1, <2>2, <2>3 DEF Answered
  <2> QED
    BY <1>1, <2>1, <2>4 DEF NetInv, NetTypes, BufferIsTaken, BudgetExact
<1>7. ASSUME NEW took \in Delays, NEW k \in 1 .. MaxLen + 1, ReadSome(k, took) PROVE NetInv'
  <2>1. /\ Reading(took) /\ k <= remain_len /\ len' = len
        /\ buf' = [p \in DOMAIN buf \cup read_pos .. read_pos + k - 1 |->
                     IF p >= read_pos THEN taken + p - read_pos ELSE buf[p]]
        /\ read_pos' = read_pos + k /\ remain_len' = remain_len - k /\ taken' = taken + k
        /\ Went(took, remain_len - k) /\ unwell' = unwell
    BY <1>7 DEF ReadSome, Reading
  <2>2. k \in Nat /\ remain_len - k \in Nat
    BY <1>1, <2>1, NetAssumption
  <2>3. BudgetExact' /\ Answered' /\ tmo' \in Int /\ spent' \in Int /\ began' \in Int /\ len' \in Nat
    BY <2>1, <2>2, WentKeeps
  <2>4. ASSUME ~unwell PROVE buf' = FirstBytes(taken + k) /\ taken + k = len - (remain_len - k)
    <3>1. read_pos = taken /\ buf = FirstBytes(taken) /\ taken = len - remain_len
      BY <2>4 DEF NetInv, BufferIsTaken
    <3>2. buf' = [p \in DOMAIN FirstBytes(taken) \cup taken .. taken + k - 1 |->
                     IF p >= taken THEN taken + p - taken ELSE FirstBytes(taken)[p]]
      BY <2>1, <3>1
    <3>3. buf' = FirstBytes(taken + k)
      BY <1>1, <2>2, <3>2, BytesGrow
    <3> QED
      BY <1>1, <2>2, <3>1, <3>3
  <2>5. BufferIsTaken'
    <3>1. CASE unwell
      BY <2>1, <3>1 DEF BufferIsTaken
    <3>2. CASE ~unwell
      <4>1. read_pos' = taken'
        BY <2>1, <3>2 DEF NetInv, BufferIsTaken
      <4> QED
        BY <2>1, <2>4, <3>2, <4>1 DEF BufferIsTaken
    <3> QED
      BY <3>1, <3>2
  <2> QED
    BY <1>1, <2>1, <2>2, <2>3, <2>5 DEF NetInv, NetTypes
<1> QED
  BY <1>2, <1>3, <1>4, <1>5, <1>6, <1>7 DEF NetNext

\* st_read answers 0 exactly when all the bytes are in the buffer, in order, and a
\* timeout exactly when some are missing and the budget is used up: for any budget, any
\* times a read takes, in however many pieces the bytes come.
THEOREM ReadsAreExact == NetInit /\ [][NetNext]_netVars => []ReadExact
<1>1. NetInv => ReadExact
  <2> SUFFICES ASSUME NetInv, netPc = "idle", len > 0
               PROVE  /\ ~unwell => ((answer = Ok) <=> (buf = [p \in 0 .. len - 1 |-> p]))
                      /\ ~unwell => taken = len - remain_len
                      /\ (answer = ST_NET_SND_RCV_TIMEOUT) <=> (remain_len > 0 /\ began - spent <= 0)
    BY DEF ReadExact
  <2>1. len \in Nat /\ remain_len \in Nat /\ taken \in Nat
    BY DEF NetInv, NetTypes
  <2>2. /\ (answer = Ok) <=> (remain_len = 0)
        /\ (answer = ST_NET_SND_RCV_TIMEOUT) <=> (remain_len > 0 /\ began - spent <= 0)
    BY DEF NetInv, Answered
  <2>3. ASSUME ~unwell PROVE remain_len = 0 <=> buf = FirstBytes(len)
    <3>1. taken = len - remain_len /\ buf = FirstBytes(taken)
      BY <2>3 DEF NetInv, BufferIsTaken
    <3>2. remain_len = 0 <=> taken = len
      BY <2>1, <3>1
    <3>3. buf = FirstBytes(len) => taken = len
      BY <2>1, <3>1, BytesTell
    <3> QED
      BY <3>1, <3>2, <3>3
  <2>4. ~unwell => taken = len - remain_len
    BY DEF NetInv, BufferIsTaken
  <2> QED
    BY <2>2, <2>3, <2>4 DEF FirstBytes
<1> QED
  BY <1>1, NetInvInit, NetInvStep, PTL

-----------------------------------------------------------------------------
(* Alphabets.                                                               *)

\* What the lines of a text file are.
LabelLines == [label : Labels \cup {NoLabel}, id : Int]

\* A table that holds the given labels, in order: those of them that are plain as they are.
Holds(table, labels) ==
  /\ table \in Seq(Labels) /\ labels \in Seq(Labels) /\ Len(table) = Len(labels)
  /\ \A i \in 1 .. Len(labels) : Plain(labels[i]) => table[i] = labels[i]

\* An alphabet that was filled by calls: a node has the signature of the whole label.
FilledWith(alpha, labels) ==
  /\ alpha.eq = "label" /\ Holds(alpha.table, labels)
  /\ \A i \in 1 .. Len(labels) : alpha.table[i] = Kept[labels[i]] /\ get_sign[labels[i]] # NoSign
  /\ alpha.dict = {Node(labels[i + 1], i) : i \in Numbers(alpha.table)}

\* One that was loaded: no two labels of it have one signature, and it is full.
LoadedWith(alpha, labels) ==
  /\ alpha.eq = "sign" /\ Holds(alpha.table, labels)
  /\ Indexable(alpha.table) /\ alpha.dict = Nodes(alpha.table) /\ alpha.max = Len(alpha.table)

SavedAsGiven ==
  \/ saved.kind = "none"
  \/ saved.kind = "bin" /\ Holds(saved.table, saved.given)
  \/ /\ saved.kind = "txt" /\ saved.lines \in Seq(LabelLines)
     /\ WellFormed(saved.lines) => Holds(Table(saved.lines), saved.given)

AlphabetInv ==
  /\ given \in Seq(Labels)
  /\ alphabet = NoAlphabet \/ FilledWith(alphabet, given) \/ LoadedWith(alphabet, given)
  /\ SavedAsGiven

\* A text that is well formed has a line for each number.
LEMMA NumberHasLine ==
  ASSUME NEW lines \in Seq(LabelLines), WellFormed(lines), NEW i \in 1 .. Len(lines)
  PROVE  \E k \in DOMAIN lines : lines[k].id = i - 1
<1> DEFINE n == Len(lines)
           f == [k \in 1 .. n |-> lines[k].id]
<1>1. n \in Nat /\ DOMAIN lines = 1 .. n
  OBVIOUS
<1>2. f \in Injection(1 .. n, 0 .. n - 1)
  <2>1. f \in [1 .. n -> 0 .. n - 1]
    BY <1>1 DEF WellFormed
  <2>2. \A k, m \in 1 .. n : f[k] = f[m] => k = m
    BY <1>1 DEF WellFormed
  <2> HIDE DEF f, n
  <2> QED
    BY <2>1, <2>2 DEF Injection, IsInjective
<1>3. IsFiniteSet(0 .. n - 1) /\ Cardinality(1 .. n) = n /\ Cardinality(0 .. n - 1) = n
  <2>1. 1 \in Int /\ 0 \in Int /\ n \in Int /\ n - 1 \in Int
    BY <1>1
  <2>2. /\ Cardinality(1 .. n) = IF 1 > n THEN 0 ELSE n - 1 + 1
        /\ Cardinality(0 .. n - 1) = IF 0 > n - 1 THEN 0 ELSE n - 1 - 0 + 1
        /\ IsFiniteSet(0 .. n - 1)
    BY <2>1, FS_Interval
  <2> HIDE DEF n
  <2> QED
    BY <1>1, <2>2
<1>4. f \in Surjection(1 .. n, 0 .. n - 1)
  <2> HIDE DEF f, n
  <2> QED
    BY <1>2, <1>3, FS_Injection
<1>5. i - 1 \in 0 .. n - 1
  BY <1>1
<1>6. PICK k \in 1 .. n : f[k] = i - 1
  <2> HIDE DEF f, n
  <2> QED
    BY <1>4, <1>5 DEF Surjection
<1> QED
  BY <1>1, <1>6

\* The table of a text holds under each number the label of its line.
LEMMA TableOfLines ==
  ASSUME NEW lines \in Seq(LabelLines), WellFormed(lines)
  PROVE  /\ Table(lines) \in Seq(Labels) /\ Len(Table(lines)) = Len(lines)
         /\ \A k \in DOMAIN lines : Table(lines)[lines[k].id + 1] = Kept[lines[k].label]
<1> DEFINE line(i) == CHOOSE k \in DOMAIN lines : lines[k].id = i - 1
<1>1. Len(lines) \in Nat /\ DOMAIN lines = 1 .. Len(lines)
  OBVIOUS
<1>2. ASSUME NEW i \in 1 .. Len(lines) PROVE line(i) \in DOMAIN lines /\ lines[line(i)].id = i - 1
  BY NumberHasLine
<1>3. Table(lines) = [i \in 1 .. Len(lines) |-> Kept[lines[line(i)].label]]
  BY <1>1 DEF Table
<1>4. ASSUME NEW k \in DOMAIN lines PROVE lines[k].label \in Labels /\ lines[k].id + 1 \in 1 .. Len(lines)
  <2>1. lines[k] \in LabelLines
    BY <1>4
  <2>2. lines[k].label # NoLabel /\ lines[k].id \in 0 .. Len(lines) - 1
    BY <1>4 DEF WellFormed
  <2> QED
    BY <1>1, <2>1, <2>2 DEF LabelLines
<1> HIDE DEF line
<1>5. \A i \in 1 .. Len(lines) : Kept[lines[line(i)].label] \in Labels
  BY <1>2, <1>4, AlphabetAssumption
<1>6. Table(lines) \in Seq(Labels) /\ Len(Table(lines)) = Len(lines)
  BY <1>1, <1>3, <1>5
<1>7. ASSUME NEW k \in DOMAIN lines PROVE Table(lines)[lines[k].id + 1] = Kept[lines[k].label]
  <2> DEFINE i == lines[k].id + 1
  <2>1. i \in 1 .. Len(lines) /\ lines[k].id = i - 1
    BY <1>1, <1>4 DEF WellFormed
  <2>2. line(i) = k
    BY <1>2, <2>1 DEF WellFormed
  <2> QED
    BY <1>3, <2>1, <2>2
<1> QED
  BY <1>6, <1>7

\* What is written to a text and read back is as it was, when it is plain.
LEMMA TextKeeps ==
  ASSUME NEW table, NEW labels, Holds(table, labels),
         NEW lines, lines = [i \in DOMAIN table |-> [label |-> ReadBack[table[i]], id |-> i - 1]]
  PROVE  /\ lines \in Seq(LabelLines)
         /\ WellFormed(lines) => Holds(Table(lines), labels)
<1>1. /\ table \in Seq(Labels) /\ Len(table) \in Nat /\ DOMAIN table = 1 .. Len(table)
      /\ labels \in Seq(Labels) /\ Len(labels) = Len(table)
  BY DEF Holds
<1>2. \A i \in 1 .. Len(table) : table[i] \in Labels
  BY <1>1
<1>3. \A i \in 1 .. Len(table) : [label |-> ReadBack[table[i]], id |-> i - 1] \in LabelLines
  BY <1>2, AlphabetAssumption DEF LabelLines
<1>4. lines \in Seq(LabelLines) /\ Len(lines) = Len(table) /\ DOMAIN lines = 1 .. Len(table)
  BY <1>1, <1>3
<1>5. \A i \in 1 .. Len(table) : lines[i].label = ReadBack[table[i]] /\ lines[i].id = i - 1
  BY <1>1
<1>6. ASSUME WellFormed(lines) PROVE Holds(Table(lines), labels)
  <2>1. /\ Table(lines) \in Seq(Labels) /\ Len(Table(lines)) = Len(lines)
        /\ \A k \in DOMAIN lines : Table(lines)[lines[k].id + 1] = Kept[lines[k].label]
    BY <1>4, <1>6, TableOfLines
  <2>2. ASSUME NEW i \in 1 .. Len(labels), Plain(labels[i]) PROVE Table(lines)[i] = labels[i]
    <3>1. table[i] = labels[i]
      BY <2>2 DEF Holds
    <3>2. i \in 1 .. Len(table) /\ (i - 1) + 1 = i
      BY <1>1
    <3>3. Table(lines)[i] = Kept[ReadBack[table[i]]]
      BY <1>4, <1>5, <2>1, <3>2
    <3> QED
      BY <2>2, <3>1, <3>3 DEF Plain
  <2> QED
    BY <1>1, <1>4, <2>1, <2>2 DEF Holds
<1> QED
  BY <1>4, <1>6

\* A label that is added.
LEMMA AddedKeeps ==
  ASSUME AlphabetInv, NEW label \in Labels, st_alphabet_add_label(label)
  PROVE  FilledWith(alphabet, given)'
<1>1. /\ Held /\ Len(alphabet.table) < alphabet.max /\ get_sign[label] # NoSign
      /\ alphabet' = Appended(label) /\ given' = Append(given, label)
  BY DEF st_alphabet_add_label
<1>2. FilledWith(alphabet, given)
  <2>1. ~LoadedWith(alphabet, given)
    <3>1. ASSUME LoadedWith(alphabet, given) PROVE FALSE
      <4>1. alphabet.max = Len(alphabet.table) /\ Len(alphabet.table) \in Nat
        BY <3>1 DEF LoadedWith, Holds
      <4> QED
        BY <1>1, <4>1
    <3> QED
      BY <3>1
  <2> QED
    BY <1>1, <2>1 DEF AlphabetInv, Held
<1> DEFINE table == alphabet.table
           n == Len(table)
<1>3. /\ table \in Seq(Labels) /\ given \in Seq(Labels) /\ n \in Nat /\ Len(given) = n
      /\ \A i \in 1 .. n : table[i] = Kept[given[i]] /\ get_sign[given[i]] # NoSign
      /\ alphabet.dict = {Node(given[i + 1], i) : i \in 0 .. n - 1}
      /\ alphabet.eq = "label"
  BY <1>2 DEF FilledWith, Holds, Numbers
<1>4. Kept[label] \in Labels
  BY AlphabetAssumption
<1>5. /\ alphabet'.table = Append(table, Kept[label]) /\ alphabet'.eq = "label"
      /\ alphabet'.dict = alphabet.dict \cup {Node(label, n)}
  BY <1>1, <1>3 DEF Appended
<1> HIDE DEF table, n
<1>6. /\ alphabet'.table \in Seq(Labels) /\ Len(alphabet'.table) = n + 1
      /\ given' \in Seq(Labels) /\ Len(given') = n + 1
      /\ \A i \in 1 .. n : alphabet'.table[i] = table[i] /\ given'[i] = given[i]
      /\ alphabet'.table[n + 1] = Kept[label] /\ given'[n + 1] = label
  BY <1>1, <1>3, <1>4, <1>5 DEF n
<1>7. \A i \in 1 .. n + 1 : i \in 1 .. n \/ i = n + 1
  BY <1>3
<1>8. \A i \in 1 .. n + 1 : alphabet'.table[i] = Kept[given'[i]] /\ get_sign[given'[i]] # NoSign
  BY <1>1, <1>3, <1>6, <1>7
<1>9. alphabet'.dict = {Node(given'[i + 1], i) : i \in 0 .. n}
  <2>1. \A i \in 0 .. n : i = n \/ (i \in 0 .. n - 1 /\ i + 1 \in 1 .. n)
    BY <1>3
  <2>2. \A i \in 0 .. n - 1 : i \in 0 .. n /\ i + 1 \in 1 .. n
    BY <1>3
  <2>3. n \in 0 .. n
    BY <1>3
  <2>4. \A i \in 0 .. n - 1 : Node(given'[i + 1], i) = Node(given[i + 1], i)
    BY <1>6, <2>2
  <2>5. Node(given'[n + 1], n) = Node(label, n)
    BY <1>6
  <2>6. alphabet'.dict = {Node(given[i + 1], i) : i \in 0 .. n - 1} \cup {Node(label, n)}
    BY <1>3, <1>5
  <2> QED
    BY <2>1, <2>2, <2>3, <2>4, <2>5, <2>6
<1>10. Holds(alphabet'.table, given')
  BY <1>6, <1>8 DEF Holds, Plain
<1>11. Numbers(alphabet'.table) = 0 .. n
  BY <1>3, <1>6 DEF Numbers
<1> QED
  BY <1>5, <1>6, <1>8, <1>9, <1>10, <1>11 DEF FilledWith

LEMMA AlphabetInvInit == AlphabetInit => AlphabetInv
BY DEF AlphabetInit, AlphabetInv, SavedAsGiven, NoFile

LEMMA AlphabetInvStep == AlphabetInv /\ [AlphabetNext]_alphabetVars => AlphabetInv'
<1> SUFFICES ASSUME AlphabetInv, [AlphabetNext]_alphabetVars PROVE AlphabetInv'
  OBVIOUS
<1>1. /\ given \in Seq(Labels) /\ SavedAsGiven
      /\ alphabet = NoAlphabet \/ FilledWith(alphabet, given) \/ LoadedWith(alphabet, given)
  BY DEF AlphabetInv
<1>2. ASSUME Held PROVE Holds(alphabet.table, given)
  BY <1>1, <1>2 DEF Held, FilledWith, LoadedWith
<1>3. UNCHANGED saved => SavedAsGiven'
  BY <1>1 DEF SavedAsGiven
<1>4. CASE UNCHANGED alphabetVars
  BY <1>1, <1>3, <1>4 DEF alphabetVars, AlphabetInv
<1>5. CASE st_alphabet_create
  <2>1. PICK n \in MaxNums : alphabet' = [max |-> n, table |-> << >>, dict |-> {}, eq |-> "label"]
    BY <1>5 DEF st_alphabet_create
  <2>2. given' = << >> /\ UNCHANGED saved
    BY <1>5 DEF st_alphabet_create
  <2>3. /\ alphabet'.table = << >> /\ alphabet'.dict = {} /\ alphabet'.eq = "label"
        /\ << >> \in Seq(Labels) /\ Len(<< >>) = 0
    BY <2>1
  <2>4. Holds(alphabet'.table, given')
    BY <2>2, <2>3 DEF Holds
  <2>5. Numbers(alphabet'.table) = {}
    BY <2>3 DEF Numbers
  <2>6. FilledWith(alphabet', given')
    BY <2>2, <2>3, <2>4, <2>5 DEF FilledWith
  <2> QED
    BY <1>3, <2>2, <2>3, <2>6 DEF AlphabetInv
<1>6. ASSUME NEW label \in Labels, st_alphabet_add_label(label) PROVE AlphabetInv'
  <2>1. FilledWith(alphabet, given)'
    BY <1>6, AddedKeeps
  <2> QED
    BY <1>3, <1>6, <2>1 DEF AlphabetInv, FilledWith, Holds, st_alphabet_add_label
<1>7. CASE st_alphabet_save_bin
  <2>1. /\ saved'.kind = "bin" /\ saved'.table = alphabet.table /\ saved'.given = given
        /\ UNCHANGED <<alphabet, given>> /\ Held
    BY <1>7 DEF st_alphabet_save_bin
  <2> QED
    BY <1>1, <1>2, <2>1 DEF AlphabetInv, SavedAsGiven
<1>8. CASE st_alphabet_save_txt
  <2>1. /\ saved'.kind = "txt" /\ saved'.given = given
        /\ saved'.lines = [i \in DOMAIN alphabet.table |-> [label |-> ReadBack[alphabet.table[i]], id |-> i - 1]]
        /\ UNCHANGED <<alphabet, given>> /\ Held
    BY <1>8 DEF st_alphabet_save_txt
  <2>2. /\ saved'.lines \in Seq(LabelLines)
        /\ WellFormed(saved'.lines) => Holds(Table(saved'.lines), given)
    BY <1>2, <2>1, TextKeeps
  <2> QED
    BY <1>1, <2>1, <2>2 DEF AlphabetInv, SavedAsGiven
<1>9. CASE WriteText
  <2>1. PICK lines \in TextFiles :
          /\ saved' = [kind |-> "txt", lines |-> lines,
                       given |-> IF WellFormed(lines) THEN Table(lines) ELSE << >>]
          /\ UNCHANGED <<alphabet, given>>
    BY <1>9 DEF WriteText
  <2>2. lines \in Seq(LabelLines)
    BY AlphabetAssumption DEF LabelLines
  <2>3. saved'.kind = "txt" /\ saved'.lines = lines /\ (WellFormed(lines) => saved'.given = Table(lines))
    BY <2>1
  <2>4. WellFormed(lines) => Holds(Table(lines), Table(lines))
    BY <2>2, TableOfLines DEF Holds
  <2> QED
    BY <1>1, <2>1, <2>2, <2>3, <2>4 DEF AlphabetInv, SavedAsGiven
<1>10. ASSUME NEW table, Holds(table, saved.given), Indexable(table),
              alphabet' = Loaded(table), given' = saved.given, UNCHANGED saved
       PROVE  AlphabetInv'
  <2>1. /\ alphabet'.table = table /\ alphabet'.eq = "sign" /\ alphabet'.max = Len(table)
        /\ alphabet'.dict = Nodes(table)
    BY <1>10 DEF Loaded
  <2>2. LoadedWith(alphabet', given')
    BY <1>10, <2>1 DEF LoadedWith
  <2>3. given' \in Seq(Labels)
    BY <1>10 DEF Holds
  <2> QED
    BY <1>3, <1>10, <2>2, <2>3 DEF AlphabetInv
<1>11. CASE st_alphabet_load_from_txt_file
  <2>1. /\ saved.kind = "txt" /\ WellFormed(saved.lines) /\ Indexable(Table(saved.lines))
        /\ alphabet' = Loaded(Table(saved.lines)) /\ given' = saved.given /\ UNCHANGED saved
    BY <1>11 DEF st_alphabet_load_from_txt_file, st_alphabet_load_txt, st_alphabet_generate_index_dict
  <2>2. Holds(Table(saved.lines), saved.given)
    BY <1>1, <2>1 DEF SavedAsGiven
  <2> QED
    BY <1>10, <2>1, <2>2
<1>12. CASE st_alphabet_load_from_bin
  <2>1. /\ saved.kind = "bin" /\ Indexable(saved.table)
        /\ alphabet' = Loaded(saved.table) /\ given' = saved.given /\ UNCHANGED saved
    BY <1>12 DEF st_alphabet_load_from_bin, st_alphabet_generate_index_dict
  <2>2. Holds(saved.table, saved.given)
    BY <1>1, <2>1 DEF SavedAsGiven
  <2> QED
    BY <1>10, <2>1, <2>2
<1>13. CASE st_alphabet_dup
  <2>1. /\ alphabet'.max = alphabet.max /\ alphabet'.table = alphabet.table
        /\ alphabet'.dict = alphabet.dict /\ alphabet'.eq = alphabet.eq
        /\ Held /\ UNCHANGED <<saved, given>>
    BY <1>13 DEF st_alphabet_dup, Copy
  <2>2. FilledWith(alphabet, given) \/ LoadedWith(alphabet, given)
    BY <1>1, <2>1 DEF Held
  <2>3. FilledWith(alphabet', given') \/ LoadedWith(alphabet', given')
    BY <2>1, <2>2 DEF FilledWith, LoadedWith
  <2> QED
    BY <1>1, <1>3, <2>1, <2>3 DEF AlphabetInv
<1>14. CASE st_alphabet_destroy
  BY <1>3, <1>14 DEF AlphabetInv, st_alphabet_destroy
<1> QED
  BY <1>4, <1>5, <1>6, <1>7, <1>8, <1>9, <1>11, <1>12, <1>13, <1>14 DEF AlphabetNext

\* The nodes a search may end at, and what its answer says of them.
Matches(l) == {n \in alphabet.dict : index_dict_node_eq(alphabet, n, l)}

LEMMA AnswerMatches ==
  ASSUME NEW l, NEW i, i = st_alphabet_get_index(alphabet, l)
  PROVE  /\ i >= 0 => \E n \in Matches(l) : i = n.at
         /\ get_sign[l] # NoSign /\ Matches(l) # {} => \E n \in Matches(l) : i = n.at
<1>1. i = IF get_sign[l] = NoSign \/ Matches(l) = {} THEN -1 ELSE (CHOOSE n \in Matches(l) : TRUE).at
  BY DEF st_alphabet_get_index, Matches
<1>2. ~(-1 >= 0)
  OBVIOUS
<1>3. CASE get_sign[l] = NoSign \/ Matches(l) = {}
  BY <1>1, <1>2, <1>3
<1>4. CASE ~(get_sign[l] = NoSign \/ Matches(l) = {})
  <2> DEFINE n == CHOOSE m \in Matches(l) : TRUE
  <2>1. n \in Matches(l)
    BY <1>4
  <2> QED
    BY <1>1, <1>4, <2>1
<1> QED
  BY <1>3, <1>4

\* Found by label: the node is of the very label that was looked for.
LEMMA FilledFinds ==
  ASSUME FilledWith(alphabet, given), NEW l \in Labels
  PROVE  /\ \A n \in Matches(l) : n.at \in Numbers(given) /\ At(given, n.at) = l /\ At(alphabet.table, n.at) = l
         /\ Plain(l) /\ l \in ToSet(given) => get_sign[l] # NoSign /\ Matches(l) # {}
<1> DEFINE table == alphabet.table
<1>1. /\ table \in Seq(Labels) /\ given \in Seq(Labels) /\ Len(table) = Len(given) /\ Len(given) \in Nat
      /\ \A i \in 1 .. Len(given) : given[i] \in Labels
      /\ \A i \in 1 .. Len(given) : table[i] = Kept[given[i]] /\ get_sign[given[i]] # NoSign
      /\ alphabet.dict = {Node(given[i + 1], i) : i \in 0 .. Len(given) - 1} /\ alphabet.eq = "label"
  BY DEF FilledWith, Holds, Numbers
<1>2. ASSUME NEW n \in Matches(l)
      PROVE  n.at \in Numbers(given) /\ At(given, n.at) = l /\ At(table, n.at) = l
  <2>1. n \in alphabet.dict /\ n.sign = get_sign[l] /\ At(table, n.at) = l
    BY <1>1 DEF Matches, index_dict_node_eq, Equal
  <2>2. PICK i \in 0 .. Len(given) - 1 : n = Node(given[i + 1], i)
    BY <1>1, <2>1
  <2>3. n.sign = get_sign[given[i + 1]] /\ n.at = i
    BY <2>2 DEF Node
  <2>4. i + 1 \in 1 .. Len(given)
    BY <1>1
  <2>5. given[i + 1] \in Labels /\ table[i + 1] = Kept[given[i + 1]] /\ table[i + 1] = l
    BY <1>1, <2>1, <2>3, <2>4 DEF At
  <2>6. given[i + 1] = l
    BY <2>1, <2>3, <2>5, AlphabetAssumption
  <2> QED
    BY <1>1, <2>1, <2>3, <2>6 DEF At, Numbers
<1>3. ASSUME Plain(l), l \in ToSet(given) PROVE get_sign[l] # NoSign /\ Matches(l) # {}
  <2>1. PICK k \in 1 .. Len(given) : given[k] = l
    BY <1>1, <1>3 DEF ToSet
  <2>2. k - 1 \in 0 .. Len(given) - 1 /\ (k - 1) + 1 = k
    BY <1>1
  <2> DEFINE node == Node(l, k - 1)
  <2>3. node \in alphabet.dict
    BY <1>1, <2>1, <2>2
  <2>4. node.sign = get_sign[l] /\ node.at = k - 1
    BY DEF Node
  <2>5. At(table, k - 1) = l
    BY <1>1, <1>3, <2>1, <2>2 DEF At, Plain
  <2>6. k - 1 \in Numbers(table)
    BY <1>1, <2>2 DEF Numbers
  <2> HIDE DEF node
  <2>7. node \in Matches(l)
    BY <2>3, <2>4, <2>5, <2>6 DEF Matches, index_dict_node_eq, Equal
  <2> QED
    BY <1>1, <2>1, <2>7
<1> QED
  BY <1>2, <1>3

\* Found by signature: no other label of the table has it.
LEMMA LoadedFinds ==
  ASSUME LoadedWith(alphabet, given), NEW l \in Labels, Plain(l), l \in ToSet(given)
  PROVE  /\ \A n \in Matches(l) : n.at \in Numbers(given) /\ At(given, n.at) = l /\ At(alphabet.table, n.at) = l
         /\ get_sign[l] # NoSign /\ Matches(l) # {}
<1> DEFINE table == alphabet.table
<1>1. /\ table \in Seq(Labels) /\ given \in Seq(Labels) /\ Len(table) = Len(given) /\ Len(given) \in Nat
      /\ \A i \in 1 .. Len(given) : Plain(given[i]) => table[i] = given[i]
      /\ Indexable(table) /\ alphabet.dict = Nodes(table) /\ alphabet.eq = "sign"
  BY DEF LoadedWith, Holds
<1>2. PICK k \in 1 .. Len(given) : given[k] = l
  BY <1>1 DEF ToSet
<1>3. k - 1 \in Numbers(table) /\ Numbers(table) = Numbers(given) /\ (k - 1) + 1 = k
  BY <1>1 DEF Numbers
<1>4. At(table, k - 1) = l /\ At(given, k - 1) = l
  BY <1>1, <1>2, <1>3 DEF At
<1>5. get_sign[l] # NoSign
  BY <1>1, <1>3, <1>4 DEF Indexable
<1>6. ASSUME NEW n \in Matches(l) PROVE n.at = k - 1
  <2>1. n \in alphabet.dict /\ n.sign = get_sign[l]
    BY DEF Matches, index_dict_node_eq, Equal
  <2>2. PICK i \in Numbers(table) : n = Node(At(table, i), i)
    BY <1>1, <2>1 DEF Nodes
  <2>3. n.sign = get_sign[At(table, i)] /\ n.at = i
    BY <2>2 DEF Node
  <2> QED
    BY <1>1, <1>3, <1>4, <2>1, <2>3 DEF Indexable
<1>7. Matches(l) # {}
  <2> DEFINE node == Node(At(table, k - 1), k - 1)
  <2>1. node \in alphabet.dict
    BY <1>1, <1>3 DEF Nodes
  <2>2. node.sign = get_sign[l]
    BY <1>4 DEF Node
  <2> HIDE DEF node
  <2>3. node \in Matches(l)
    BY <1>1, <2>1, <2>2 DEF Matches, index_dict_node_eq, Equal
  <2> QED
    BY <2>3
<1> QED
  BY <1>3, <1>4, <1>5, <1>6, <1>7

\* A plain label is found under the number it was given, through any number of copies,
\* saves and loads, whatever the signatures are: for any labels, any way of cutting,
\* signing and reading them back, and any text files another program has written.
THEOREM LabelsAreFound == AlphabetInit /\ [][AlphabetNext]_alphabetVars => []FoundAsGiven
<1>1. AlphabetInv => FoundAsGiven
  <2> SUFFICES ASSUME AlphabetInv, Held, NEW l \in Labels, NEW i, i = st_alphabet_get_index(alphabet, l)
               PROVE  /\ Plain(l) /\ l \in ToSet(given) => i >= 0
                      /\ i >= 0 /\ alphabet.eq = "label" => At(given, i) = l
                      /\ i >= 0 /\ Plain(l) /\ l \in ToSet(given) =>
                           At(given, i) = l /\ st_alphabet_get_label(alphabet, i) = l
    BY DEF FoundAsGiven
  <2>1. /\ i >= 0 => \E n \in Matches(l) : i = n.at
        /\ get_sign[l] # NoSign /\ Matches(l) # {} => \E n \in Matches(l) : i = n.at
    BY AnswerMatches
  <2>2. Numbers(alphabet.table) = Numbers(given) /\ \A k \in Numbers(given) : k >= 0
    <3>1. Len(alphabet.table) = Len(given) /\ Len(given) \in Nat
      BY DEF AlphabetInv, Held, FilledWith, LoadedWith, Holds
    <3> QED
      BY <3>1 DEF Numbers
  <2>3. CASE FilledWith(alphabet, given)
    <3>1. /\ \A n \in Matches(l) : n.at \in Numbers(given) /\ At(given, n.at) = l /\ At(alphabet.table, n.at) = l
          /\ Plain(l) /\ l \in ToSet(given) => get_sign[l] # NoSign /\ Matches(l) # {}
      BY <2>3, FilledFinds
    <3> QED
      BY <2>1, <2>2, <3>1 DEF st_alphabet_get_label
  <2>4. CASE LoadedWith(alphabet, given)
    <3>1. alphabet.eq # "label"
      BY <2>4 DEF LoadedWith
    <3>2. ASSUME Plain(l), l \in ToSet(given)
          PROVE  /\ \A n \in Matches(l) : n.at \in Numbers(given) /\ At(given, n.at) = l /\ At(alphabet.table, n.at) = l
                 /\ get_sign[l] # NoSign /\ Matches(l) # {}
      BY <2>4, <3>2, LoadedFinds
    <3> QED
      BY <2>1, <2>2, <3>1, <3>2 DEF st_alphabet_get_label
  <2> QED
    BY <2>3, <2>4 DEF AlphabetInv, Held
<1> QED
  BY <1>1, AlphabetInvInit, AlphabetInvStep, PTL

-----------------------------------------------------------------------------
(* The memory statistics.  Sums as cardinalities.                           *)

LEMMA UnitsOfOne ==
  ASSUME NEW x, NEW n \in Int
  PROVE  /\ IsFiniteSet({x} \X (1 .. n))
         /\ Cardinality({x} \X (1 .. n)) = IF n > 0 THEN n ELSE 0
<1>1. IsFiniteSet({x}) /\ Cardinality({x}) = 1
  BY FS_Singleton
<1>2. IsFiniteSet(1 .. n) /\ Cardinality(1 .. n) = IF n > 0 THEN n ELSE 0
  BY FS_Interval
<1>3. /\ IsFiniteSet({x} \X (1 .. n))
      /\ Cardinality({x} \X (1 .. n)) = Cardinality({x}) * Cardinality(1 .. n)
  BY <1>1, <1>2, FS_Product
<1> QED
  BY <1>1, <1>2, <1>3

LEMMA UnitsFinite ==
  ASSUME NEW S, IsFiniteSet(S), NEW f, \A x \in S : f[x] \in Int
  PROVE  IsFiniteSet(Units(S, f)) /\ Cardinality(Units(S, f)) \in Nat
<1> DEFINE parts == {{x} \X (1 .. f[x]) : x \in S}
<1>1. IsFiniteSet(parts)
  <2> DEFINE part == [x \in S |-> {x} \X (1 .. f[x])]
  <2>1. part \in Surjection(S, parts)
    BY DEF Surjection
  <2> QED
    BY <2>1, FS_Surjection
<1>2. \A p \in parts : IsFiniteSet(p)
  BY UnitsOfOne
<1>3. IsFiniteSet(UNION parts)
  BY <1>1, <1>2, FS_UNION
<1> QED
  BY <1>3, FS_CardinalityType DEF Units

\* The units of one argument are apart from those of the others.
LEMMA UnitsWithout ==
  ASSUME NEW S, IsFiniteSet(S), NEW f, \A x \in S : f[x] \in Int, NEW x \in S
  PROVE  Cardinality(Units(S, f)) = Cardinality(Units(S \ {x}, f)) + IF f[x] > 0 THEN f[x] ELSE 0
<1> DEFINE one == {x} \X (1 .. f[x])
           others == Units(S \ {x}, f)
<1>0. others = Units(S \ {x}, f)
  OBVIOUS
<1>1. Units(S, f) = one \cup others /\ one \cap others = {}
  BY DEF Units
<1>2. IsFiniteSet(one) /\ Cardinality(one) = IF f[x] > 0 THEN f[x] ELSE 0
  BY UnitsOfOne
<1>3. IsFiniteSet(S \ {x})
  BY FS_RemoveElement
<1>4. IsFiniteSet(others) /\ Cardinality(others) \in Nat
  BY <1>3, UnitsFinite
<1>5. Cardinality(one \cup others) = Cardinality(one) + Cardinality(others) - Cardinality(one \cap others)
  BY <1>2, <1>4, FS_Union
<1>6. Cardinality(one \cap others) = 0
  BY <1>1, FS_EmptySet
<1>7. f[x] \in Int
  OBVIOUS
<1>8. Cardinality(Units(S, f)) = Cardinality(one) + Cardinality(others)
  <2> HIDE DEF one, others
  <2> QED
    BY <1>1, <1>2, <1>4, <1>5, <1>6, <1>7
<1> QED
  BY <1>0, <1>2, <1>4, <1>7, <1>8

LEMMA UnitsSame ==
  ASSUME NEW S, NEW f, NEW g, \A x \in S : f[x] = g[x]
  PROVE  Units(S, f) = Units(S, g)
BY DEF Units

LEMMA TotalType ==
  ASSUME NEW S, IsFiniteSet(S), NEW f, \A x \in S : f[x] \in Int
  PROVE  Total(S, f) \in Int
<1> DEFINE m == [x \in S |-> -f[x]]
<1>1. \A x \in S : m[x] \in Int
  OBVIOUS
<1>2. Cardinality(Units(S, f)) \in Nat /\ Cardinality(Units(S, m)) \in Nat
  BY <1>1, UnitsFinite
<1> QED
  BY <1>2 DEF Total

\* A sum in which one term is another.
LEMMA TotalUpdate ==
  ASSUME NEW S, IsFiniteSet(S), NEW f, NEW g, NEW x \in S,
         \A y \in S : f[y] \in Int /\ g[y] \in Int, \A y \in S \ {x} : f[y] = g[y]
  PROVE  Total(S, g) = Total(S, f) + g[x] - f[x]
<1> DEFINE mf == [y \in S |-> -f[y]]
           mg == [y \in S |-> -g[y]]
<1>1. /\ \A y \in S : mf[y] \in Int /\ mg[y] \in Int
      /\ mf[x] = -f[x] /\ mg[x] = -g[x] /\ f[x] \in Int /\ g[x] \in Int
      /\ \A y \in S \ {x} : mf[y] = mg[y]
  OBVIOUS
<1> HIDE DEF mf, mg
<1>2. Units(S \ {x}, f) = Units(S \ {x}, g) /\ Units(S \ {x}, mf) = Units(S \ {x}, mg)
  BY <1>1, UnitsSame
<1>3. Cardinality(Units(S \ {x}, f)) \in Nat /\ Cardinality(Units(S \ {x}, mf)) \in Nat
  BY <1>1, FS_RemoveElement, UnitsFinite
<1>4. Cardinality(Units(S, f)) = Cardinality(Units(S \ {x}, f)) + IF f[x] > 0 THEN f[x] ELSE 0
  BY UnitsWithout
<1>5. Cardinality(Units(S, g)) = Cardinality(Units(S \ {x}, g)) + IF g[x] > 0 THEN g[x] ELSE 0
  BY UnitsWithout
<1>6. Cardinality(Units(S, mf)) = Cardinality(Units(S \ {x}, mf)) + IF mf[x] > 0 THEN mf[x] ELSE 0
  BY <1>1, UnitsWithout
<1>7. Cardinality(Units(S, mg)) = Cardinality(Units(S \ {x}, mg)) + IF mg[x] > 0 THEN mg[x] ELSE 0
  BY <1>1, UnitsWithout
<1>8. /\ Total(S, f) = Cardinality(Units(S, f)) - Cardinality(Units(S, mf))
      /\ Total(S, g) = Cardinality(Units(S, g)) - Cardinality(Units(S, mg))
  BY DEF Total, mf, mg
<1> QED
  BY <1>1, <1>2, <1>3, <1>4, <1>5, <1>6, <1>7, <1>8

LEMMA TotalSame ==
  ASSUME NEW S, NEW f, NEW g, \A x \in S : f[x] = g[x]
  PROVE  Total(S, f) = Total(S, g)
BY UnitsSame DEF Total

\* Sums of naturals grow with their terms.
LEMMA TotalGrows ==
  ASSUME NEW S, IsFiniteSet(S), NEW f, NEW g,
         \A x \in S : f[x] \in Nat /\ g[x] \in Nat /\ f[x] <= g[x]
  PROVE  Total(S, f) \in Nat /\ Total(S, f) <= Total(S, g)
<1>1. \A h : (\A x \in S : h[x] \in Nat) => Units(S, [x \in S |-> -h[x]]) = {}
  BY DEF Units
<1>2. Total(S, f) = Cardinality(Units(S, f)) /\ Total(S, g) = Cardinality(Units(S, g))
  BY <1>1, FS_EmptySet, UnitsFinite DEF Total
<1>3. Units(S, f) \subseteq Units(S, g)
  BY DEF Units
<1>4. IsFiniteSet(Units(S, g)) /\ Cardinality(Units(S, f)) \in Nat
  BY UnitsFinite
<1> QED
  BY <1>2, <1>3, <1>4, FS_Subset

\* As many terms are one as there are arguments that make them so.
LEMMA TotalOfOnes ==
  ASSUME NEW S, IsFiniteSet(S), NEW P \in SUBSET S, NEW f,
         \A x \in P : f[x] = 1, \A x \in S \ P : f[x] = 0
  PROVE  Total(S, f) = Cardinality(P)
<1> DEFINE m == [x \in S |-> -f[x]]
<1>1. \A x \in S : 1 .. m[x] = {}
  OBVIOUS
<1>2. Units(S, m) = {}
  <2> HIDE DEF m
  <2> QED
    BY <1>1 DEF Units
<1>3. /\ \A x \in P : 1 .. f[x] = {1}
      /\ \A x \in S \ P : 1 .. f[x] = {}
  OBVIOUS
<1>4. Units(S, f) = P \X {1}
  BY <1>3 DEF Units
<1>5. IsFiniteSet(P) /\ Cardinality(P) \in Nat
  BY FS_Subset, FS_CardinalityType
<1>6. IsFiniteSet({1}) /\ Cardinality({1}) = 1
  BY FS_Singleton
<1>7. Cardinality(P \X {1}) = Cardinality(P) * Cardinality({1})
  BY <1>5, <1>6, FS_Product
<1>8. Cardinality(Units(S, f)) = Cardinality(P)
  BY <1>4, <1>5, <1>6, <1>7
<1>9. Cardinality(Units(S, m)) = 0
  BY <1>2, FS_EmptySet
<1>10. Total(S, f) = Cardinality(Units(S, f)) - Cardinality(Units(S, m))
  BY DEF Total
<1> QED
  BY <1>5, <1>8, <1>9, <1>10

-----------------------------------------------------------------------------
(* The invariant.                                                           *)

UsageTypes ==
  /\ g_collect_usage \in BOOLEAN /\ exact \in BOOLEAN
  /\ size \in 0 .. SizeWord - 1 /\ peak \in Nat /\ balance \in Int /\ drift \in Int
  /\ usageLock \in Callers \cup {NoCaller}
  /\ usagePc \in [Callers -> {"idle", "lock", "read", "write", "unlock"}]
  /\ op \in [Callers -> [h : Handles \cup {NoHandle}, delta : Int, count : Int, again : Int, seen : Int]]
  /\ block \in [Handles -> Sizes \cup {0}]

\* A call works on a block of its own, and a thread without a call on none.
OwnHandles(o) == \A t, u \in Callers : o[t].h = o[u].h /\ o[t].h # NoHandle => t = u
IdleWorksOnNothing == \A t \in Callers : IF usagePc[t] = "idle" THEN op[t] = NoOp ELSE op[t].h # NoHandle

\* The mutex is had by the thread in the critical section, and what that thread has
\* read of the size is still so when it writes.
LockExact == \A t \in Callers : usagePc[t] \in {"read", "write", "unlock"} <=> usageLock = t
ReadIsFresh == \A t \in Callers : usagePc[t] = "write" => op[t].seen = size
WrittenOnce ==
  \A t \in Callers : usagePc[t] = "unlock" => op[t].delta = 0 /\ op[t].count = 0

\* Nothing is under way, nor is there a block, while nothing is collected.
OffIsEmpty ==
  ~g_collect_usage =>
    /\ NoneUnderWay /\ \A h \in Handles : block[h] = 0
    /\ size = 0 /\ balance = 0 /\ drift = 0

\* What has been counted of the number of blocks.
CountOwed(h) == IF Busy(h) THEN op[Worker(h)].count ELSE 0
One(h) == IF block[h] # 0 THEN 1 ELSE 0
BlocksCounted == [h \in Handles |-> One(h) - CountOwed(h)]

\* Until a call miscounts, what has been counted of a block is a size it has or had.
ExactCounts ==
  exact => /\ drift = 0 /\ \A t \in Callers : op[t].again = 0
           /\ \A h \in Handles : Counted[h] \in Sizes \cup {0}

Accounts ==
  /\ size = (Total(Handles, Counted) + drift) % SizeWord
  /\ balance = Total(Handles, BlocksCounted)
  /\ size <= peak

UsageInv ==
  /\ UsageTypes /\ OwnHandles(op) /\ IdleWorksOnNothing /\ LockExact /\ ReadIsFresh
  /\ WrittenOnce /\ OffIsEmpty /\ ExactCounts /\ Accounts

-----------------------------------------------------------------------------
(* What a step does to what is owed.                                        *)

OwedOf(o, h) ==
  IF \E t \in Callers : o[t].h = h
  THEN LET w == CHOOSE t \in Callers : o[t].h = h IN o[w].delta + o[w].again ELSE 0
CountOwedOf(o, h) ==
  IF \E t \in Callers : o[t].h = h THEN o[CHOOSE t \in Callers : o[t].h = h].count ELSE 0

LEMMA OwedIs ==
  ASSUME MemUsageAssumption, NEW o, OwnHandles(o), NEW h \in Handles
  PROVE  /\ \A t \in Callers : o[t].h = h =>
              OwedOf(o, h) = o[t].delta + o[t].again /\ CountOwedOf(o, h) = o[t].count
         /\ (\A t \in Callers : o[t].h # h) => OwedOf(o, h) = 0 /\ CountOwedOf(o, h) = 0
<1>1. ASSUME NEW t \in Callers, o[t].h = h
      PROVE  (CHOOSE u \in Callers : o[u].h = h) = t
  BY <1>1 DEF OwnHandles, MemUsageAssumption
<1> QED
  BY <1>1 DEF OwedOf, CountOwedOf

\* A call that changes what it owes changes nothing of another block.
LEMMA OwedElsewhere ==
  ASSUME MemUsageAssumption, NEW o, NEW p, OwnHandles(o), OwnHandles(p), NEW t \in Callers,
         \A u \in Callers \ {t} : p[u] = o[u],
         NEW h \in Handles, o[t].h # h, p[t].h # h
  PROVE  OwedOf(p, h) = OwedOf(o, h) /\ CountOwedOf(p, h) = CountOwedOf(o, h)
<1>1. CASE \E u \in Callers : o[u].h = h
  <2>1. PICK u \in Callers : o[u].h = h
    BY <1>1
  <2>2. p[u] = o[u]
    BY <2>1
  <2> QED
    BY <2>1, <2>2, OwedIs
<1>2. CASE \A u \in Callers : o[u].h # h
  <2>1. \A u \in Callers : p[u].h # h
    BY <1>2
  <2> QED
    BY <1>2, <2>1, OwedIs
<1> QED
  BY <1>1, <1>2

LEMMA OwedNow ==
  /\ Counted = [h \in Handles |-> block[h] - OwedOf(op, h)]
  /\ BlocksCounted = [h \in Handles |-> One(h) - CountOwedOf(op, h)]
BY DEF Counted, BlocksCounted, Owed, CountOwed, Busy, Worker, OwedOf, CountOwedOf

LEMMA OwedNext ==
  /\ Counted' = [h \in Handles |-> block'[h] - OwedOf(op', h)]
  /\ BlocksCounted' = [h \in Handles |-> One(h)' - CountOwedOf(op', h)]
BY DEF Counted, BlocksCounted, Owed, CountOwed, Busy, Worker, OwedOf, CountOwedOf

LEMMA SizesAreNaturals ==
  ASSUME MemUsageAssumption
  PROVE  Sizes \subseteq Nat /\ 0 \notin Sizes
BY DEF MemUsageAssumption

LEMMA CountedTypes ==
  ASSUME MemUsageAssumption, UsageTypes, OwnHandles(op)
  PROVE  \A h \in Handles : /\ Counted[h] \in Int /\ BlocksCounted[h] \in Int
                            /\ OwedOf(op, h) \in Int /\ CountOwedOf(op, h) \in Int
<1> SUFFICES ASSUME NEW h \in Handles
             PROVE  /\ Counted[h] \in Int /\ BlocksCounted[h] \in Int
                    /\ OwedOf(op, h) \in Int /\ CountOwedOf(op, h) \in Int
  OBVIOUS
<1>1. OwedOf(op, h) \in Int /\ CountOwedOf(op, h) \in Int
  BY OwedIs DEF UsageTypes
<1>2. block[h] \in Int
  BY SizesAreNaturals DEF UsageTypes
<1> QED
  BY <1>1, <1>2, OwedNow DEF One

\* A step of thread t on the block at h changes the sums by what it changes there.
Step(t, h) ==
  /\ \A u \in Callers \ {t} : op'[u] = op[u]
  /\ \A g \in Handles \ {h} : block'[g] = block[g]
  /\ {op[t].h, op'[t].h} \subseteq {h, NoHandle}

LEMMA CountedStep ==
  ASSUME MemUsageAssumption, UsageTypes, UsageTypes', OwnHandles(op), OwnHandles(op)',
         NEW t \in Callers, NEW h \in Handles, Step(t, h)
  PROVE  /\ \A g \in Handles \ {h} : Counted'[g] = Counted[g]
         /\ Total(Handles, Counted)' = Total(Handles, Counted) + Counted'[h] - Counted[h]
         /\ Total(Handles, BlocksCounted)' =
              Total(Handles, BlocksCounted) + BlocksCounted'[h] - BlocksCounted[h]
<1>1. NoHandle \notin Handles /\ IsFiniteSet(Handles)
  BY DEF MemUsageAssumption
<1>2. OwnHandles(op')
  BY DEF OwnHandles
<1>3. ASSUME NEW g \in Handles \ {h}
      PROVE  OwedOf(op', g) = OwedOf(op, g) /\ CountOwedOf(op', g) = CountOwedOf(op, g)
  <2>1. op[t].h # g /\ op'[t].h # g
    BY <1>1 DEF Step
  <2> QED
    BY <1>2, <2>1, OwedElsewhere DEF Step
<1>4. ASSUME NEW g \in Handles \ {h}
      PROVE  Counted'[g] = Counted[g] /\ BlocksCounted'[g] = BlocksCounted[g]
  <2>1. block'[g] = block[g] /\ One(g)' = One(g)
    BY DEF Step, One
  <2> QED
    BY <1>3, <2>1, OwedNow, OwedNext
<1>5. \A g \in Handles : Counted[g] \in Int /\ BlocksCounted[g] \in Int
  BY CountedTypes
<1>6. \A g \in Handles : Counted'[g] \in Int /\ BlocksCounted'[g] \in Int
  <2>1. \A g \in Handles : OwedOf(op', g) \in Int /\ CountOwedOf(op', g) \in Int
    BY <1>2, OwedIs DEF UsageTypes
  <2>2. \A g \in Handles : block'[g] \in Int
    BY SizesAreNaturals DEF UsageTypes
  <2> QED
    BY <2>1, <2>2, OwedNext DEF One
<1>7. Total(Handles, Counted') = Total(Handles, Counted) + Counted'[h] - Counted[h]
  BY <1>1, <1>4, <1>5, <1>6, TotalUpdate
<1>8. Total(Handles, BlocksCounted') =
        Total(Handles, BlocksCounted) + BlocksCounted'[h] - BlocksCounted[h]
  BY <1>1, <1>4, <1>5, <1>6, TotalUpdate
<1>9. /\ Total(Handles, Counted)' = Total(Handles, Counted')
      /\ Total(Handles, BlocksCounted)' = Total(Handles, BlocksCounted')
  BY DEF Total, Units
<1> QED
  BY <1>4, <1>7, <1>8, <1>9

\* A sum of nothing is zero.
LEMMA TotalOfNothing ==
  ASSUME MemUsageAssumption, NEW f, \A h \in Handles : f[h] = 0
  PROVE  Total(Handles, f) = 0 /\ 0 % SizeWord = 0
<1>1. IsFiniteSet(Handles) /\ SizeWord \in Nat \ {0}
  BY DEF MemUsageAssumption
<1>2. Total(Handles, f) = Cardinality({})
  <2> DEFINE none == {}
  <2>1. /\ none \in SUBSET Handles /\ none = {}
        /\ \A h \in none : f[h] = 1
        /\ \A h \in Handles \ none : f[h] = 0
    OBVIOUS
  <2> HIDE DEF none
  <2> QED
    BY <1>1, <2>1, TotalOfOnes
<1>3. 0 % SizeWord = 0
  BY <1>1, SmallRemainder
<1> QED
  BY <1>2, <1>3, FS_EmptySet

LEMMA UsageInvInit ==
  ASSUME MemUsageAssumption, UsageInit
  PROVE  UsageInv
<1>1. /\ NoCaller \notin Callers /\ NoHandle \notin Handles /\ SizeWord \in Nat \ {0}
      /\ IsFiniteSet(Handles)
  BY DEF MemUsageAssumption
<1>2. UsageTypes
  <2>1. 0 \in 0 .. SizeWord - 1
    BY <1>1
  <2>2. size \in 0 .. SizeWord - 1 /\ peak \in Nat /\ balance \in Int /\ drift \in Int
    BY <2>1 DEF UsageInit
  <2>6. /\ g_collect_usage \in BOOLEAN /\ exact \in BOOLEAN
        /\ usageLock \in Callers \cup {NoCaller}
    BY DEF UsageInit
  <2>3. usagePc \in [Callers -> {"idle", "lock", "read", "write", "unlock"}]
    BY DEF UsageInit
  <2>4. op \in [Callers -> [h : Handles \cup {NoHandle}, delta : Int, count : Int, again : Int, seen : Int]]
    BY DEF UsageInit, NoOp
  <2>5. block \in [Handles -> Sizes \cup {0}]
    BY DEF UsageInit
  <2> QED
    BY <2>2, <2>3, <2>4, <2>5, <2>6 DEF UsageTypes
<1>3. \A t \in Callers : op[t].h = NoHandle
  BY DEF UsageInit, NoOp
<1>4. OwnHandles(op)
  BY <1>3 DEF OwnHandles
<1>5. \A h \in Handles : Counted[h] = 0 /\ BlocksCounted[h] = 0
  <2>1. \A h \in Handles : OwedOf(op, h) = 0 /\ CountOwedOf(op, h) = 0
    BY <1>1, <1>3, <1>4, OwedIs
  <2> QED
    BY <2>1, OwedNow DEF UsageInit, One
<1>6. Accounts
  <2>1. Total(Handles, Counted) = 0 /\ Total(Handles, BlocksCounted) = 0 /\ 0 % SizeWord = 0
    BY <1>5, TotalOfNothing
  <2> QED
    BY <2>1 DEF UsageInit, Accounts
<1>7. IdleWorksOnNothing /\ LockExact /\ ReadIsFresh /\ WrittenOnce /\ OffIsEmpty
  BY <1>1 DEF UsageInit, IdleWorksOnNothing, LockExact, ReadIsFresh, WrittenOnce, OffIsEmpty,
              NoneUnderWay
<1>8. ExactCounts
  BY <1>5 DEF UsageInit, ExactCounts, NoOp
<1> QED
  BY <1>2, <1>4, <1>6, <1>7, <1>8 DEF UsageInv

-----------------------------------------------------------------------------
(* The part of a call before the mutex.                                     *)

\* A call that begins takes a handle nobody else works on, and leaves the rest.
LEMMA BeginShape ==
  ASSUME MemUsageAssumption, UsageInv, NEW t \in Callers, NEW h \in Handles,
         NEW s \in Sizes \cup {0}, NEW delta \in Int, NEW count \in Int, NEW again \in Int,
         Begin(t, h, s, delta, count, again), drift' \in Int, exact' \in BOOLEAN
  PROVE  /\ UsageTypes' /\ OwnHandles(op)' /\ IdleWorksOnNothing' /\ LockExact'
         /\ ReadIsFresh' /\ WrittenOnce' /\ OffIsEmpty' /\ Step(t, h)
         /\ op'[t].again = again
         /\ \A u \in Callers \ {t} : op'[u] = op[u]
         /\ Counted[h] = block[h] /\ Counted'[h] = s - delta - again
         /\ BlocksCounted[h] = One(h)
         /\ BlocksCounted'[h] = (IF s # 0 THEN 1 ELSE 0) - count
<1>1. /\ NoHandle \notin Handles /\ NoCaller \notin Callers /\ h # NoHandle
      /\ UsageTypes /\ OwnHandles(op) /\ IdleWorksOnNothing
  BY DEF MemUsageAssumption, UsageInv
<1>2. /\ op[t] = NoOp /\ op[t].h = NoHandle
      /\ \A u \in Callers : op[u].h # h
      /\ op'[t] = [h |-> h, delta |-> delta, count |-> count, again |-> again, seen |-> 0]
      /\ \A u \in Callers \ {t} : op'[u] = op[u] /\ usagePc'[u] = usagePc[u]
      /\ usagePc'[t] = "lock" /\ usagePc[t] = "idle"
      /\ block'[h] = s /\ \A g \in Handles \ {h} : block'[g] = block[g]
  <2>1. op[t] = NoOp /\ op[t].h = NoHandle /\ usagePc[t] = "idle"
    BY <1>1 DEF Begin, IdleWorksOnNothing, NoOp
  <2>2. \A u \in Callers : op[u].h # h
    BY DEF Begin, Busy
  <2>3. /\ op'[t] = [h |-> h, delta |-> delta, count |-> count, again |-> again, seen |-> 0]
        /\ \A u \in Callers \ {t} : op'[u] = op[u]
    BY <1>1 DEF Begin, UsageTypes, NoOp
  <2>4. usagePc'[t] = "lock" /\ \A u \in Callers \ {t} : usagePc'[u] = usagePc[u]
    BY <1>1 DEF Begin, UsageTypes
  <2>5. block'[h] = s /\ \A g \in Handles \ {h} : block'[g] = block[g]
    BY <1>1 DEF Begin, UsageTypes
  <2> QED
    BY <2>1, <2>2, <2>3, <2>4, <2>5
<1>3. UsageTypes'
  <2>1. op' \in [Callers -> [h : Handles \cup {NoHandle}, delta : Int, count : Int, again : Int, seen : Int]]
    <3>1. [h |-> h, delta |-> delta, count |-> count, again |-> again, seen |-> 0]
            \in [h : Handles \cup {NoHandle}, delta : Int, count : Int, again : Int, seen : Int]
      OBVIOUS
    <3>2. op'[t] \in [h : Handles \cup {NoHandle}, delta : Int, count : Int, again : Int, seen : Int]
      BY <1>2, <3>1
    <3>3. \E r : op' = [op EXCEPT ![t] = r]
      BY DEF Begin
    <3> QED
      BY <1>1, <3>2, <3>3 DEF UsageTypes
  <2> QED
    BY <1>1, <2>1 DEF Begin, UsageTypes, usage
<1>4. OwnHandles(op)' /\ OwnHandles(op')
  BY <1>1, <1>2 DEF OwnHandles
<1>5. IdleWorksOnNothing' /\ WrittenOnce' /\ ReadIsFresh'
  BY <1>1, <1>2 DEF UsageInv, IdleWorksOnNothing, WrittenOnce, ReadIsFresh, Begin, usage
<1>6. LockExact'
  <2>1. usageLock' = usageLock /\ usageLock # t
    BY <1>2 DEF Begin, UsageInv, LockExact
  <2> QED
    BY <1>2, <2>1 DEF UsageInv, LockExact
<1>7. OffIsEmpty'
  BY DEF Begin, OffIsEmpty
<1>8. Step(t, h)
  BY <1>1, <1>2 DEF Step
<1>9. OwedOf(op, h) = 0 /\ CountOwedOf(op, h) = 0
  BY <1>1, <1>2, OwedIs
<1>10. OwedOf(op', h) = delta + again /\ CountOwedOf(op', h) = count
  BY <1>2, <1>4, OwedIs
<1>11. block[h] \in Int /\ s \in Int /\ One(h)' = IF s # 0 THEN 1 ELSE 0
  BY <1>1, <1>2, SizesAreNaturals DEF UsageTypes, One
<1>12. Counted[h] = block[h] /\ BlocksCounted[h] = One(h)
  BY <1>9, <1>11, OwedNow DEF One
<1>13. Counted'[h] = s - delta - again
  BY <1>2, <1>10, <1>11, OwedNext
<1>14. BlocksCounted'[h] = (IF s # 0 THEN 1 ELSE 0) - count
  BY <1>10, <1>11, OwedNext
<1> QED
  BY <1>2, <1>3, <1>4, <1>5, <1>6, <1>7, <1>8, <1>12, <1>13, <1>14

\* A call that begins keeps the invariant when it owes what it has allocated, but for
\* the drift it makes, and owes the number of blocks it has allocated.
LEMMA BeginKeeps ==
  ASSUME MemUsageAssumption, UsageInv, NEW t \in Callers, NEW h \in Handles,
         NEW s \in Sizes \cup {0}, NEW delta \in Int, NEW count \in Int, NEW again \in Int,
         Begin(t, h, s, delta, count, again), drift' \in Int, exact' \in BOOLEAN,
         drift' - drift = block[h] - (s - delta - again),
         count = (IF s # 0 THEN 1 ELSE 0) - One(h),
         exact' => exact /\ again = 0 /\ drift' = drift
  PROVE  UsageInv'
<1>1. /\ UsageTypes /\ OwnHandles(op) /\ UsageTypes' /\ OwnHandles(op)' /\ Step(t, h)
      /\ Counted[h] = block[h] /\ Counted'[h] = s - delta - again
      /\ BlocksCounted[h] = One(h) /\ BlocksCounted'[h] = (IF s # 0 THEN 1 ELSE 0) - count
      /\ op'[t].again = again /\ \A u \in Callers \ {t} : op'[u] = op[u]
  <2>1. UsageTypes /\ OwnHandles(op)
    BY DEF UsageInv
  <2> QED
    BY <2>1, BeginShape
<1>2. /\ \A g \in Handles \ {h} : Counted'[g] = Counted[g]
      /\ Total(Handles, Counted)' = Total(Handles, Counted) + Counted'[h] - Counted[h]
      /\ Total(Handles, BlocksCounted)' =
           Total(Handles, BlocksCounted) + BlocksCounted'[h] - BlocksCounted[h]
  BY <1>1, CountedStep
<1>3. /\ Total(Handles, Counted) \in Int /\ Total(Handles, BlocksCounted) \in Int
      /\ block[h] \in Int /\ s \in Int /\ One(h) \in Int
      /\ drift \in Int
  <2>1. \A g \in Handles : Counted[g] \in Int /\ BlocksCounted[g] \in Int
    BY <1>1, CountedTypes
  <2>2. IsFiniteSet(Handles)
    BY DEF MemUsageAssumption
  <2> QED
    BY <1>1, <2>1, <2>2, TotalType, SizesAreNaturals DEF UsageTypes, One
<1>4. Accounts'
  <2>1. Total(Handles, Counted)' + drift' = Total(Handles, Counted) + drift
    <3>1. Total(Handles, Counted)' = Total(Handles, Counted) + (s - delta - again) - block[h]
      BY <1>1, <1>2
    <3> QED
      BY <1>3, <3>1
  <2>2. Total(Handles, BlocksCounted)' = Total(Handles, BlocksCounted)
    BY <1>1, <1>2, <1>3
  <2>3. size' = size /\ balance' = balance /\ peak' = peak
    BY DEF Begin, usage
  <2> QED
    BY <2>1, <2>2, <2>3 DEF UsageInv, Accounts
<1>5. ExactCounts'
  <2> SUFFICES ASSUME exact'
               PROVE  /\ drift' = 0 /\ \A u \in Callers : op'[u].again = 0
                      /\ \A g \in Handles : Counted'[g] \in Sizes \cup {0}
    BY DEF ExactCounts
  <2>1. exact /\ again = 0 /\ drift' = drift
    OBVIOUS
  <2>3. block[h] = s - delta - again
    BY <1>3, <2>1
  <2>4. Counted'[h] = Counted[h]
    BY <1>1, <2>3
  <2>2. /\ drift = 0 /\ \A u \in Callers : op[u].again = 0
        /\ \A g \in Handles : Counted[g] \in Sizes \cup {0}
    BY <2>1 DEF UsageInv, ExactCounts
  <2> QED
    BY <1>1, <1>2, <2>1, <2>2, <2>4
<1> QED
  BY <1>1, <1>4, <1>5, BeginShape DEF UsageInv

LEMMA OperationsKeep ==
  ASSUME MemUsageAssumption, UsageInv, NEW t \in Callers, NEW h \in Handles
  PROVE  /\ FreeBlock(t, h) => UsageInv'
         /\ \A s \in Sizes : Malloc(t, h, s) \/ Realloc(t, h, s) \/ AlignedReallocFails(t, h, s)
                               \/ AlignedReallocNull(t, h, s) => UsageInv'
<1>1. /\ block[h] \in Sizes \cup {0} /\ block[h] \in Int /\ drift \in Int /\ exact \in BOOLEAN
      /\ Sizes \subseteq Nat /\ 0 \notin Sizes /\ MaxDrift \in Nat
  <2>1. block[h] \in Sizes \cup {0} /\ drift \in Int
    BY DEF UsageInv, UsageTypes
  <2>2. exact \in BOOLEAN
    BY DEF UsageInv, UsageTypes
  <2>3. MaxDrift \in Nat
    BY DEF MemUsageAssumption
  <2> QED
    BY <2>1, <2>2, <2>3, SizesAreNaturals
<1>2. One(h) = IF block[h] # 0 THEN 1 ELSE 0
  BY DEF One
<1>3. ASSUME FreeBlock(t, h) PROVE UsageInv'
  <2>1. /\ Begin(t, h, 0, -block[h], -1, 0) /\ drift' = drift /\ exact' = exact /\ block[h] # 0
    BY <1>3 DEF FreeBlock, history
  <2>2. drift' - drift = block[h] - (0 - (-block[h]) - 0) /\ -block[h] \in Int
    BY <1>1, <2>1
  <2>3. -1 = (IF 0 # 0 THEN 1 ELSE 0) - One(h) /\ -1 \in Int
    BY <1>2, <2>1
  <2> QED
    BY <1>1, <2>1, <2>2, <2>3, BeginKeeps
<1>4. ASSUME NEW s \in Sizes, Malloc(t, h, s) PROVE UsageInv'
  <2>1. /\ Begin(t, h, s, s, 1, 0) /\ drift' = drift /\ exact' = exact /\ block[h] = 0 /\ s # 0
        /\ s \in Int
    BY <1>1, <1>4 DEF Malloc, history
  <2>2. drift' - drift = block[h] - (s - s - 0)
    BY <1>1, <2>1
  <2>3. 1 = (IF s # 0 THEN 1 ELSE 0) - One(h)
    BY <1>2, <2>1
  <2> QED
    BY <1>1, <2>1, <2>2, <2>3, BeginKeeps
<1>5. ASSUME NEW s \in Sizes, Realloc(t, h, s) PROVE UsageInv'
  <2>1. /\ Begin(t, h, s, s - block[h], 0, 0) /\ drift' = drift /\ exact' = exact
        /\ block[h] # 0 /\ s # 0 /\ s \in Int
    BY <1>1, <1>5 DEF Realloc, history
  <2>2. drift' - drift = block[h] - (s - (s - block[h]) - 0) /\ s - block[h] \in Int
    BY <1>1, <2>1
  <2>3. 0 = (IF s # 0 THEN 1 ELSE 0) - One(h)
    BY <1>2, <2>1
  <2> QED
    BY <1>1, <2>1, <2>2, <2>3, BeginKeeps
<1>6. ASSUME NEW s \in Sizes, AlignedReallocFails(t, h, s) PROVE UsageInv'
  <2>1. /\ Begin(t, h, block[h], s - block[h], 0, 0) /\ drift' = drift + s - block[h]
        /\ exact' = FALSE /\ block[h] # 0 /\ s \in Int
    BY <1>1, <1>6 DEF AlignedReallocFails
  <2>2. /\ drift' - drift = block[h] - (block[h] - (s - block[h]) - 0) /\ s - block[h] \in Int
        /\ drift' \in Int
    BY <1>1, <2>1
  <2>3. 0 = (IF block[h] # 0 THEN 1 ELSE 0) - One(h)
    BY <1>2, <2>1
  <2>4. exact' \in BOOLEAN /\ ~exact'
    BY <2>1
  <2> QED
    BY <1>1, <2>1, <2>2, <2>3, <2>4, BeginKeeps
<1>7. ASSUME NEW s \in Sizes, AlignedReallocNull(t, h, s) PROVE UsageInv'
  <2>1. /\ Begin(t, h, s, s, 1, s) /\ drift' = drift + s
        /\ exact' = FALSE /\ block[h] = 0 /\ s # 0 /\ s \in Int
    BY <1>1, <1>7 DEF AlignedReallocNull
  <2>2. drift' - drift = block[h] - (s - s - s) /\ drift' \in Int
    BY <1>1, <2>1
  <2>3. 1 = (IF s # 0 THEN 1 ELSE 0) - One(h)
    BY <1>2, <2>1
  <2>4. exact' \in BOOLEAN /\ ~exact'
    BY <2>1
  <2> QED
    BY <1>1, <2>1, <2>2, <2>3, <2>4, BeginKeeps
<1> QED
  BY <1>3, <1>4, <1>5, <1>6, <1>7

-----------------------------------------------------------------------------
(* The part under the mutex.                                                *)

\* Steps that leave what is owed and the statistics leave the accounts.
LEMMA SameAccounts ==
  ASSUME UsageInv, op' = op, block' = block, usage' = usage, history' = history
  PROVE  Accounts' /\ ExactCounts'
<1>1. Counted' = Counted /\ BlocksCounted' = BlocksCounted
  BY OwedNow, OwedNext DEF One
<1>2. /\ size' = size /\ balance' = balance /\ peak' = peak /\ drift' = drift /\ exact' = exact
  BY DEF usage, history
<1> QED
  BY <1>1, <1>2 DEF UsageInv, Accounts, ExactCounts

LEMMA TakeLockKeeps ==
  ASSUME MemUsageAssumption, UsageInv, NEW t \in Callers, TakeLock(t)
  PROVE  UsageInv'
<1>1. /\ usageLock = NoCaller /\ usagePc[t] = "lock" /\ usageLock' = t /\ NoCaller \notin Callers
      /\ usagePc' = [usagePc EXCEPT ![t] = "read"] /\ op' = op /\ block' = block
      /\ usage' = usage /\ history' = history /\ g_collect_usage' = g_collect_usage
      /\ UsageTypes
  BY DEF TakeLock, MayLock, MemUsageAssumption, UsageInv
<1>2. UsageTypes'
  BY <1>1 DEF UsageTypes, usage, history
<1>3. Accounts' /\ ExactCounts'
  BY <1>1, SameAccounts
<1>4. /\ usagePc'[t] = "read" /\ usagePc[t] = "lock"
      /\ \A u \in Callers \ {t} : usagePc'[u] = usagePc[u]
  BY <1>1 DEF UsageTypes
<1>5. LockExact'
  BY <1>1, <1>4 DEF UsageInv, LockExact
<1>6. OwnHandles(op)' /\ IdleWorksOnNothing' /\ ReadIsFresh' /\ WrittenOnce'
  BY <1>1, <1>4 DEF UsageInv, OwnHandles, IdleWorksOnNothing, ReadIsFresh, WrittenOnce, usage
<1>7. OffIsEmpty'
  BY <1>1, <1>4 DEF UsageInv, OffIsEmpty, NoneUnderWay, usage, history
<1> QED
  BY <1>2, <1>3, <1>5, <1>6, <1>7 DEF UsageInv

\* Where a call that is under way works.
LEMMA WorksSomewhere ==
  ASSUME MemUsageAssumption, UsageInv, NEW t \in Callers, usagePc[t] # "idle"
  PROVE  /\ op[t].h \in Handles /\ op[t].h # NoHandle /\ g_collect_usage
         /\ \A u \in Callers \ {t} : op[u].h # op[t].h
  BY DEF MemUsageAssumption, UsageInv, UsageTypes, OwnHandles, IdleWorksOnNothing, OffIsEmpty,
         NoneUnderWay

\* The mutex keeps the others out.
LEMMA OthersOut ==
  ASSUME MemUsageAssumption, UsageInv, NEW t \in Callers, usagePc[t] \in {"read", "write", "unlock"}
  PROVE  /\ usageLock = t
         /\ \A u \in Callers \ {t} : usagePc[u] \notin {"read", "write", "unlock"}
  BY DEF UsageInv, LockExact

LEMMA ReadSizeKeeps ==
  ASSUME MemUsageAssumption, UsageInv, NEW t \in Callers, ReadSize(t)
  PROVE  UsageInv'
<1>1. /\ usagePc[t] = "read" /\ usageLock' = usageLock
      /\ usagePc' = [usagePc EXCEPT ![t] = "write"] /\ op' = [op EXCEPT ![t].seen = size]
      /\ block' = block /\ usage' = usage /\ history' = history
      /\ size' = size /\ peak' = peak /\ balance' = balance /\ drift' = drift /\ exact' = exact
      /\ g_collect_usage' = g_collect_usage /\ UsageTypes /\ g_collect_usage
  BY WorksSomewhere DEF ReadSize, UsageInv, usage, history
<1>2. UsageTypes'
  <2>1. size \in Int
    BY DEF UsageInv, UsageTypes, MemUsageAssumption
  <2>2. op' \in [Callers -> [h : Handles \cup {NoHandle}, delta : Int, count : Int, again : Int, seen : Int]]
    BY <1>1, <2>1 DEF UsageTypes
  <2>3. usagePc' \in [Callers -> {"idle", "lock", "read", "write", "unlock"}]
    BY <1>1 DEF UsageTypes
  <2> QED
    BY <1>1, <2>2, <2>3 DEF UsageTypes
<1>3. /\ usagePc'[t] = "write" /\ \A u \in Callers \ {t} : usagePc'[u] = usagePc[u] /\ op'[u] = op[u]
      /\ op'[t].seen = size
      /\ \A u \in Callers : op'[u].h = op[u].h /\ op'[u].delta = op[u].delta
                              /\ op'[u].count = op[u].count /\ op'[u].again = op[u].again
  BY <1>1 DEF UsageTypes
<1>4. OwnHandles(op)' /\ OwnHandles(op) /\ OwnHandles(op')
  BY <1>3 DEF UsageInv, OwnHandles
<1>5. IdleWorksOnNothing'
  BY <1>1, <1>3 DEF UsageInv, IdleWorksOnNothing
<1>6. LockExact'
  BY <1>1, <1>3 DEF UsageInv, LockExact
<1>7. ReadIsFresh' /\ WrittenOnce'
  BY <1>1, <1>3 DEF UsageInv, ReadIsFresh, WrittenOnce
<1>8. OffIsEmpty'
  BY <1>1 DEF OffIsEmpty
<1>9. \A h \in Handles : OwedOf(op', h) = OwedOf(op, h) /\ CountOwedOf(op', h) = CountOwedOf(op, h)
  <2> SUFFICES ASSUME NEW h \in Handles
               PROVE  OwedOf(op', h) = OwedOf(op, h) /\ CountOwedOf(op', h) = CountOwedOf(op, h)
    OBVIOUS
  <2>1. CASE \E u \in Callers : op[u].h = h
    <3>1. PICK u \in Callers : op[u].h = h
      BY <2>1
    <3> QED
      BY <1>3, <1>4, <3>1, OwedIs
  <2>2. CASE \A u \in Callers : op[u].h # h
    <3>1. \A u \in Callers : op'[u].h # h
      BY <1>3, <2>2
    <3> QED
      BY <1>4, <2>2, <3>1, OwedIs
  <2> QED
    BY <2>1, <2>2
<1>10. Counted' = Counted /\ BlocksCounted' = BlocksCounted
  BY <1>1, <1>9, OwedNow, OwedNext DEF One
<1>11. Accounts' /\ ExactCounts'
  BY <1>1, <1>3, <1>10 DEF UsageInv, Accounts, ExactCounts
<1> QED
  BY <1>2, <1>4, <1>5, <1>6, <1>7, <1>8, <1>11 DEF UsageInv

\* Adding to a remainder is adding to what it is the remainder of.
LEMMA RemainderOfSum ==
  ASSUME NEW a \in Int, NEW d \in Int, NEW r \in Nat \ {0}
  PROVE  /\ ((a % r) + d) % r = (a + d) % r
         /\ (a % r) \in 0 .. r - 1
<1>1. PICK q \in Int, m \in 0 .. r - 1 : m = a % r /\ a = r * q + m
  <2>1. /\ a \div r \in Int /\ a % r \in 0 .. r - 1
        /\ a = r * (a \div r) + (a % r)
    OBVIOUS
  <2> QED
    BY <2>1
<1>2. a + d = (m + d) + r * q /\ r * q \in Int /\ m + d \in Int
  BY <1>1
<1>3. (a + d) % r = (m + d) % r
  <2>1. ((m + d) + r * q) % r = (m + d) % r
    BY <1>2, RemainderShift
  <2> QED
    BY <1>2, <2>1
<1> QED
  BY <1>1, <1>3

LEMMA WriteSizeKeeps ==
  ASSUME MemUsageAssumption, UsageInv, NEW t \in Callers, WriteSize(t)
  PROVE  UsageInv'
<1> DEFINE h == op[t].h
<1>1. /\ usagePc[t] = "write" /\ usageLock' = usageLock
      /\ usagePc' = [usagePc EXCEPT ![t] = "unlock"]
      /\ op' = [op EXCEPT ![t].delta = 0, ![t].count = 0, ![t].seen = 0]
      /\ block' = block /\ drift' = drift /\ exact' = exact
      /\ size' = (size + op[t].delta) % SizeWord /\ balance' = balance + op[t].count
      /\ peak' = (IF size' > peak THEN size' ELSE peak)
      /\ g_collect_usage' = g_collect_usage /\ UsageTypes /\ g_collect_usage
  <2>1. usagePc[t] = "write"
    BY DEF WriteSize
  <2>2. op[t].seen = size
    BY <2>1 DEF UsageInv, ReadIsFresh
  <2> QED
    BY <2>1, <2>2, WorksSomewhere DEF WriteSize, UsageInv, history, Wrap, PeakWith
<1>2. /\ h \in Handles /\ \A u \in Callers \ {t} : op[u].h # h
      /\ op[t].delta \in Int /\ op[t].count \in Int /\ op[t].again \in Int
      /\ size \in Int /\ balance \in Int /\ peak \in Nat /\ drift \in Int
      /\ block[h] \in Int /\ SizeWord \in Nat \ {0} /\ IsFiniteSet(Handles)
  BY <1>1, WorksSomewhere, SizesAreNaturals DEF UsageTypes, MemUsageAssumption
<1>3. size' \in 0 .. SizeWord - 1
  <2>1. size + op[t].delta \in Int
    BY <1>2
  <2>2. \A a \in Int : a % SizeWord \in 0 .. SizeWord - 1
    BY <1>2, RemainderOfSum
  <2> QED
    BY <1>1, <2>1, <2>2
<1>4. /\ usagePc'[t] = "unlock"
      /\ \A u \in Callers \ {t} : usagePc'[u] = usagePc[u] /\ op'[u] = op[u]
      /\ op'[t].h = h /\ op'[t].delta = 0 /\ op'[t].count = 0 /\ op'[t].again = op[t].again
      /\ op' \in [Callers -> [h : Handles \cup {NoHandle}, delta : Int, count : Int, again : Int, seen : Int]]
  <2>1. /\ usagePc'[t] = "unlock" /\ \A u \in Callers \ {t} : usagePc'[u] = usagePc[u]
    BY <1>1 DEF UsageTypes
  <2>2. \A u \in Callers \ {t} : op'[u] = op[u]
    BY <1>1 DEF UsageTypes
  <2>3. /\ op'[t].h = h /\ op'[t].delta = 0 /\ op'[t].count = 0 /\ op'[t].again = op[t].again
        /\ op' \in [Callers -> [h : Handles \cup {NoHandle}, delta : Int, count : Int, again : Int, seen : Int]]
    <3> DEFINE Ops == [Callers -> [h : Handles \cup {NoHandle}, delta : Int, count : Int,
                                   again : Int, seen : Int]]
               o1 == [op EXCEPT ![t].delta = 0]
               o2 == [o1 EXCEPT ![t].count = 0]
    <3>1. op \in Ops
      BY <1>1 DEF UsageTypes
    <3>2. o1 \in Ops /\ o1[t].h = h /\ o1[t].delta = 0 /\ o1[t].again = op[t].again
      BY <3>1
    <3>3. op' = [o2 EXCEPT ![t].seen = 0]
      BY <1>1
    <3> HIDE DEF o1
    <3>4. /\ o2 \in Ops /\ o2[t].h = h /\ o2[t].delta = 0 /\ o2[t].count = 0
          /\ o2[t].again = op[t].again
      BY <3>2
    <3> HIDE DEF o2
    <3> QED
      BY <3>3, <3>4
  <2> QED
    BY <2>1, <2>2, <2>3
<1>5. UsageTypes'
  <2>1. usagePc' \in [Callers -> {"idle", "lock", "read", "write", "unlock"}]
    BY <1>1 DEF UsageTypes
  <2>2. peak' \in Nat /\ balance' \in Int
    BY <1>1, <1>2, <1>3
  <2> QED
    BY <1>1, <1>3, <1>4, <2>1, <2>2 DEF UsageTypes
<1>6. OwnHandles(op) /\ OwnHandles(op') /\ OwnHandles(op)'
  BY <1>4 DEF UsageInv, OwnHandles
<1>7. \A u \in Callers \ {t} : usagePc[u] # "write"
  BY <1>1, OthersOut
<1>8. IdleWorksOnNothing' /\ LockExact' /\ WrittenOnce'
  <2>1. IdleWorksOnNothing'
    BY <1>1, <1>2, <1>4, WorksSomewhere DEF UsageInv, IdleWorksOnNothing
  <2>2. LockExact'
    BY <1>1, <1>4 DEF UsageInv, LockExact
  <2>3. WrittenOnce'
    BY <1>4 DEF UsageInv, WrittenOnce
  <2> QED
    BY <2>1, <2>2, <2>3
<1>9. ReadIsFresh'
  BY <1>4, <1>7 DEF ReadIsFresh
<1>10. OffIsEmpty'
  BY <1>1 DEF OffIsEmpty
<1>11. Step(t, h)
  BY <1>1, <1>4 DEF Step
<1>12. /\ OwedOf(op, h) = op[t].delta + op[t].again /\ CountOwedOf(op, h) = op[t].count
       /\ OwedOf(op', h) = op[t].again /\ CountOwedOf(op', h) = 0
  <2>1. op'[t].delta + op'[t].again = op[t].again
    BY <1>2, <1>4
  <2> QED
    BY <1>2, <1>4, <1>6, <2>1, OwedIs
<1>13. /\ Counted'[h] = block[h] - op[t].again
       /\ Counted'[h] = Counted[h] + op[t].delta /\ BlocksCounted'[h] = BlocksCounted[h] + op[t].count
       /\ Counted[h] \in Int /\ BlocksCounted[h] \in Int
  <2>1. /\ Counted'[h] = block[h] - op[t].again /\ Counted[h] = block[h] - (op[t].delta + op[t].again)
        /\ BlocksCounted'[h] = One(h) - 0 /\ BlocksCounted[h] = One(h) - op[t].count
        /\ One(h) \in Int
    BY <1>1, <1>2, <1>12, OwedNow, OwedNext DEF One
  <2> QED
    BY <1>2, <2>1
<1>14. /\ \A g \in Handles \ {h} : Counted'[g] = Counted[g]
       /\ Total(Handles, Counted)' = Total(Handles, Counted) + op[t].delta
       /\ Total(Handles, BlocksCounted)' = Total(Handles, BlocksCounted) + op[t].count
       /\ Total(Handles, Counted) \in Int /\ Total(Handles, BlocksCounted) \in Int
  <2>1. \A g \in Handles : Counted[g] \in Int /\ BlocksCounted[g] \in Int
    BY <1>1, <1>6, CountedTypes
  <2>2. Total(Handles, Counted) \in Int /\ Total(Handles, BlocksCounted) \in Int
    BY <1>2, <2>1, TotalType
  <2>3. /\ \A g \in Handles \ {h} : Counted'[g] = Counted[g]
        /\ Total(Handles, Counted)' = Total(Handles, Counted) + Counted'[h] - Counted[h]
        /\ Total(Handles, BlocksCounted)' =
             Total(Handles, BlocksCounted) + BlocksCounted'[h] - BlocksCounted[h]
    BY <1>1, <1>2, <1>5, <1>6, <1>11, CountedStep
  <2>4. /\ Total(Handles, Counted)' = Total(Handles, Counted) + (Counted[h] + op[t].delta) - Counted[h]
        /\ Total(Handles, BlocksCounted)' =
             Total(Handles, BlocksCounted) + (BlocksCounted[h] + op[t].count) - BlocksCounted[h]
    BY <1>13, <2>3
  <2> QED
    BY <1>2, <1>13, <2>2, <2>3, <2>4
<1>15. Accounts'
  <2>1. size = (Total(Handles, Counted) + drift) % SizeWord /\ balance = Total(Handles, BlocksCounted)
    BY DEF UsageInv, Accounts
  <2>2. (size + op[t].delta) % SizeWord = ((Total(Handles, Counted) + drift) + op[t].delta) % SizeWord
    <3>1. Total(Handles, Counted) + drift \in Int
      BY <1>2, <1>14
    <3>2. \A a \in Int : ((a % SizeWord) + op[t].delta) % SizeWord = (a + op[t].delta) % SizeWord
      BY ZenonT(40), <1>2, RemainderOfSum
    <3> QED
      BY <2>1, <3>1, <3>2
  <2>3. Total(Handles, Counted)' + drift' = (Total(Handles, Counted) + drift) + op[t].delta
    BY <1>1, <1>2, <1>14
  <2>4. size' <= peak'
    BY <1>1, <1>2, <1>3
  <2> QED
    BY <1>1, <1>14, <2>1, <2>2, <2>3, <2>4 DEF Accounts
<1>16. ExactCounts'
  <2> SUFFICES ASSUME exact
               PROVE  /\ drift' = 0 /\ \A u \in Callers : op'[u].again = 0
                      /\ \A g \in Handles : Counted'[g] \in Sizes \cup {0}
    BY <1>1 DEF ExactCounts
  <2>1. /\ drift = 0 /\ \A u \in Callers : op[u].again = 0
        /\ \A g \in Handles : Counted[g] \in Sizes \cup {0}
    BY DEF UsageInv, ExactCounts
  <2>2. Counted'[h] = block[h]
    BY <1>2, <1>13, <2>1
  <2>3. block[h] \in Sizes \cup {0}
    BY <1>1, <1>2 DEF UsageTypes
  <2>4. \A u \in Callers : op'[u].again = 0
    BY <1>4, <2>1
  <2>5. \A g \in Handles : Counted'[g] \in Sizes \cup {0}
    BY <1>14, <2>1, <2>2, <2>3
  <2> QED
    BY <1>1, <2>1, <2>4, <2>5
<1> QED
  BY <1>5, <1>6, <1>8, <1>9, <1>10, <1>15, <1>16 DEF UsageInv

LEMMA GiveLockKeeps ==
  ASSUME MemUsageAssumption, UsageInv, NEW t \in Callers, GiveLock(t)
  PROVE  UsageInv'
<1> DEFINE h == op[t].h
<1>1. /\ usagePc[t] = "unlock" /\ usageLock' = NoCaller /\ block' = block
      /\ usage' = usage /\ history' = history
      /\ size' = size /\ peak' = peak /\ balance' = balance /\ drift' = drift /\ exact' = exact
      /\ g_collect_usage' = g_collect_usage /\ UsageTypes /\ g_collect_usage
  BY WorksSomewhere DEF GiveLock, UsageInv, usage, history
<1>2. /\ h \in Handles /\ h # NoHandle /\ \A u \in Callers \ {t} : op[u].h # h
      /\ op[t].delta = 0 /\ op[t].count = 0 /\ op[t].again \in Int
      /\ block[h] \in Int /\ IsFiniteSet(Handles)
      /\ NoHandle \notin Handles /\ NoCaller \notin Callers
  <2>1. h \in Handles /\ h # NoHandle /\ \A u \in Callers \ {t} : op[u].h # h
    BY <1>1, WorksSomewhere
  <2>2. op[t].delta = 0 /\ op[t].count = 0
    BY <1>1 DEF UsageInv, WrittenOnce
  <2>3. op[t].again \in Int /\ block[h] \in Int
    BY <1>1, <2>1, SizesAreNaturals DEF UsageTypes
  <2> QED
    BY <2>1, <2>2, <2>3 DEF MemUsageAssumption
<1>3. \A u \in Callers \ {t} : usagePc[u] \notin {"read", "write", "unlock"}
  BY <1>1, OthersOut
<1>4. \/ /\ op[t].again = 0
         /\ op' = [op EXCEPT ![t] = NoOp] /\ usagePc' = [usagePc EXCEPT ![t] = "idle"]
      \/ /\ op' = [op EXCEPT ![t].delta = op[t].again, ![t].again = 0]
         /\ usagePc' = [usagePc EXCEPT ![t] = "lock"]
  BY DEF GiveLock
<1>5. \A u \in Callers \ {t} : usagePc'[u] = usagePc[u] /\ op'[u] = op[u]
  BY <1>1, <1>4 DEF UsageTypes
<1>6. \/ op[t].again = 0 /\ op'[t] = NoOp /\ usagePc'[t] = "idle"
      \/ /\ op'[t].h = h /\ op'[t].delta = op[t].again /\ op'[t].count = 0 /\ op'[t].again = 0
         /\ usagePc'[t] = "lock"
  BY <1>1, <1>2, <1>4 DEF UsageTypes
<1>7. UsageTypes'
  <2>1. op' \in [Callers -> [h : Handles \cup {NoHandle}, delta : Int, count : Int, again : Int, seen : Int]]
    <3>1. NoOp \in [h : Handles \cup {NoHandle}, delta : Int, count : Int, again : Int, seen : Int]
      BY DEF NoOp
    <3> QED
      BY <1>1, <1>2, <1>4, <3>1 DEF UsageTypes
  <2>2. usagePc' \in [Callers -> {"idle", "lock", "read", "write", "unlock"}]
    BY <1>1, <1>4 DEF UsageTypes
  <2> QED
    BY <1>1, <2>1, <2>2 DEF UsageTypes
<1>8. NoOp.h = NoHandle /\ NoOp.again = 0
  BY DEF NoOp
<1>9. OwnHandles(op) /\ OwnHandles(op') /\ OwnHandles(op)'
  BY <1>2, <1>5, <1>6, <1>8 DEF UsageInv, OwnHandles
<1>10. IdleWorksOnNothing'
  BY <1>2, <1>5, <1>6 DEF UsageInv, IdleWorksOnNothing
<1>11. LockExact' /\ ReadIsFresh' /\ WrittenOnce'
  BY <1>1, <1>2, <1>3, <1>5, <1>6 DEF LockExact, ReadIsFresh, WrittenOnce
<1>12. OffIsEmpty'
  BY <1>1 DEF OffIsEmpty
<1>13. Step(t, h)
  BY <1>1, <1>5, <1>6, <1>8 DEF Step
<1>14. OwedOf(op, h) = op[t].again /\ CountOwedOf(op, h) = 0
  <2>1. op[t].delta + op[t].again = op[t].again
    BY <1>2
  <2> QED
    BY <1>2, <1>9, <2>1, OwedIs
<1>15. OwedOf(op', h) = op[t].again /\ CountOwedOf(op', h) = 0
  <2>1. CASE op[t].again = 0 /\ op'[t] = NoOp
    <3>1. \A u \in Callers : op'[u].h # h
      BY <1>2, <1>5, <1>8, <2>1
    <3> QED
      BY <1>2, <1>9, <2>1, <3>1, OwedIs
  <2>2. CASE op'[t].h = h /\ op'[t].delta = op[t].again /\ op'[t].count = 0 /\ op'[t].again = 0
    <3>1. op'[t].delta + op'[t].again = op[t].again
      BY <1>2, <2>2
    <3> QED
      BY <1>2, <1>9, <2>2, <3>1, OwedIs
  <2> QED
    BY <1>6, <2>1, <2>2
<1>16. Counted'[h] = Counted[h] /\ BlocksCounted'[h] = BlocksCounted[h]
  BY <1>1, <1>2, <1>14, <1>15, OwedNow, OwedNext DEF One
<1>17. /\ \A g \in Handles : Counted'[g] = Counted[g]
       /\ Total(Handles, Counted)' = Total(Handles, Counted)
       /\ Total(Handles, BlocksCounted)' = Total(Handles, BlocksCounted)
  <2>1. \A g \in Handles : Counted[g] \in Int /\ BlocksCounted[g] \in Int
    BY <1>1, <1>9, CountedTypes
  <2>2. Total(Handles, Counted) \in Int /\ Total(Handles, BlocksCounted) \in Int
    BY <1>2, <2>1, TotalType
  <2>3. /\ \A g \in Handles \ {h} : Counted'[g] = Counted[g]
        /\ Total(Handles, Counted)' = Total(Handles, Counted) + Counted'[h] - Counted[h]
        /\ Total(Handles, BlocksCounted)' =
             Total(Handles, BlocksCounted) + BlocksCounted'[h] - BlocksCounted[h]
    BY <1>1, <1>2, <1>7, <1>9, <1>13, CountedStep
  <2>4. /\ Total(Handles, Counted)' = Total(Handles, Counted) + Counted[h] - Counted[h]
        /\ Total(Handles, BlocksCounted)' =
             Total(Handles, BlocksCounted) + BlocksCounted[h] - BlocksCounted[h]
        /\ Counted[h] \in Int /\ BlocksCounted[h] \in Int
    BY <1>2, <1>16, <2>1, <2>3
  <2> QED
    BY <1>16, <2>2, <2>3, <2>4
<1>18. Accounts'
  BY <1>1, <1>17 DEF UsageInv, Accounts
<1>19. ExactCounts'
  <2> SUFFICES ASSUME exact
               PROVE  /\ drift' = 0 /\ \A u \in Callers : op'[u].again = 0
                      /\ \A g \in Handles : Counted'[g] \in Sizes \cup {0}
    BY <1>1 DEF ExactCounts
  <2>1. /\ drift = 0 /\ \A u \in Callers : op[u].again = 0
        /\ \A g \in Handles : Counted[g] \in Sizes \cup {0}
    BY DEF UsageInv, ExactCounts
  <2> QED
    BY <1>1, <1>5, <1>6, <1>8, <1>17, <2>1
<1> QED
  BY <1>7, <1>9, <1>10, <1>11, <1>12, <1>18, <1>19 DEF UsageInv

-----------------------------------------------------------------------------
(* The collection goes on and off.                                          *)

LEMMA SwitchesKeep ==
  ASSUME MemUsageAssumption, UsageInv, st_mem_usage_init \/ st_mem_usage_destroy
  PROVE  UsageInv'
<1>1. CASE st_mem_usage_init
  <2>1. /\ op' = op /\ block' = block /\ usage' = usage /\ history' = history
        /\ usageLock' = usageLock /\ usagePc' = usagePc /\ g_collect_usage' = TRUE
        /\ size' = size /\ peak' = peak /\ balance' = balance /\ drift' = drift /\ exact' = exact
    BY <1>1 DEF st_mem_usage_init, usage, history
  <2>2. Accounts' /\ ExactCounts'
    BY <2>1, SameAccounts
  <2>3. UsageTypes' /\ OffIsEmpty'
    BY <2>1 DEF UsageInv, UsageTypes, OffIsEmpty
  <2>4. OwnHandles(op)' /\ IdleWorksOnNothing' /\ LockExact' /\ ReadIsFresh' /\ WrittenOnce'
    BY <2>1 DEF UsageInv, OwnHandles, IdleWorksOnNothing, LockExact, ReadIsFresh, WrittenOnce
  <2> QED
    BY <2>2, <2>3, <2>4 DEF UsageInv
<1>2. CASE st_mem_usage_destroy
  <2>1. /\ op' = op /\ block' = block /\ usageLock' = usageLock /\ usagePc' = usagePc
        /\ g_collect_usage' = FALSE /\ size' = 0 /\ peak' = 0 /\ balance' = 0 /\ drift' = 0
        /\ exact' = TRUE /\ \A t \in Callers : usagePc[t] = "idle"
        /\ \A h \in Handles : block[h] = 0
    BY <1>2 DEF st_mem_usage_destroy, NoneUnderWay
  <2>2. /\ NoHandle \notin Handles /\ UsageTypes /\ OwnHandles(op)
        /\ \A t \in Callers : op[t] = NoOp /\ op[t].h = NoHandle
        /\ SizeWord \in Nat \ {0}
    BY <2>1 DEF MemUsageAssumption, UsageInv, IdleWorksOnNothing, NoOp
  <2>3. UsageTypes'
    <3>1. size' \in 0 .. SizeWord - 1 /\ peak' \in Nat /\ balance' \in Int /\ drift' \in Int
      BY <2>1, <2>2
    <3>2. g_collect_usage' \in BOOLEAN /\ exact' \in BOOLEAN
      BY <2>1
    <3> QED
      BY <2>1, <2>2, <3>1, <3>2 DEF UsageTypes
  <2>4. \A h \in Handles : OwedOf(op, h) = 0 /\ CountOwedOf(op, h) = 0
    BY <2>2, OwedIs
  <2>5. \A h \in Handles : Counted'[h] = 0 /\ BlocksCounted'[h] = 0
    BY <2>1, <2>4, OwedNext DEF One
  <2>6. Accounts'
    <3>1. /\ Total(Handles, Counted') = 0 /\ Total(Handles, BlocksCounted') = 0
          /\ 0 % SizeWord = 0
      BY <2>5, TotalOfNothing
    <3>2. /\ Total(Handles, Counted)' = Total(Handles, Counted')
          /\ Total(Handles, BlocksCounted)' = Total(Handles, BlocksCounted')
      BY DEF Total, Units
    <3> QED
      BY <2>1, <3>1, <3>2 DEF Accounts
  <2>7. ExactCounts'
    BY <2>1, <2>2, <2>5 DEF ExactCounts, NoOp
  <2>8. /\ OwnHandles(op)' /\ IdleWorksOnNothing' /\ LockExact' /\ ReadIsFresh' /\ WrittenOnce'
        /\ OffIsEmpty'
    BY <2>1, <2>2 DEF UsageInv, OwnHandles, IdleWorksOnNothing, LockExact, ReadIsFresh,
                      WrittenOnce, OffIsEmpty, NoneUnderWay
  <2> QED
    BY <2>3, <2>6, <2>7, <2>8 DEF UsageInv
<1> QED
  BY <1>1, <1>2

LEMMA UsageInvStep ==
  ASSUME MemUsageAssumption, UsageInv, [UsageNext]_usageVars
  PROVE  UsageInv'
<1>1. CASE UNCHANGED usageVars
  <2>1. /\ op' = op /\ block' = block /\ usage' = usage /\ history' = history
        /\ usageLock' = usageLock /\ usagePc' = usagePc /\ g_collect_usage' = g_collect_usage
        /\ size' = size /\ peak' = peak /\ balance' = balance /\ drift' = drift /\ exact' = exact
    BY <1>1 DEF usageVars, usage, history
  <2>2. Accounts' /\ ExactCounts'
    BY <2>1, SameAccounts
  <2>3. UsageTypes' /\ OffIsEmpty'
    BY <2>1 DEF UsageInv, UsageTypes, OffIsEmpty, NoneUnderWay
  <2>4. OwnHandles(op)' /\ IdleWorksOnNothing' /\ LockExact' /\ ReadIsFresh' /\ WrittenOnce'
    BY <2>1 DEF UsageInv, OwnHandles, IdleWorksOnNothing, LockExact, ReadIsFresh, WrittenOnce
  <2> QED
    BY <2>2, <2>3, <2>4 DEF UsageInv
<1>2. ASSUME NEW t \in Callers, NEW h \in Handles,
             \/ FreeBlock(t, h)
             \/ \E s \in Sizes : \/ Malloc(t, h, s) \/ Realloc(t, h, s)
                                 \/ AlignedReallocFails(t, h, s) \/ AlignedReallocNull(t, h, s)
      PROVE  UsageInv'
  BY <1>2, OperationsKeep
<1>3. ASSUME NEW t \in Callers, TakeLock(t) \/ ReadSize(t) \/ WriteSize(t) \/ GiveLock(t)
      PROVE  UsageInv'
  BY <1>3, TakeLockKeeps, ReadSizeKeeps, WriteSizeKeeps, GiveLockKeeps
<1>4. CASE st_mem_usage_init \/ st_mem_usage_destroy
  BY <1>4, SwitchesKeep
<1> QED
  BY <1>1, <1>2, <1>3, <1>4 DEF UsageNext

-----------------------------------------------------------------------------
(* What the invariant says of the statistics.                               *)

LEMMA UsageInvAccounted ==
  ASSUME MemUsageAssumption, UsageInv
  PROVE  UsageAccounted
<1>1. /\ UsageTypes /\ OwnHandles(op) /\ IsFiniteSet(Handles) /\ NoHandle \notin Handles
      /\ SizeWord \in Nat \ {0}
  BY DEF UsageInv, MemUsageAssumption
<1>2. SizeAccounted
  BY DEF UsageInv, Accounts, SizeAccounted
<1>3. PeakCoversHeld
  <2> SUFFICES ASSUME exact PROVE Total(Handles, Returned) <= peak
    BY DEF PeakCoversHeld
  <2>1. drift = 0 /\ \A h \in Handles : Counted[h] \in Sizes \cup {0}
    BY DEF UsageInv, ExactCounts
  <2>2. \A h \in Handles : /\ Returned[h] \in Nat /\ Counted[h] \in Nat
                           /\ Returned[h] <= Counted[h]
    <3> SUFFICES ASSUME NEW h \in Handles
                 PROVE  /\ Returned[h] \in Nat /\ Counted[h] \in Nat
                        /\ Returned[h] <= Counted[h]
      OBVIOUS
    <3>1. Counted[h] \in Nat /\ block[h] \in Nat
      BY <1>1, <2>1, SizesAreNaturals DEF UsageTypes
    <3>2. CASE Busy(h)
      <4>1. Returned[h] = 0
        BY <3>2 DEF Returned
      <4> QED
        BY <3>1, <4>1
    <3>3. CASE ~Busy(h)
      <4>1. Returned[h] = block[h] /\ Counted[h] = block[h] - 0
        BY <3>3 DEF Returned, Counted, Owed
      <4> QED
        BY <3>1, <4>1
    <3> QED
      BY <3>2, <3>3
  <2>3. /\ Total(Handles, Returned) \in Nat
        /\ Total(Handles, Returned) <= Total(Handles, Counted)
    BY <1>1, <2>2, TotalGrows
  <2>4. Total(Handles, Counted) \in Nat
    BY <1>1, <2>2, TotalGrows
  <2>5. Total(Handles, Counted) < SizeWord
    <3>1. Counted \in [Handles -> Sizes \cup {0}]
      BY <2>1 DEF Counted
    <3> QED
      BY <3>1 DEF MemUsageAssumption
  <2>6. size = Total(Handles, Counted)
    <3>1. Total(Handles, Counted) + drift = Total(Handles, Counted)
      BY <2>1, <2>4
    <3>2. Total(Handles, Counted) \in 0 .. SizeWord - 1
      BY <1>1, <2>4, <2>5
    <3>3. Total(Handles, Counted) % SizeWord = Total(Handles, Counted)
      BY <1>1, <3>2, SmallRemainder
    <3> QED
      BY <3>1, <3>3 DEF UsageInv, Accounts
  <2>7. size <= peak /\ peak \in Nat
    BY <1>1 DEF UsageInv, Accounts, UsageTypes
  <2> QED
    BY <2>3, <2>4, <2>6, <2>7
<1>4. BalanceExact
  <2> SUFFICES ASSUME NoneUnderWay
               PROVE  balance = Cardinality({h \in Handles : block[h] # 0})
    BY DEF BalanceExact
  <2>1. \A t \in Callers : op[t].h = NoHandle
    BY DEF NoneUnderWay, UsageInv, IdleWorksOnNothing, NoOp
  <2>2. \A h \in Handles : BlocksCounted[h] = IF block[h] # 0 THEN 1 ELSE 0
    <3>1. \A h \in Handles : CountOwedOf(op, h) = 0
      BY <1>1, <2>1, OwedIs
    <3> QED
      BY <3>1, OwedNow DEF One
  <2>3. Total(Handles, BlocksCounted) = Cardinality({h \in Handles : block[h] # 0})
    <3> DEFINE some == {h \in Handles : block[h] # 0}
    <3>1. /\ some \in SUBSET Handles /\ \A h \in some : BlocksCounted[h] = 1
          /\ \A h \in Handles \ some : BlocksCounted[h] = 0
      BY <2>2
    <3> HIDE DEF some
    <3>2. Total(Handles, BlocksCounted) = Cardinality(some)
      BY <1>1, <3>1, TotalOfOnes
    <3> QED
      BY <3>2 DEF some
  <2> QED
    BY <2>3 DEF UsageInv, Accounts
<1> QED
  BY <1>2, <1>3, <1>4 DEF UsageAccounted

\* The size in use that the statistics give (update_usage) is that of the blocks, but
\* for what the calls under way have still to add, the peak covers what the callers
\* hold, and allocations and frees differ by the blocks there are.
THEOREM UsageIsAccounted ==
  ASSUME MemUsageAssumption
  PROVE  UsageSpec => []UsageAccounted
<1>1. UsageInit => UsageInv
  BY UsageInvInit
<1>2. UsageInv /\ [UsageNext]_usageVars => UsageInv'
  BY UsageInvStep
<1>3. UsageInv => UsageAccounted
  BY UsageInvAccounted
<1> QED
  BY <1>1, <1>2, <1>3, PTL DEF UsageSpec
-----------------------------------------------------------------------------
(* The lines of a file.                                                     *)

Chars == {NewLine, Char}

ReaderTypes ==
  /\ input \in Seq(Chars) /\ mem \in Seq(Chars) /\ before \in [input : Seq(Chars), sz : Nat]
  /\ sz \in Nat /\ room \in Nat /\ linePtr = Len(mem)
  /\ readerPc \in {"idle", "first", "more", "grow", "line", "null"} /\ err \in BOOLEAN

Unbroken(text) == \A k \in DOMAIN text : text[k] # NewLine

\* Within a call the buffer holds what was taken from the file, all of one line, and
\* the room counted down is what is left of it.
ReaderInside ==
  readerPc \in {"first", "more", "grow"} =>
    /\ mem \o input = before.input /\ Unbroken(mem)
    /\ readerPc = "grow" => linePtr = sz - 1 /\ (sz = 1 => before.sz = 1)
    /\ readerPc # "grow" => room > 0 /\ room + linePtr = sz
    /\ readerPc = "first" => (before.sz = sz \/ sz = MAX_LINE_LEN)
    /\ readerPc = "more" => sz > 1 /\ (linePtr = 0 => before.sz = 1)

ReaderLine ==
  readerPc = "line" => /\ mem = NextLine(before.input) /\ mem \o input = before.input /\ linePtr < sz
                       /\ before.input = << >> => before.sz = 1
ReaderEnd == readerPc = "null" /\ ~err => before.input = << >> /\ input = << >>

ReaderInv == ReaderTypes /\ ReaderInside /\ ReaderLine /\ ReaderEnd

\* A text up to its first newline.
LEMMA NextLineIs ==
  ASSUME NEW text \in Seq(Chars)
  PROVE  /\ Unbroken(text) => NextLine(text) = text
         /\ \A k \in 1 .. Len(text) :
              text[k] = NewLine /\ (\A i \in 1 .. k - 1 : text[i] # NewLine) => NextLine(text) = SubSeq(text, 1, k)
<1> DEFINE I == {i \in 1 .. Len(text) : text[i] = NewLine}
           n == IF I # {} THEN Min(I) ELSE 0
<1>1. NextLine(text) = IF n = 0 THEN text ELSE SubSeq(text, 1, n)
  BY DEF NextLine, SelectInSeq
<1>2. Len(text) \in Nat /\ DOMAIN text = 1 .. Len(text) /\ I \subseteq Nat
  OBVIOUS
<1>3. I # {} => Min(I) \in I /\ \A i \in I : Min(I) <= i
  <2> HIDE DEF I
  <2> QED
    BY <1>2, LeastNatural
<1>4. ASSUME Unbroken(text) PROVE NextLine(text) = text
  <2>1. I = {}
    BY <1>2, <1>4 DEF Unbroken
  <2> QED
    BY <1>1, <2>1
<1>5. ASSUME NEW k \in 1 .. Len(text), text[k] = NewLine, \A i \in 1 .. k - 1 : text[i] # NewLine
      PROVE  NextLine(text) = SubSeq(text, 1, k)
  <2>1. k \in I /\ \A i \in I : i >= k
    BY <1>2, <1>5
  <2>2. n \in I /\ n <= k
    BY <1>3, <2>1
  <2>3. n = k
    BY <1>2, <2>1, <2>2
  <2> HIDE DEF n
  <2> QED
    BY <1>1, <1>2, <2>3
<1> QED
  BY <1>4, <1>5

\* What was read and what is left, when the next character is taken.
LEMMA TakeOne ==
  ASSUME NEW got \in Seq(Chars), NEW left \in Seq(Chars), left # << >>, Unbroken(got)
  PROVE  /\ Head(left) \in Chars /\ Tail(left) \in Seq(Chars)
         /\ Append(got, Head(left)) \in Seq(Chars) /\ Len(Append(got, Head(left))) = Len(got) + 1
         /\ Append(got, Head(left)) \o Tail(left) = got \o left
         /\ Head(left) # NewLine => Unbroken(Append(got, Head(left)))
         /\ Head(left) = NewLine => NextLine(got \o left) = Append(got, Head(left))
<1> DEFINE c == Head(left)
           more == Append(got, c)
           text == got \o left
           n == Len(got)
<1>1. /\ c \in Chars /\ Tail(left) \in Seq(Chars) /\ more \in Seq(Chars) /\ text \in Seq(Chars)
      /\ n \in Nat /\ Len(left) \in Nat \ {0} /\ Len(more) = n + 1 /\ DOMAIN more = 1 .. n + 1
      /\ DOMAIN got = 1 .. n /\ DOMAIN left = 1 .. Len(left)
      /\ Len(Tail(left)) = Len(left) - 1 /\ Len(text) = n + Len(left) /\ DOMAIN text = 1 .. n + Len(left)
      /\ \A i \in 1 .. Len(left) - 1 : Tail(left)[i] = left[i + 1]
      /\ c = left[1] /\ more[n + 1] = c /\ \A i \in 1 .. n : more[i] = got[i]
      /\ \A i \in 1 .. n + Len(left) : text[i] = IF i <= n THEN got[i] ELSE left[i - n]
  OBVIOUS
<1> DEFINE rest == Tail(left)
           all == more \o rest
<1>2. /\ all \in Seq(Chars) /\ Len(all) = (n + 1) + (Len(left) - 1) /\ DOMAIN all = 1 .. Len(all)
      /\ \A i \in 1 .. (n + 1) + (Len(left) - 1) : all[i] = IF i <= n + 1 THEN more[i] ELSE rest[i - (n + 1)]
  BY <1>1
<1> HIDE DEF c, more, text, n, rest, all
<1>3. all = text
  <2>1. Len(all) = Len(text) /\ DOMAIN all = DOMAIN text
    BY <1>1, <1>2
  <2>2. ASSUME NEW i \in 1 .. Len(text) PROVE all[i] = text[i]
    <3>1. CASE i <= n
      BY <1>1, <1>2, <3>1
    <3>2. CASE i = n + 1
      BY <1>1, <1>2, <3>2
    <3>3. CASE i > n + 1
      <4>1. i - (n + 1) \in 1 .. Len(left) - 1 /\ (i - (n + 1)) + 1 = i - n
        BY <1>1, <3>3
      <4> QED
        BY <1>1, <1>2, <3>3, <4>1 DEF rest
    <3> QED
      BY <1>1, <3>1, <3>2, <3>3
  <2> QED
    BY <1>1, <1>2, <2>1, <2>2, SeqEqual
<1>4. c # NewLine => Unbroken(more)
  BY <1>1 DEF Unbroken
<1>5. ASSUME c = NewLine PROVE NextLine(text) = more
  <2>1. n + 1 \in 1 .. Len(text) /\ text[n + 1] = NewLine /\ \A i \in 1 .. (n + 1) - 1 : text[i] # NewLine
    <3>1. n + 1 \in 1 .. n + Len(left) /\ (n + 1) - n = 1 /\ ~(n + 1 <= n)
      BY <1>1
    <3>2. text[n + 1] = NewLine
      BY <1>1, <1>5, <3>1
    <3>3. ASSUME NEW i \in 1 .. (n + 1) - 1 PROVE text[i] # NewLine
      <4>1. i \in 1 .. n /\ i \in 1 .. n + Len(left) /\ i <= n
        BY <1>1, <3>3
      <4> QED
        BY <1>1, <4>1 DEF Unbroken
    <3> QED
      BY <1>1, <3>1, <3>2, <3>3
  <2>2. NextLine(text) = SubSeq(text, 1, n + 1)
    BY <1>1, <2>1, NextLineIs
  <2>3. SubSeq(text, 1, n + 1) = more
    <3> DEFINE up == SubSeq(text, 1, n + 1)
    <3>1. up \in Seq(Chars) /\ Len(up) = n + 1 /\ \A i \in 1 .. n + 1 : up[i] = text[i]
      BY <1>1, <2>1
    <3> HIDE DEF up
    <3>2. \A i \in 1 .. n + 1 : up[i] = more[i]
      BY <1>1, <3>1
    <3> QED
      BY <1>1, <3>1, <3>2, SeqEqual DEF up
  <2> QED
    BY <2>2, <2>3
<1> QED
  BY <1>1, <1>3, <1>4, <1>5 DEF c, more, text, n, all, rest
\* The whole of the file was read, and it holds no newline more.
LEMMA LastLine ==
  ASSUME NEW got \in Seq(Chars), Unbroken(got)
  PROVE  got \o << >> = got /\ NextLine(got) = got
BY NextLineIs

LEMMA StoreIs ==
  ASSUME ReaderTypes, NEW c \in Chars
  PROVE  Store(c) = Append(mem, c)
<1>1. mem \in Seq(Chars) /\ linePtr = Len(mem) /\ Len(mem) \in Nat /\ DOMAIN mem = 1 .. Len(mem)
  BY DEF ReaderTypes
<1>2. /\ Append(mem, c) \in Seq(Chars) /\ Len(Append(mem, c)) = Len(mem) + 1
      /\ Append(mem, c) = [k \in 1 .. Len(mem) + 1 |-> Append(mem, c)[k]]
  <2> DEFINE s == Append(mem, c)
  <2>1. s \in Seq(Chars) /\ Len(s) = Len(mem) + 1
    BY <1>1
  <2> HIDE DEF s
  <2>2. s = [k \in 1 .. Len(s) |-> s[k]]
    BY <2>1
  <2> QED
    BY <2>1, <2>2 DEF s
<1>3. \A k \in 1 .. Len(mem) + 1 : Append(mem, c)[k] = IF k = Len(mem) + 1 THEN c ELSE mem[k]
  BY <1>1
<1>4. Store(c) = [k \in 1 .. Len(mem) + 1 |-> IF k = Len(mem) + 1 THEN c ELSE mem[k]]
  BY <1>1 DEF Store
<1> HIDE <1>1
<1> QED
  BY <1>2, <1>3, <1>4

LEMMA ReaderInvInit == ASSUME LineReaderAssumption, ReaderInit PROVE ReaderInv
<1>1. PICK k \in 0 .. MaxInput : input \in [1 .. k -> Chars]
  BY DEF ReaderInit, Chars
<1>2. input \in Seq(Chars) /\ sz \in Nat /\ << >> \in Seq(Chars) /\ Len(<< >>) = 0
  <2>1. k \in Nat
    BY DEF LineReaderAssumption
  <2>2. input \in Seq(Chars)
    BY <1>1, <2>1
  <2>3. sz \in Nat
    BY DEF ReaderInit, LineReaderAssumption
  <2>4. << >> \in Seq(Chars) /\ Len(<< >>) = 0
    OBVIOUS
  <2> QED
    BY <2>2, <2>3, <2>4
<1>3. /\ mem = << >> /\ linePtr = 0 /\ room = 0 /\ readerPc = "idle" /\ err = FALSE
      /\ before = [input |-> input, sz |-> sz]
  BY DEF ReaderInit
<1> QED
  BY <1>2, <1>3 DEF ReaderInv, ReaderTypes, ReaderInside, ReaderLine, ReaderEnd

LEMMA CallKeeps == ASSUME LineReaderAssumption, ReaderInv, st_fgets PROVE ReaderInv'
<1>1. /\ input \in Seq(Chars) /\ sz \in Nat /\ room \in Nat /\ MAX_LINE_LEN \in Nat /\ MAX_LINE_LEN > 1
      /\ mem' = << >> /\ linePtr' = 0 /\ input' = input /\ before' = [input |-> input, sz |-> sz]
  BY DEF ReaderInv, ReaderTypes, st_fgets, LineReaderAssumption
<1>2. << >> \in Seq(Chars) /\ Len(<< >>) = 0 /\ << >> \o input = input /\ Unbroken(<< >>)
  BY <1>1 DEF Unbroken
<1>0. /\ mem' \in Seq(Chars) /\ linePtr' = Len(mem') /\ mem' \o input' = before'.input /\ Unbroken(mem')
      /\ before' \in [input : Seq(Chars), sz : Nat] /\ before'.sz = sz /\ input' \in Seq(Chars)
  BY <1>1, <1>2
<1>3. CASE sz > 0 /\ sz' = sz /\ room' = sz /\ readerPc' = "first" /\ err' = FALSE
  <2>1. sz' \in Nat /\ room' \in Nat /\ room' > 0 /\ room' + linePtr' = sz' /\ (before'.sz = sz' \/ sz' = MAX_LINE_LEN)
    BY <1>0, <1>1, <1>3
  <2> QED
    BY <1>0, <1>3, <2>1 DEF ReaderInv, ReaderTypes, ReaderInside, ReaderLine, ReaderEnd
<1>4. CASE sz = 0 /\ sz' = MAX_LINE_LEN /\ room' = MAX_LINE_LEN /\ readerPc' = "first" /\ err' = FALSE
  <2>1. sz' \in Nat /\ room' \in Nat /\ room' > 0 /\ room' + linePtr' = sz' /\ (before'.sz = sz' \/ sz' = MAX_LINE_LEN)
    BY <1>0, <1>1, <1>4
  <2> QED
    BY <1>0, <1>4, <2>1 DEF ReaderInv, ReaderTypes, ReaderInside, ReaderLine, ReaderEnd
<1>5. CASE sz' = sz /\ room' = room /\ readerPc' = "null" /\ err' = TRUE
  BY <1>0, <1>1, <1>5 DEF ReaderInv, ReaderTypes, ReaderInside, ReaderLine, ReaderEnd
<1> QED
  BY <1>3, <1>4, <1>5 DEF st_fgets

LEMMA LoopKeeps ==
  ASSUME LineReaderAssumption, ReaderInv, NEW loop \in {"first", "more"}, Loop(loop)
  PROVE  ReaderInv'
<1>1. /\ input \in Seq(Chars) /\ mem \in Seq(Chars) /\ sz \in Nat /\ linePtr = Len(mem) /\ linePtr \in Nat
      /\ before \in [input : Seq(Chars), sz : Nat] /\ err \in BOOLEAN /\ room \in Nat
      /\ readerPc = loop /\ room' = room - 1 /\ sz' = sz /\ before' = before /\ err' = err
  BY DEF ReaderInv, ReaderTypes, Loop
<1>2. /\ mem \o input = before.input /\ Unbroken(mem) /\ room > 0 /\ room + linePtr = sz
      /\ loop = "first" => (before.sz = sz \/ sz = MAX_LINE_LEN)
      /\ loop = "more" => sz > 1 /\ (linePtr = 0 => before.sz = 1)
  BY <1>1 DEF ReaderInv, ReaderInside
<1>3. MAX_LINE_LEN > 1
  BY DEF LineReaderAssumption
<1>4. CASE room = 1 /\ readerPc' = "grow" /\ UNCHANGED <<input, mem, linePtr>>
  <2>1. room' = 0 /\ linePtr' = sz' - 1
    BY <1>1, <1>2, <1>4
  <2>2. sz = 1 => before.sz = 1
    BY <1>1, <1>2, <1>3
  <2> QED
    BY <1>1, <1>2, <1>4, <2>1, <2>2 DEF ReaderInv, ReaderTypes, ReaderInside, ReaderLine, ReaderEnd
<1>5. CASE /\ room # 1 /\ input = << >> /\ UNCHANGED <<input, mem, linePtr>>
           /\ readerPc' = IF loop = "first" /\ linePtr = 0 THEN "null" ELSE "line"
  <2>1. mem = before.input /\ NextLine(mem) = mem
    BY <1>1, <1>2, <1>5, LastLine
  <2>2. room' \in Nat /\ linePtr < sz
    BY <1>1, <1>2, <1>5
  <2>3. mem = << >> <=> linePtr = 0
    BY <1>1
  <2> QED
    BY <1>1, <1>2, <1>5, <2>1, <2>2, <2>3 DEF ReaderInv, ReaderTypes, ReaderInside, ReaderLine, ReaderEnd
<1>6. CASE /\ room # 1 /\ input # << >>
           /\ mem' = Store(Head(input)) /\ linePtr' = linePtr + 1 /\ input' = Tail(input)
           /\ readerPc' = IF Head(input) = NewLine THEN "line" ELSE loop
  <2>1. /\ Head(input) \in Chars /\ Tail(input) \in Seq(Chars)
        /\ Append(mem, Head(input)) \in Seq(Chars) /\ Len(Append(mem, Head(input))) = Len(mem) + 1
        /\ Append(mem, Head(input)) \o Tail(input) = mem \o input
        /\ Head(input) # NewLine => Unbroken(Append(mem, Head(input)))
        /\ Head(input) = NewLine => NextLine(mem \o input) = Append(mem, Head(input))
    BY <1>1, <1>2, <1>6, TakeOne
  <2>2. mem' = Append(mem, Head(input))
    BY <1>6, <2>1, StoreIs DEF ReaderInv
  <2>3. /\ mem' \in Seq(Chars) /\ linePtr' = Len(mem') /\ mem' \o input' = before'.input /\ input' \in Seq(Chars)
        /\ linePtr' # 0
    <3> DEFINE more == Append(mem, Head(input))
               rest == Tail(input)
    <3>1. /\ more \in Seq(Chars) /\ rest \in Seq(Chars) /\ Len(more) = Len(mem) + 1 /\ more \o rest = before.input
      BY <1>2, <2>1
    <3>2. mem' = more /\ input' = rest /\ linePtr' = linePtr + 1
      BY <1>6, <2>2
    <3> HIDE DEF more, rest
    <3>3. linePtr' = Len(mem') /\ linePtr' # 0
      BY <1>1, <3>1, <3>2
    <3> QED
      BY <1>1, <3>1, <3>2, <3>3
  <2>4. room' \in Nat /\ room' > 0 /\ room' + linePtr' = sz' /\ linePtr' < sz'
    <3>1. linePtr' = linePtr + 1 /\ room # 1
      BY <1>6
    <3>2. PICK i \in Nat, r \in Nat : i = linePtr /\ r = room
      BY <1>1
    <3>3. room' = r - 1 /\ sz' = r + i /\ linePtr' = i + 1 /\ r > 1
      BY <1>1, <1>2, <3>1, <3>2
    <3> QED
      BY <3>2, <3>3
  <2>5. before.input # << >>
    <3>1. Len(mem \o input) = Len(mem) + Len(input) /\ Len(input) \in Nat /\ Len(mem) \in Nat /\ Len(input) # 0
      BY <1>1, <1>6
    <3>2. Len(mem \o input) # 0
      BY <3>1
    <3>3. mem \o input # << >>
      BY <3>2
    <3> QED
      BY <1>2, <3>3
  <2>6. CASE Head(input) = NewLine
    <3>1. readerPc' = "line" /\ mem' = NextLine(before'.input)
      BY <1>1, <1>2, <1>6, <2>1, <2>2, <2>6
    <3> QED
      BY <1>1, <2>3, <2>4, <2>5, <3>1 DEF ReaderInv, ReaderTypes, ReaderInside, ReaderLine, ReaderEnd
  <2>7. CASE Head(input) # NewLine
    <3>1. readerPc' = loop /\ Unbroken(mem')
      BY <1>6, <2>1, <2>2, <2>7
    <3> QED
      BY <1>1, <1>2, <2>3, <2>4, <3>1 DEF ReaderInv, ReaderTypes, ReaderInside, ReaderLine, ReaderEnd
  <2> QED
    BY <2>6, <2>7
<1> QED
  BY <1>4, <1>5, <1>6 DEF Loop

LEMMA GrowKeeps == ASSUME LineReaderAssumption, ReaderInv, Grow PROVE ReaderInv'
<1>1. /\ input \in Seq(Chars) /\ mem \in Seq(Chars) /\ sz \in Nat /\ linePtr = Len(mem) /\ linePtr \in Nat
      /\ before \in [input : Seq(Chars), sz : Nat] /\ room \in Nat
      /\ input' = input /\ mem' = mem /\ before' = before
  BY DEF ReaderInv, ReaderTypes, Grow
<1>2. /\ mem \o input = before.input /\ Unbroken(mem) /\ linePtr = sz - 1 /\ (sz = 1 => before.sz = 1)
  BY DEF ReaderInv, ReaderInside, Grow
<1>3. CASE sz' = 2 * sz /\ linePtr' = Resume(sz) /\ room' = sz + 1 /\ readerPc' = "more" /\ UNCHANGED err
  <2>1. /\ sz' \in Nat /\ linePtr' = linePtr /\ room' \in Nat /\ room' > 0 /\ room' + linePtr' = sz' /\ sz' > 1
        /\ linePtr' = 0 => before.sz = 1
    BY <1>1, <1>2, <1>3 DEF Resume
  <2>2. err' \in BOOLEAN
    BY <1>3 DEF ReaderInv, ReaderTypes
  <2> QED
    BY <1>1, <1>2, <1>3, <2>1, <2>2 DEF ReaderInv, ReaderTypes, ReaderInside, ReaderLine, ReaderEnd
<1>4. CASE sz' = 0 /\ err' = TRUE /\ readerPc' = "null" /\ UNCHANGED <<linePtr, room>>
  BY <1>1, <1>4 DEF ReaderInv, ReaderTypes, ReaderInside, ReaderLine, ReaderEnd
<1> QED
  BY <1>3, <1>4 DEF Grow

LEMMA ReaderInvStep ==
  ASSUME LineReaderAssumption, ReaderInv, [ReaderNext]_readerVars
  PROVE  ReaderInv'
<1>1. CASE UNCHANGED readerVars
  BY <1>1 DEF readerVars, ReaderInv, ReaderTypes, ReaderInside, ReaderLine, ReaderEnd
<1> QED
  BY <1>1, CallKeeps, LoopKeeps, GrowKeeps DEF ReaderNext

LEMMA ReaderInvWhole == ASSUME ReaderInv PROVE LinesWhole
<1>1. mem \in Seq(Chars) /\ linePtr = Len(mem)
  BY DEF ReaderInv, ReaderTypes
<1>2. SubSeq(mem, 1, linePtr) = mem
  BY <1>1
<1> QED
  BY <1>2 DEF ReaderInv, ReaderLine, ReaderEnd, LinesWhole

\* st_fgets gives the lines of a file whole and none twice: for a file of any length,
\* lines of any length, and whatever buffer is brought, in however many doublings.
THEOREM LinesAreWhole ==
  ASSUME LineReaderAssumption
  PROVE  ReaderInit /\ [][ReaderNext]_readerVars => []LinesWhole
<1>1. ReaderInit => ReaderInv
  BY ReaderInvInit
<1>2. ReaderInv /\ [ReaderNext]_readerVars => ReaderInv'
  BY ReaderInvStep
<1>3. ReaderInv => LinesWhole
  BY ReaderInvWhole
<1> QED
  BY <1>1, <1>2, <1>3, PTL
-----------------------------------------------------------------------------
(* Blocks of aligned memory.                                                *)

\* A block of that size and alignment at the offset p, w words of it written.
BlockSound(at, words, p, alignment, extent, w) ==
  /\ at \in Nat /\ alignment \in Nat \ {0} /\ extent \in Nat /\ w \in 0 .. extent
  /\ p \in HEADER .. alignment + 2 /\ (at + p) % alignment = 0
  /\ DOMAIN words = 0 .. Whole(extent, alignment) - 1
  /\ words[p - 1] = p /\ words[p - 2] = alignment /\ words[p - 3] = extent
  /\ \A i \in 0 .. w - 1 : words[p + i] = Content(i)

AlignedInv ==
  /\ outside \in BOOLEAN
  /\ outside => ptr # NoBlock /\ (call.to < call.from \/ call.alignment < call.was)
  /\ BlockHeld => BlockSound(base, cells, ptr, call.alignment, call.to, written)

\* The offset leaves room for the header, is within the padding and aligns the address.
LEMMA OffsetIs ==
  ASSUME NEW at \in Nat, NEW alignment \in Nat \ {0}
  PROVE  Offset(at, alignment) \in HEADER .. alignment + 2 /\ (at + Offset(at, alignment)) % alignment = 0
<1> DEFINE x == at + Padding(alignment)
<1>1. x = at + alignment + 2 /\ x \in Nat
  BY DEF Padding, HEADER
<1>2. PICK q \in Int, m \in 0 .. alignment - 1 : q = x \div alignment /\ x = alignment * q + m
  <2>1. \A y \in Nat : /\ y \div alignment \in Int /\ y % alignment \in 0 .. alignment - 1
                      /\ y = alignment * (y \div alignment) + (y % alignment)
    OBVIOUS
  <2> HIDE DEF x
  <2> QED
    BY <1>1, <2>1
<1>3. PICK product \in Int : product = alignment * q /\ product = (x \div alignment) * alignment
  <2>1. alignment * q \in Int /\ q * alignment = alignment * q
    OBVIOUS
  <2> QED
    BY <1>2, <2>1
<1>4. Offset(at, alignment) = product - at
  BY <1>2, <1>3 DEF Offset
<1>5. product - at = alignment + 2 - m
  BY <1>1, <1>2, <1>3
<1>6. (at + (product - at)) % alignment = 0
  <2>1. product = alignment * q + 0 /\ at + (product - at) = product
    BY <1>3
  <2> QED
    BY <2>1, RemainderUnique
<1> QED
  BY <1>2, <1>4, <1>5, <1>6 DEF HEADER

\* The header is written in front of the block, and nothing else is.
LEMMA HeaderIs ==
  ASSUME NEW old, NEW n \in Nat, DOMAIN old = 0 .. n - 1, NEW p \in HEADER .. n, NEW alignment, NEW extent
  PROVE  /\ DOMAIN WithHeader(old, p, alignment, extent) = 0 .. n - 1
         /\ WithHeader(old, p, alignment, extent)[p - 1] = p
         /\ WithHeader(old, p, alignment, extent)[p - 2] = alignment
         /\ WithHeader(old, p, alignment, extent)[p - 3] = extent
         /\ \A k \in p .. n - 1 : WithHeader(old, p, alignment, extent)[k] = old[k]
<1>1. /\ p - 1 \in 0 .. n - 1 /\ p - 2 \in 0 .. n - 1 /\ p - 3 \in 0 .. n - 1
      /\ p - 1 # p - 2 /\ p - 1 # p - 3 /\ p - 2 # p - 3
      /\ \A k \in p .. n - 1 : k \in 0 .. n - 1 /\ k # p - 1 /\ k # p - 2 /\ k # p - 3
  BY DEF HEADER
<1> QED
  BY <1>1 DEF WithHeader

LEMMA MallocKeeps ==
  ASSUME AlignedMemAssumption, AlignedInv,
         NEW at \in Bases, NEW extent \in BlockSizes, NEW alignment \in Alignments,
         st_aligned_malloc_impl(at, extent, alignment)
  PROVE  AlignedInv'
<1> DEFINE p == Offset(at, alignment)
           n == Whole(extent, alignment)
           fresh == [k \in 0 .. n - 1 |-> Junk]
<1>1. at \in Nat /\ extent \in Nat /\ alignment \in Nat \ {0}
  BY DEF AlignedMemAssumption
<1>2. p \in HEADER .. alignment + 2 /\ (at + p) % alignment = 0
  BY <1>1, OffsetIs
<1>3. n \in Nat /\ n = extent + alignment + 2
  BY <1>1 DEF Whole, Padding, HEADER
<1>4. /\ base' = at /\ ptr' = p /\ cells' = WithHeader(fresh, p, alignment, extent)
      /\ call' = [from |-> 0, to |-> extent, was |-> 0, alignment |-> alignment]
      /\ written' = 0 /\ outside' = FALSE
  BY DEF st_aligned_malloc_impl
<1>5. DOMAIN fresh = 0 .. n - 1
  OBVIOUS
<1> HIDE DEF fresh, n, p
<1>6. p \in HEADER .. n
  BY <1>1, <1>2, <1>3 DEF HEADER
<1>7. /\ DOMAIN cells' = 0 .. n - 1 /\ cells'[p - 1] = p /\ cells'[p - 2] = alignment /\ cells'[p - 3] = extent
  BY <1>3, <1>4, <1>5, <1>6, HeaderIs
<1>8. BlockSound(base', cells', ptr', call'.alignment, call'.to, written')
  BY <1>1, <1>2, <1>4, <1>7 DEF BlockSound, n
<1> QED
  BY <1>4, <1>8 DEF AlignedInv, BlockHeld

LEMMA FillKeeps == ASSUME AlignedInv, Fill PROVE AlignedInv'
<1> DEFINE extent == call.to
           n == Whole(extent, call.alignment)
<1>1. /\ BlockSound(base, cells, ptr, call.alignment, extent, written) /\ BlockHeld
      /\ base' = base /\ ptr' = ptr /\ call' = call /\ outside' = outside
  BY DEF Fill, AlignedInv
<1>2. /\ extent \in Nat /\ call.alignment \in Nat \ {0} /\ ptr \in HEADER .. call.alignment + 2
      /\ DOMAIN cells = 0 .. n - 1 /\ cells[ptr - 3] = extent
      /\ n = extent + call.alignment + 2 /\ ptr \in Nat
  BY <1>1 DEF BlockSound, Whole, Padding, HEADER
<1>3. st_aligned_size = extent
  BY <1>1, <1>2 DEF st_aligned_size, Field, BlockHeld
<1>4. /\ written' = extent
      /\ cells' = [k \in 0 .. n - 1 |-> IF k >= ptr /\ k < ptr + extent THEN Content(k - ptr) ELSE cells[k]]
  BY <1>2, <1>3 DEF Fill
<1> HIDE DEF n, extent
<1>5. /\ DOMAIN cells' = 0 .. n - 1
      /\ cells'[ptr - 1] = cells[ptr - 1] /\ cells'[ptr - 2] = cells[ptr - 2] /\ cells'[ptr - 3] = cells[ptr - 3]
  BY <1>2, <1>4 DEF HEADER
<1>6. ASSUME NEW i \in 0 .. extent - 1 PROVE cells'[ptr + i] = Content(i)
  <2>1. ptr + i \in 0 .. n - 1 /\ ptr + i >= ptr /\ ptr + i < ptr + extent /\ (ptr + i) - ptr = i
    BY <1>2 DEF HEADER
  <2> QED
    BY <1>4, <2>1
<1>7. BlockSound(base', cells', ptr', call'.alignment, call'.to, written')
  BY <1>1, <1>2, <1>4, <1>5, <1>6 DEF BlockSound, n, extent
<1> QED
  BY <1>1, <1>7 DEF AlignedInv

\* A block of realloc that keeps its place in the memory of malloc.
LEMMA ReallocInPlace ==
  ASSUME NEW at \in Nat, NEW extent \in Nat, NEW alignment \in Nat \ {0}, NEW was \in Nat,
         BlockSound(base, cells, ptr, alignment, was, written),
         (at + ptr) % alignment = 0
  PROVE  BlockSound(at, WithHeader(Resized(cells, Whole(extent, alignment)), ptr, alignment, extent),
                    ptr, alignment, extent, IF written < extent THEN written ELSE extent)
<1> DEFINE n == Whole(extent, alignment)
           resized == Resized(cells, n)
           new == WithHeader(resized, ptr, alignment, extent)
           w == IF written < extent THEN written ELSE extent
<1>1. /\ ptr \in HEADER .. alignment + 2 /\ written \in 0 .. was /\ ptr \in Nat /\ written \in Nat
      /\ DOMAIN cells = 0 .. was + alignment + 1
      /\ \A i \in 0 .. written - 1 : cells[ptr + i] = Content(i)
  BY DEF BlockSound, Whole, Padding, HEADER
<1>2. n \in Nat /\ n = extent + alignment + 2 /\ ptr \in HEADER .. n
  BY <1>1 DEF Whole, Padding, HEADER
<1>3. /\ DOMAIN resized = 0 .. n - 1
      /\ \A k \in 0 .. n - 1 : k \in DOMAIN cells => resized[k] = cells[k]
  BY DEF Resized
<1>4. w \in 0 .. extent /\ w \in 0 .. written /\ w \in Nat
  BY <1>1
<1> HIDE DEF n, resized, w
<1>5. /\ DOMAIN new = 0 .. n - 1 /\ new[ptr - 1] = ptr /\ new[ptr - 2] = alignment /\ new[ptr - 3] = extent
      /\ \A k \in ptr .. n - 1 : new[k] = resized[k]
  BY SMTT(30), <1>2, <1>3, HeaderIs
<1> HIDE DEF new
<1>6. ASSUME NEW i \in 0 .. w - 1 PROVE new[ptr + i] = Content(i)
  <2>1. i \in 0 .. written - 1 /\ ptr + i \in ptr .. n - 1 /\ ptr + i \in 0 .. n - 1
    BY <1>1, <1>2, <1>4 DEF HEADER
  <2>2. ptr + i \in DOMAIN cells
    BY <1>1, <2>1 DEF HEADER
  <2> QED
    BY <1>1, <1>3, <1>5, <2>1, <2>2
<1>7. DOMAIN new = 0 .. Whole(extent, alignment) - 1
  BY <1>5 DEF n
<1>8. BlockSound(at, new, ptr, alignment, extent, w)
  BY <1>1, <1>4, <1>5, <1>6, <1>7 DEF BlockSound
<1> QED
  BY <1>8 DEF new, resized, n, w

\* A block of realloc that is moved, within its memory, to the place its alignment asks for.
LEMMA ReallocMoves ==
  ASSUME NEW at \in Nat, NEW extent \in Nat, NEW alignment \in Nat \ {0}, NEW wasAligned, NEW was \in Nat,
         BlockSound(base, cells, ptr, wasAligned, was, written),
         NEW to \in HEADER .. alignment + 2, (at + to) % alignment = 0,
         ~LeavesBlock(Resized(cells, Whole(extent, alignment)), ptr, to, was)
  PROVE  BlockSound(at, WithHeader(Moved(Resized(cells, Whole(extent, alignment)), ptr, to, was), to, alignment, extent),
                    to, alignment, extent, IF written < extent THEN written ELSE extent)
<1> DEFINE n == Whole(extent, alignment)
           resized == Resized(cells, n)
           moved == Moved(resized, ptr, to, was)
           new == WithHeader(moved, to, alignment, extent)
           w == IF written < extent THEN written ELSE extent
<1>1. /\ ptr \in HEADER .. wasAligned + 2 /\ written \in 0 .. was /\ ptr \in Nat /\ written \in Nat
      /\ wasAligned \in Nat /\ DOMAIN cells = 0 .. was + wasAligned + 1
      /\ \A i \in 0 .. written - 1 : cells[ptr + i] = Content(i)
  BY DEF BlockSound, Whole, Padding, HEADER
<1>2. n \in Nat /\ n = extent + alignment + 2 /\ to \in HEADER .. n /\ to \in Nat
  BY DEF Whole, Padding, HEADER
<1>3. /\ DOMAIN resized = 0 .. n - 1
      /\ \A k \in 0 .. n - 1 : k \in DOMAIN cells => resized[k] = cells[k]
  BY DEF Resized
<1>4. w \in 0 .. extent /\ w \in 0 .. written /\ w \in Nat
  BY <1>1
<1>5. Cardinality(0 .. n - 1) = n
  BY <1>2, FS_Interval
<1>6. ptr + was <= n /\ to + was <= n
  BY <1>1, <1>2, <1>3, <1>5 DEF LeavesBlock
<1> HIDE DEF n, resized, w
<1>7. /\ DOMAIN moved = 0 .. n - 1
      /\ \A k \in 0 .. n - 1 : k - to \in 0 .. was - 1 /\ k - to + ptr \in 0 .. n - 1
                              => moved[k] = resized[k - to + ptr]
  BY <1>3 DEF Moved
<1> HIDE DEF moved
<1>8. /\ DOMAIN new = 0 .. n - 1 /\ new[to - 1] = to /\ new[to - 2] = alignment /\ new[to - 3] = extent
      /\ \A k \in to .. n - 1 : new[k] = moved[k]
  BY <1>2, <1>7, HeaderIs
<1> HIDE DEF new
<1>9. ASSUME NEW i \in 0 .. w - 1 PROVE new[to + i] = Content(i)
  <2>1. i \in 0 .. written - 1 /\ i \in 0 .. was - 1 /\ to + i \in to .. n - 1 /\ to + i \in 0 .. n - 1
    BY <1>1, <1>2, <1>4, <1>6 DEF HEADER
  <2>2. (to + i) - to = i /\ (to + i) - to + ptr = ptr + i /\ ptr + i \in 0 .. n - 1
    BY <1>1, <1>2, <1>6, <2>1
  <2>3. ptr + i \in DOMAIN cells
    BY <1>1, <2>1 DEF HEADER
  <2>4. new[to + i] = moved[to + i] /\ moved[to + i] = resized[ptr + i]
    BY <1>7, <1>8, <2>1, <2>2
  <2>5. resized[ptr + i] = cells[ptr + i] /\ cells[ptr + i] = Content(i)
    BY <1>1, <1>3, <2>1, <2>2, <2>3
  <2> QED
    BY <2>4, <2>5
<1>10. DOMAIN new = 0 .. Whole(extent, alignment) - 1
  BY <1>8 DEF n
<1>11. BlockSound(at, new, to, alignment, extent, w)
  BY <1>4, <1>8, <1>9, <1>10 DEF BlockSound
<1> QED
  BY <1>11 DEF new, moved, resized, n, w

\* A call that neither shrinks the block nor lowers its alignment moves nothing that is
\* not in its memory.
LEMMA StaysInside ==
  ASSUME NEW extent \in Nat, NEW alignment \in Nat \ {0}, NEW wasAligned, NEW was \in Nat,
         BlockSound(base, cells, ptr, wasAligned, was, written),
         NEW to \in HEADER .. alignment + 2,
         ~(extent < was), ~(alignment < wasAligned)
  PROVE  ~LeavesBlock(Resized(cells, Whole(extent, alignment)), ptr, to, was)
<1> DEFINE n == Whole(extent, alignment)
<1>1. ptr \in HEADER .. wasAligned + 2 /\ wasAligned \in Nat
  BY DEF BlockSound
<1>2. n \in Nat /\ n = extent + alignment + 2
  BY DEF Whole, Padding, HEADER
<1>3. DOMAIN Resized(cells, n) = 0 .. n - 1
  BY DEF Resized
<1>4. Cardinality(0 .. n - 1) = n
  BY <1>2, FS_Interval
<1> HIDE DEF n
<1>5. ptr + was <= n /\ to + was <= n
  BY <1>1, <1>2 DEF HEADER
<1>6. ~LeavesBlock(Resized(cells, n), ptr, to, was)
  BY <1>1, <1>2, <1>3, <1>4, <1>5 DEF LeavesBlock, HEADER
<1> QED
  BY <1>6 DEF n

LEMMA ReallocKeeps ==
  ASSUME AlignedMemAssumption, AlignedInv, BlockHeld,
         NEW at \in Bases, NEW extent \in BlockSizes, NEW alignment \in Alignments,
         st_aligned_realloc_impl(at, extent, alignment)
  PROVE  AlignedInv'
<1> DEFINE resized == Resized(cells, Whole(extent, alignment))
           to == Offset(at, alignment)
           w == IF written < extent THEN written ELSE extent
<1>1. at \in Nat /\ extent \in Nat /\ alignment \in Nat \ {0}
  BY DEF AlignedMemAssumption
<1>2. PICK wasAligned, was : wasAligned = call.alignment /\ was = call.to
  OBVIOUS
<1>3. BlockSound(base, cells, ptr, wasAligned, was, written)
  BY <1>2 DEF AlignedInv
<1>4. /\ was \in Nat /\ Field(cells, ptr, 1) = ptr /\ Field(cells, ptr, 2) = wasAligned
      /\ Field(cells, ptr, 3) = was /\ (base + ptr) % wasAligned = 0
      /\ ptr \in Nat /\ ptr # NoBlock
  BY <1>3 DEF BlockSound, Field, HEADER, NoBlock
<1>5. /\ to \in HEADER .. alignment + 2 /\ (at + to) % alignment = 0 /\ to # NoBlock
  <2>1. to \in HEADER .. alignment + 2 /\ (at + to) % alignment = 0
    BY <1>1, OffsetIs
  <2> HIDE DEF to
  <2> QED
    BY <1>1, <2>1 DEF HEADER, NoBlock
<1>6. /\ base' = at /\ written' = w
      /\ call' = [from |-> was, to |-> extent, was |-> wasAligned, alignment |-> alignment]
  BY <1>4 DEF st_aligned_realloc_impl
<1>7. CASE /\ alignment = wasAligned /\ (at = base \/ (at + ptr) % alignment = 0)
           /\ ptr' = ptr /\ cells' = WithHeader(resized, ptr, alignment, extent) /\ outside' = outside
  <2>1. (at + ptr) % alignment = 0
    BY <1>4, <1>7
  <2>2. BlockSound(at, WithHeader(resized, ptr, alignment, extent), ptr, alignment, extent, w)
    BY <1>1, <1>3, <1>4, <1>7, <2>1, ReallocInPlace
  <2> HIDE DEF resized, w
  <2>3. BlockSound(base', cells', ptr', call'.alignment, call'.to, written')
    BY <1>6, <1>7, <2>2
  <2>4. outside' = FALSE
    BY <1>7 DEF BlockHeld, AlignedInv
  <2> QED
    BY <2>3, <2>4 DEF AlignedInv
<1>8. CASE /\ ptr' = to /\ cells' = WithHeader(Moved(resized, ptr, to, was), to, alignment, extent)
           /\ outside' = LeavesBlock(resized, ptr, to, was)
  <2>1. outside' \in BOOLEAN
    BY <1>8 DEF LeavesBlock
  <2>2. CASE LeavesBlock(resized, ptr, to, was)
    <3>1. extent < was \/ alignment < wasAligned
      BY <1>1, <1>3, <1>4, <1>5, <2>2, StaysInside
    <3> HIDE DEF resized, to
    <3>2. outside' = TRUE /\ ptr' # NoBlock
      BY <1>5, <1>8, <2>2, <2>1
    <3> QED
      BY <1>6, <3>1, <3>2 DEF AlignedInv, BlockHeld
  <2>3. CASE ~LeavesBlock(resized, ptr, to, was)
    <3>1. BlockSound(at, WithHeader(Moved(resized, ptr, to, was), to, alignment, extent), to, alignment, extent, w)
      BY <1>1, <1>3, <1>4, <1>5, <2>3, ReallocMoves
    <3> HIDE DEF resized, to, w
    <3>2. BlockSound(base', cells', ptr', call'.alignment, call'.to, written')
      BY <1>6, <1>8, <3>1
    <3>3. outside' = FALSE
      BY <1>8, <2>3, <2>1
    <3> QED
      BY <3>2, <3>3 DEF AlignedInv
  <2> QED
    BY <2>2, <2>3
<1> HIDE DEF resized, to, w
<1> QED
  BY <1>4, <1>7, <1>8 DEF st_aligned_realloc_impl, resized, to

LEMMA FreeKeeps == ASSUME AlignedInv, st_aligned_free PROVE AlignedInv'
  BY DEF AlignedInv, st_aligned_free, BlockHeld

LEMMA AlignedStep ==
  ASSUME AlignedMemAssumption, AlignedInv, [AlignedNext]_alignedVars
  PROVE  AlignedInv'
<1>1. ASSUME NEW at \in Bases, NEW extent \in BlockSizes, NEW alignment \in Alignments,
             st_aligned_malloc_impl(at, extent, alignment)
      PROVE  AlignedInv'
  BY <1>1, MallocKeeps
<1>2. ASSUME NEW at \in Bases, NEW extent \in BlockSizes, NEW alignment \in Alignments,
             BlockHeld, st_aligned_realloc_impl(at, extent, alignment)
      PROVE  AlignedInv'
  BY <1>2, ReallocKeeps
<1>3. CASE UNCHANGED alignedVars
  BY <1>3 DEF alignedVars, AlignedInv, BlockHeld, BlockSound
<1> QED
  BY <1>1, <1>2, <1>3, FillKeeps, FreeKeeps DEF AlignedNext

LEMMA AlignedInvKept == ASSUME AlignedInv PROVE ContentKept
<1>1. CASE outside
  BY <1>1 DEF AlignedInv, ContentKept
<1>2. CASE ~outside /\ ptr = NoBlock
  BY <1>2 DEF ContentKept
<1>3. CASE ~outside /\ ptr # NoBlock
  <2>1. BlockSound(base, cells, ptr, call.alignment, call.to, written)
    BY <1>3 DEF AlignedInv, BlockHeld
  <2>2. PICK p, alignment, extent, n :
          p = ptr /\ alignment = call.alignment /\ extent = call.to /\ n = Whole(extent, alignment)
    OBVIOUS
  <2>3. /\ alignment \in Nat \ {0} /\ extent \in Nat /\ p \in HEADER .. alignment + 2
        /\ DOMAIN cells = 0 .. n - 1 /\ n = extent + alignment + 2
    BY <2>1, <2>2 DEF BlockSound, Whole, Padding, HEADER
  <2>4. st_aligned_alignment = alignment /\ st_aligned_size = extent
    BY <1>3, <2>1, <2>2 DEF BlockSound, st_aligned_alignment, st_aligned_size, Field
  <2>5. Cardinality(0 .. n - 1) = n
    BY <2>3, FS_Interval
  <2>6. p >= HEADER /\ p + extent <= n
    BY <2>3 DEF HEADER
  <2>7. ptr >= HEADER /\ ptr + st_aligned_size <= Cardinality(DOMAIN cells)
    BY <2>2, <2>3, <2>4, <2>5, <2>6
  <2>8. Field(cells, ptr, 1) = ptr /\ (base + ptr) % st_aligned_alignment = 0
    BY <2>1, <2>2, <2>4 DEF BlockSound, Field
  <2>9. \A i \in 0 .. written - 1 : cells[ptr + i] = Content(i)
    BY <2>1 DEF BlockSound
  <2> QED
    BY <1>3, <2>2, <2>4, <2>7, <2>8, <2>9 DEF ContentKept
<1>4. outside \in BOOLEAN
  BY DEF AlignedInv
<1> QED
  BY <1>1, <1>2, <1>3, <1>4

\* A block lies aligned within the memory it was given, with its size in front of it and
\* what was written to it in it, wherever realloc moves it and however its alignment
\* changes; words outside its memory are moved only by a call that shrinks it or lowers
\* its alignment (st_aligned_malloc, st_aligned_realloc and their REALIGN).
THEOREM BlocksKeepContent ==
  ASSUME AlignedMemAssumption
  PROVE  AlignedInit /\ [][AlignedNext]_alignedVars => []ContentKept
<1>1. AlignedInit => AlignedInv
  BY DEF AlignedInit, AlignedInv, BlockHeld
<1>2. AlignedInv /\ [AlignedNext]_alignedVars => AlignedInv'
  BY AlignedStep
<1>3. AlignedInv => ContentKept
  BY AlignedInvKept
<1> QED
  BY <1>1, <1>2, <1>3, PTL

-----------------------------------------------------------------------------
(* Unions of segments, and sorted arrays.                                   *)

SegSet == [s : Nat, e : Nat]

\* A union in order whose segments do not touch.
Apart(segs) ==
  /\ segs \in Seq(SegSet)
  /\ \A k \in 1 .. Len(segs) : segs[k].s < segs[k].e /\ segs[k].e <= Ring
  /\ \A k, l \in 1 .. Len(segs) : k < l => segs[k].e < segs[l].s

\* The elements from the i-th to the j-th give way to x.
Spliced(old, i, j, x) == Before(old, i) \o <<x>> \o From(old, j + 1)

\* new is the elements of old before the i-th, x, and those after the j-th.
Splices(S, new, old, i, j, x) ==
  /\ new \in Seq(S) /\ Len(new) = i + (Len(old) - j)
  /\ \A k \in 1 .. i - 1 : new[k] = old[k]
  /\ new[i] = x
  /\ \A k \in i + 1 .. i + (Len(old) - j) : new[k] = old[(k - i) + j]

LEMMA SplicedIs ==
  ASSUME NEW S, NEW old \in Seq(S), NEW x \in S, NEW i \in 1 .. Len(old) + 1, NEW j \in i - 1 .. Len(old)
  PROVE  Splices(S, Spliced(old, i, j, x), old, i, j, x)
<1> DEFINE n == Len(old)
           front == Before(old, i)
           back == From(old, j + 1)
           head == front \o <<x>>
<1>1. n \in Nat /\ i \in Nat /\ j \in Int /\ \A k \in 1 .. n : old[k] \in S
  BY ElementOfSeq, LenProperties
<1>2. front \in Seq(S) /\ Len(front) = i - 1 /\ \A k \in 1 .. i - 1 : front[k] = old[k]
  <2>1. \A k \in 1 .. i - 1 : old[k] \in S
    BY <1>1
  <2>2. /\ SubSeq(old, 1, i - 1) \in Seq(S)
        /\ Len(SubSeq(old, 1, i - 1)) = IF 1 <= i - 1 THEN (i - 1) - 1 + 1 ELSE 0
        /\ \A k \in 1 .. (i - 1) - 1 + 1 : SubSeq(old, 1, i - 1)[k] = old[1 + k - 1]
    BY <1>1, <2>1, SubSeqProperties
  <2>3. \A k \in 1 .. i - 1 : k \in 1 .. (i - 1) - 1 + 1 /\ 1 + k - 1 = k
    BY <1>1
  <2>4. Len(front) = i - 1
    BY <1>1, <2>2 DEF Before
  <2> QED
    BY <2>2, <2>3, <2>4 DEF Before
<1>3. back \in Seq(S) /\ Len(back) = n - j /\ \A k \in 1 .. n - j : back[k] = old[k + j]
  <2>1. \A k \in j + 1 .. n : old[k] \in S
    BY <1>1
  <2>2. /\ SubSeq(old, j + 1, n) \in Seq(S)
        /\ Len(SubSeq(old, j + 1, n)) = IF j + 1 <= n THEN n - (j + 1) + 1 ELSE 0
        /\ \A k \in 1 .. n - (j + 1) + 1 : SubSeq(old, j + 1, n)[k] = old[(j + 1) + k - 1]
    BY <1>1, <2>1, SubSeqProperties
  <2>3. \A k \in 1 .. n - j : k \in 1 .. n - (j + 1) + 1 /\ (j + 1) + k - 1 = k + j
    BY <1>1
  <2>4. Len(back) = n - j
    BY <1>1, <2>2 DEF From
  <2> QED
    BY <2>2, <2>3, <2>4 DEF From
<1> HIDE DEF front, back
<1>4. <<x>> \in Seq(S) /\ Len(<<x>>) = 1 /\ <<x>>[1] = x
  OBVIOUS
<1>5. /\ head \in Seq(S) /\ Len(head) = i
      /\ \A k \in 1 .. i - 1 : head[k] = old[k]
      /\ head[i] = x
  <2>1. /\ head \in Seq(S) /\ Len(head) = (i - 1) + 1
        /\ \A k \in 1 .. (i - 1) + 1 : head[k] = IF k <= i - 1 THEN front[k] ELSE <<x>>[k - (i - 1)]
    BY <1>2, <1>4, ConcatProperties
  <2> HIDE DEF head
  <2>2. i \in 1 .. (i - 1) + 1 /\ ~(i <= i - 1) /\ i - (i - 1) = 1 /\ (i - 1) + 1 = i
    BY <1>1
  <2>3. \A k \in 1 .. i - 1 : k \in 1 .. (i - 1) + 1 /\ k <= i - 1
    BY <1>1
  <2> QED
    BY <1>2, <1>4, <2>1, <2>2, <2>3
<1> HIDE DEF head
<1>6. /\ head \o back \in Seq(S) /\ Len(head \o back) = i + (n - j)
      /\ \A k \in 1 .. i + (n - j) : (head \o back)[k] = IF k <= i THEN head[k] ELSE back[k - i]
  <2>1. /\ head \o back \in Seq(S) /\ Len(head \o back) = Len(head) + Len(back)
        /\ \A k \in 1 .. Len(head) + Len(back) :
             (head \o back)[k] = IF k <= Len(head) THEN head[k] ELSE back[k - Len(head)]
    BY <1>3, <1>5, ConcatProperties
  <2> QED
    BY <1>3, <1>5, <2>1
<1>7. Spliced(old, i, j, x) = head \o back
  BY DEF Spliced, head, front, back
<1> DEFINE new == head \o back
<1>8. /\ \A k \in 1 .. i : k \in 1 .. i + (n - j) /\ k <= i
      /\ \A k \in 1 .. i - 1 : k \in 1 .. i
      /\ i \in 1 .. i
  BY <1>1
<1>9. \A k \in i + 1 .. i + (n - j) : k \in 1 .. i + (n - j) /\ ~(k <= i) /\ k - i \in 1 .. n - j
  BY <1>1
<1> HIDE DEF new
<1>10. (\A k \in 1 .. i - 1 : new[k] = old[k]) /\ new[i] = x
  BY <1>5, <1>6, <1>8 DEF new
<1>11. ASSUME NEW k \in i + 1 .. i + (n - j) PROVE new[k] = old[(k - i) + j]
  <2>1. new[k] = back[k - i]
    BY <1>6, <1>9 DEF new
  <2>2. back[k - i] = old[(k - i) + j]
    BY <1>3, <1>9
  <2> QED
    BY <2>1, <2>2
<1> HIDE DEF n
<1>12. /\ new \in Seq(S) /\ Len(new) = i + (n - j)
       /\ (\A k \in 1 .. i - 1 : new[k] = old[k]) /\ new[i] = x
       /\ \A k \in i + 1 .. i + (n - j) : new[k] = old[(k - i) + j]
  BY <1>6, <1>10, <1>11 DEF new
<1> QED
  BY <1>7, <1>12 DEF new, n, Splices

\* The first of some places of an array.
LEMMA FirstOfIs ==
  ASSUME NEW S, NEW array \in Seq(S), NEW lo \in 1 .. Len(array) + 1,
         NEW places \in SUBSET (lo .. Len(array))
  PROVE  /\ FirstOf(places, array) \in lo .. Len(array) + 1
         /\ FirstOf(places, array) <= Len(array) => FirstOf(places, array) \in places
         /\ \A k \in lo .. Len(array) : k < FirstOf(places, array) => k \notin places
<1>1. Len(array) \in Nat
  BY LenProperties
<1>2. CASE places = {}
  BY <1>1, <1>2 DEF FirstOf
<1>3. CASE places # {}
  <2>1. places \subseteq Nat
    BY <1>1
  <2>2. Min(places) \in places /\ \A k \in places : Min(places) <= k
    BY <1>3, <2>1, LeastNatural
  <2>3. FirstOf(places, array) = Min(places)
    BY <1>3 DEF FirstOf
  <2>4. PICK first \in lo .. Len(array) : first = Min(places)
    BY <2>2
  <2>5. \A k \in lo .. Len(array) : k < first => k \notin places
    BY <1>1, <2>1, <2>2, <2>4
  <2> QED
    BY <1>1, <2>2, <2>3, <2>4, <2>5
<1> QED
  BY <1>2, <1>3
\* What has its place between its neighbours leaves the union in order.
LEMMA SplicedApart ==
  ASSUME NEW old, Apart(old), NEW i \in 1 .. Len(old) + 1, NEW j \in i - 1 .. Len(old),
         NEW x \in SegSet, x.s < x.e, x.e <= Ring,
         \A k \in 1 .. i - 1 : old[k].e < x.s,
         \A k \in j + 1 .. Len(old) : x.e < old[k].s
  PROVE  Apart(Spliced(old, i, j, x))
<1> DEFINE n == Len(old)
           new == Spliced(old, i, j, x)
           m == i + (n - j)
<1>1. old \in Seq(SegSet) /\ n \in Nat /\ i \in Nat /\ j \in Int /\ Ring \in Nat
  BY LenProperties, SegmentsAssumption DEF Apart
<1>2. /\ new \in Seq(SegSet) /\ Len(new) = m
      /\ \A k \in 1 .. i - 1 : new[k] = old[k]
      /\ new[i] = x
      /\ \A k \in i + 1 .. m : new[k] = old[(k - i) + j]
  <2>1. Splices(SegSet, new, old, i, j, x)
    BY <1>1, SplicedIs
  <2> HIDE DEF new
  <2> QED
    BY <2>1 DEF Splices
<1>3. \A k \in 1 .. n : old[k].s \in Nat /\ old[k].e \in Nat
  <2>1. \A k \in 1 .. n : old[k] \in SegSet
    BY <1>1, ElementOfSeq
  <2> QED
    BY <2>1 DEF SegSet
<1>4. /\ \A k \in 1 .. n : old[k].s < old[k].e /\ old[k].e <= Ring
      /\ \A k, l \in 1 .. n : k < l => old[k].e < old[l].s
  BY DEF Apart
<1>5. x.s \in Nat /\ x.e \in Nat
  BY DEF SegSet
<1>6. \A k \in 1 .. i - 1 : k \in 1 .. n
  BY <1>1
<1>7. m \in Nat /\ \A k \in i + 1 .. m : (k - i) + j \in 1 .. n /\ (k - i) + j \in j + 1 .. n
  BY <1>1
<1> HIDE DEF new, n
<1>8. ASSUME NEW k \in 1 .. m PROVE new[k].s < new[k].e /\ new[k].e <= Ring
  <2>1. k \in 1 .. i - 1 \/ k = i \/ k \in i + 1 .. m
    BY <1>1, <1>7
  <2> QED
    BY <1>2, <1>4, <1>6, <1>7, <2>1
<1>9. ASSUME NEW k \in 1 .. m, NEW l \in 1 .. m, k < l PROVE new[k].e < new[l].s
  <2>1. CASE k \in 1 .. i - 1 /\ l \in 1 .. i - 1
    BY <1>2, <1>4, <1>6, <1>9, <2>1
  <2>2. CASE k \in 1 .. i - 1 /\ l = i
    BY <1>2, <2>2
  <2>3. CASE k \in 1 .. i - 1 /\ l \in i + 1 .. m
    <3>1. k < (l - i) + j
      BY <1>1, <1>7, <2>3
    <3> QED
      BY <1>2, <1>4, <1>6, <1>7, <2>3, <3>1
  <2>4. CASE k = i /\ l \in i + 1 .. m
    BY <1>2, <1>7, <2>4 DEF n
  <2>5. CASE k \in i + 1 .. m /\ l \in i + 1 .. m
    <3>1. (k - i) + j < (l - i) + j
      BY <1>1, <1>9, <2>5
    <3> QED
      BY <1>2, <1>4, <1>7, <2>5, <3>1
  <2> QED
    BY <1>1, <1>7, <1>9, <2>1, <2>2, <2>3, <2>4, <2>5
<1>10. Apart(new)
  BY <1>2, <1>8, <1>9 DEF Apart
<1> QED
  BY <1>10 DEF new

\* x covers the segment from s to e and the elements from the i-th to the j-th, and no more.
Joins(old, i, j, x, s, e) ==
  /\ x.s <= s /\ e <= x.e
  /\ \A k \in i .. j : x.s <= old[k].s /\ old[k].e <= x.e
  /\ \A p \in x.s .. x.e - 1 : p \in s .. e - 1 \/ \E k \in i .. j : old[k].s <= p /\ p < old[k].e

\* A union covers what those of its elements cover that stay, and what the new one does.
LEMMA SplicedPoints ==
  ASSUME NEW old, Apart(old), NEW i \in 1 .. Len(old) + 1, NEW j \in i - 1 .. Len(old),
         NEW x \in SegSet, NEW s \in Nat, NEW e \in Nat, e <= Ring, Joins(old, i, j, x, s, e)
  PROVE  Points(Spliced(old, i, j, x)) = Points(old) \cup (s .. e - 1)
<1> DEFINE n == Len(old)
           new == Spliced(old, i, j, x)
           m == i + (n - j)
<1>1. old \in Seq(SegSet) /\ n \in Nat /\ i \in Nat /\ j \in Int /\ Ring \in Nat /\ DOMAIN old = 1 .. n
  BY LenProperties, SegmentsAssumption DEF Apart
<1>2. /\ new \in Seq(SegSet) /\ Len(new) = m
      /\ \A k \in 1 .. i - 1 : new[k] = old[k]
      /\ new[i] = x
      /\ \A k \in i + 1 .. m : new[k] = old[(k - i) + j]
  <2>1. Splices(SegSet, new, old, i, j, x)
    BY <1>1, SplicedIs
  <2> HIDE DEF new
  <2> QED
    BY <2>1 DEF Splices
<1>3. DOMAIN new = 1 .. m /\ m \in Nat /\ i \in 1 .. m
  <2> HIDE DEF new
  <2> QED
    BY <1>1, <1>2, LenProperties
<1>4. x.s \in Nat /\ x.e \in Nat
  BY DEF SegSet
<1>5. \A k \in 1 .. n : old[k].s \in Nat /\ old[k].e \in Nat
  <2>1. \A k \in 1 .. n : old[k] \in SegSet
    BY <1>1, ElementOfSeq
  <2> QED
    BY <2>1 DEF SegSet
<1> HIDE DEF new, n
<1>6. ASSUME NEW p \in Points(new) PROVE p \in Points(old) \cup (s .. e - 1)
  <2>1. PICK k \in 1 .. m : p \in 0 .. Ring - 1 /\ new[k].s <= p /\ p < new[k].e
    BY <1>3 DEF Points
  <2>2. CASE k \in 1 .. i - 1
    <3>1. k \in 1 .. n
      BY <1>1, <2>2 DEF n
    <3> QED
      BY <1>1, <1>2, <2>1, <2>2, <3>1 DEF Points
  <2>3. CASE k = i
    <3>1. p \in x.s .. x.e - 1
      BY <1>2, <1>4, <2>1, <2>3
    <3>2. CASE p \in s .. e - 1
      BY <3>2
    <3>3. CASE \E l \in i .. j : old[l].s <= p /\ p < old[l].e
      <4>1. PICK l \in i .. j : old[l].s <= p /\ p < old[l].e
        BY <3>3
      <4>2. l \in 1 .. n
        BY <1>1 DEF n
      <4> QED
        BY <1>1, <2>1, <4>1, <4>2 DEF Points
    <3> QED
      BY <3>1, <3>2, <3>3 DEF Joins
  <2>4. CASE k \in i + 1 .. m
    <3>1. (k - i) + j \in 1 .. n
      BY <1>1, <2>4 DEF n
    <3> QED
      BY <1>1, <1>2, <2>1, <2>4, <3>1 DEF Points
  <2> QED
    BY <1>1, <1>3, <2>2, <2>3, <2>4
<1>7. ASSUME NEW p \in 0 .. Ring - 1, p \in x.s .. x.e - 1 PROVE p \in Points(new)
  <2>1. new[i].s <= p /\ p < new[i].e
    BY <1>2, <1>4, <1>7
  <2> QED
    BY <1>3, <2>1 DEF Points
<1>8. ASSUME NEW p \in s .. e - 1 PROVE p \in Points(new)
  <2>1. p \in 0 .. Ring - 1 /\ p \in x.s .. x.e - 1
    BY <1>1, <1>4 DEF Joins
  <2> QED
    BY <1>7, <2>1
<1>9. ASSUME NEW p \in Points(old) PROVE p \in Points(new)
  <2>1. PICK k \in 1 .. n : p \in 0 .. Ring - 1 /\ old[k].s <= p /\ p < old[k].e
    BY <1>1 DEF Points
  <2>2. CASE k \in 1 .. i - 1
    <3>1. k \in 1 .. m
      BY <1>1, <1>3, <2>2
    <3> QED
      BY <1>2, <1>3, <2>1, <2>2, <3>1 DEF Points
  <2>3. CASE k \in i .. j
    <3>1. x.s <= old[k].s /\ old[k].e <= x.e
      BY <2>3 DEF Joins
    <3>2. p \in x.s .. x.e - 1
      BY SMTT(30), <1>4, <1>5, <2>1, <3>1
    <3> QED
      BY <1>7, <2>1, <3>2
  <2>4. CASE k \in j + 1 .. n
    <3>1. (k - j) + i \in i + 1 .. m /\ (k - j) + i \in 1 .. m /\ (((k - j) + i) - i) + j = k
      BY <1>1, <2>4 DEF n
    <3>2. new[(k - j) + i] = old[k]
      BY <1>2, <3>1
    <3> QED
      BY <1>3, <2>1, <3>1, <3>2 DEF Points
  <2> QED
    BY <1>1, <2>2, <2>3, <2>4 DEF n
<1>10. Points(new) = Points(old) \cup (s .. e - 1)
  BY <1>6, <1>8, <1>9
<1> QED
  BY <1>10 DEF new
\* What an insertion has to answer.
Inserted(segs, s, e, r) ==
  /\ r.ok \in BOOLEAN
  /\ ~r.ok => r.segs = segs
  /\ r.ok => s < e /\ Apart(r.segs) /\ Points(r.segs) = Points(segs) \cup (s .. e - 1)

\* The elements between which a segment belongs, or which it joins.
LEMMA PlacesAre ==
  ASSUME NEW segs, Apart(segs), NEW s \in Nat, NEW e \in Nat, s < e
  PROVE  /\ Reaches(segs, s) \in 1 .. Len(segs) + 1
         /\ \A k \in 1 .. Reaches(segs, s) - 1 : segs[k].e < s
         /\ Reaches(segs, s) <= Len(segs) => s <= segs[Reaches(segs, s)].e
         /\ \A i \in 1 .. Len(segs) :
              /\ StartsAfter(segs, i, e) \in i + 1 .. Len(segs) + 1
              /\ \A k \in i + 1 .. StartsAfter(segs, i, e) - 1 : segs[k].s < e
              /\ StartsAfter(segs, i, e) <= Len(segs) => e <= segs[StartsAfter(segs, i, e)].s
<1> DEFINE n == Len(segs)
<1>1. segs \in Seq(SegSet) /\ n \in Nat
  BY LenProperties DEF Apart
<1>2. \A k \in 1 .. n : segs[k].s \in Nat /\ segs[k].e \in Nat
  <2>1. \A k \in 1 .. n : segs[k] \in SegSet
    BY <1>1, ElementOfSeq
  <2> QED
    BY <2>1 DEF SegSet
<1>3. PICK first : first = Reaches(segs, s)
  OBVIOUS
<1>4. /\ first \in 1 .. n + 1 /\ (\A k \in 1 .. first - 1 : segs[k].e < s)
      /\ first <= n => s <= segs[first].e
  <2> DEFINE places == {k \in 1 .. n : s <= segs[k].e}
  <2>1. 1 \in 1 .. n + 1 /\ places \in SUBSET (1 .. n)
    BY <1>1
  <2>2. first = FirstOf(places, segs)
    BY <1>3 DEF Reaches
  <2> HIDE DEF places
  <2>3. /\ first \in 1 .. n + 1
        /\ first <= n => first \in places
        /\ \A k \in 1 .. n : k < first => k \notin places
    BY <1>1, <2>1, <2>2, FirstOfIs
  <2>4. \A k \in 1 .. first - 1 : k \in 1 .. n /\ k < first
    BY <1>1, <2>3
  <2> QED
    BY <1>2, <2>3, <2>4 DEF places
<1>5. ASSUME NEW i \in 1 .. n, NEW next, next = StartsAfter(segs, i, e)
      PROVE  /\ next \in i + 1 .. n + 1 /\ (\A k \in i + 1 .. next - 1 : segs[k].s < e)
             /\ next <= n => e <= segs[next].s
  <2> DEFINE places == {k \in i + 1 .. n : e <= segs[k].s}
  <2>1. i + 1 \in 1 .. n + 1 /\ places \in SUBSET (i + 1 .. n)
    BY <1>1
  <2>2. next = FirstOf(places, segs)
    BY <1>5 DEF StartsAfter
  <2> HIDE DEF places
  <2>3. /\ next \in i + 1 .. n + 1
        /\ next <= n => next \in places
        /\ \A k \in i + 1 .. n : k < next => k \notin places
    BY <1>1, <2>1, <2>2, FirstOfIs
  <2>4. \A k \in i + 1 .. next - 1 : k \in 1 .. n /\ k \in i + 1 .. n /\ k < next
    BY <1>1, <2>3
  <2> QED
    BY <1>2, <2>3, <2>4 DEF places
<1> QED
  BY <1>3, <1>4, <1>5

LEMMA InsertIs ==
  ASSUME NEW segs, Apart(segs), NEW s \in Nat, NEW e \in Nat, e <= Ring
  PROVE  Inserted(segs, s, e, st_int_seg_union_insert(segs, s, e))
<1> DEFINE n == Len(segs)
           r == st_int_seg_union_insert(segs, s, e)
<1>1. /\ segs \in Seq(SegSet) /\ n \in Nat /\ Ring \in Nat
      /\ \A k \in 1 .. n : segs[k].s < segs[k].e /\ segs[k].e <= Ring
      /\ \A k, l \in 1 .. n : k < l => segs[k].e < segs[l].s
  BY LenProperties, SegmentsAssumption DEF Apart
<1>2. \A k \in 1 .. n : segs[k].s \in Nat /\ segs[k].e \in Nat
  <2>1. \A k \in 1 .. n : segs[k] \in SegSet
    BY <1>1, ElementOfSeq
  <2> QED
    BY <2>1 DEF SegSet
<1>3. CASE r = [ok |-> FALSE, segs |-> segs]
  <2> HIDE DEF r
  <2>1. Inserted(segs, s, e, r)
    BY <1>3 DEF Inserted
  <2> QED
    BY <2>1 DEF r
<1>4. CASE s < e /\ r # [ok |-> FALSE, segs |-> segs]
  <2>1. PICK i : i = Reaches(segs, s)
    OBVIOUS
  <2>2. /\ i \in 1 .. n + 1 /\ (\A k \in 1 .. i - 1 : segs[k].e < s)
        /\ i <= n => s <= segs[i].e
    BY <1>4, <2>1, PlacesAre
  <2>3. CASE i > n \/ e < segs[i].s
    <3>1. r = [ok |-> TRUE, segs |-> Spliced(segs, i, i - 1, Seg(s, e))]
      <4>1. r = [ok |-> TRUE, segs |-> Before(segs, i) \o <<Seg(s, e)>> \o From(segs, i)]
        BY <1>4, <2>1, <2>3 DEF st_int_seg_union_insert
      <4>2. (i - 1) + 1 = i
        BY <2>2
      <4> HIDE DEF r
      <4> QED
        BY <4>1, <4>2 DEF Spliced
    <3>2. Seg(s, e) \in SegSet /\ Seg(s, e).s = s /\ Seg(s, e).e = e
      BY DEF Seg, SegSet
    <3>3. PICK x \in SegSet : x = Seg(s, e) /\ x.s = s /\ x.e = e
      BY <3>2
    <3>4. \A k \in (i - 1) + 1 .. n : e < segs[k].s
      <4> SUFFICES ASSUME NEW k \in (i - 1) + 1 .. n PROVE e < segs[k].s
        OBVIOUS
      <4>1. i \in 1 .. n /\ k \in 1 .. n /\ (k = i \/ i < k) /\ e < segs[i].s
        BY <1>1, <2>2, <2>3
      <4> QED
        BY <1>1, <1>2, <4>1
    <3>5. i - 1 \in i - 1 .. n
      BY <1>1, <2>2
    <3>6. Apart(Spliced(segs, i, i - 1, x))
      BY <1>4, <2>2, <3>3, <3>4, <3>5, SplicedApart
    <3>7. Points(Spliced(segs, i, i - 1, x)) = Points(segs) \cup (s .. e - 1)
      <4>1. \A k \in i .. i - 1 : FALSE
        BY <2>2
      <4>2. Joins(segs, i, i - 1, x, s, e)
        BY <3>3, <4>1 DEF Joins
      <4> QED
        BY <2>2, <3>5, <4>2, SplicedPoints
    <3> HIDE DEF r
    <3>8. Inserted(segs, s, e, r)
      BY <1>4, <3>1, <3>3, <3>6, <3>7 DEF Inserted
    <3> QED
      BY <3>8 DEF r
  <2>4. CASE ~(i > n \/ e < segs[i].s)
    <3>1. i \in 1 .. n /\ s <= segs[i].e /\ segs[i].s <= e
      BY <1>1, <1>2, <2>2, <2>4
    <3>2. PICK j : j = LastMerged(segs, i, e)
      OBVIOUS
    <3>3. /\ j \in i .. n /\ (\A k \in i .. j : segs[k].s <= e)
          /\ \A k \in j + 1 .. n : e < segs[k].s
      <4>1. PICK next : next = StartsAfter(segs, i, e)
        OBVIOUS
      <4>2. /\ next \in i + 1 .. n + 1 /\ (\A k \in i + 1 .. next - 1 : segs[k].s < e)
            /\ next <= n => e <= segs[next].s
        BY <1>4, <3>1, <4>1, PlacesAre
      <4>3. j = IF next <= n /\ segs[next].s = e THEN next ELSE next - 1
        BY <3>2, <4>1 DEF LastMerged
      <4>4. j \in i .. n
        BY <1>1, <3>1, <4>2, <4>3
      <4>5. ASSUME NEW k \in i .. j PROVE segs[k].s <= e
        <5>1. k \in 1 .. n
          BY <1>1, <3>1, <4>4
        <5>2. k = i \/ k \in i + 1 .. next - 1 \/ (k = next /\ segs[next].s = e)
          BY <3>1, <4>2, <4>3
        <5> QED
          BY <1>2, <3>1, <4>2, <5>1, <5>2
      <4>6. ASSUME NEW k \in j + 1 .. n PROVE e < segs[k].s
        <5>1. k \in 1 .. n /\ next \in 1 .. n
          BY <1>1, <3>1, <4>2, <4>3, <4>4
        <5>2. CASE segs[next].s = e
          <6>1. next < k
            BY <4>3, <5>1, <5>2
          <6>2. segs[next].e < segs[k].s /\ segs[next].s < segs[next].e
            BY <1>1, <5>1, <6>1
          <6> QED
            BY <1>2, <5>1, <5>2, <6>2
        <5>3. CASE segs[next].s # e
          <6>1. e < segs[next].s /\ (k = next \/ next < k)
            BY <1>2, <4>2, <4>3, <5>1, <5>3
          <6>2. next < k => segs[next].e < segs[k].s /\ segs[next].s < segs[next].e
            BY <1>1, <5>1
          <6> QED
            BY <1>2, <5>1, <6>1, <6>2
        <5> QED
          BY <5>2, <5>3
      <4> QED
        BY <4>4, <4>5, <4>6
    <3>4. PICK lo \in Nat, hi \in Nat :
            /\ lo = Lower(s, segs[i].s) /\ hi = Upper(e, segs[j].e)
            /\ lo <= s /\ lo <= segs[i].s /\ (lo = s \/ lo = segs[i].s)
            /\ e <= hi /\ segs[j].e <= hi /\ (hi = e \/ hi = segs[j].e)
      <4>1. j \in 1 .. n
        BY <3>1, <3>3
      <4>2. segs[i].s \in Nat /\ segs[j].e \in Nat
        BY <1>2, <3>1, <4>1
      <4> QED
        BY <4>2 DEF Lower, Upper
    <3>5. Seg(lo, hi) \in SegSet /\ Seg(lo, hi).s = lo /\ Seg(lo, hi).e = hi
      BY DEF Seg, SegSet
    <3>6. PICK x \in SegSet : x = Seg(lo, hi) /\ x.s = lo /\ x.e = hi
      BY <3>5
    <3>7. r = [ok |-> TRUE, segs |-> Spliced(segs, i, j, x)]
      <4>1. r = [ok |-> TRUE, segs |-> Before(segs, i) \o <<Seg(lo, hi)>> \o From(segs, j + 1)]
        BY <1>4, <2>1, <2>4, <3>2, <3>4 DEF st_int_seg_union_insert
      <4> HIDE DEF r
      <4> QED
        BY <3>6, <4>1 DEF Spliced
    <3>8. /\ i \in 1 .. n + 1 /\ j \in i - 1 .. n /\ j \in 1 .. n /\ i \in 1 .. n
          /\ \A k \in 1 .. i - 1 : k \in 1 .. n /\ k < i
          /\ \A k \in i .. j : k \in 1 .. n
          /\ \A k \in j + 1 .. n : k \in 1 .. n /\ j < k
      BY <1>1, <3>1, <3>3
    <3>9. Apart(Spliced(segs, i, j, x))
      <4>1. x.s < x.e /\ x.e <= Ring
        BY <1>1, <1>2, <1>4, <3>4, <3>6, <3>8
      <4>2. \A k \in 1 .. i - 1 : segs[k].e < x.s
        BY <1>1, <2>2, <3>4, <3>6, <3>8
      <4>3. \A k \in j + 1 .. n : x.e < segs[k].s
        BY <1>1, <3>3, <3>4, <3>6, <3>8
      <4> QED
        BY <3>8, <4>1, <4>2, <4>3, SplicedApart
    <3>10. Points(Spliced(segs, i, j, x)) = Points(segs) \cup (s .. e - 1)
      <4>1. \A k \in i .. j : x.s <= segs[k].s /\ segs[k].e <= x.e
        <5> SUFFICES ASSUME NEW k \in i .. j PROVE lo <= segs[k].s /\ segs[k].e <= hi
          BY <3>6
        <5>1. /\ k \in 1 .. n /\ (k = i \/ i < k) /\ (k = j \/ k < j)
              /\ segs[k].s \in Nat /\ segs[k].e \in Nat /\ segs[i].s \in Nat /\ segs[j].e \in Nat
              /\ segs[i].e \in Nat /\ segs[j].s \in Nat
          BY <1>2, <3>3, <3>8
        <5>2. i < k => segs[i].s < segs[i].e /\ segs[i].e < segs[k].s
          BY <1>1, <3>8, <5>1
        <5>3. k < j => segs[k].e < segs[j].s /\ segs[j].s < segs[j].e
          BY <1>1, <3>8, <5>1
        <5>4. segs[i].s <= segs[k].s
          <6>1. CASE k = i
            BY <5>1, <6>1
          <6>2. CASE i < k
            BY <5>1, <5>2, <6>2
          <6> QED
            BY <5>1, <6>1, <6>2
        <5>5. segs[k].e <= segs[j].e
          <6>1. CASE k = j
            BY <5>1, <6>1
          <6>2. CASE k < j
            BY <5>1, <5>3, <6>2
          <6> QED
            BY <5>1, <6>1, <6>2
        <5> QED
          BY SMTT(30), <3>4, <5>1, <5>4, <5>5
      <4>2. ASSUME NEW p \in x.s .. x.e - 1
            PROVE  p \in s .. e - 1 \/ \E k \in i .. j : segs[k].s <= p /\ p < segs[k].e
        <5>1. p \in Nat /\ lo <= p /\ p < hi
          BY <3>6
        <5>2. i \in i .. j /\ j \in i .. j
          BY <3>3, <3>8
        <5>3. CASE p < s
          <6>1. segs[i].s <= p /\ p < segs[i].e
            BY <1>2, <3>1, <3>4, <5>1, <5>3
          <6> QED
            BY <5>2, <6>1
        <5>4. CASE e <= p
          <6>1. segs[j].s <= e /\ segs[j].s \in Nat /\ segs[j].e \in Nat
            BY <1>2, <3>3, <3>8, <5>2
          <6>2. segs[j].s <= p /\ p < segs[j].e
            BY <3>4, <5>1, <5>4, <6>1
          <6> QED
            BY <5>2, <6>2
        <5> QED
          BY <5>1, <5>3, <5>4
      <4>3. x.s <= s /\ e <= x.e
        BY <3>4, <3>6
      <4>4. Joins(segs, i, j, x, s, e)
        BY <4>1, <4>2, <4>3 DEF Joins
      <4> QED
        BY <3>8, <4>4, SplicedPoints
    <3> HIDE DEF r
    <3>11. Inserted(segs, s, e, r)
      BY <1>4, <3>7, <3>9, <3>10 DEF Inserted
    <3> QED
      BY <3>11 DEF r
  <2> QED
    BY <2>3, <2>4
<1>5. s < e \/ r = [ok |-> FALSE, segs |-> segs]
  BY DEF st_int_seg_union_insert
<1> QED
  BY <1>3, <1>4, <1>5
LEMMA SegIs ==
  ASSUME NEW seg \in Segs
  PROVE  /\ seg.s \in 0 .. Ring - 1 /\ seg.n \in 0 .. Ring /\ seg.s \in Nat /\ seg.n \in Nat
         /\ Ring \in Nat \ {0} /\ Word \in Nat \ {0} /\ Ring < Word
<1>1. seg.s \in 0 .. Ring - 1 /\ seg.n \in Lengths
  BY DEF Segs
<1>2. Ring \in Nat \ {0} /\ Word \in Nat /\ Ring < Word /\ Lengths \subseteq 0 .. Ring
  BY SegmentsAssumption
<1>3. Word # 0
  BY <1>2
<1>4. seg.n \in 0 .. Ring
  BY <1>1, <1>2
<1> QED
  BY <1>1, <1>2, <1>3, <1>4

\* The points around the ring from the start of a segment on.
LEMMA AroundIs ==
  ASSUME NEW seg \in Segs
  PROVE  /\ seg.s + seg.n <= Ring => Around(seg) = seg.s .. (seg.s + seg.n) - 1
         /\ seg.s + seg.n > Ring =>
              Around(seg) = (seg.s .. Ring - 1) \cup (0 .. (seg.n - (Ring - seg.s)) - 1)
<1> DEFINE s == seg.s
           n == seg.n
<1>1. /\ s \in 0 .. Ring - 1 /\ n \in 0 .. Ring /\ Ring \in Nat \ {0}
      /\ s \in Nat /\ n \in Nat
  BY SegIs
<1>2. Around(seg) = {(s + d) % Ring : d \in 0 .. n - 1}
  BY DEF Around
<1> HIDE DEF s, n
<1>3. ASSUME NEW d \in 0 .. n - 1, s + d < Ring PROVE (s + d) % Ring = s + d
  <2>1. s + d = Ring * 0 + (s + d) /\ s + d \in 0 .. Ring - 1 /\ s + d \in Int /\ 0 \in Int
    BY <1>1, <1>3
  <2> QED
    BY <1>1, <2>1, RemainderUnique
<1>4. ASSUME NEW d \in 0 .. n - 1, s + d >= Ring PROVE (s + d) % Ring = (s + d) - Ring
  <2>1. /\ s + d = Ring * 1 + ((s + d) - Ring) /\ (s + d) - Ring \in 0 .. Ring - 1
        /\ s + d \in Int /\ 1 \in Int
    BY <1>1, <1>4
  <2> QED
    BY <1>1, <2>1, RemainderUnique
<1>5. CASE s + n <= Ring
  <2>1. \A d \in 0 .. n - 1 : s + d < Ring /\ s + d \in s .. (s + n) - 1
    BY <1>1, <1>5
  <2>2. \A p \in s .. (s + n) - 1 : p - s \in 0 .. n - 1 /\ s + (p - s) = p
    BY <1>1
  <2>3. Around(seg) = s .. (s + n) - 1
    BY <1>2, <1>3, <2>1, <2>2
  <2> QED
    BY <1>1, <1>5, <2>3 DEF s, n
<1>6. CASE s + n > Ring
  <2>1. ASSUME NEW d \in 0 .. n - 1 PROVE (s + d) % Ring \in (s .. Ring - 1) \cup (0 .. (n - (Ring - s)) - 1)
    <3>1. CASE s + d < Ring
      BY <1>1, <1>3, <3>1
    <3>2. CASE s + d >= Ring
      <4>1. (s + d) - Ring \in 0 .. (n - (Ring - s)) - 1
        BY <1>1, <3>2
      <4> QED
        BY <1>4, <3>2, <4>1
    <3> QED
      BY <1>1, <3>1, <3>2
  <2>2. ASSUME NEW p \in s .. Ring - 1 PROVE \E d \in 0 .. n - 1 : p = (s + d) % Ring
    <3>1. p - s \in 0 .. n - 1 /\ s + (p - s) = p /\ p < Ring
      BY <1>1, <1>6
    <3> QED
      BY <1>3, <3>1
  <2>3. ASSUME NEW p \in 0 .. (n - (Ring - s)) - 1 PROVE \E d \in 0 .. n - 1 : p = (s + d) % Ring
    <3>1. PICK d \in 0 .. n - 1 : s + d = p + Ring
      <4>1. (p + Ring) - s \in 0 .. n - 1 /\ s + ((p + Ring) - s) = p + Ring
        BY <1>1, <1>6
      <4> QED
        BY <4>1
    <3>2. s + d >= Ring /\ (s + d) - Ring = p
      BY <1>1, <3>1
    <3> QED
      BY <1>4, <3>2
  <2>4. Around(seg) = (s .. Ring - 1) \cup (0 .. (n - (Ring - s)) - 1)
    BY <1>2, <2>1, <2>2, <2>3
  <2> QED
    BY <1>1, <1>6, <2>4 DEF s, n
<1> QED
  BY <1>1, <1>5, <1>6 DEF s, n

\* One segment handed in, whose end is counted right, or so small that it is refused.
LEMMA UniteIs ==
  ASSUME NEW segs, Apart(segs), NEW seg \in Segs, NEW e \in Nat,
         e = seg.s + seg.n \/ (e <= Ring /\ e <= seg.s)
  PROVE  /\ Apart(Unite(segs, seg, e).segs) /\ Unite(segs, seg, e).ok \in BOOLEAN
         /\ Points(Unite(segs, seg, e).segs) \subseteq Points(segs) \cup Around(seg)
         /\ Unite(segs, seg, e).ok => Points(Unite(segs, seg, e).segs) = Points(segs) \cup Around(seg)
<1>1. /\ seg.s \in 0 .. Ring - 1 /\ seg.n \in 0 .. Ring /\ Ring \in Nat \ {0}
      /\ seg.s \in Nat /\ seg.n \in Nat
  BY SegIs
<1> DEFINE whole == Unite(segs, seg, e)
<1>2. CASE e <= Ring
  <2>1. whole = st_int_seg_union_insert(segs, seg.s, e)
    BY <1>1, <1>2 DEF Unite
  <2>2. Inserted(segs, seg.s, e, whole)
    BY <1>1, <1>2, <2>1, InsertIs
  <2> HIDE DEF whole
  <2>3. CASE whole.ok
    <3>1. seg.s < e /\ Apart(whole.segs) /\ Points(whole.segs) = Points(segs) \cup (seg.s .. e - 1)
      BY <2>2, <2>3 DEF Inserted
    <3>2. e = seg.s + seg.n
      BY <1>1, <3>1
    <3>3. Around(seg) = seg.s .. e - 1
      BY <1>2, <3>2, AroundIs
    <3> QED
      BY <2>2, <2>3, <3>1, <3>3 DEF Inserted, whole
  <2>4. CASE ~whole.ok
    BY <2>2, <2>4 DEF Inserted, whole
  <2> QED
    BY <2>3, <2>4
<1>3. CASE e > Ring
  <2>1. e = seg.s + seg.n
    BY <1>1, <1>3
  <2>2. PICK first : first = st_int_seg_union_insert(segs, seg.s, Ring)
    OBVIOUS
  <2>3. Inserted(segs, seg.s, Ring, first)
    BY <1>1, <2>2, InsertIs
  <2>4. whole = IF first.ok THEN st_int_seg_union_insert(first.segs, 0, seg.n - (Ring - seg.s)) ELSE first
    BY <1>3, <2>2 DEF Unite
  <2>5. Around(seg) = (seg.s .. Ring - 1) \cup (0 .. (seg.n - (Ring - seg.s)) - 1)
    BY <1>3, <2>1, AroundIs
  <2> HIDE DEF whole
  <2>6. CASE first.ok
    <3>1. Apart(first.segs) /\ Points(first.segs) = Points(segs) \cup (seg.s .. Ring - 1)
      BY <2>3, <2>6 DEF Inserted
    <3>2. PICK rest \in Nat : rest = seg.n - (Ring - seg.s) /\ rest <= Ring
      <4>1. seg.n - (Ring - seg.s) \in Nat /\ seg.n - (Ring - seg.s) <= Ring
        BY <1>1, <1>3, <2>1
      <4> QED
        BY <4>1
    <3>3. Inserted(first.segs, 0, rest, whole)
      <4>1. whole = st_int_seg_union_insert(first.segs, 0, rest)
        BY <2>4, <2>6, <3>2
      <4> QED
        BY <3>1, <3>2, <4>1, InsertIs
    <3>4. CASE whole.ok
      <4>1. Apart(whole.segs) /\ Points(whole.segs) = Points(first.segs) \cup (0 .. rest - 1)
        BY <3>3, <3>4 DEF Inserted
      <4>2. Points(whole.segs) = Points(segs) \cup Around(seg)
        BY <2>5, <3>1, <3>2, <4>1
      <4> QED
        BY <3>4, <4>1, <4>2, <3>3 DEF whole, Inserted
    <3>5. CASE ~whole.ok
      <4>1. whole.segs = first.segs /\ whole.ok \in BOOLEAN
        BY <3>3, <3>5 DEF Inserted
      <4>2. Points(whole.segs) \subseteq Points(segs) \cup Around(seg)
        BY <2>5, <3>1, <4>1
      <4> QED
        BY <3>1, <3>5, <4>1, <4>2 DEF whole
    <3> QED
      BY <3>4, <3>5
  <2>7. CASE ~first.ok
    BY <2>3, <2>4, <2>7 DEF Inserted, whole
  <2> QED
    BY <2>6, <2>7
<1> QED
  BY <1>1, <1>2, <1>3

\* The end of a segment as size_t counts it: right, or no further than its start.
LEMMA SizeSum ==
  ASSUME NEW seg \in Segs
  PROVE  /\ (seg.s + seg.n) % Word \in Nat
         /\ \/ (seg.s + seg.n) % Word = seg.s + seg.n
            \/ (seg.s + seg.n) % Word <= Ring /\ (seg.s + seg.n) % Word <= seg.s
<1>1. /\ seg.s \in 0 .. Ring - 1 /\ seg.n \in 0 .. Ring /\ Ring \in Nat \ {0}
      /\ Word \in Nat \ {0} /\ Ring < Word
  BY SegIs
<1>2. PICK sum \in Nat : sum = seg.s + seg.n
  BY <1>1
<1>3. CASE sum < Word
  <2>1. sum = Word * 0 + sum /\ sum \in 0 .. Word - 1 /\ 0 \in Int
    BY <1>1, <1>3
  <2>2. sum % Word = sum
    BY <1>1, <2>1, RemainderUnique
  <2> QED
    BY <1>2, <2>2
<1>4. CASE sum >= Word
  <2>1. sum = Word * 1 + (sum - Word) /\ sum - Word \in 0 .. Word - 1 /\ 1 \in Int
    BY <1>1, <1>2, <1>4
  <2>2. sum % Word = sum - Word
    BY <1>1, <2>1, RemainderUnique
  <2>3. sum - Word \in Nat /\ sum - Word <= Ring /\ sum - Word <= seg.s
    BY <1>1, <1>2, <1>4
  <2> QED
    BY <1>2, <2>2, <2>3
<1> QED
  BY <1>1, <1>3, <1>4

SegmentsInv ==
  /\ Apart(union) /\ refused \in BOOLEAN
  /\ Points(union) \subseteq asked /\ (~refused => Points(union) = asked)

LEMMA SegmentsStep == ASSUME SegmentsInv, [SegmentsNext]_segmentVars PROVE SegmentsInv'
<1>1. ASSUME ~refused, NEW seg \in Segs, NEW e \in Nat,
             e = seg.s + seg.n \/ (e <= Ring /\ e <= seg.s),
             Answer(Unite(union, seg, e), seg)
      PROVE  SegmentsInv'
  <2>1. PICK r : r = Unite(union, seg, e)
    OBVIOUS
  <2>2. /\ Apart(r.segs) /\ r.ok \in BOOLEAN
        /\ Points(r.segs) \subseteq Points(union) \cup Around(seg)
        /\ r.ok => Points(r.segs) = Points(union) \cup Around(seg)
    BY <1>1, <2>1, UniteIs DEF SegmentsInv
  <2>3. union' = r.segs /\ refused' = ~r.ok /\ asked' = asked \cup Around(seg)
    BY <1>1, <2>1 DEF Answer
  <2>4. Points(union)' = Points(union')
    BY DEF Points
  <2>5. Apart(union)' <=> Apart(union')
    BY DEF Apart
  <2> QED
    BY <1>1, <2>2, <2>3, <2>4, <2>5 DEF SegmentsInv
<1>2. CASE ~refused /\ IntUnion
  <2>1. PICK seg \in Segs : Answer(Unite(union, seg, seg.s + seg.n), seg)
    BY <1>2 DEF IntUnion, st_int_seg_union
  <2>2. seg.s + seg.n \in Nat
    BY SegIs
  <2> QED
    BY <1>1, <1>2, <2>1, <2>2
<1>3. CASE ~refused /\ SizeUnion
  <2>1. PICK seg \in Segs : Answer(Unite(union, seg, (seg.s + seg.n) % Word), seg)
    BY <1>3 DEF SizeUnion, st_size_seg_union
  <2>2. /\ (seg.s + seg.n) % Word \in Nat
        /\ \/ (seg.s + seg.n) % Word = seg.s + seg.n
           \/ (seg.s + seg.n) % Word <= Ring /\ (seg.s + seg.n) % Word <= seg.s
    BY SizeSum
  <2> QED
    BY <1>1, <1>3, <2>1, <2>2
<1>4. CASE UNCHANGED segmentVars
  BY <1>4 DEF segmentVars, SegmentsInv, Apart, Points
<1> QED
  BY <1>2, <1>3, <1>4 DEF SegmentsNext

SortedInv == sorted \in Seq(Nat) /\ SortedOnce

LEMMA SortedStep == ASSUME SortedInv, [st_int_insert]_sorted PROVE SortedInv'
<1>1. /\ sorted \in Seq(Nat) /\ DOMAIN sorted = 1 .. Len(sorted) /\ Len(sorted) \in Nat
      /\ \A k \in 1 .. Len(sorted) : sorted[k] \in Nat
      /\ \A k, l \in 1 .. Len(sorted) : k < l => sorted[k] < sorted[l]
  BY LenProperties, ElementOfSeq DEF SortedInv, SortedOnce
<1>2. CASE sorted' = sorted
  BY <1>2 DEF SortedInv, SortedOnce
<1>3. CASE st_int_insert
  <2>1. PICK n \in Nat : sorted' = st_insert(sorted, n).array
    BY <1>3, SegmentsAssumption DEF st_int_insert
  <2>2. PICK i : i = FirstOf({k \in 1 .. Len(sorted) : sorted[k] >= n}, sorted)
    OBVIOUS
  <2>3. /\ i \in 1 .. Len(sorted) + 1
        /\ \A k \in 1 .. i - 1 : sorted[k] < n
        /\ i <= Len(sorted) => sorted[i] >= n
    <3> DEFINE places == {k \in 1 .. Len(sorted) : sorted[k] >= n}
    <3>1. 1 \in 1 .. Len(sorted) + 1 /\ places \in SUBSET (1 .. Len(sorted)) /\ i = FirstOf(places, sorted)
      BY <1>1, <2>2
    <3> HIDE DEF places
    <3>2. /\ i \in 1 .. Len(sorted) + 1
          /\ i <= Len(sorted) => i \in places
          /\ \A k \in 1 .. Len(sorted) : k < i => k \notin places
      BY <1>1, <3>1, FirstOfIs
    <3>3. \A k \in 1 .. i - 1 : k \in 1 .. Len(sorted) /\ k < i
      BY <1>1, <3>2
    <3> QED
      BY <1>1, <3>2, <3>3 DEF places
  <2>4. sorted' = sorted \/ (sorted' = Spliced(sorted, i, i - 1, n) /\ ~(i <= Len(sorted) /\ sorted[i] = n))
    <3>1. (i - 1) + 1 = i
      BY <1>1, <2>3
    <3>2. \/ st_insert(sorted, n).array = sorted
          \/ /\ st_insert(sorted, n).array = Before(sorted, i) \o <<n>> \o From(sorted, i)
             /\ ~(i <= Len(sorted) /\ sorted[i] = n)
      BY <2>2 DEF st_insert
    <3> QED
      BY <2>1, <3>1, <3>2 DEF Spliced
  <2>5. CASE sorted' = Spliced(sorted, i, i - 1, n) /\ ~(i <= Len(sorted) /\ sorted[i] = n)
    <3>1. PICK new, m : new = sorted' /\ m = Len(sorted) + 1 /\ m \in Nat
      BY <1>1
    <3>2. /\ new \in Seq(Nat) /\ Len(new) = m
          /\ \A k \in 1 .. i - 1 : new[k] = sorted[k]
          /\ new[i] = n
          /\ \A k \in i + 1 .. m : new[k] = sorted[k - 1]
      <4>1. sorted \in Seq(Nat) /\ i \in 1 .. Len(sorted) + 1 /\ i - 1 \in i - 1 .. Len(sorted)
        BY <1>1, <2>3
      <4>2. /\ new \in Seq(Nat) /\ Len(new) = i + (Len(sorted) - (i - 1))
            /\ \A k \in 1 .. i - 1 : new[k] = sorted[k]
            /\ new[i] = n
            /\ \A k \in i + 1 .. i + (Len(sorted) - (i - 1)) : new[k] = sorted[(k - i) + (i - 1)]
        <5>1. PICK S, x, j : S = Nat /\ x = n /\ j = i - 1
          OBVIOUS
        <5>2. Splices(S, Spliced(sorted, i, j, x), sorted, i, j, x)
          <6>1. /\ sorted \in Seq(S) /\ x \in S
                /\ i \in 1 .. Len(sorted) + 1 /\ j \in i - 1 .. Len(sorted)
            BY <4>1, <5>1
          <6> QED
            BY <6>1, SplicedIs
        <5>3. new = Spliced(sorted, i, j, x)
          BY <2>5, <3>1, <5>1
        <5>4. Splices(Nat, new, sorted, i, i - 1, n)
          BY <5>1, <5>2, <5>3
        <5> QED
          BY <5>4 DEF Splices
      <4>3. i + (Len(sorted) - (i - 1)) = m /\ \A k \in i + 1 .. m : (k - i) + (i - 1) = k - 1
        BY <1>1, <2>3, <3>1
      <4> QED
        BY <4>2, <4>3
    <3>3. \A k \in i .. Len(sorted) : n < sorted[k]
      <4> SUFFICES ASSUME NEW k \in i .. Len(sorted) PROVE n < sorted[k]
        OBVIOUS
      <4>1. i \in 1 .. Len(sorted) /\ k \in 1 .. Len(sorted) /\ (k = i \/ i < k)
        BY <1>1, <2>3
      <4>2. n < sorted[i]
        BY <1>1, <2>3, <2>5, <4>1
      <4>3. i < k => sorted[i] < sorted[k]
        BY <1>1, <4>1
      <4> QED
        BY <1>1, <4>1, <4>2, <4>3
    <3>4. ASSUME NEW k \in 1 .. m, NEW l \in 1 .. m, k < l PROVE new[k] < new[l]
      <4>1. CASE l \in 1 .. i - 1
        <5>1. k \in 1 .. i - 1 /\ k \in 1 .. Len(sorted) /\ l \in 1 .. Len(sorted)
          BY <1>1, <2>3, <3>4, <4>1
        <5> QED
          BY <1>1, <3>2, <3>4, <4>1, <5>1
      <4>2. CASE l = i
        <5>1. k \in 1 .. i - 1
          BY <1>1, <2>3, <3>4, <4>2
        <5> QED
          BY <2>3, <3>2, <4>2, <5>1
      <4>3. CASE l \in i + 1 .. m
        <5>1. l - 1 \in i .. Len(sorted) /\ l - 1 \in 1 .. Len(sorted) /\ new[l] = sorted[l - 1]
          BY <1>1, <2>3, <3>1, <3>2, <4>3
        <5>2. CASE k \in 1 .. i - 1
          <6>1. k < l - 1 /\ k \in 1 .. Len(sorted)
            BY <1>1, <2>3, <5>1, <5>2
          <6> QED
            BY <1>1, <3>2, <5>1, <5>2, <6>1
        <5>3. CASE k = i
          BY <3>2, <3>3, <5>1, <5>3
        <5>4. CASE k \in i + 1 .. m
          <6>1. k - 1 < l - 1 /\ k - 1 \in 1 .. Len(sorted) /\ new[k] = sorted[k - 1]
            BY <1>1, <2>3, <3>1, <3>2, <3>4, <5>4
          <6> QED
            BY <1>1, <5>1, <6>1
        <5> QED
          BY <2>3, <5>2, <5>3, <5>4
      <4> QED
        BY <2>3, <4>1, <4>2, <4>3
    <3>5. DOMAIN new = 1 .. m
      BY <3>2, LenProperties
    <3> QED
      BY <3>1, <3>2, <3>4, <3>5 DEF SortedInv, SortedOnce
  <2> QED
    BY <1>2, <2>4, <2>5
<1> QED
  BY <1>2, <1>3

LEMMA SegmentsStart == ASSUME SegmentsInit, ArrayInit PROVE SegmentsInv /\ SortedInv
<1>1. << >> \in Seq(SegSet) /\ << >> \in Seq(Nat) /\ Len(<< >>) = 0 /\ DOMAIN << >> = {}
  OBVIOUS
<1>2. Points(<< >>) = {}
  BY <1>1 DEF Points
<1>3. Apart(<< >>)
  BY <1>1 DEF Apart
<1> QED
  BY <1>1, <1>2, <1>3 DEF SegmentsInit, ArrayInit, SegmentsInv, SortedInv, SortedOnce

LEMMA SegmentsExact == ASSUME SegmentsInv, SortedInv PROVE UnionAndArrayExact
<1>1. /\ union \in Seq(SegSet) /\ DOMAIN union = 1 .. Len(union) /\ Len(union) \in Nat
      /\ \A k \in 1 .. Len(union) : union[k].s < union[k].e /\ union[k].e <= Ring
      /\ \A k, l \in 1 .. Len(union) : k < l => union[k].e < union[l].s
  BY LenProperties DEF SegmentsInv, Apart
<1>2. \A k \in 1 .. Len(union) : 0 <= union[k].s
  <2>1. \A k \in 1 .. Len(union) : union[k] \in SegSet
    BY <1>1, ElementOfSeq
  <2> QED
    BY <2>1 DEF SegSet
<1>3. \A k \in 1 .. Len(union) - 1 : k \in 1 .. Len(union) /\ k + 1 \in 1 .. Len(union) /\ k < k + 1
  BY <1>1
<1>4. IF refused THEN Points(union) \subseteq asked ELSE Points(union) = asked
  BY DEF SegmentsInv
<1>5. \A k \in 1 .. Len(union) - 1 : union[k].e < union[k + 1].s
  BY <1>1, <1>3
<1>6. UnionExact
  BY <1>1, <1>2, <1>4, <1>5 DEF UnionExact
<1> QED
  BY <1>6 DEF SortedInv, UnionAndArrayExact

\* The union of the segments handed in, in any order and however they touch, lie in one
\* another or go around the end of the ring, covers their points and no other; a segment
\* that finds no room is refused, and what of it was added is part of it; a sum of
\* size_t that wraps around adds nothing. An array that grows by ordered insertion holds
\* nothing twice (st_int_seg_union, st_size_seg_union, st_int_insert).
THEOREM UnionsAreExact ==
  SegmentsInit /\ ArrayInit /\ [][SegmentsNext]_segmentVars /\ [][st_int_insert]_sorted
    => []UnionAndArrayExact
<1>1. SegmentsInit /\ ArrayInit => SegmentsInv /\ SortedInv
  BY SegmentsStart
<1>2. SegmentsInv /\ [SegmentsNext]_segmentVars => SegmentsInv'
  BY SegmentsStep
<1>3. SortedInv /\ [st_int_insert]_sorted => SortedInv'
  BY SortedStep
<1>4. SegmentsInv /\ SortedInv => UnionAndArrayExact
  BY SegmentsExact
<1> QED
  BY <1>1, <1>2, <1>3, <1>4, PTL
=============================================================================
