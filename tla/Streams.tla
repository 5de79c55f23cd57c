------------------------------ MODULE Streams ------------------------------
(***************************************************************************)
(* Streams to files and to commands (st_io.c, st_popen.c): st_fopen starts *)
(* a shell for a name with a bar, and st_fclose takes every stream that is *)
(* a FIFO for one of those.  One thread: the list of children has no lock. *)
(***************************************************************************)
EXTENDS Integers, Sequences, FiniteSets, SequencesExt

CONSTANTS
  Fps,          \* addresses of FILE structures
  Pids          \* processes

VARIABLES
  stream,       \* Fps -> what is open there
  pidlist,      \* the list of st_popen, its head first: nodes [fp, pid]
  unwaited,     \* the children that were not waited for
  inherits,     \* child -> the children whose pipes it holds the parent's end of
  abandoned,    \* children whose stream st_count_lines has closed
  leaked        \* streams whose user has called st_fclose and that are open

streamVars == <<stream, pidlist, unwaited, inherits, abandoned, leaked>>

Closed == [kind |-> "closed"]
File == [kind |-> "file"]
Fifo == [kind |-> "fifo"]
Pipe(pid, mode) == [kind |-> "pipe", pid |-> pid, mode |-> mode]

StreamsInit ==
  /\ stream = [fp \in Fps |-> Closed]
  /\ pidlist = << >> /\ unwaited = {} /\ abandoned = {} /\ leaked = {}
  /\ inherits = [pid \in Pids |-> {}]

Listed == {pidlist[k].fp : k \in DOMAIN pidlist}
OpenPipes(fps) == {stream[fp].pid : fp \in {x \in fps : stream[x].kind = "pipe"}}

\* Mutant: the child closes nothing.
InheritedAll == OpenPipes(Fps)

\* The child closes the streams of the list before it becomes a shell, and keeps the
\* others it was forked with.
Inherited == OpenPipes(Fps \ Listed)

\* The pipe, the fork and the allocation of the node may fail: nothing is left then.
st_popen(fp, mode) ==
  \E pid \in Pids \ unwaited :
    /\ stream[fp] = Closed
    /\ stream' = [stream EXCEPT ![fp] = Pipe(pid, mode)]
    /\ pidlist' = <<[fp |-> fp, pid |-> pid]>> \o pidlist
    /\ unwaited' = unwaited \cup {pid}
    /\ inherits' = [inherits EXCEPT ![pid] = Inherited]
    /\ UNCHANGED <<abandoned, leaked>>

Entry(fp) == SelectInSeq(pidlist, LAMBDA x : x.fp = fp)

\* A command that reads its input ends when nobody holds the other end of its pipe.
Ends(pid, closed) ==
  LET feeds == {fp \in Fps \ {closed} : stream[fp].kind = "pipe" /\ stream[fp].pid = pid}
  IN feeds = {} /\ \A child \in unwaited \ {pid} : pid \notin inherits[child]

\* -1 for a stream that is not of the list, which stays open; else the stream is
\* closed and the child waited for, and the call waits as long as the child runs.
st_pclose(fp) ==
  LET k == Entry(fp)
  IN \/ k = 0
        /\ leaked' = leaked \cup {fp}
        /\ UNCHANGED <<stream, pidlist, unwaited, inherits, abandoned>>
     \/ k # 0
        /\ LET pid == pidlist[k].pid
           IN /\ Ends(pid, fp)
              /\ unwaited' = unwaited \ {pid}
              /\ inherits' = [inherits EXCEPT ![pid] = {}]
              /\ abandoned' = abandoned \ {pid}
        /\ stream' = [stream EXCEPT ![fp] = Closed]
        /\ pidlist' = RemoveAt(pidlist, k)
        /\ UNCHANGED leaked

Used(fp) == stream[fp] # Closed /\ fp \notin leaked

\* "-" is stdin or stdout, which st_fclose leaves alone: no stream of ours.
st_fopen(fp) ==
  \/ \E s \in {File, Fifo} :
       /\ stream[fp] = Closed
       /\ stream' = [stream EXCEPT ![fp] = s]
       /\ UNCHANGED <<pidlist, unwaited, inherits, abandoned, leaked>>
  \/ \E mode \in {"r", "w"} : st_popen(fp, mode)

CloseFile(fp) ==
  /\ stream' = [stream EXCEPT ![fp] = Closed]
  /\ UNCHANGED <<pidlist, unwaited, inherits, leaked>>

st_fclose(fp) ==
  /\ Used(fp)
  /\ \/ stream[fp] = File /\ CloseFile(fp) /\ UNCHANGED abandoned
     \/ stream[fp] # File /\ st_pclose(fp)

\* st_count_lines opens with st_fopen and closes with fclose: the child of a command
\* is not waited for and its entry stays in the list.
st_count_lines(fp) ==
  /\ stream[fp] = Closed
  /\ \E pid \in Pids \ unwaited :
       /\ pidlist' = <<[fp |-> fp, pid |-> pid]>> \o pidlist
       /\ unwaited' = unwaited \cup {pid}
       /\ inherits' = [inherits EXCEPT ![pid] = Inherited]
       /\ abandoned' = abandoned \cup {pid}
  /\ UNCHANGED <<stream, leaked>>

StreamsNext == \E fp \in Fps : st_fopen(fp) \/ st_fclose(fp) \/ st_count_lines(fp)

-----------------------------------------------------------------------------
\* Every child that was not waited for is the one the close of its stream waits for,
\* but for those st_count_lines has left behind; no child holds the pipe of another,
\* so that a close always comes back; and what st_fclose leaves open is a FIFO that is
\* no command's.
ChildrenWaited ==
  /\ unwaited \ abandoned = OpenPipes(Fps)
  /\ \A fp \in Fps : stream[fp].kind = "pipe" =>
       Entry(fp) # 0 /\ pidlist[Entry(fp)].pid = stream[fp].pid
  /\ \A child \in unwaited : inherits[child] = {}
  /\ \A fp \in leaked : stream[fp] = Fifo
=============================================================================
