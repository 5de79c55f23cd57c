-------------------------- MODULE CountingSemaphore --------------------------
(***************************************************************************)
(* What a semaphore promises: a count that a post raises by one and a wait *)
(* lowers by one, each in a single step, and a wait only when the count is *)
(* positive.                                                               *)
(***************************************************************************)
EXTENDS Integers

CONSTANTS Threads, InitValue

VARIABLES
  count,    \* the semaphore counter
  call      \* call[t]: the call t is in, "done" when it has taken effect

vars == <<count, call>>

Init == count = InitValue /\ call = [t \in Threads |-> "none"]

Ask(t, kind) == call[t] = "none" /\ call' = [call EXCEPT ![t] = kind] /\ UNCHANGED count

Wait(t) ==
  /\ call[t] = "wait" /\ count > 0
  /\ count' = count - 1 /\ call' = [call EXCEPT ![t] = "done"]

Post(t) ==
  /\ call[t] = "post"
  /\ count' = count + 1 /\ call' = [call EXCEPT ![t] = "done"]

Leave(t) == call[t] = "done" /\ call' = [call EXCEPT ![t] = "none"] /\ UNCHANGED count

Next ==
  \E t \in Threads :
    Ask(t, "wait") \/ Ask(t, "post") \/ Wait(t) \/ Post(t) \/ Leave(t)

Spec == Init /\ [][Next]_vars
=============================================================================
