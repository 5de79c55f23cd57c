------------------------------ MODULE Semaphore ------------------------------
(***************************************************************************)
(* st_semaphore: a counting semaphore made of a mutex and a condition      *)
(* variable.  One step per pthread call, so that every interleaving of     *)
(* st_sem_wait and st_sem_post is there, with the condition variable's     *)
(* liberties: signal wakes one waiter, whichever it likes, the waiter has  *)
(* to take the mutex again, in competition with newcomers, and a waiter    *)
(* may wake without any signal.  The pthread calls are taken to succeed.   *)
(***************************************************************************)
EXTENDS Integers, FiniteSets

CONSTANTS
  Waiters, Posters,   \* threads that may call st_sem_wait and st_sem_post
  InitValue,          \* init_value
  MaxCalls,           \* calls a thread makes (bound)
  MaxSpurious,        \* wake-ups without a signal (bound)
  NoThread

Threads == Waiters \cup Posters

ASSUME SemaphoreAssumption ==
  /\ IsFiniteSet(Waiters) /\ IsFiniteSet(Posters) /\ NoThread \notin Threads
  /\ InitValue \in Int /\ MaxCalls \in Nat /\ MaxSpurious \in Nat

VARIABLES
  value,       \* value
  mutex,       \* owner of the mutex
  pc,          \* the pthread call each thread is at
  calls,       \* calls each thread has begun
  spurious     \* wake-ups without a signal so far

vars == <<value, mutex, pc, calls, spurious>>

At(s) == {t \in Threads : pc[t] \in s}

Init ==
  /\ value = InitValue
  /\ mutex = NoThread
  /\ pc = [t \in Threads |-> "idle"]
  /\ calls = [t \in Threads |-> 0]
  /\ spurious = 0

Goto(t, from, to) == pc[t] = from /\ pc' = [pc EXCEPT ![t] = to]

Call(t, start) ==
  /\ calls[t] < MaxCalls
  /\ Goto(t, "idle", start)
  /\ calls' = [calls EXCEPT ![t] = @ + 1]
  /\ UNCHANGED <<value, mutex, spurious>>

CallWait(t) == t \in Waiters /\ Call(t, "wait_lock")
CallPost(t) == t \in Posters /\ Call(t, "post_lock")

Acquire(t, from, to) ==
  /\ mutex = NoThread /\ mutex' = t
  /\ Goto(t, from, to)
  /\ UNCHANGED <<value, calls, spurious>>

Release(t, from, to) ==
  /\ mutex' = NoThread
  /\ Goto(t, from, to)
  /\ UNCHANGED <<value, calls, spurious>>

-----------------------------------------------------------------------------
(* st_sem_wait                                                              *)

WaitLock(t) == Acquire(t, "wait_lock", "wait_test")

MustBlockBelowZero == value < 0

MustBlock == value <= 0

\* pthread_cond_wait gives the mutex back and blocks, in one step.
WaitBlock(t) == MustBlock /\ Release(t, "wait_test", "blocked")

\* A waiter that was woken takes the mutex again and tests the value again.
WaitRelock(t) == Acquire(t, "relock", "wait_test")

WaitTake(t) ==
  /\ ~MustBlock
  /\ Goto(t, "wait_test", "wait_unlock")
  /\ value' = value - 1
  /\ UNCHANGED <<mutex, calls, spurious>>

WaitUnlock(t) == Release(t, "wait_unlock", "idle")

\* The condition variable lets a waiter go although nobody signalled.
SpuriousWakeup(t) ==
  /\ spurious < MaxSpurious /\ spurious' = spurious + 1
  /\ Goto(t, "blocked", "relock")
  /\ UNCHANGED <<value, mutex, calls>>

-----------------------------------------------------------------------------
(* st_sem_post                                                              *)

PostLock(t) == Acquire(t, "post_lock", "post_add")

PostAddSignalAtZero(t) ==
  /\ Goto(t, "post_add", IF value = 0 THEN "post_signal" ELSE "post_unlock")
  /\ value' = value + 1
  /\ UNCHANGED <<mutex, calls, spurious>>

PostAdd(t) ==
  /\ Goto(t, "post_add", "post_signal")
  /\ value' = value + 1
  /\ UNCHANGED <<mutex, calls, spurious>>

\* pthread_cond_signal: one waiter wakes, if there is one.
PostSignal(t) ==
  /\ pc[t] = "post_signal"
  /\ \/ /\ At({"blocked"}) = {}
        /\ pc' = [pc EXCEPT ![t] = "post_unlock"]
     \/ \E w \in At({"blocked"}) :
          pc' = [pc EXCEPT ![t] = "post_unlock", ![w] = "relock"]
  /\ UNCHANGED <<value, mutex, calls, spurious>>

PostUnlock(t) == Release(t, "post_unlock", "idle")

-----------------------------------------------------------------------------
\* What a thread does once it is in a call, whatever wakes it.
Run(t) ==
  \/ WaitLock(t) \/ WaitBlock(t) \/ WaitRelock(t) \/ WaitTake(t) \/ WaitUnlock(t)
  \/ PostLock(t) \/ PostAdd(t) \/ PostSignal(t) \/ PostUnlock(t)

Done == \A t \in Threads : pc[t] = "idle" /\ calls[t] = MaxCalls

Next ==
  \/ \E t \in Threads : CallWait(t) \/ CallPost(t) \/ Run(t) \/ SpuriousWakeup(t)
  \/ Done /\ UNCHANGED vars

Spec == Init /\ [][Next]_vars

\* A thread in a call goes on when it can, and the posters do post.
FairSpec ==
  /\ Spec
  /\ \A t \in Threads : WF_vars(Run(t))
  /\ \A t \in Threads : WF_vars(CallPost(t))

-----------------------------------------------------------------------------
(* Properties.                                                              *)

Steps == {"idle", "wait_lock", "wait_test", "blocked", "relock", "wait_unlock",
          "post_lock", "post_add", "post_signal", "post_unlock"}

\* The types; a semaphore that starts at zero or above never goes below zero.
TypeOK ==
  /\ value \in Int /\ (InitValue >= 0 => value >= 0)
  /\ mutex \in Threads \cup {NoThread}
  /\ pc \in [Threads -> Steps]
  /\ calls \in [Threads -> 0 .. MaxCalls] /\ spurious \in 0 .. MaxSpurious

\* The threads that are about to look at the value again, or to wake another
\* one that will.
Awake == At({"relock", "wait_test", "post_signal"})

\* No wake-up is lost: while a thread is blocked in st_sem_wait, every unit of
\* the value has a thread awake that will come for it, also when newcomers
\* overtake those that were woken.
NoLostWakeup == At({"blocked"}) # {} => value <= Cardinality(Awake)

\* Every st_sem_wait returns once there are posts enough for all.
EveryWaitEnds == \A t \in Waiters : pc[t] = "wait_lock" ~> pc[t] = "idle"

\* How the control point of a thread reads in the abstract semaphore.
AbstractCall(step) ==
  CASE step = "idle" -> "none"
    [] step \in {"wait_lock", "wait_test", "blocked", "relock"} -> "wait"
    [] step \in {"post_lock", "post_add"} -> "post"
    [] step \in {"wait_unlock", "post_signal", "post_unlock"} -> "done"

\* The code implements the counting semaphore: value is its count, a wait takes
\* effect at value-- and a post at value++.
Counting == INSTANCE CountingSemaphore
              WITH count <- value, call <- [t \in Threads |-> AbstractCall(pc[t])]
ImplementsCounting == Counting!Spec
=============================================================================
