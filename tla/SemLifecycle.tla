---------------------------- MODULE SemLifecycle ----------------------------
(***************************************************************************)
(* The life of a st_sem_t: st_sem_init and st_sem_destroy, and the field   *)
(* inited between them.  The memory of a semaphore is the caller's: what   *)
(* inited holds before the first successful init is whatever was there.    *)
(***************************************************************************)
EXTENDS FiniteSets

CONSTANT Sems

VARIABLES
  inited,        \* the field, per semaphore
  mutex, cond,   \* "raw" before a pthread init, then "live", then "dead"
  asked,         \* the semaphores st_sem_init was called on
  cleared,       \* the semaphores whose memory the caller cleared first
  harmed        \* those with a pthread destroy of what was not live

lifeVars == <<inited, mutex, cond, asked, cleared, harmed>>

LifeInit ==
  /\ cleared \in SUBSET Sems
  /\ inited \in {f \in [Sems -> BOOLEAN] : \A s \in cleared : ~f[s]}
  /\ mutex = [s \in Sems |-> "raw"] /\ cond = [s \in Sems |-> "raw"]
  /\ asked = {} /\ harmed = {}

\* A caller initialises a semaphore that has no live mutex.
MayInit(s) == mutex[s] # "live"

InitMutexFails(s) == UNCHANGED <<inited, mutex, cond>>

InitCondFailsMarked(s) ==
  /\ mutex' = [mutex EXCEPT ![s] = "live"]
  /\ inited' = [inited EXCEPT ![s] = TRUE]
  /\ UNCHANGED cond

\* The mutex is left behind.
InitCondFails(s) ==
  mutex' = [mutex EXCEPT ![s] = "live"] /\ UNCHANGED <<inited, cond>>

InitSucceeds(s) ==
  /\ mutex' = [mutex EXCEPT ![s] = "live"] /\ cond' = [cond EXCEPT ![s] = "live"]
  /\ inited' = [inited EXCEPT ![s] = TRUE]

st_sem_init(s) ==
  /\ MayInit(s)
  /\ InitMutexFails(s) \/ InitCondFails(s) \/ InitSucceeds(s)
  /\ asked' = asked \cup {s}
  /\ UNCHANGED <<cleared, harmed>>

Skip(s) == ~inited[s]

\* Callers destroy what they initialised, also twice; what they failed to, if they
\* cleared its memory first.
MayDestroy(s) == s \in asked /\ (cond[s] # "raw" \/ s \in cleared)

st_sem_destroy(s) ==
  /\ MayDestroy(s)
  /\ \/ Skip(s) /\ UNCHANGED <<inited, mutex, cond, harmed>>
     \/ /\ ~Skip(s)
        /\ harmed' = IF mutex[s] = "live" /\ cond[s] = "live" THEN harmed
                      ELSE harmed \cup {s}
        /\ mutex' = [mutex EXCEPT ![s] = "dead"] /\ cond' = [cond EXCEPT ![s] = "dead"]
        /\ inited' = [inited EXCEPT ![s] = FALSE]
  /\ UNCHANGED <<asked, cleared>>

LifeNext == \E s \in Sems : st_sem_init(s) \/ st_sem_destroy(s)

LifeSpec == LifeInit /\ [][LifeNext]_lifeVars

-----------------------------------------------------------------------------
(* Properties.                                                              *)

\* Whichever part of an init fails and however often a semaphore is destroyed, no
\* mutex or condition is destroyed that is not live: inited tells whether both are.
DestroyHarmless == harmed = {}
=============================================================================
