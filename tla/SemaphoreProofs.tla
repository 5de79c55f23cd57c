-------------------------- MODULE SemaphoreProofs --------------------------
(***************************************************************************)
(* Proofs about Semaphore, for any set of waiters and posters, any initial *)
(* value and any bounds.                                                   *)
(***************************************************************************)
EXTENDS Semaphore, FiniteSetTheorems, TLAPS

LEMMA TypeStep == TypeOK /\ [Next]_vars => TypeOK'
<1> SUFFICES ASSUME TypeOK, [Next]_vars PROVE TypeOK'
  OBVIOUS
<1> USE SemaphoreAssumption
<1>1. ASSUME NEW t \in Threads, CallWait(t) \/ CallPost(t) PROVE TypeOK'
  BY <1>1 DEF CallWait, CallPost, Call, Goto, TypeOK, Steps
<1>2. ASSUME NEW t \in Threads, WaitLock(t) \/ WaitRelock(t) \/ PostLock(t) PROVE TypeOK'
  BY <1>2 DEF WaitLock, WaitRelock, PostLock, Acquire, Goto, TypeOK, Steps
<1>3. ASSUME NEW t \in Threads, WaitBlock(t) \/ WaitUnlock(t) \/ PostUnlock(t) PROVE TypeOK'
  BY <1>3 DEF WaitBlock, WaitUnlock, PostUnlock, Release, Goto, TypeOK, Steps
<1>4. ASSUME NEW t \in Threads, WaitTake(t) PROVE TypeOK'
  BY <1>4 DEF WaitTake, MustBlock, Goto, TypeOK, Steps
<1>5. ASSUME NEW t \in Threads, PostAdd(t) PROVE TypeOK'
  BY <1>5 DEF PostAdd, Goto, TypeOK, Steps
<1>6. ASSUME NEW t \in Threads, PostSignal(t) PROVE TypeOK'
  BY <1>6 DEF PostSignal, At, TypeOK, Steps
<1>7. ASSUME NEW t \in Threads, SpuriousWakeup(t) PROVE TypeOK'
  BY <1>7 DEF SpuriousWakeup, Goto, TypeOK, Steps
<1>8. CASE UNCHANGED vars
  BY <1>8 DEF vars, TypeOK
<1> QED
  BY <1>1, <1>2, <1>3, <1>4, <1>5, <1>6, <1>7, <1>8 DEF Next, Run

\* TypeOK, for every instance: the value of a semaphore that starts at zero or
\* above never goes below zero, however many threads wait on it.
THEOREM SemaphoreTypeCorrect == Spec => []TypeOK
<1>1. Init => TypeOK
  BY SemaphoreAssumption DEF Init, TypeOK, Steps
<1> QED
  BY <1>1, TypeStep, PTL DEF Spec

-----------------------------------------------------------------------------
(* No wake-up is lost.                                                      *)

LEMMA AwakeFinite == IsFiniteSet(Awake) /\ Cardinality(Awake) \in Nat
<1>1. IsFiniteSet(Threads) /\ Awake \in SUBSET Threads
  BY SemaphoreAssumption, FS_Union DEF Threads, Awake, At
<1> QED
  BY <1>1, FS_Subset, FS_CardinalityType

AwakeSteps == {"relock", "wait_test", "post_signal"}

\* How a step of one thread changes the set of those awake.
LEMMA AwakeMove ==
  ASSUME TypeOK, NEW t \in Threads, NEW from \in Steps, NEW to \in Steps,
         pc[t] = from, pc' = [pc EXCEPT ![t] = to]
  PROVE  /\ from \in AwakeSteps <=> to \in AwakeSteps
              => Cardinality(Awake') = Cardinality(Awake)
         /\ from \in AwakeSteps /\ to \notin AwakeSteps
              => Cardinality(Awake') = Cardinality(Awake) - 1
         /\ from \notin AwakeSteps /\ to \in AwakeSteps
              => Cardinality(Awake') = Cardinality(Awake) + 1
<1>1. \A u \in Threads \ {t} : u \in Awake' <=> u \in Awake
  BY DEF Awake, At, TypeOK
<1>2. (t \in Awake <=> from \in AwakeSteps) /\ (t \in Awake' <=> to \in AwakeSteps)
  BY DEF Awake, At, TypeOK, AwakeSteps
<1>3. Awake \subseteq Threads /\ Awake' \subseteq Threads
  BY DEF Awake, At
<1>4. CASE from \in AwakeSteps <=> to \in AwakeSteps
  <2>1. Awake' = Awake
    BY <1>1, <1>2, <1>3, <1>4
  <2> QED
    BY <1>4, <2>1
<1>5. CASE from \in AwakeSteps /\ to \notin AwakeSteps
  <2>1. Awake' = Awake \ {t} /\ t \in Awake
    BY <1>1, <1>2, <1>3, <1>5
  <2> QED
    BY <1>5, <2>1, AwakeFinite, FS_RemoveElement
<1>6. CASE from \notin AwakeSteps /\ to \in AwakeSteps
  <2>1. Awake' = Awake \cup {t} /\ t \notin Awake
    BY <1>1, <1>2, <1>3, <1>6
  <2> QED
    BY <1>6, <2>1, AwakeFinite, FS_AddElement
<1> QED
  BY <1>4, <1>5, <1>6

LEMMA WakeupStep == TypeOK /\ NoLostWakeup /\ [Next]_vars => NoLostWakeup'
<1> SUFFICES ASSUME TypeOK, NoLostWakeup, [Next]_vars, At({"blocked"})' # {}
             PROVE  value' <= Cardinality(Awake')
  BY DEF NoLostWakeup
<1> USE SemaphoreAssumption
<1>1. value \in Int /\ Cardinality(Awake) \in Nat
  BY AwakeFinite DEF TypeOK
<1>2. At({"blocked"}) # {} => value <= Cardinality(Awake)
  BY DEF NoLostWakeup
\* A step that keeps the value, blocks nobody and puts nobody to sleep.
<1>3. ASSUME NEW t \in Threads, NEW from \in Steps, NEW to \in Steps \ {"blocked"},
             Goto(t, from, to), from \in AwakeSteps => to \in AwakeSteps,
             UNCHANGED value
      PROVE  value' <= Cardinality(Awake')
  <2>1. At({"blocked"}) # {}
    BY <1>3 DEF At, Goto, TypeOK
  <2>2. pc[t] = from /\ pc' = [pc EXCEPT ![t] = to]
    BY <1>3 DEF Goto
  <2>3. CASE from \in AwakeSteps <=> to \in AwakeSteps
    <3>1. Cardinality(Awake') = Cardinality(Awake)
      BY <2>2, <2>3, AwakeMove
    <3> QED
      BY <1>2, <1>3, <2>1, <3>1
  <2>4. CASE from \notin AwakeSteps /\ to \in AwakeSteps
    <3>1. Cardinality(Awake') = Cardinality(Awake) + 1
      BY <2>2, <2>4, AwakeMove
    <3> QED
      BY <1>1, <1>2, <1>3, <2>1, <3>1
  <2> QED
    BY <1>3, <2>3, <2>4
<1>4. ASSUME NEW t \in Threads, CallWait(t) \/ CallPost(t)
      PROVE  value' <= Cardinality(Awake')
  BY <1>3, <1>4 DEF CallWait, CallPost, Call, Steps, AwakeSteps
<1>5. ASSUME NEW t \in Threads, WaitLock(t) \/ WaitRelock(t) \/ PostLock(t)
      PROVE  value' <= Cardinality(Awake')
  BY <1>3, <1>5 DEF WaitLock, WaitRelock, PostLock, Acquire, Steps, AwakeSteps
<1>6. ASSUME NEW t \in Threads, WaitUnlock(t) \/ PostUnlock(t) \/ SpuriousWakeup(t)
      PROVE  value' <= Cardinality(Awake')
  BY <1>3, <1>6 DEF WaitUnlock, PostUnlock, Release, SpuriousWakeup, Steps, AwakeSteps
<1>7. ASSUME NEW t \in Threads, WaitBlock(t) PROVE value' <= Cardinality(Awake')
  <2>1. value' <= 0
    BY <1>1, <1>7 DEF WaitBlock, MustBlock, Release
  <2>2. Cardinality(Awake') = Cardinality(Awake) - 1
    BY <1>7, AwakeMove DEF WaitBlock, Release, Goto, Steps, AwakeSteps
  <2>3. Cardinality(Awake) > 0
    <3>1. t \in Awake
      BY <1>7 DEF WaitBlock, Release, Goto, Awake, At
    <3> QED
      BY <1>1, <3>1, AwakeFinite, FS_EmptySet
  <2>4. value' = value
    BY <1>7 DEF WaitBlock, Release
  <2> QED
    BY <1>1, <2>1, <2>2, <2>3, <2>4
<1>8. ASSUME NEW t \in Threads, WaitTake(t) PROVE value' <= Cardinality(Awake')
  <2>1. Cardinality(Awake') = Cardinality(Awake) - 1
    BY <1>8, AwakeMove DEF WaitTake, Goto, Steps, AwakeSteps
  <2>2. At({"blocked"}) # {}
    BY <1>8 DEF WaitTake, Goto, At, TypeOK
  <2>3. value' = value - 1
    BY <1>8 DEF WaitTake
  <2> QED
    BY <1>1, <1>2, <2>1, <2>2, <2>3
<1>9. ASSUME NEW t \in Threads, PostAdd(t) PROVE value' <= Cardinality(Awake')
  <2>1. Cardinality(Awake') = Cardinality(Awake) + 1
    BY <1>9, AwakeMove DEF PostAdd, Goto, Steps, AwakeSteps
  <2>2. At({"blocked"}) # {}
    BY <1>9 DEF PostAdd, Goto, At, TypeOK
  <2>3. value' = value + 1
    BY <1>9 DEF PostAdd
  <2> QED
    BY <1>1, <1>2, <2>1, <2>2, <2>3
<1>10. ASSUME NEW t \in Threads, PostSignal(t) PROVE value' <= Cardinality(Awake')
  <2>1. value' = value /\ pc[t] = "post_signal"
    BY <1>10 DEF PostSignal
  <2>2. At({"blocked"}) # {}
    BY <1>10 DEF PostSignal, At, TypeOK
  <2>3. PICK w \in At({"blocked"}) :
          pc' = [pc EXCEPT ![t] = "post_unlock", ![w] = "relock"]
    BY <1>10, <2>2 DEF PostSignal
  <2>4. /\ w \in Threads /\ w # t /\ w \notin Awake /\ t \in Awake
        /\ Awake' = (Awake \ {t}) \cup {w}
    BY <2>1, <2>3 DEF Awake, At, TypeOK
  <2>5. /\ IsFiniteSet(Awake \ {t})
        /\ Cardinality(Awake \ {t}) = Cardinality(Awake) - 1
    BY <2>4, AwakeFinite, FS_RemoveElement
  <2>6. Cardinality(Awake') = Cardinality(Awake \ {t}) + 1
    BY <2>4, <2>5, FS_AddElement
  <2> QED
    BY <1>1, <1>2, <2>1, <2>2, <2>5, <2>6
<1>11. CASE UNCHANGED vars
  <2>1. Awake' = Awake /\ At({"blocked"})' = At({"blocked"}) /\ value' = value
    BY <1>11 DEF vars, Awake, At
  <2> QED
    BY <1>2, <2>1
<1> QED
  BY <1>4, <1>5, <1>6, <1>7, <1>8, <1>9, <1>10, <1>11 DEF Next, Run

\* NoLostWakeup, for every instance: a blocked thread is never left behind with
\* more value than threads awake to come for it.
THEOREM WakeupsAreNotLost == Spec => []NoLostWakeup
<1>1. Init => NoLostWakeup
  BY DEF Init, NoLostWakeup, At
<1> QED
  BY <1>1, WakeupStep, SemaphoreTypeCorrect, PTL DEF Spec

-----------------------------------------------------------------------------
(* The refinement.                                                          *)

\* The code implements the counting semaphore, for every instance: each step
\* of it is one of CountingSemaphore or none.
THEOREM SemaphoreImplementsCounting == Spec => ImplementsCounting
<1> USE SemaphoreAssumption
<1> DEFINE call == [t \in Threads |-> AbstractCall(pc[t])]
<1>1. Init => Counting!Init
  BY DEF Init, Counting!Init, AbstractCall
<1>2. TypeOK /\ [Next]_vars => [Counting!Next]_(Counting!vars)
  <2> SUFFICES ASSUME TypeOK, [Next]_vars
               PROVE  Counting!Next \/ (call' = call /\ value' = value)
    BY DEF Counting!vars
  <2>0. /\ AbstractCall("idle") = "none" /\ AbstractCall("wait_lock") = "wait"
        /\ AbstractCall("wait_test") = "wait" /\ AbstractCall("blocked") = "wait"
        /\ AbstractCall("relock") = "wait" /\ AbstractCall("wait_unlock") = "done"
        /\ AbstractCall("post_lock") = "post" /\ AbstractCall("post_add") = "post"
        /\ AbstractCall("post_signal") = "done" /\ AbstractCall("post_unlock") = "done"
    BY DEF AbstractCall
  \* A step of one thread, read in the abstract semaphore.
  <2>1. ASSUME NEW t \in Threads, NEW from \in Steps, NEW to \in Steps, Goto(t, from, to)
        PROVE  /\ call[t] = AbstractCall(from)
               /\ call' = [call EXCEPT ![t] = AbstractCall(to)]
    BY <2>1 DEF Goto, TypeOK
  <2>2. ASSUME NEW t \in Threads, NEW from \in Steps, NEW to \in Steps, Goto(t, from, to),
               UNCHANGED value, AbstractCall(from) = AbstractCall(to)
        PROVE  call' = call /\ value' = value
    BY <2>1, <2>2
  <2>3. ASSUME NEW t \in Threads, CallWait(t) \/ CallPost(t) PROVE Counting!Next
    <3>1. ASSUME NEW kind \in {"wait", "post"}, NEW start \in Steps,
                 Goto(t, "idle", start), UNCHANGED value, AbstractCall(start) = kind
          PROVE  Counting!Next
      <4>1. "idle" \in Steps
        BY DEF Steps
      <4>2. call[t] = "none" /\ call' = [call EXCEPT ![t] = kind]
        BY <2>0, <2>1, <3>1, <4>1
      <4> QED
        BY <3>1, <4>2 DEF Counting!Next, Counting!Ask
    <3> QED
      BY <2>0, <2>3, <3>1 DEF CallWait, CallPost, Call, Steps
  <2>4. ASSUME NEW t \in Threads,
               WaitLock(t) \/ WaitBlock(t) \/ WaitRelock(t) \/ PostLock(t)
                 \/ SpuriousWakeup(t)
        PROVE  call' = call /\ value' = value
    BY <2>0, <2>2, <2>4 DEF WaitLock, WaitBlock, WaitRelock, PostLock, SpuriousWakeup,
       Acquire, Release, Steps
  <2>5. ASSUME NEW t \in Threads, WaitTake(t) PROVE Counting!Next
    <3>1. /\ call[t] = "wait" /\ call' = [call EXCEPT ![t] = "done"]
          /\ value > 0 /\ value' = value - 1
      <4>1. Goto(t, "wait_test", "wait_unlock") /\ value' = value - 1
        BY <2>5 DEF WaitTake
      <4>2. value > 0
        BY <2>5 DEF WaitTake, MustBlock, TypeOK
      <4>3. /\ call[t] = AbstractCall("wait_test")
            /\ call' = [call EXCEPT ![t] = AbstractCall("wait_unlock")]
        BY <2>1, <4>1 DEF Steps
      <4> QED
        BY <2>0, <4>1, <4>2, <4>3
    <3> QED
      BY <3>1 DEF Counting!Next, Counting!Wait
  <2>6. ASSUME NEW t \in Threads, PostAdd(t) PROVE Counting!Next
    <3>1. /\ call[t] = "post" /\ call' = [call EXCEPT ![t] = "done"] /\ value' = value + 1
      BY <2>0, <2>1, <2>6 DEF PostAdd, Steps
    <3> QED
      BY <3>1 DEF Counting!Next, Counting!Post
  <2>7. ASSUME NEW t \in Threads, PostSignal(t) PROVE call' = call /\ value' = value
    BY <2>0, <2>7 DEF PostSignal, At, TypeOK
  <2>8. ASSUME NEW t \in Threads, WaitUnlock(t) \/ PostUnlock(t) PROVE Counting!Next
    <3>1. call[t] = "done" /\ call' = [call EXCEPT ![t] = "none"] /\ UNCHANGED value
      <4>1. ASSUME NEW from \in {"wait_unlock", "post_unlock"}, Goto(t, from, "idle")
            PROVE  call[t] = "done" /\ call' = [call EXCEPT ![t] = "none"]
        <5>1. from \in Steps /\ "idle" \in Steps /\ AbstractCall(from) = "done"
          BY <2>0 DEF Steps
        <5> QED
          BY <2>0, <2>1, <4>1, <5>1
      <4> QED
        BY <2>8, <4>1 DEF WaitUnlock, PostUnlock, Release
    <3> QED
      BY <3>1 DEF Counting!Next, Counting!Leave
  <2>9. CASE UNCHANGED vars
    BY <2>9 DEF vars
  <2> QED
    BY <2>3, <2>4, <2>5, <2>6, <2>7, <2>8, <2>9 DEF Next, Run
<1> QED
  BY <1>1, <1>2, SemaphoreTypeCorrect, PTL DEF Spec, Counting!Spec, ImplementsCounting
=============================================================================
