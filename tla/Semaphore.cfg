SPECIFICATION FairSpec
CONSTANTS
  t1 = t1  t2 = t2  t3 = t3  t4 = t4  t5 = t5
  NoThread = NoThread
  Waiters <- ThreeWaiters
  Posters <- TwoPosters
  InitValue = 2
  MaxCalls = 2
  MaxSpurious = 1
INVARIANT NoLostWakeup
PROPERTIES ImplementsCounting EveryWaitEnds
