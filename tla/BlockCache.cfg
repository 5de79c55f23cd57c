SPECIFICATION FairSpec
CONSTANTS
  t1 = t1  t2 = t2  h1 = h1  h2 = h2  h3 = h3
  NoThread = NoThread  NoHandle = NoHandle
  Threads <- TwoThreads
  Handles <- ThreeHandles
  Count = 2
  MaxBlocks = 4
  AllocMayFail = TRUE
  Pinning = TRUE
  DoubleReturn = FALSE
\* A fault ends the process.
CHECK_DEADLOCK FALSE
INVARIANTS IInv RefsConserved FreeListExact HeldSlotsDisjoint FaultOnlyAfterFailure
PROPERTIES ImplementsAlloc CriticalSectionEnds
