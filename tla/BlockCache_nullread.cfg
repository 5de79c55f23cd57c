SPECIFICATION Spec
CONSTANTS
  t1 = t1  t2 = t2  h1 = h1  h2 = h2  h3 = h3
  NoThread = NoThread  NoHandle = NoHandle
  Threads <- OneThread
  Handles <- TwoHandles
  Count = 1
  MaxBlocks = 3
  AllocMayFail = TRUE
  Pinning = TRUE
  DoubleReturn = FALSE
CHECK_DEADLOCK FALSE
PROPERTY ReadNeverFaults
