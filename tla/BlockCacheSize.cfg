SPECIFICATION SpecSize
CONSTANTS
  t1 = t1  h1 = h1  h2 = h2 h3 = h3
  NoThread = NoThread  NoHandle = NoHandle
  Threads <- OneThread
  Handles <- ThreeHandles
  Count = 2
  MaxBlocks = 4
  AllocMayFail = FALSE
  Pinning = TRUE
  DoubleReturn = TRUE
INVARIANT SizeOffByGrowthOnly
PROPERTY DoubleReturnRefused
