SPECIFICATION Spec
CONSTANTS
  k1 = k1  k2 = k2  k3 = k3  d1 = d1  d2 = d2
  Keys <- ThreeKeys
  Data = {d1}
  HalfZero = {}
  HashNum = 2
  HashGiven <- HashTwo
  HashSimple <- HashTwo
  ReallocNum = 1
  NeedClear = TRUE
  MemoryMayFail = TRUE
  CallbackMayFail = TRUE
  MaxNodes = 4
  NoKey = NoKey  Lost = Lost  NoData = NoData  NoFile = NoFile
INVARIANT FoundOnceAndCounted
CHECK_DEADLOCK FALSE
VIEW View
