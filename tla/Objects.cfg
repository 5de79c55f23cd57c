SPECIFICATION MCSpec
CONSTANTS
  i1 = i1  i2 = i2  NoItem = NoItem
  h1 = h1  h2 = h2  h3 = h3  h4 = h4  sem = sem
  Sems <- OneSem
  Items <- TwoItems
  Capacity = 4
  StackCapacity = 3
  PoolCapacity = 3
  HeapCapacity = 4
  StackItems <- TwoItems
  NoStackItem = NoItem
  StackWord = 16
  Handles <- FourHandles
  Indexed = TRUE
  NoIndex <- MinusOne
  NumIndex = 4
  Objects = {0,1,2,3,4}
  Keys = {1,2}
  NoObj = NoObj
  Word = 16
\* After a st_sem_init that failed half way in memory that was not cleared the
\* caller can neither destroy the semaphore nor initialise it again.
CHECK_DEADLOCK FALSE
INVARIANTS SizeExactButForWrap ArraysTypeOK HeapSound DestroyHarmless
PROPERTIES ImplementsFifo ImplementsLifo ImplementsPriorityQueue PoolImplementsAlloc
VIEW View
