SPECIFICATION MCSpec
CONSTANTS
  a = a  b = b  c = c  e = e  blank = blank
  long1 = long1  long2 = long2  prefix = prefix
  NoLabel = NoLabel
  NoSign = 0
  Labels <- MCLabels
  get_sign <- MCSign
  Kept <- MCKept
  ReadBack <- MCRead
  MaxNums = {1,2}
  TextFiles <- MCTextFiles
  Ring = 6
  Word = 8
  Cap = 2
  Lengths = {0,1,2,3,5}
  Figures = {0,1}
  MaxText = 6
  Digits = 2
  DefWt = 50
  NoDigit = NoDigit
  CHAR_BIT = 5
  NumBytes = 4
  Widths = {3,4,5,6,9}
  GroupBits = 2
  Width = 5
  Rooms = {0,1,2,3}
  MaxWritten = 2
  Alignments = {1,2,4,8}
  BlockSizes = {1,3,5}
  Bases = {0,1,2}
  Junk = 999
  Fps = {f1,f2}
  Pids = {p1,p2,p3}
  MAX_LINE_LEN = 3
  CallerSizes = {0,1,2,4}
  MaxInput = 9
  Budget = 5
  Delays = {0,2,3}
  MaxLen = 3
  Threads = {t1,t2}
  Unlocked = Unlocked
  Levels = {0,1,2,3,5}
  Masks = {2,9}
  Handles = {h1,h2}
  Sizes = {1,3}
  ReallocFails = TRUE
  NullRealloc = TRUE
  SizeWord = 16
  Callers = {t1,t2}
  NoCaller = NoCaller
  MaxDrift = 4
  NoHandle = NoHandle
\* A text that was read, a union that was refused a segment, and a caller of st_fgets
\* without memory are done with.
CHECK_DEADLOCK FALSE
INVARIANTS FoundAsGiven UnionAndArrayExact CodesKeepValues ParsedAsWritten ContentKept ChildrenWaited LinesWhole ReadExact LogLinesWhole UsageAccounted
VIEW View
