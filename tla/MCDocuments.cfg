SPECIFICATION DocSpec
CONSTANTS
  MaxDepth = 3
  MaxCharacters = 4
  MaxWords = 5
  MaxAtomCalls = 3
  JNodes = {1, 2, 3, 4}
  Keys <- OneKey
  FqnSz = 8
  MaxIndexed = 2
  RemoveAny = FALSE
  MaxOpen = 5
  MaxKeys = 5
  MaxCfgText = 7
  GetlineSz = 5
  CommentSz = 10
  UriMaxChunks = 5
  Bytes = {0, 77, 190, 255}
  MaxBytes = 5
  BeforeTable = {5, 255}
  TextChars = {"a", ":", "/", " "}
  MaxText = 5
  SlotsDflt = 2
  SlotsIncr = 2
  LineSz = 6
  IntMax = 1
  LongMax = 2
  UMax = 4
INVARIANTS JsonSound TreeSound ConfigSound UriSound B64RoundTrip TextExact
 
CHECK_DEADLOCK FALSE
