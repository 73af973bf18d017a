SPECIFICATION ContainersSpec
CONSTANTS
  Byte = {0, 1}
  Zero = 0
  Junk = 2
  Size = 3
  Options = {{}, {"CONTIGUOUS"}, {"MALLOC"}, {"MALLOC", "CONTIGUOUS"}}
  MaxLen = 4
  low = low  mid1 = mid1  mid2 = mid2  high = high
  Items <- FourItems
  Key <- FourKeys
  NItems = 5
  Keys = {0, 4, 9, 14}
  Vals = {"v", "w"}
  None = "none"
  Sizes = {1, 5}
  Primes <- SmallPrimes
  Hash <- HashMod
  Clients <- TableClients
  Objs <- FiveObjs
  KeyOf <- FiveKeys
  Prio <- FivePrio
  CacheClients <- SixClients
  MaxElems = 3
  Names = {"a", "b"}
  Slots = 2
  MaxSettings = 3
  MaxPuts = 3
  Elems = {e1, e2, e3}
  Ptrs = {p, r}
  NULL = NULL
  Null = Null
  HEAD = HEAD
  MaxCount = 5
  SizeMax = 15
  SizeOf <- TwoSizes
  SlotVals = {"v", "w"}
  NslotsDfl = 2
  ResizePad = 2
  Indexes = {0, 3, 6, 13}
  BstKeys = {1, 2, 3}
  MaxNodes = 5
  MaxDeletes = 2
INVARIANTS OffsetsAgree Mirrored PQueueIsHeap TableSound CacheSound FreedByOwner ListSound BstSound
PROPERTIES RingIsFifo PQueueIsBag TableIsDict DiscardsOne
CHECK_DEADLOCK FALSE
