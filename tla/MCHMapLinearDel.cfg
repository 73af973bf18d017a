SPECIFICATION TableSpec
CONSTANTS
  Keys = {0, 4, 9}
  Vals = {"v", "w"}
  None = "none"
  Clients <- ProbeAndDelete
  Sizes = {1, 5}
  Primes <- SmallPrimes
  Hash <- HashMod
INVARIANTS OneValuePerKey
CHECK_DEADLOCK FALSE
