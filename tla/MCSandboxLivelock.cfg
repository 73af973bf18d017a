SPECIFICATION SkipTailSpec
CONSTANTS
  a = a  b = b  c = c  d = d
  Ids <- FourCases
  NULL = NULL
  MaxDeps = 1
  Parallelism = {1}
  StartMayFail = FALSE
  SignalsArrive = FALSE
PROPERTIES SandboxEnds
CHECK_DEADLOCK FALSE
