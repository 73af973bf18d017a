SPECIFICATION FourSpec
CONSTANTS
  a = a  b = b  c = c  d = d
  Ids <- FourCases
  NULL = NULL
  MaxDeps = 1
  Parallelism = {0, 1, 2}
  StartMayFail = TRUE
  SignalsArrive = TRUE
INVARIANTS SandboxTypeOK ChildrenCounted Verdicts
PROPERTIES StartsAfterDeps SandboxEndsOrSticks
CHECK_DEADLOCK FALSE
