SPECIFICATION RunSpec
CONSTANTS
  a = a  b = b  c = c  a1 = a1  a2 = a2  b1 = b1  c1 = c1  c2 = c2
  Ids <- ThreeSuites
  Cases <- FiveCases
  SuiteOf <- CaseSuite
  NoFunc = {b1, c2}
  NULL = NULL
  MaxDeps = 1
  SignalsArrive = TRUE
  ReportMayFail = TRUE
INVARIANTS ZeroMeansAllExecutedAlways
CHECK_DEADLOCK FALSE
