SPECIFICATION FairRunSpec
CONSTANTS
  a = a  b = b  c = c  a1 = a1  a2 = a2  b1 = b1  c1 = c1  c2 = c2
  Ids <- ThreeSuites
  Cases <- FiveCases
  SuiteOf <- CaseSuite
  NoFunc = {b1, c2}
  NULL = NULL
  MaxDeps = 2
  SignalsArrive = TRUE
  ReportMayFail = TRUE
INVARIANTS RunTypeOK RankOrder RankCovered LoopExact SuiteOrder ZeroMeansSuccess SkippedWhole
PROPERTIES RankFrozen RunEnds
CHECK_DEADLOCK FALSE
