SPECIFICATION FairSpec
CONSTANTS
  Solvers = {s1, s2}
  NoContext = NoContext
INVARIANTS
  StoppedIsReported
  ReportedIsExpired
  DownOnlyLate
PROPERTIES
  LimitEndsSearch
CHECK_DEADLOCK FALSE
