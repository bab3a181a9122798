\* Two threads, lists and quotas from empty to longer than the failure limit.
SPECIFICATION FairSpec
CONSTANTS
  MaxThreads = 2
  ListSizes = {0, 1, 3}
  QueryCounts = {0, 1, 3}
  Shuffles = {TRUE, FALSE}
  Modulus = 8
  MaxConFailures = 2
  LogFails = TRUE
  SpawnFails = TRUE
CHECK_DEADLOCK FALSE
INVARIANTS
  TypeOK
  ReportIsComplete
  SuccessMeansNoException
  IndexInBounds
  QuotaKept
  ReplayInOrder
  AbortAtTheLimit
  FailuresLogged
PROPERTIES
  WorkerEnds
