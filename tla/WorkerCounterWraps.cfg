\* With shuffle = Yes the loop counter wraps round before it reaches queries-per-thread.
SPECIFICATION Spec
CONSTANTS
  MaxThreads = 1
  ListSizes = {2}
  QueryCounts = {3}
  Shuffles = {TRUE}
  Modulus = 2
  MaxConFailures = 2
  LogFails = FALSE
  SpawnFails = FALSE
CHECK_DEADLOCK FALSE
INVARIANTS
  QuotaKept
