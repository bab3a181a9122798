\* Liveness, and the contract of a pool that never aborts: nothing fails, no
\* symmetry, and PIDs only for the workers.
SPECIFICATION FairSpec
CONSTANTS
  m = m
  p1 = p1
  p2 = p2
  p3 = p3
  noPid = noPid
  Pids <- MCSmallPids
  Master = m
  NoPid = noPid
  Inherited <- MCNone
  N = 2
  MaxTimeout = 1
  Timeouts = {0, 1}
  Grace = 1
  MaxLag = 1
  ForkFails = FALSE
  LogFails = FALSE
  SigchldIgnored = FALSE
PROPERTIES
  ImplementsContract
  TimedWorkersEnd
  PoolReturns
  EndedWorkersAreReaped
