\* pquery was started with SIGCHLD ignored, perhaps with a child from before exec:
\* waitpid never returns a worker.
SPECIFICATION FairSpec
CONSTANTS
  m = m
  p1 = p1
  p2 = p2
  p3 = p3
  noPid = noPid
  Pids <- MCPids
  Master = m
  NoPid = noPid
  Inherited <- MCInherited
  N = 2
  MaxTimeout = 1
  Timeouts = {1}
  Grace = 0
  MaxLag = 1
  ForkFails = FALSE
  LogFails = FALSE
  SigchldIgnored = TRUE
PROPERTIES
  PoolReturns
