\* A later fork() fails while an earlier worker runs.
SPECIFICATION FairSpec
CONSTANTS
  m = m
  p1 = p1
  p2 = p2
  p3 = p3
  noPid = noPid
  Pids <- MCPids
  Master = m
  NoPid = noPid
  Inherited <- MCNone
  N = 2
  MaxTimeout = 1
  Timeouts = {1}
  Grace = 1
  MaxLag = 1
  ForkFails = TRUE
  LogFails = FALSE
  SigchldIgnored = FALSE
PROPERTIES
  TimedWorkersEnd
