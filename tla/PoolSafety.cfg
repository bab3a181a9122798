\* Two workers, one of them possibly without a timeout, an inherited child,
\* one PID to spare; fork() and the log may fail.
SPECIFICATION Spec
CONSTANTS
  m = m
  p1 = p1
  p2 = p2
  p3 = p3
  noPid = noPid
  Pids <- MCPids
  Master = m
  NoPid = noPid
  Inherited <- MCInherited
  N = 2
  MaxTimeout = 1
  Timeouts = {0, 1}
  Grace = 2
  MaxLag = 1
  ForkFails = TRUE
  LogFails = TRUE
  SigchldIgnored = FALSE
SYMMETRY Interchangeable
INVARIANTS
  TypeOK
  ActiveAreChildren
  NoStraySignal
  OneProcessPerWorker
  VerdictIsTruthful
  TermOnlyAfterTimeout
  KillOnlyAfterGrace
PROPERTIES
  ImplementsContract
