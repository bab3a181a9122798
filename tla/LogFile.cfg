\* Two workers, whose names may be equal and may give the path that is used with
\* -L, and three records of each process.
SPECIFICATION Spec
CONSTANTS
  Workers = {w1, w2}
  Master = m
  MasterPath = masterlog
  AskedPaths = {asked}
  WorkerPaths = {log1, log2, asked}
  NoPath = noPath
  Hole = hole
  MaxRecords = 3
CHECK_DEADLOCK FALSE
INVARIANTS
  TypeOK
  MasterLogIsWhole
  WorkerLogsAreWhole
