\* Files of up to two blocks: the documented key against the one that is read.
SPECIFICATION Spec
CONSTANTS
  Digits <- MCDigits
  Kilo = 8
  MaxInt = 262143
  MaxUint16 = 65535
  MaxUint32 = 131071
  Files <- MCFiles
  Builds <- MCBuilds
  MaxLine = 1
  MaxBlocks = 2
  MaxSettings = 2
CHECK_DEADLOCK FALSE
INVARIANTS
  DocumentedKeyWorks
