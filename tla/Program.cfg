\* Every file of one line of up to four symbols, of up to three blocks, or of a
\* section with up to two settings, read by a program with one driver or both;
\* a word of 19 bits, and a Kilo of 8.
SPECIFICATION Spec
CONSTANTS
  Digits <- MCDigits
  Kilo = 8
  MaxInt = 262143
  MaxUint16 = 65535
  MaxUint32 = 131071
  Files <- MCFiles
  Builds <- MCBuilds
  MaxLine = 4
  MaxBlocks = 3
  MaxSettings = 2
CHECK_DEADLOCK FALSE
INVARIANTS
  TypeOK
  ReadsTheFile
  NumbersAreExact
  AllOrNothing
  WorkersFollowTheFile
  SuccessMeansAllRan
