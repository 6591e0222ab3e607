\* Every mapping file of at most two lines, every two commands.
CONSTANTS
  Name = {a, b}
  FullName = {a}
  LongName = {b}
  NoName = NoName
  Number = {1, 5, 9}
  NoNumber = NoNumber
  UINT16_MAX = 3
  UINT_SIZE = 8
  ULONG_MAX = 63
  Upper = {0, 1}
  MaxLines = 2
  MaxTyped = 2
SPECIFICATION FairSpec
CHECK_DEADLOCK FALSE
INVARIANTS
  TypeOK
  ErrorExitReleasesAll
  InterruptIsSafe
  AccessAsScanned
PROPERTY CleanupEnds
