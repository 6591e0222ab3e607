\* A signal against 'Terminating normally'.
CONSTANTS
  Name = {a}
  FullName = {}
  LongName = {}
  NoName = NoName
  Number = {1}
  NoNumber = NoNumber
  UINT16_MAX = 3
  UINT_SIZE = 8
  ULONG_MAX = 63
  Upper = {0, 1}
  MaxLines = 1
  MaxTyped = 1
SPECIFICATION Spec
CHECK_DEADLOCK FALSE
INVARIANT SignalTerminatesNormally
