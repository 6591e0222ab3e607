\* The contract of platform.read: the bytes delivered.
CONSTANTS
  Byte = {1, 2}
  RxSize = 3
  BufSize = 3
SPECIFICATION Spec
INVARIANT DeliversWhatItReports
