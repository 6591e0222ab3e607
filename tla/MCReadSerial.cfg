\* The fifo can overflow while a call waits; calls ask for 0 to 3 bytes.
CONSTANTS
  Byte = {1, 2}
  RxSize = 3
  BufSize = 3
SPECIFICATION FairSpec
INVARIANTS
  TypeOK
  StaysInBuffer
  SinglePollExact
PROPERTY CallReturns
