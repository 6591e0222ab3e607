\* Two calls, one fault.
CONSTANTS
  Requests <- MCRequests
  Addresses <- MCAddresses
  Noise <- MCNoise
  Exceptions = {2, 6}
  RxSize = 10
  BufSize = 12
  MaxRequests = 2
  MaxFaults = 1
SPECIFICATION Spec
INVARIANTS
  TypeOK
  IntactAnswer
  FreshAnswer
PROPERTY ImplementsTransaction
