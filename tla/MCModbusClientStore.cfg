\* Two calls and no fault of the line.
CONSTANTS
  Requests <- MCRequests
  Addresses <- MCAddresses
  Noise <- MCNoise
  Exceptions = {2, 6}
  RxSize = 10
  BufSize = 12
  MaxRequests = 2
  MaxFaults = 0
SPECIFICATION Spec
INVARIANT StoreFitsCaller
