\* The ring is smaller than a batch and wraps more than once in the stream.
CONSTANTS
  Size = 3
  MaxReceived = 6
  MaxBatch = 4
  MaxLen = 3
SPECIFICATION FairSpec
INVARIANTS
  TypeOK
  RingHoldsNewest
  DeliveredInOrder
  Accounting
PROPERTIES
  ImplementsQueue
  TransfersEnd
