\* Two threads share a file; counts the driver takes and refuses.
CONSTANTS
  Proc = {p1, p2}
  File = {f1}
  None = None
  Counts = {2, 252}
  Fill <- MCFill
  IoctlArgs = {1, 65535}
  Addresses = {0, 1}
  MaxRequests = 2
SPECIFICATION FairSpec
INVARIANTS
  TypeOK
  LockProtectsClient
  NothingLeaks
PROPERTIES
  AnswersOwnCall
  CallReturns
