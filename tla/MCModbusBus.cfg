\* Two calls, one fault; two identification objects to an answer.
CONSTANTS
  CrcByte = 1
  Callbacks <- MCCallbacks
  Objects <- MCObjects
  PageSize = 7
  Plans <- MCPlans
  Failures = {4}
  Value <- MCValue
  Noise <- MCNoise
SPECIFICATION Spec
INVARIANTS
  EndToEnd
  ExecutedWasSent
  InSync
  CalmCallAnswered
  RecvFitsBuffer
PROPERTY CallReturns
