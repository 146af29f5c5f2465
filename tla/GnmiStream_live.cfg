SPECIFICATION FairSpec
CONSTANTS
  MaxCalls = 2
  MaxResponses = 1
  Kinds = {"good", "bad"}
  ErrorStatus = {"UNAVAILABLE"}
  HandlerCalls <- AllCalls
CHECK_DEADLOCK FALSE
INVARIANT
  OwnWaitsOnly
PROPERTIES
  CallReturns
  FailureReported
  StreamFair
