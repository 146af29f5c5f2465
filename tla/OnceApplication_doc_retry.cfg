SPECIFICATION OnceSpec
CONSTANTS
  MaxCalls = 2
  MaxResponses = 1
  Kinds = {"good", "bad", "fatal"}
  ErrorStatus = {"UNAVAILABLE", "INTERNAL"}
INVARIANT
  RetryPrinted
