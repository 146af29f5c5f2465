SPECIFICATION OnceSpec
CONSTANTS
  MaxCalls = 2
  MaxResponses = 2
  Kinds = {"good", "bad", "fatal"}
  ErrorStatus = {"UNAVAILABLE", "INTERNAL"}
INVARIANTS
  OnceTypeOK
  SuccessIsComplete
  StoredInOrder
  PrintedComplete
PROPERTIES
  DeadlineReturns
  OnceEnds
