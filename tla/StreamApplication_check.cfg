SPECIFICATION MCSpec
CONSTANTS
  MaxCalls = 2
  MaxResponses = 2
  Kinds = {"good", "bad", "fatal"}
  ErrorStatus = {"UNAVAILABLE", "DEADLINE_EXCEEDED"}
  HandlerCalls = {}
  ConnectRetries = 1
  RetryStream = 2
  ResponseLimit = 2
INVARIANTS
  ProgramTypesOK
  HandlersReady
  RetriesAreStreams
  EventsOfThisStream
  WaitsForAnEvent
  DanglingAfterLimit
  VerdictOfThisStream
  WakesForThisStream
  FailsForGood
  DanglingAfterFailedWrite
PROPERTIES
  TutorialEnds
  ToolEnds
CHECK_DEADLOCK FALSE
