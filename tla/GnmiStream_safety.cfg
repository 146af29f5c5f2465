SPECIFICATION Spec
CONSTANTS
  MaxCalls = 2
  MaxResponses = 2
  Kinds = {"good", "bad", "fatal"}
  ErrorStatus = {"UNAVAILABLE"}
  HandlerCalls <- SuccessCalls
INVARIANTS
  StreamInv
  TypeOK
  StreamInUse
  WriteExclusive
  QuietAfterClose
  StatsExact
PROPERTIES
  StreamSafe
  ContextOutlivesCall
  ReportExact
  FinishIsLast
