SPECIFICATION Spec
CONSTANTS
  MaxCalls = 1
  MaxResponses = 1
  Kinds = {"good"}
  ErrorStatus = {"UNAVAILABLE"}
  HandlerCalls <- NoHandlerCalls
PROPERTY
  NoWriteAfterFinish
