SPECIFICATION Spec
CONSTANTS
  Names <- MCNames
  NoName = "empty"
  Leaves <- MCLeaves
  Counters <- MCCounters
  WordSize = 8
  MaxUpdates = 3
  Responses <- MCResponses
INVARIANTS
  ParsingTypeOK
  CountersExact
  ThrowsExact
  NamesExact
