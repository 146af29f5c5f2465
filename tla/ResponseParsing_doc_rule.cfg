SPECIFICATION Spec
CONSTANTS
  Names <- MCNames
  NoName = "empty"
  Leaves <- MCLeaves
  Counters <- MCCounters
  WordSize = 8
  MaxUpdates = 2
  Responses <- MCResponses
INVARIANTS
  CountersOfTheRule
