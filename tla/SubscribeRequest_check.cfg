SPECIFICATION Spec
CONSTANTS
  Word <- MCWord
  MaxKeys = 2
  Requests <- MCRequests
INVARIANTS
  KeysRequested
  PathsRoundTrip
  RootOnlyForBadKey
