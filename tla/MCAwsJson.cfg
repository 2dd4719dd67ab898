CONSTANTS
  NumTokens = 19
  Limit <- MCLimit
  Fields <- MCFields
  Settings <- MCSettings
  MaxDocument = 72
  ClientToken = "me"
  TokenRoom = 6
  LengthOf <- MCLengthOf
  Trees <- MCTrees
  Garbage <- MCGarbage
SPECIFICATION Spec
CHECK_DEADLOCK FALSE
INVARIANTS
  AcceptedBalanced
  WellFormedAccepted
  RoundTrip
  DeltaFromState
