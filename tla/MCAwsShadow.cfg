CONSTANTS
  Wrap = 4
  TickPeriod = 2
  MaxAcks = 2
  MaxTopics = 3
  MaxTokens = 2
  TimeoutMs = 4
  Apps <- MCApps
  MaxDepth = 3
  StartTicks = {3}
SPECIFICATION Spec
CHECK_DEADLOCK FALSE
INVARIANTS
  TruthfulAnswers
  WaitersSubscribed
  Released
PROPERTIES
  DeltasInOrder
  AllAnswered
