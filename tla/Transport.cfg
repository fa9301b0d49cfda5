SPECIFICATION FairSpec
CONSTANTS
  Topics = {a, b}
  MaxSockets = 4
  MaxCalls = 4
CHECK_DEADLOCK FALSE
INVARIANTS
  TopicsKept
  AnswersMatch
  NobodyWaits
  OneHeartbeat
PROPERTIES
  Rejoined
