SPECIFICATION FairSpec
CONSTANTS
  Nodes = {0, 1}
  CounterMax = 30
  OverflowChecks = TRUE
  Users = {u1, u2}
  Emojis = {e1}
  Names = {v1, v2}
  NoName = NoName
  MaxUpdates = 3
  MaxCopies = 2
CHECK_DEADLOCK FALSE
INVARIANTS
  DotsUnique
  AddWins
PROPERTIES
  ReadYourWrites
  CounterSpec
  Converges
