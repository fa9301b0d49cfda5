SPECIFICATION FairSpec
CONSTANTS
  Devices = {a, b}
  NoOne = NoOne
  NoKey = NoKey
  NoPackage = NoPackage
  NoGroup = NoGroup
  MaxGroupMembers = 3
  MaxStarts = 2
  MaxMishaps = 1
  MaxRemovals = 1
CHECK_DEADLOCK FALSE
INVARIANTS
  SharedKey
  OnlyInvited
PROPERTIES
  JoinSettles
