SPECIFICATION Spec
CONSTANTS
  adm = adm
  mem = mem
  a1 = a1
  m1 = m1
  general = general
  fresh = fresh
  Conns = {a1, m1}
  Users = {adm, mem}
  UserOf <- MCUserOf
  Channels = {general, fresh}
  Presences = {status}
  Lobbies = {lobby}
  ChannelOf <- MCChannelOf
  Members <- MCMembers
  Admins <- MCAdmins
  MaxId = 2
  MaxSent = 2
  DbFaults = TRUE
CHECK_DEADLOCK FALSE
INVARIANTS
  RoutesAgree
  FramesLabelled
PROPERTIES
  NothingAfterLeave
