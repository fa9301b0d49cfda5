SPECIFICATION MCSpec
CONSTANTS
  BucketSpan = 1
  Msgs = {1, 2}
  Slots = {k1, k2}
  MaxTime = 2
  Channels = {c1}
  MaxQueue = 1
  DrainBatch = 1
  MaxSends = 2
  PageLimit = 1
  MaxLocal = 1
  DbFaults = TRUE
  phone = phone
  laptop = laptop
  alice = alice
  p1 = p1
  p2 = p2
  l1 = l1
  Conns = {p1, p2, l1}
  Devices = {phone, laptop}
  Users = {alice}
  DeviceOf <- MCDeviceOf
  OwnerOf <- MCOwnerOf
  NoConn = none
  MaxMissed = 2
  NatsFaults = TRUE
CHECK_DEADLOCK FALSE
INVARIANTS
  InOrder
  OneRowPerMessage
  CursorSafe
  RegistryLive
  NoOrphanSubscription
PROPERTIES
  QueueDrains
  Reaped
