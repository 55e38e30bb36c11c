SPECIFICATION FairSpec
CONSTANTS
  k1 = k1
  k2 = k2
  Clients = {c1}
  Keys = {k1}
  KindOf <- PodKey
  UIDs = {1, 2}
  RVs = {1, 2, 3}
  Specs = {s1}
  Statuses = {t1}
  CreatedStatus = t1
  UserFinalizers = {}
  GracePeriods = {0}
  DefaultGrace = 2
  NoUID = NoUID
  NoRV = NoRV
  NoGrace = NoGrace
  Absent = Absent
  Idle = Idle
CONSTRAINTS InOrder RoomToWrite
PROPERTIES
  UpdateTxReturns
CHECK_DEADLOCK FALSE
