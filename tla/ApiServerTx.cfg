SPECIFICATION FairSpec
CONSTANTS
  k1 = k1
  k2 = k2
  Clients = {c1}
  Keys = {k1, k2}
  KindOf <- ClaimAndPod
  UIDs = {1, 2}
  RVs = {1, 2, 3, 4}
  Specs = {s1, s2}
  Statuses = {t1}
  CreatedStatus = t1
  UserFinalizers = {}
  GracePeriods = {0}
  DefaultGrace = 2
  NoUID = NoUID
  NoRV = NoRV
  NoGrace = NoGrace
  Absent = Absent
  Idle = Idle
CONSTRAINTS InOrder RoomToWrite
INVARIANTS
  UIDNamesOneKey
PROPERTIES
  LifecycleSpec
  TxReturns
CHECK_DEADLOCK FALSE
