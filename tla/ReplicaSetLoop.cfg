SPECIFICATION FairSpec
CONSTANTS
  NoOwner = NoOwner
  Absent = Absent
  Workers = {w1}
  PodNames = {1, 2, 3, 4, 5, 6}
  PodUIDs = {1, 2, 3, 4, 5, 6, 7, 8, 9, 10, 11, 12}
  RSUIDs = {1, 2, 3}
  RVs = {1, 2, 3, 4}
  Sizes = {0, 3}
  Burst = 3
  RetryingClient = FALSE
  MaxDisturbances = 3
INVARIANTS
  TypeOK
  SlowStartLimitsFailures
  NoOvershoot
PROPERTIES
  Converges
  StatusSettles
CHECK_DEADLOCK FALSE
ACTION_CONSTRAINT InNameOrder
