SPECIFICATION Spec
CONSTANTS
  NoOwner = NoOwner
  Absent = Absent
  Workers = {w1}
  PodNames = {n1, n2}
  PodUIDs = {1, 2, 3, 4}
  RSUIDs = {1, 2}
  RVs = {1, 2, 3, 4}
  Sizes = {0, 1}
  Burst = 1
  RetryingClient = FALSE
  MaxDisturbances = 4
PROPERTIES
  StatusComesFromSeenSpec
CHECK_DEADLOCK FALSE
