SPECIFICATION Spec
CONSTANTS
  NoOwner = NoOwner
  Absent = Absent
  Workers = {w1, w2}
  PodNames = {n1, n2}
  PodUIDs = {1, 2, 3, 4, 5, 6, 7}
  RSUIDs = {1, 2}
  RVs = {1, 2, 3, 4, 5, 6}
  Sizes = {0, 2}
  Burst = 2
  RetryingClient = FALSE
  MaxDisturbances = 3
CONSTRAINT NoneReady
SYMMETRY Symmetry
INVARIANTS
  OvershootBounded
PROPERTIES
  OnlyListedPodsDeleted
  ObservedSpecWasActedOn
  StatusWriteSparesTheRest
CHECK_DEADLOCK FALSE
