SPECIFICATION FairSpec
CONSTANTS
  NoOwner = NoOwner
  Absent = Absent
  Workers = {w1}
  Templates = {A, B, C}
  Sizes = {1, 2}
  DeploymentUIDs = {1, 2, 3}
  MaxDisturbances = 4
INVARIANTS
  TypeOK
  CapacityKept
PROPERTIES
  OrphansStay
  RolloutCompletes
CHECK_DEADLOCK FALSE
