SPECIFICATION Spec
CONSTANTS
  NoOwner = NoOwner
  Absent = Absent
  Workers = {w1}
  Templates = {A, B}
  Sizes = {1, 2}
  DeploymentUIDs = {1, 2, 3}
  MaxDisturbances = 4
PROPERTIES
  OnlyOwnSetsScaled
CHECK_DEADLOCK FALSE
