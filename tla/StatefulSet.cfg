SPECIFICATION FairSpec
CONSTANTS
  NoOwner = NoOwner
  Absent = Absent
  Workers = {w1}
  MaxOrdinal = 3
  StrayNames = {x1}
  ClaimTemplates = {v1, v2}
  Templates = {A, B}
  CompleteTemplates = {A}
  Sizes = {0, 3}
  SetUIDs = {1, 2, 3}
  PodUIDs = {1, 2, 3}
  MaxDisturbances = 3
INVARIANTS
  TypeOK
  ClaimsBeforePods
  AtMostTwoDown
PROPERTIES
  WritesMakeProgress
  UpdateSparesTheRest
  Converges
CHECK_DEADLOCK FALSE
