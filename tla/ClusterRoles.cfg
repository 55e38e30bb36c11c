SPECIFICATION FairSpec
CONSTANTS
  view = view
  edit = edit
  r1 = r1
  r2 = r2
  Absent = Absent
  RoleCount = 3
  Labels = {view, edit}
  Selectors <- SelectorsOf
  MayCarry <- LabelsOf
  Rules = {r1, r2}
  RuleLists <- RuleListsOf
  MaxDisturbances = 2
INVARIANTS
  TypeOK
PROPERTIES
  LabelsSpared
  Converges
CHECK_DEADLOCK FALSE
