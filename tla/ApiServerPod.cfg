SPECIFICATION Spec
CONSTANTS
  k1 = k1
  k2 = k2
  Clients = {c1}
  Keys = {k1}
  KindOf <- PodKey
  UIDs = {1, 2}
  RVs = {1, 2, 3, 4}
  Specs = {s1, s2}
  Statuses = {t1}
  CreatedStatus = t1
  UserFinalizers = {"hold"}
  GracePeriods <- NegativeAndZero
  DefaultGrace = 2
  NoUID = NoUID
  NoRV = NoRV
  NoGrace = NoGrace
  Absent = Absent
  Idle = Idle
CONSTRAINT InOrder
SYMMETRY SpecSymmetry
INVARIANTS
  TypeOK
  VersionIdentifiesContent
  GenerationIdentifiesSpec
  TerminatingObjectWaits
PROPERTIES
  DeletionIsFinal
  SuccessorUntouched
  NoLostUpdate
CHECK_DEADLOCK FALSE
