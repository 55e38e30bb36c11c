SPECIFICATION FairSpec
CONSTANTS
  a1 = a1
  a2 = a2
  Namespaces = {n1, n2}
  Ensured <- TwoAccounts
  MaxDisturbances = 6
PROPERTIES
  AccountsArrive
  NamespacesGo
CHECK_DEADLOCK FALSE
