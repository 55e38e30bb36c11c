SPECIFICATION SeededSpec
CONSTANTS
  Identities = {i1, i2, i3}
  Resources = {res, otherResource}
  Resource = res
  otherResource = otherResource
  old = p1
  other = p2
  PolicyIDs = {p1, p2, p3, p4, p5, p6, p7, p8}
  NoIdentity = NoIdentity
  NoPolicy = NoPolicy
  Callers = {c1, c2}
  Desired = {i1, i2}
  MaxDisturbances = 1
PROPERTIES
  OtherResourcesUntouched
  SuccessIsExact
  Converges
