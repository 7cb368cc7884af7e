SPECIFICATION MCSpec
CONSTANTS
  Focuses = {"theorems", "claims", "rfcs", "migration"}
  n1 = n1
  n2 = n2
  k1 = k1
  c1 = c1
  g1 = g1
  g2 = g2
  p1 = p1
  p2 = p2
  Name = {n1, n2}
  PublicName = {n1}
  WeightOf <- WeightTable
  Ctor = {k1}
  Descriptors = 2
  Absent = Absent
  Refused = Refused
  Claim = {c1}
  Gate = {g1, g2}
  Profile = {p1, p2}
  Bindable = p1
  Null = Null
  Number = {84, 85}
  Wave <- SmallWave
  Missing = Missing
INVARIANTS GreenIsTrue MigratedIsAccepted
PROPERTIES RegenerationConverges
CHECK_DEADLOCK FALSE
