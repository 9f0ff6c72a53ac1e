SPECIFICATION Spec
CONSTANTS
  z1 = z1
  z2 = z2
  z3 = z3
  z4 = z4
  Zones = {z1, z2, z3, z4}
  Graphs <- AllGraphs
  Sources = {z1}
  MaxSpare = 2
SYMMETRY Others
INVARIANTS
  TypeOK
  RoutinesAgree
  PathIsSafe
  NoneMeansCutOff
  PathIsShortest
  WorkIsBounded
CHECK_DEADLOCK FALSE
