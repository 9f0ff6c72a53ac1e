SPECIFICATION Spec
CONSTANTS
  EventKinds = 2
  Sizes = {2, 3, 5}
  TailBytes = 4
  MaxWrites = 4
  MaxCuts = 2
INVARIANTS
  TypeOK
  TrailVerifies
  VerifiedMeansComplete
  AlterationsShow
CHECK_DEADLOCK FALSE
