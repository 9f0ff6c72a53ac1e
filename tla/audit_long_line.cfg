SPECIFICATION Spec
CONSTANTS
  EventKinds = 2
  Sizes = {2, 5}
  TailBytes = 4
  MaxWrites = 3
  MaxCuts = 0
INVARIANTS
  EachEntryChained
CHECK_DEADLOCK FALSE
