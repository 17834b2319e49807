SPECIFICATION Spec
CONSTANTS
  Addr = {A, B, C}
  Entry = A
  NoAddr = NoAddr
  Runs = {r1, r2}
  Overlap = TRUE
  Reuse = TRUE
  Catches = TRUE
  GasLimit = 1
  Costs = {1, 2}
  MaxObjects = 5
SYMMETRY CalleeSymmetry
INVARIANTS
  ActiveIsCallStack
  CellsAliasMaps
CHECK_DEADLOCK FALSE
