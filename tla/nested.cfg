SPECIFICATION Spec
CONSTANTS
  Addr = {A, B, C}
  Entry = A
  NoAddr = NoAddr
  Runs = {r1}
  Overlap = FALSE
  Reuse = FALSE
  Catches = TRUE
  GasLimit = 1
  Costs = {1, 2}
  MaxObjects = 7
SYMMETRY CalleeSymmetry
INVARIANTS
  TypeOK
  ActiveIsCallStack
  MemoPairing
  CellsAliasMaps
  EffectsAreTheCallsOwn
  CoinsFollowCommitments
  CallTreeTrace
  LedgerReplays
  SequentialCallsChain
PROPERTIES
  IsTransactional
CHECK_DEADLOCK FALSE
