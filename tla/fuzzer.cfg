SPECIFICATION Spec
CONSTANTS
  MAX_DEPTH = 24
  SlipDepth = 1
  SizeBits = 6
  MaxLength = 5
  MaxMerkleDepth = 5
  NarrowSpan = 10
  MaxExpansions = 50
INVARIANTS
  SlipsStayLocal
  StatementTypesCompile
  ContractsStaySmall
CHECK_DEADLOCK FALSE
