SPECIFICATION Spec
CONSTANTS
  Base = 3
  WordBytes = 2
  FieldBytes = 4
  MAX_FIELD = 28
  Limbs <- MCLimbs
  ScalarLimbs <- MCScalarLimbs
  K1 <- MCK1
  R1 <- MCR1
  C25519 <- MC25519
  Jubjub <- MCJubjub
  BytesLength = 2
  UintMax = 5
  EnumMax = 4
  Atoms <- MCAtoms
  Operands <- MCOperands
INVARIANTS
  RegisterIsExact
  ValidityIsMembership
  ReadsBackWhatWasWritten
  DamageIsContained
  ReprSeparates
  SignaturesVerify
