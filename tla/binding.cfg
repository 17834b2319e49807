SPECIFICATION Spec
CONSTANTS
  SignatureTypes <- MCTypes
  Circuits = {"c1", "c2"}
  Keys = {"k1", "k2"}
  Declarations <- MCDeclarations
  DeployedStates <- MCDeployedStates
  Modules <- MCModules
  NoKey = "none"
  Garbage = "garbage"
  MaxCalls = 2
INVARIANTS
  BindsTheDeclaredCode
  ModuleFaultsAreClassified
  RefusalNamesItsFault
  BoundCallsAgree
CHECK_DEADLOCK FALSE
