SPECIFICATION Spec
CONSTANTS
  a = a
  b = b
  c = c
  s = s
  u = u
  Dirs <- MCDirs
  SlowDirs <- MCSlowDirs
  Trees <- MCTrees
  CommandLines <- MCCommandLines
  EarlierOutput <- MCEarlierOutput
  PathOf <- MCPathOf
  MaxConcurrentCompiles = 2
  MaxConcurrency = 2
INVARIANTS
  SlotsAreShared
  SlowNeverDelaysNormal
  RuntimeSeesItsOwnCompile
  SelectionsAgree
  ArtifactsFollowVerdicts
PROPERTIES
  OutlineAlwaysReadsBack
  CommandsEnd
CHECK_DEADLOCK FALSE
