CONSTANTS
  Programs <- MCPrograms
  Main <- MCMain
  Cwd <- MCCwd
  SdkRoot <- MCSdkRoot
  NoModule = NoModule
  VisitedCap = 8
  CallDepth = 8
SPECIFICATION Spec
INVARIANT LinkedAsChecked
INVARIANT FollowsItsImports
INVARIANT ParsedOnce
INVARIANT VisibleIsReached
INVARIANT StaticsShared
