CONSTANTS
  Programs <- MCCollisions
  Main <- MCMain
  Cwd <- MCCwd
  SdkRoot <- MCSdkRoot
  NoModule = NoModule
  VisitedCap = 8
  CallDepth = 8
SPECIFICATION Spec
INVARIANT BareIsDirect
