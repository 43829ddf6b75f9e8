SPECIFICATION FairSpec
CONSTANTS
  a = a
  b = b
  Projects = {A}
  Cache = Cache
  Packages = {a, b}
  MaxVersion = 2
  Main = Main
  NoRef = NoRef
  None = None
  Manifest <- MCManifest
  Manifests <- MCManifests
  CacheUsable = {TRUE}
  Asked <- NoneAsked
  MaxCommands = 2
  MaxFaults = 1
INVARIANTS InstalledClosed SyncedAtTag
PROPERTIES SyncKeepsClosed CommandEnds
