SPECIFICATION Spec
CONSTANTS
  a = a
  b = b
  Projects = {A, B}
  Cache = Cache
  Packages = {a}
  MaxVersion = 2
  Main = Main
  NoRef = NoRef
  None = None
  Manifest <- SelfManifest
  Manifests <- SelfManifests
  CacheUsable = {TRUE, FALSE}
  Asked <- MCAsked
  MaxCommands = 2
  MaxFaults = 1
INVARIANTS InstalledAtRef
