SPECIFICATION FairSpec
CONSTANTS
  Packages = {a, b, c}
  Root = Root
  MaxDeps = 2
  Capacities = {2, 3}
INVARIANTS RecordedOnce CollectsNeeded
PROPERTY WalkEnds
