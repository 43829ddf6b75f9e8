SPECIFICATION FairSpec
CONSTANTS
  Threads = {t1, t2}
  Vars = {r, s}
  None = None
  MaxSpawns = 1
  ListDetached = FALSE
INVARIANTS TypeOK NoFaults RefcountExact ReadsAreReady ReturnLeavesOnlyDetached
PROPERTIES AllReclaimed KeepsPromise
