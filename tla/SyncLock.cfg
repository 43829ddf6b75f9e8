SPECIFICATION FairSpec
CONSTANTS
  Procs = {p, q}
  NumVars = 2
  None = None
  MaxLockDepth = 2
  MaxOps = 3
  Kinds = {"increment", "return"}
INVARIANTS MutualExclusion HeldExactly NoLostUpdate
PROPERTY LockGranted
