SPECIFICATION ControlSpec
CONSTANTS
  Threads = {t1, t2, t3}
  Vars = {r}
  None = None
  MaxSpawns = 1
  ListDetached = FALSE
  MaxBody = 2
SYMMETRY Symmetry
INVARIANTS NoUseAfterFree BranchesSafe
