SPECIFICATION Spec
CONSTANTS
  Threads = {t1, t2}
  Vars = {r}
  None = None
  MaxSpawns = 2
  ListDetached = FALSE
INVARIANT ReadsAreReady
