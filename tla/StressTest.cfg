SPECIFICATION StressSpec
CONSTANTS
  Thread = {t1, t2, t3}
  NULL = NULL
  RecMod = 4
  MaxDepth = 2
  Iterations = 2
  Callers = {NULL, t1, t2}
INVARIANTS MutualExclusion OwnershipMatches NoLostUpdate
PROPERTIES SpinlockReleased AllComplete
