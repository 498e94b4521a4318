SPECIFICATION Spec
CONSTANTS
  Threads = {t1, t2}
  Workers = {w1, w2}
  MaxVersion = 2
  MaxRunning = 1
  MaxSelected = 1
  Retries = 1
  Budgets <- EveryBudget
SYMMETRY Symmetry
INVARIANT DoneIsExtracted
INVARIANT RunningCapped
INVARIANT RetriesBounded
INVARIANT DirectoryExclusive
INVARIANT DigestIsSelection
CHECK_DEADLOCK FALSE
