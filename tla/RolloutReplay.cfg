SPECIFICATION Spec
CONSTANT
  Bounds <- SmallThreads
INVARIANTS ResumeKeepsThread BaselineInHistory
PROPERTY RollbackRestores
