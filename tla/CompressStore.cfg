SPECIFICATION Spec
CONSTANTS
  c1 = c1
  c2 = c2
  c3 = c3
  Calls = {c1, c2, c3}
  Texts <- MCTexts
  Profile <- MCProfile
  Hints = {"grep", "test_runner"}
  ReuseIds = FALSE
  PerItemMin = 2
  ErrorMax = 8
  CcrEnabled = TRUE
  MaxFiles = 1
  MaxThreadBytes = 14
  MaxFileBytes = 10
  PointerSize = 2
  MaxHistory = 2
  MaxRequests = 2
  MaxFaults = 1
SYMMETRY CallSymmetry
INVARIANT TypeOK
INVARIANT PrefixStable
INVARIANT PointersResolve
INVARIANT DirectoryBounded
INVARIANT LossyTextHasPath
CHECK_DEADLOCK FALSE
