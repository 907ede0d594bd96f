SPECIFICATION DbSpec
CONSTANTS
  single = single
  hybrid = hybrid
  twice = twice
  f1 = f1
  f2 = f2
  c1 = c1
  c2 = c2
  Provider = {single, hybrid, twice}
  Pieces <- MCPieces
  Thread = {c1, c2}
  File = {f1, f2}
  NULL = NULL
  Broken = Broken
  maxSizeDisk = 2
  SIZE_TO_CLEAR = 1
  CheckEvery = 2
  MaxOps = 4
INVARIANTS Paired ExistingAreFound  CrashesOnlyRenamed
SYMMETRY MCSymmetry
CHECK_DEADLOCK FALSE
