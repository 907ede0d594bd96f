SPECIFICATION Spec
CONSTANTS
  zero = zero  one = one  a = a  b = b  Empty = Empty  NULL = NULL
  Name <- MCName
  Value <- MCValue
  Zero <- zero
  FirstTable <- MCFirstTable
  MaxRows = 2
  MaxFields = 2
  MaxEdits = 3
SYMMETRY MCSymmetry
CHECK_DEADLOCK FALSE
INVARIANTS
  TypeOK
  Aligned

  
