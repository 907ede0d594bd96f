SPECIFICATION Spec
CONSTANTS
  n1 = n1
  n2 = n2
  b1 = b1
  b2 = b2
  Name = {n1, n2}
  Box = {b1, b2}
  NULL = NULL
  Broken = Broken
  MaxShapes = 2
  MaxEdits = 3
  MaxWrites = 2
  FirstDisk <- MCFirstDisk
INVARIANTS RowsFollow FilesAgree  LabelsFollow  
CHECK_DEADLOCK FALSE
