CONSTANTS
  Tile <- MCTile
  Key <- MCKey
  KeyOf <- MCKeyOf
  Selection <- MCNoSelection
  NoTile = NoTile
  Worker = {w1}
  MaxSize = 1
  SizeToClear = 0
  DoRamCaching = TRUE
  DoDiskCaching = FALSE
SPECIFICATION Spec
INVARIANT MapHasNoDangling
