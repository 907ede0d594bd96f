CONSTANTS
  Tile <- MCTile
  Key <- MCKey
  KeyOf <- MCKeyOf
  Selection <- MCSelection
  NoTile = NoTile
  Worker = {w1, w2}
  MaxSize = 1
  SizeToClear = 0
  DoRamCaching = TRUE
  DoDiskCaching = TRUE
SPECIFICATION Spec
INVARIANTS TypeOK RefsExact  SizeMatchesMap
SYMMETRY MCSymmetry
