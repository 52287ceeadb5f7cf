CONSTANTS
  kHeaderSize = 3
  kSliceRealSize = 3
  Lens = {2, 3, 9, 14, 15}
  MaxSlices = 4
  SizeMod = 64
SPECIFICATION Spec
INVARIANTS
  InRegion
