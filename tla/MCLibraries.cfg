SPECIFICATION Spec
CONSTANTS
  ListCapacity = 4
  Items = {1, 2}
  ValueSize = 4
  MetaSize = 6
  Lengths <- MCLengths
  RegionSizes = {8, 10, 20}
  HeaderSize = 7
  ElemSize = 4
  CharNum = 2
  ClearedNum = 1
  MaxKeyLen = 2
  Junk = "junk"
  BlockSizes = {1, 4, 5, 8, 9, 17}
  PageSize = 16
  MinClassSize = 4
  ClassNum = 2
  PageMax = 16
  RecordSize = 28
  LinkSize = 4
INVARIANTS
  LLRBTreeIsMap
  RBTreeIsMap
  
  
  
  MessageKeepsValues
  
CHECK_DEADLOCK FALSE
