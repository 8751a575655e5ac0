SPECIFICATION HeapSpec
CONSTANTS
  Client = {c1, c2}
  HeapSize = 112
  BlockSize = 16
  HeaderSize = 16
  SizeMod = 256
  Sizes = {1, 16, 17, 40, 238, 239, 240, 255}
INVARIANTS AllocationsDisjoint HeadersMatch FirstFit
CHECK_DEADLOCK FALSE
