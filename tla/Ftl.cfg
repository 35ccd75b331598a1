SPECIFICATION Spec
CONSTANTS
  PAGES_PER_BLOCK = 2
  BLOCKS_PER_DEVICE = 3
  Data = {d1, d2}
  Blank = blank
SYMMETRY Symmetry
INVARIANTS
  InOrder
  SpareMatchesOffset
CHECK_DEADLOCK FALSE
