SPECIFICATION Spec
CONSTANTS
  Readers = {r1, r2}
  Writers = {w1, w2}
  Bytes = {b0, b1}
  Junk = b0
  Nobody = nobody
  PIPESIZE = 2
  WORD = 4
  MaxN = 2
SYMMETRY Symmetry
INVARIANTS
  WakeupInv
  EofIsFinal
  FreedOnce
PROPERTIES
  IsStream
CHECK_DEADLOCK FALSE
