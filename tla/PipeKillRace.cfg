SPECIFICATION FairSpec
CONSTANTS
  Readers = {r1}
  Writers = {w1}
  Bytes = {b0}
  Junk = b0
  Nobody = nobody
  PIPESIZE = 1
  WORD = 2
  MaxN = 1
PROPERTY
  KilledReturns
CHECK_DEADLOCK FALSE
