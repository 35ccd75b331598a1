SPECIFICATION FairSpec
CONSTANTS
  p1 = p1
  p2 = p2
  logged = logged
  home = home
  Procs = {p1, p2}
  Hands <- MCHands
  Nested <- MCNested
  Blocks = {logged, home, other, another}
  Written = {home}
  Vals = {0, 1}
  Image <- MCImage
  Nobody = nobody
  NoBlock = noblock
  NBUF = 3
  MaxPinned = 1
  ReadErrors = FALSE
INVARIANTS
  CacheInv
  QueueInv
PROPERTIES
  IsBlockStore
  RequestAnswered
