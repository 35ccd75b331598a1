SPECIFICATION FairSpec
CONSTANTS
  Procs = {p1, p2}
  Blocks = {b1, b2}
  Vals = {zero, one}
  Zero = zero
  NotCached = notcached
  Nobody = nobody
  MAXOPBLOCKS = 4
  LOGSIZE = 8
  nlog = 8
  OpBlocks = 2
  MaxCrashes = 2
INVARIANTS
  NoPanic
  CommitAlone
  RecycleSafe
  QuiescentDurable
  LogInv
PROPERTIES
  Refinement
  LogProgress
