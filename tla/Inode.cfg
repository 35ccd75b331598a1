SPECIFICATION Spec
CONSTANTS
  p1 = p1
  p2 = p2
  Procs = {p1, p2}
  Nobody = nobody
  NINODES = 4
  NINODE = 3
  NBLOCKS = 3
  Names = {"d", "f", "g"}
  File = "f"
  MaxCalls = 4
  MaxCrashes = 1
  Calls <- FileCalls
INVARIANTS
  DiskSound
  CacheSound
  NoPanic
CHECK_DEADLOCK FALSE
