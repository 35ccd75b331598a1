SPECIFICATION FairSpec
CONSTANTS
  NPROC = 3
  Cpus = {c1, c2}
  MaxPid = 3
INVARIANTS
  TableInv
  LiveParent
  NoMissedExit
PROPERTIES
  KilledDies
  OrphanReaped
CHECK_DEADLOCK FALSE
