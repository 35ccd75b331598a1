SPECIFICATION Spec
CONSTANTS
  NPROC = 6
  NINODES = 17
  NFILE = 8
  NOFILE = 6
  MAXFILE = 6
  MAXWRITE = 2
  PIPESIZE = 2
  PGSIZE = 2
  NPAGES = 18
  OVERHEAD = 1
  Rounds = 2
  Children = 2
  FileUnits = 6
  PipeUnits = 3
  Page = 2
  Big = 14
  Letters <- MCLetters
  Digits <- MCDigits
  Tests <- MCTests
INVARIANTS TestsPass CountsMatch NothingLeft NoneStuck
