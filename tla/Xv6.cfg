SPECIFICATION Spec
CONSTANTS
    INPUT_BUF = 3
    WORD = 6
    COLS = 2
    ROWS = 3
    Readers = {r1, r2}
    Keys = {"x"}
    Counts = {2}
    Frames = {1, 2, 3, 4, 5, 6, 7, 8, 9, 10, 11, 12}
    PGSIZE = 2
    NPTENTRIES = 2
    KERNBASE = 8
    Procs = {1, 2, 3}
    Programs = {1, 3, 8}
    Bytes = {1, 2}
    HeapTop = 13
    NALLOC = 4
    HEADER = 2
    Sizes = {1, 3, 8}
    Breaks = {1}
    MAXARGS = 3
    MaxTokens = 5
VIEW View
INVARIANTS ConsoleInv FramesOnce AddressSpaces HeapSound ParsesLine
PROPERTY IsTerminal
CHECK_DEADLOCK FALSE
