SPECIFICATION Spec
CONSTANTS
    Searches <- MCSearches
    MaxSearches = 2
    Commands <- MCCommands
    MaxCommands = 2
    TrashDir = "/h/.Trash"
    PathOrder <- MCPathOrder
    Texts <- MCTexts
    NameOrder <- MCNameOrder
INVARIANTS ListMatchesDisk SetsMatchDisk DiffPatches DirectoriesMerged
PROPERTY CopyStays
CHECK_DEADLOCK FALSE
