SPECIFICATION Spec
CONSTANTS
    NMINODE = 5
    NINODES = 5
    NDIRECT = 1
    BlockCap = 7
    FileNames = {"a", "b", ".", ".."}
    MaxRefs = 5
    MaxEntries = 6
    MaxLinks = 3
    Spare = 1
    Paths <- FilePaths
    Junk <- AnyJunk
    Workload <- LinkCommands
CHECK_DEADLOCK FALSE
INVARIANTS
    LinkCountsExact
    NamedAllocated
