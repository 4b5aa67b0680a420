SPECIFICATION Spec
CONSTANTS
    NMINODE = 3
    NINODES = 5
    NDIRECT = 1
    BlockCap = 5
    FileNames = {"a", "b", ".", ".."}
    MaxRefs = 4
    MaxEntries = 4
    MaxLinks = 3
    Spare = 1
    Paths <- TreePaths
    Junk <- AnyJunk
    Workload <- FileCommands
CHECK_DEADLOCK FALSE
PROPERTIES
    ImplementsFileTree
