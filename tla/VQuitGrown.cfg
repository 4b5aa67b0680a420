SPECIFICATION Spec
CONSTANTS
    NMINODE = 5
    NINODES = 6
    NDIRECT = 2
    BlockCap = 2
    FileNames = {"a", "b", ".", ".."}
    MaxRefs = 4
    MaxEntries = 4
    MaxLinks = 3
    Spare = 1
    Paths <- TreePaths
    Junk <- NoDirJunk
    Workload = {"mkdir", "creat", "quit"}
CHECK_DEADLOCK FALSE
PROPERTIES
    QuitKeepsInodes
