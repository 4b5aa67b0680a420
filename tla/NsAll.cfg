SPECIFICATION Spec
CONSTANTS
    NMINODE = 2
    NINODES = 4
    NDIRECT = 2
    BlockCap = 3
    FileNames = {"a", "b", ".", ".."}
    MaxRefs = 3
    MaxEntries = 4
    MaxLinks = 3
    Spare = 1
    Paths <- FewPaths
    Junk <- NoDirJunk
    Workload <- Everything
CHECK_DEADLOCK FALSE
INVARIANTS
    TypeOK
    BlocksPrivate
