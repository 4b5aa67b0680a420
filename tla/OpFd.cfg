SPECIFICATION Spec
CONSTANTS
    f1 = f1
    f2 = f2
    f3 = f3
    Files = {f1, f2, f3}
    Reusing = {}
    Bytes = {1, 2}
    Texts <- OneByte
    Counts = {1, 2}
    Seeks = {0, 1, 2}
    Workload <- Commands
    NFD = 2
    BLKSIZE = 1
    NDIRECT = 1
    NIND = 2
    NBLOCKS = 13
    MaxSize = 1
    MaxRefs = 2
CHECK_DEADLOCK FALSE
INVARIANTS
    TypeOK
    LockGuardsOpen
PROPERTIES
    ImplementsByteFiles
