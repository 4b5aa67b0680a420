SPECIFICATION Spec
CONSTANTS
    f1 = f1
    f2 = f2
    f3 = f3
    Files = {f1}
    Reusing = {f1}
    Bytes = {1, 2}
    Texts <- LongTexts
    Counts = {1, 2}
    Seeks = {0, 2}
    Workload <- Commands
    NFD = 2
    BLKSIZE = 1
    NDIRECT = 1
    NIND = 2
    NBLOCKS = 12
    MaxSize = 7
    MaxRefs = 2
CHECK_DEADLOCK FALSE
INVARIANTS
    ReadsDeliver
    BlocksPrivate
PROPERTIES
    ImplementsByteFiles
