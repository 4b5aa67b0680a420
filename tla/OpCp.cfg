SPECIFICATION Spec
CONSTANTS
    f1 = f1
    f2 = f2
    f3 = f3
    Files = {f1, f2}
    Reusing = {}
    Bytes = {1, 2}
    Texts <- CopyTexts
    Counts = {1, 2}
    Seeks = {1, 3}
    Workload = {"open", "lseek", "read", "write", "cp", "quit"}
    NFD = 2
    BLKSIZE = 2
    NDIRECT = 1
    NIND = 2
    NBLOCKS = 9
    MaxSize = 3
    MaxRefs = 1
CHECK_DEADLOCK FALSE
INVARIANTS
    ReadsDeliver
PROPERTIES
    ImplementsByteFiles
