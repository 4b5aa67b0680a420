CONSTANTS
    BLKSIZE = 44
    NDIRECT = 2
    Names <- ShortAndLong
    Inos = {11, 12}
    Junk <- Memory
    MaxDrift = 4
SPECIFICATION Spec
INVARIANTS
    TypeOK
    EntriesApart
    RemovedIsGone
    DropsOnlyWhenFull
PROPERTIES
    ImplementsMap
CHECK_DEADLOCK FALSE
