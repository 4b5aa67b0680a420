SPECIFICATION Spec
CONSTANTS
    NMINODE = 2
    v0 = v0
    v1 = v1
    Inos <- MCInos
    INODEs <- MCINODEs
    ZeroINODE = v0
    ROOT = 2
    MaxRef = 3
INVARIANTS
    TypeOK
    UniqueInCore
    RefCountIsUsers
    CleanInSync
PROPERTIES
    HeldSlotKeepsInode
    ImplementsStore
