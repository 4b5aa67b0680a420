CONSTANTS
    NPROC = 6
    NPIPE = 2
    PipeCap = 1
SPECIFICATION Spec
INVARIANTS
    TypeOK
    
    NoWaitCycle
    PromptIsClean
PROPERTIES
    UserIsAsked
CHECK_DEADLOCK FALSE
