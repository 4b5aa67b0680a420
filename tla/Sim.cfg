CONSTANTS
    NNODE = 5
    MaxLines = 3
    Chars = {"a", "b"}
    Paths <- DeepPaths
    Files <- SomeFiles
SPECIFICATION Spec
INVARIANTS
    TypeOK
    PointersAgree
    ReloadRestores
PROPERTIES
    MakeKeepsOthers
CHECK_DEADLOCK FALSE
