SPECIFICATION Spec
CHECK_DEADLOCK FALSE
CONSTANTS
    FsSize = 7
    Offset = 2
    Conceal = 2
    Chunk = 3
    Interval = 4
    MaxFailures = 0
INVARIANTS OnlyInitialPortionConcealed
