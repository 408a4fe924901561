SPECIFICATION Spec
CONSTANTS
    i1 = i1
    Irps = {i1}
    Ops <- RemapOps
    DiskLength = 4
    FragmentSize = 3
    ItemCount = 1
    RequestCount = 1
    MaxWorkItems = 1
    IsFilterDevice = TRUE
    InitialStart = 1
    InitialEnd = 1
    RemapOffset = 4
    ProtectedArea = {}
    SecRegion = {}
    Cancellable = {}
    FaultyOps <- RemapOps
    MaxHolds = 0
    CanStop = FALSE
INVARIANTS SuccessMeansTransferred
CHECK_DEADLOCK FALSE
