SPECIFICATION FairSpec
CONSTANTS
    i1 = i1
    Irps = {i1}
    Ops <- WideOps
    DiskLength = 2
    FragmentSize = 2
    ItemCount = 1
    RequestCount = 1
    MaxWorkItems = 1
    IsFilterDevice = TRUE
    InitialStart = 0
    InitialEnd = 0
    RemapOffset = 0
    ProtectedArea = {}
    SecRegion = {}
    Cancellable = {}
    FaultyOps = {}
    MaxHolds = 1
    CanStop = TRUE
PROPERTIES StopTerminates
CHECK_DEADLOCK FALSE
