SPECIFICATION FairSpec
CONSTANTS
    i1 = i1
    i2 = i2
    Irps = {i1, i2}
    Ops <- VolumeOps
    DiskLength = 2
    FragmentSize = 2
    ItemCount = 1
    RequestCount = 1
    MaxWorkItems = 1
    IsFilterDevice = FALSE
    InitialStart = 0
    InitialEnd = 1
    RemapOffset = 0
    ProtectedArea = {1}
    SecRegion = {}
    Cancellable = {i1}
    FaultyOps <- FaultyVolumeOps
    MaxHolds = 0
    CanStop = TRUE
INVARIANTS ProtectedIntact StopDrains
PROPERTIES NoWriteAfterTrigger StopTerminates EveryIrpAnswered
CHECK_DEADLOCK FALSE
