SPECIFICATION Spec
CONSTANTS
    i1 = i1
    i2 = i2
    Irps = {i1, i2}
    Ops <- RekeyOps
    DiskLength = 3
    FragmentSize = 1
    ItemCount = 2
    RequestCount = 3
    MaxWorkItems = 1
    IsFilterDevice = TRUE
    InitialStart = 1
    InitialEnd = 1
    RemapOffset = 0
    ProtectedArea = {}
    SecRegion = {0}
    Cancellable = {}
    FaultyOps <- MisalignedOps
    MaxHolds = 1
    CanStop = FALSE
SYMMETRY Symmetry
INVARIANTS CountIsOutstanding HoldExclusive FragmentOwnership NoFragmentOutlivesIrp
PROPERTIES ImplementsBlockDevice
CHECK_DEADLOCK FALSE
