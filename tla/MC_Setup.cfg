SPECIFICATION FairSpec
CONSTANTS
    DiskLength = 6
    ConfiguredStart = 1
    ConfiguredEnd = 5
    BlockSize = 2
    UpdateThreshold = 3
    WipePasses = {1}
    WrittenSectors = {2}
    InitialLengths = {0}
    MaxFaults = 1
    MaxCrashes = 1
    MaxStarts = 2
    MaxWrites = 1
    MaxEvents = 2
INVARIANTS SeesItsData CrashLossBounded CleanRestartLosesNothing SuccessIsRecorded
PROPERTIES AbortReturns SetupEnds
