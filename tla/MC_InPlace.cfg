SPECIFICATION Spec
CHECK_DEADLOCK FALSE
CONSTANTS
    FsSize = 8
    Offset = 2
    Conceal = 2
    Chunk = 3
    Interval = 4
    MaxFailures = 2
INVARIANTS CleanRunsLoseNothing RecognisedMeansWhole PrimaryMeansWhole
PROPERTIES LossBounded EncryptionUndoesFault
