SPECIFICATION FairSpec
CHECK_DEADLOCK FALSE
CONSTANTS
    Volumes = {1, 2}
    Users = {system, user}
    System = system
    Irps = {c, w}
    Controls = {c}
    Flushes = {w}
    Aborters = {a1}
    MaxCalls = 1
    None = none
INVARIANTS ClosedMeansQuiet AbortsAreAuthorised NestedUnmountedFirst
PROPERTIES EveryRequestAnswered
