SPECIFICATION Spec
CHECK_DEADLOCK FALSE
CONSTANTS
    Threads = {t1, t2}
    Values = {a, b}
    Units = 2
    Volumes <- SomeVolumes
    Ops <- SomeOps
    MaxIgnored = 2
SYMMETRY Symmetry
INVARIANTS SettledIntact SettledReads FailsClosed OverrideLeavesTrace
PROPERTIES ProtectedIntact OpensAuthenticated
