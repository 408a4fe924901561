SPECIFICATION FairSpec
CONSTANTS
    t1 = t1
    t2 = t2
    c1 = c1
    c2 = c2
    Threads = {t1, t2}
    Callers = {c1, c2}
    p1 = p1
    QueueSize = 4
    UnitCounts = {3}
    MaxUnits = 4
    MaxCalls <- TwiceAndOnce
    MaxStarts = 2
    Prfs = {p1}
    MemoryHard = {}
INVARIANTS WorkDone FragmentOfLiveCall
PROPERTIES EveryCallReturns StopReturns
CHECK_DEADLOCK FALSE
