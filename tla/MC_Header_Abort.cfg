SPECIFICATION HeaderFairSpec
CONSTANTS
    t1 = t1
    t2 = t2
    sha512 = sha512
    argon2 = argon2
    rd = rd
    Threads = {t1, t2}
    Callers = {rd}
    QueueSize = 4
    UnitCounts = {}
    MaxUnits = 3
    MaxCalls <- OthersOnce
    MaxStarts = 1
    Prfs = {sha512, argon2}
    MemoryHard = {argon2}
    Reader = rd
    PrfOrder <- TwoPrfs
    Selections = {"none", sha512}
    Argon2 = argon2
    RightPrfs = {"none", sha512}
    RightAttempt = 2
    MaxAttempts = 2
    CanAbort = TRUE
INVARIANTS HeaderTypeOK WrongMeansAllTried
PROPERTIES HeaderIsRead
CHECK_DEADLOCK FALSE
