SPECIFICATION Spec
CONSTANTS
    None = None
    p0 = p0
    p1 = p1
    p2 = p2
    c1 = c1
    c2 = c2
    Processes = {p0, p1}
    Callers = {c1, c2}
    ProcOf <- SameProcess
    MaxTakeovers = 1
    SlowWriters = FALSE
    MaxIds = 3
    MaxFaults = 0
    MaxCrashes = 0
INVARIANT
    NoForgottenLock
CHECK_DEADLOCK FALSE
