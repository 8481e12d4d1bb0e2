SPECIFICATION FairResidue
CONSTANTS
    None = None
    p0 = p0
    p1 = p1
    p2 = p2
    c1 = c1
    c2 = c2
    Processes = {p0, p1, p2}
    Callers = {c1, c2}
    ProcOf <- OnePerProcess
    MaxTakeovers = 1
    SlowWriters = FALSE
    MaxIds = 3
    MaxFaults = 1
    MaxCrashes = 1
INVARIANTS
    TypeOK
    MutualExclusion
    HolderOwnsPath
    
    NoForgottenLock
    
PROPERTY
    DeadOwnerReplaced
