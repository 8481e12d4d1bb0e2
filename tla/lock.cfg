SPECIFICATION FairSpec
CONSTANTS
    None = None
    Calls = {c1, c2, c3}
INVARIANTS
    AbortedCallsNeverRun
    EntryIsLive
PROPERTIES
    ImplementsFifoLock
    EveryCallReturns
CHECK_DEADLOCK FALSE
