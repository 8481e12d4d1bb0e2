SPECIFICATION Spec
CONSTANTS
    None = None
    Tasks = {t1, t2, t3}
    MaxTurns = 2
    MaxRejections = 2
    Prompt = TRUE
    MaxCalls = 2
    MaxFaults = 0
SYMMETRY TaskSymmetry
INVARIANTS
    OwnerTakesOver

CHECK_DEADLOCK FALSE
