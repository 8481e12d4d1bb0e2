SPECIFICATION Spec
CONSTANTS
    None = None
    Tasks = {t1, t2, t3}
    MaxTurns = 2
    MaxRejections = 2
    Prompt = TRUE
    MaxCalls = 3
    MaxFaults = 1
CONSTRAINT FewEvents
SYMMETRY TaskSymmetry
INVARIANTS
    TypeOK
    StopPersists
    NotStranded
    LimitIsArmed
PROPERTIES
    StopSticks
    EditsInOrder
    CompletionIsOwn
    WithinBudget

CHECK_DEADLOCK FALSE
