SPECIFICATION SpecServeOrRestart
CONSTANTS
    None = None
    Absent = Absent
    Keep = Keep
    Instances = {i1}
    Schedules = {s1, s2}
    Runs = {r1, r2, r3}
    Ticks = {k1}
    Passive = {}
    ScriptSchedules = {s2}
    Unborn = {}
    Shapes <- IntervalShapes
    Patches <- CadencePatches
    Outcomes <- RunnerOutcomes
    Fallible <- FireSites
    MaxConcurrentRuns = 1
    MaxNow = 1
    MaxFaults = 1
    MaxCommands = 1
    MaxDowns = 1
    Period = 1
    DeferDelay = 1
SYMMETRY RunSymmetry
INVARIANTS
    AutomaticRunsWithinGate
    CacheMissesNoFire
    RegistryConsistent
PROPERTIES
    LegalTransitions
CHECK_DEADLOCK FALSE
