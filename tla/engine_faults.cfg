SPECIFICATION Spec
CONSTANTS
    None = None
    Absent = Absent
    Keep = Keep
    Instances = {i1}
    Schedules = {s1}
    Runs = {r1, r2}
    Ticks = {k1}
    Passive = {}
    ScriptSchedules = {}
    Unborn = {}
    Shapes <- IntervalShapes
    Patches <- NoPatches
    Outcomes <- RunnerOutcomes
    Fallible <- ToleratedSites
    MaxConcurrentRuns = 1
    MaxNow = 2
    MaxFaults = 1
    MaxCommands = 1
    MaxDowns = 0
    Period = 1
    DeferDelay = 1
SYMMETRY RunSymmetry
INVARIANTS
    TypeOK
    SlotsAreHeld
    
PROPERTIES
    ForceReleaseKeepsSlot
    SettledRunRowsStick
CHECK_DEADLOCK FALSE
