SPECIFICATION SpecUp
CONSTANTS
    None = None
    Absent = Absent
    Keep = Keep
    Instances = {i1, i2}
    Schedules = {s1}
    Runs = {r1, r2, r3}
    Ticks = {k1}
    Passive = {}
    ScriptSchedules = {}
    Unborn = {}
    Shapes <- BothShapes
    Patches <- NoPatches
    Outcomes <- VerdictOrUndo
    Fallible <- NoSites
    MaxConcurrentRuns = 1
    MaxNow = 2
    MaxFaults = 0
    MaxCommands = 0
    MaxDowns = 0
    Period = 1
    DeferDelay = 1
SYMMETRY RunSymmetry
INVARIANTS
    ExclusiveClaim
    OnceFiresOnce
CHECK_DEADLOCK FALSE
