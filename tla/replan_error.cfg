SPECIFICATION SpecUp
CONSTANTS
    None = None
    Absent = Absent
    Keep = Keep
    Instances = {i1}
    Schedules = {s1}
    Runs = {r1, r2}
    Ticks = {k1}
    Passive = {}
    ScriptSchedules = {}
    Unborn = {}
    Shapes <- IntervalShapes
    Patches <- NoPatches
    Outcomes <- RunnerOutcomes
    Fallible <- ReplanSites
    MaxConcurrentRuns = 1
    MaxNow = 1
    MaxFaults = 1
    MaxCommands = 0
    MaxDowns = 0
    Period = 1
    DeferDelay = 1
INVARIANT
    StorageErrorStallsNoSchedule
CHECK_DEADLOCK FALSE
