SPECIFICATION FairHandover
CONSTANTS
    None = None
    Absent = Absent
    Keep = Keep
    Instances = {i1, i2, i3}
    Schedules = {s1}
    Runs = {r1, r2}
    Ticks = {k1}
    Passive = {i3}
    ScriptSchedules = {s1}
    Unborn = {s1}
    Shapes <- CronShapes
    Patches <- NoPatches
    Outcomes <- Success
    Fallible <- NoSites
    MaxConcurrentRuns = 1
    MaxNow = 1
    MaxFaults = 0
    MaxCommands = 0
    MaxDowns = 2
    Period = 1
    DeferDelay = 1
PROPERTIES
    CrashedFireTakenOver
    DueFireClaimed
CHECK_DEADLOCK FALSE
