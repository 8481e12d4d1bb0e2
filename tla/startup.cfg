SPECIFICATION FairSpec
CONSTANTS
    None = None
    MaxLogins = 2
    MaxFenceFailures = 2
    MaxAborts = 1
    MaxStartFailures = 1
INVARIANTS
    TypeOK
    OneScheduler
    NothingOutlivesItsAccount
    RuntimeIsOurs
PROPERTIES
    ResetLeavesNothingOlder
    RuntimeComesBack
CHECK_DEADLOCK FALSE
