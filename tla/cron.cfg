SPECIFICATION FairSpec
CHECK_DEADLOCK FALSE
CONSTANTS
    Services = {main, panel, gateway}
    Main = main
    Jobs = {j1}
    Handlers = {h1, h2}
    Boot = boot
    Execs = {n1}
    Attempts = 2
    MaxRev = 2
    MaxOps = 2
    MaxCrashes = 1
    Absent = Absent
    Deleted = Deleted
    NoTask = NoTask
INVARIANTS
    TypeOK
    GhostTaskExplained
    LostJobExplained
    SuccessIsTrue
PROPERTIES
    RunsSettle
