SPECIFICATION Spec
CHECK_DEADLOCK FALSE
CONSTANTS
    Services = {main, panel}
    Main = main
    Jobs = {j1}
    Handlers = {h1, h2}
    Boot = boot
    Execs = {n1}
    Attempts = 2
    MaxRev = 1
    MaxOps = 1
    MaxCrashes = 1
    Absent = Absent
    Deleted = Deleted
    NoTask = NoTask
PROPERTIES
    PausedJobsDoNotRun
