SPECIFICATION ListenerSpec
CHECK_DEADLOCK FALSE
CONSTANTS
    Clients = {c1, c2, c3}
    Projects = {p1, p2}
    Tables = {t1}
    MaxEvents = 2
    MaxFailures = 1
    NoClient = NoClient
INVARIANTS
    ListenerTypeOK
    DuplicatesExplained
    OrderExplained
    StopIsFinal
PROPERTIES
    ListensAgain
