SPECIFICATION Spec
CHECK_DEADLOCK FALSE
SYMMETRY Symmetric
CONSTANTS
    Clients = {c1, c2}
    Projects = {p1, p2}
    Tables = {t1}
    Slugs = {}
    MaxEvents = 1
    MaxFailures = 1
    NoClient = NoClient
    Sockets = {s1, s2}
    MaxConnections = 1
    MaxChannels = 2
    MaxRepeats = 2
    Messages <- MCMessages
INVARIANTS
    SocketTypeOK
    CountExplained
    SubscriptionsTracked
    OnlyOwnProject
    AtMostOnce
