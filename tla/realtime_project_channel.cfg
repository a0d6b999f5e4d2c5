SPECIFICATION Spec
CHECK_DEADLOCK FALSE
CONSTANTS
    Clients = {c1}
    Projects = {p1}
    Tables = {t1}
    Slugs = {slug}
    MaxEvents = 1
    MaxFailures = 0
    NoClient = NoClient
    Sockets = {s1}
    MaxConnections = 1
    MaxChannels = 2
    MaxRepeats = 1
    Messages <- MCMessages
PROPERTIES
    ProjectChannelReceives
