SPECIFICATION FairSpec
CONSTANTS
    Eps = {e1, e2}
    Requests = {r1}
    Admins = {a1, g1}
    Tools = {g1}
    MaxRev = 1
    MaxVersion = 2
    MaxData = 1
    MaxOps = 2
    Absent = Absent
    Deleted = Deleted
    NoEntry = NoEntry
    NoEp = NoEp
PROPERTIES
    EventuallyFresh
