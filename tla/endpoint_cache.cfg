SPECIFICATION Spec
CONSTANTS
    Eps = {e1, e2}
    Requests = {r1, r2}
    Admins = {a1, a2, g1}
    Tools = {g1}
    MaxRev = 2
    MaxVersion = 2
    MaxData = 0
    MaxOps = 2
    Absent = Absent
    Deleted = Deleted
    NoEntry = NoEntry
    NoEp = NoEp
SYMMETRY Symmetry
INVARIANTS
    TypeOK
    StaleResolveExplained
