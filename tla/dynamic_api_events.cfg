SPECIFICATION Spec
CONSTANTS
    Projects = {p1, p2}
    Requests = {r1, r2}
    Ids = {i1, i2, i3}
    MaxBatch = 2
    NoProject = NoProject
    NoRow = NoRow
SYMMETRY Symmetry
INVARIANTS
    EveryChangeReachesItsProject
