SPECIFICATION Spec
CONSTANTS
    Procs = {p1, p2}
    Runs = {r1}
    Issuers = {i1, i2}
    Terms = {t1}
    Keys = {k1, k2}
    Ids = {g1, g2}
    Limits = {1}
    Costs = {0, 1}
    MaxCost = 1
    TTLs = {1, 2}
    MaxTime = 2
    Skew = 1
    NoId = NoId
    NoRun = NoRun
SYMMETRY Symmetry
PROPERTY
    LimitWhileStored
