CONSTANTS
    e1 = e1
    e2 = e2
    e3 = e3
    f1 = f1
    f2 = f2
    t1 = t1
    t2 = t2
    NULL = NULL
    Eps = {e1, e2, e3}
    Plain = {f1, f2}
    Threads = {t1, t2}
    MaxWatches = 3
    MaxNests = 1
    PathLimits <- MCPathLimits
    Edges = 2
    Scripts <- MCScripts

    FTasks = {p1, p2, p3}
    FNull = FNull
    First = p1
    Clones <- MCClones
    FMaxOps = 1
INIT SharedInit
NEXT SharedNext
INVARIANTS
    NoLostEvent
    NoDangling
    NestingBounded
    RefsExact
    OwnerTrue
    VforkFrame
