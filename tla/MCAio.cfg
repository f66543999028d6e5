CONSTANTS
    c1 = c1
    r1 = r1
    r2 = r2
    t1 = t1
    t2 = t2
    p1 = p1
    p2 = p2
    c2 = c2
    c3 = c3
    Ctxs = {c1, c2, c3}
    Reqs = {r1, r2}
    Threads = {t1, t2}
    Cpus = {p1, p2}
    NULL = NULL
    MaxEvents = 5
    PerCpu = 1
    AioMaxNr = 6
    Growth = 2
    Scripts <- MCScripts
SPECIFICATION Spec
INVARIANTS
    SlotsConserved
    ExactlyOnce
    NoUseAfterFree
    NoMissedWakeup
PROPERTIES
    DeadFreed
