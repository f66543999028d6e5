CONSTANTS
    c1 = c1
    c2 = c2
    k1 = k1
    k2 = k2
    NoCpu = NoCpu
    Cpus = {c1, c2}
    Tasklets = {k1, k2}
    Hi = {k2}
    MaxRestart = 2
    Requests = 2
SPECIFICATION SoftSpec
CHECK_DEADLOCK FALSE
INVARIANTS
    NoneForgotten
PROPERTIES
    TaskletsRun
