SPECIFICATION SchedSpec
CONSTANTS
    Tasks = {t1, t2}
    Groups = {g1}
    NULL = NULL
    MaxConcurrency = 2
    Cpus = {c1, c2}
    Wakers = {w1}
    First = {t1, t2}
    Idle = Idle
    Stopper = Stopper
    Scripts <- MCScripts
SYMMETRY Symmetry
INVARIANTS
    Accounting
    RunsOnce
    NoLostWakeup
PROPERTIES
    AccountSpec
CHECK_DEADLOCK FALSE
