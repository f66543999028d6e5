CONSTANTS
    RtCpus = {c1, c2}
    r1 = r1
    r2 = r2
    r3 = r3
    RtTasks = {r1, r2, r3}
    RtNull = RtNull
    Prios = {1, 2, 3}
    Fair = 4
    FirstPrios <- MCFirst
    RtMaxOps = 1

    NCpus = 2
    RtPeriod = 5
    Runtimes = {1}
    FirstRuntime = 4
    NoRuntime = NoRuntime
    MaxWrites = 1
    MaxUnplugs = 2

    DlTasks = {d1, d2}
    DlNull = DlNull
    Params <- MCParams
    DlBws = {6, 7}
    BwUnit = 6
    MaxClock <- MCMaxClock
    MaxLag = 2
    DlMaxOps = 1
INIT Init
NEXT Next
SYMMETRY Symmetry
INVARIANTS QueuesTrue    EdfOrder
CHECK_DEADLOCK FALSE
