CONSTANTS
    PTasks = {i, a, b, c}
    PNull = PNull
    Reaper = i
    Born = {a}
    Ignoring = {{i}}
    Subreapers = {a}

    BwCpus = {b1, b2}
    INF = INF
    Quotas = {1, INF}
    Slice = 1
    MinRuntime = 0
    MaxEpoch = 4
    MaxDebt = 0
    MaxChanges = 1
INIT Init
NEXT Next
SYMMETRY Symmetry
INVARIANTS NoOrphan ReapedOnce   ThrottledRemembered
CHECK_DEADLOCK FALSE
