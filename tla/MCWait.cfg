SPECIFICATION FairSpec
CONSTANTS
    Tasks = {t1, t2}
    MaxConcurrency = 1
    MaxPasses = 1
INVARIANTS
    NoLostWakeup
    TaskletOwnership
    NoDanglingEntry
PROPERTIES
    AccountSpec
    WaiterReleased
