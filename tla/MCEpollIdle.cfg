SPECIFICATION FairSpec
CONSTANTS
    Tasks = {t1}
    Items = {e1}
    Setups <- QuietSetups
    MaxConcurrency = 1
    MaxPasses = 1
PROPERTIES
    IdleWorkerSleeps
