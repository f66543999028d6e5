SPECIFICATION FairSpec
CONSTANTS
    Tasks = {t1, t2}
    Items = {e1}
    Setups <- LiveSetups
    MaxConcurrency = 1
    MaxPasses = 1
PROPERTIES
    OpeningTaken
    TimeoutEndsWait
CHECK_DEADLOCK FALSE
