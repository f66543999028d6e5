SPECIFICATION Spec
CONSTANTS
    Tasks = {t1, t2}
    Items = {e1}
    Setups <- AllSetups
    MaxConcurrency = 2
    MaxPasses = 1
SYMMETRY Symmetry
INVARIANTS
    NoStrandedEvent
    EintrMeansNoEvents
