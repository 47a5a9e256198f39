\* One plugin on the host, an operator, and its plugin disabled and enabled.
CONSTANTS
    a = a
    b = b
    c = c
    d = d
    Units = {a}
    Kind <- OnePlugin
    Image = {}
    DependsOn <- Alone
    OnFailure = {}
    Skips = {}
    Faulty = {a}
    Operators = {o1}
    CanDisable = TRUE
    EngineErrs = FALSE
    EngineQuiets = FALSE
    TimersOvertaken = FALSE
    MaxLives = 2
    LateCap = 1
SPECIFICATION FairSpec
ACTION_CONSTRAINT AsksBeforeStop
CHECK_DEADLOCK FALSE
INVARIANTS
    SignalsTheCurrentLife
    EndsBeforeRestarts
PROPERTIES
    LifecycleKept
    WaitsEnd
