\* A oneshot in a container, with an engine that errs and goes quiet.
CONSTANTS
    a = a
    b = b
    c = c
    d = d
    Units = {a}
    Kind <- OneOneshot
    Image = {a}
    DependsOn <- Alone
    OnFailure = {a}
    Skips = {}
    Faulty = {}
    Operators = {}
    CanDisable = FALSE
    EngineErrs = TRUE
    EngineQuiets = TRUE
    TimersOvertaken = FALSE
    MaxLives = 3
    LateCap = 1
SPECIFICATION FairSpec
CHECK_DEADLOCK FALSE
PROPERTIES
    QuietIsMadeUp
