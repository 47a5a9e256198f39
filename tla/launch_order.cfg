\* A migration after a skipped one, an interface on it and a plugin on both, on the host, an operator, stopped at any moment.
CONSTANTS
    a = a
    b = b
    c = c
    d = d
    Units = {a, b, c, d}
    Kind <- FourUnits
    Image = {}
    DependsOn <- Layered
    OnFailure = {a, d}
    Skips = {d}
    Faulty = {}
    Operators = {o1}
    CanDisable = FALSE
    EngineErrs = FALSE
    EngineQuiets = FALSE
    TimersOvertaken = TRUE
    MaxLives = 2
    LateCap = 1
SPECIFICATION HoldSpec
CONSTRAINT RestartsOne
ACTION_CONSTRAINT AsksBeforeStop
CHECK_DEADLOCK FALSE
INVARIANTS
    OrderKept
PROPERTIES
    HoldEnds
