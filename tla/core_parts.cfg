\* An interface in a container and an operator; the bus; the log store.
CONSTANTS
    a = a
    Units = {a}
    Kind <- OneInterface
    Image = {a}
    DependsOn <- Alone
    OnFailure = {}
    Skips = {}
    Faulty = {}
    Operators = {o1}
    CanDisable = FALSE
    EngineErrs = FALSE
    EngineQuiets = FALSE
    TimersOvertaken = FALSE
    MaxLives = 2
    LateCap = 1
    Subjects = {"unit"}
    Values <- TwoValues
    Occurrences <- Instruction
    Subs = {"client"}
    Selects <- OfChanges
    Bound = 2
    MaxSeq = 5
    Groups <- TwoGroups
    Follows <- OneFollowed
    QueueCap = 1
    BatchCap = 2
    Behind = 1
    TakesLast = FALSE
    MaxEntries = 3
SPECIFICATION CoreSpec
CHECK_DEADLOCK FALSE
INVARIANTS
    NoOrphan
    PictureIsTrue
    PushedAsWritten
    CloseKeeps
PROPERTIES
    NextIsNext
    NoneSleepsThrough
    NothingSkipped
    FollowHears
