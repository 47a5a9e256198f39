\* The same store, where retention may take its newest row.
CONSTANTS
    Groups <- TwoGroups
    Follows <- OneFollowed
    QueueCap = 1
    BatchCap = 2
    Behind = 1
    TakesLast = TRUE
    MaxEntries = 3
SPECIFICATION LogSpec
CHECK_DEADLOCK FALSE
INVARIANTS
    PushedAsWritten
