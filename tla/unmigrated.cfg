\* A Core that dies between the stamp and the migration.
CONSTANTS
    MaxRelease = 2
    Reads <- ReadsEarlier
    MigratesFrom <- MigratesEarlier
    Naming = {1, 2}
    Forms = {"application"}
    MaxRuns = 3
    Overlaps = FALSE
SPECIFICATION TrunkSpec
CHECK_DEADLOCK FALSE
INVARIANTS
    MigrationRan
