\* The guardian of an instance; what is installed and pinned; the claim of an
\* instance; the lives of its Core.
CONSTANTS
    Managers = {m1}
    MaxVerbs = 2
    MaxCores = 2
    MaxVersion = 2
    Installers = {i1, i2}
    Instances = {n}
    Pinners = {p1, p2}
    Removers = {r1, r2}
    Cores = {c1, c2}
    Sweepers = {s1}
    MaxFiles = 3
    MaxRelease = 2
    Reads <- ReadsEarlier
    MigratesFrom <- MigratesEarlier
    Naming = {1, 2}
    Forms = {"service", "application"}
    MaxRuns = 2
    Overlaps = FALSE
SPECIFICATION AccountSpec
CONSTRAINT Apart
CHECK_DEADLOCK FALSE
INVARIANTS
    RecordIsActedOn
    NothingCarriedOver
    InstalledIsWhole
    OneServes
    NothingInherited
    StateIsReadable
    StateIsKept
PROPERTIES
    AskedIsEnded
