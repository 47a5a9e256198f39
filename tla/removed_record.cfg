\* An ephemeral Core that ends while its instance is removed and another created.
CONSTANTS
    Managers = {m1}
    MaxVerbs = 2
    MaxCores = 1
SPECIFICATION GuardianSpec
CHECK_DEADLOCK FALSE
PROPERTIES
    OnlyEphemeralRemoved
