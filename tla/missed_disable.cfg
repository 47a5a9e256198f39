\* A disabling of a plugin whose copy opens its Session meanwhile.
CONSTANTS
    a = a
    Units = {a}
    MaxLives = 2
SPECIFICATION Spec
CHECK_DEADLOCK FALSE
INVARIANTS
    DisablingReaches
