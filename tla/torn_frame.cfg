CONSTANTS
    Slots = 2
    Words <- Words2
    Readers = {r1}
    Reorders = TRUE
    MaxFrames = 5
SPECIFICATION Spec
INVARIANT FrameIsWhole
CHECK_DEADLOCK FALSE
