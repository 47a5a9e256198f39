\* A ring, an attachment's deliveries, the channels, their arbiter, a plugin's
\* authority, and the documents, gated and launched.
CONSTANTS
    Slots = 2
    Words <- Words2
    Readers = {r1}
    Reorders = FALSE
    MaxFrames = 5
    MaxDeliveries = 2
    StreamReaders = {s1}
    Queued = 1
    MaxFrame = 3
    Channels = {"bench", "desk", "panel"}
    Rules <- ChainOfRules
    Local = {"bench", "desk", "panel"}
    Attachments = {"b", "p"}
    ChannelOf <- OnBenchAndPanel
    ClientOf <- Clients
    Single = {"bench"}
    Confirmed = {"bench", "desk", "panel"}
    Browser = {"panel"}
    Requests = {"r"}
    Capabilities = {"publish"}
    Documents <- Manifests3
    Surfaces = {"panel"}
    Deciders = {o1, o2}
    Copies = {u}
    MaxDecisions = 2
    MaxStarts = 2
    Versions = {"v1", "v2"}
    Starts <- Starts2
    Drafts <- Drafts2
    HostStates <- HostStates2
    Settings <- Settings2
    Dotted <- ReadFor
    Equated <- CutShort
    Word = 2000000
    Second = 1
    Kilobyte = 1
    Room = 66
    Labels = 66
    MaxChanges = 1
SPECIFICATION SurfacesSpec
SYMMETRY EitherOperator
CHECK_DEADLOCK FALSE
INVARIANTS
    FrameIsWhole
    Accounted
    NoLostWakeup
    HandedWholeOrReleased
    CountIsExact
    SomeoneInControl
    RegistryKeeps
    ScopeIsAccounted
    LaunchedWhole
    StartsAsGated
PROPERTIES
    OnlyLappedLost
