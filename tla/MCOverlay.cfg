SPECIFICATION Spec
CONSTANTS
    s1 = s1
    s2 = s2
    Streams <- TwoStreams
    Wants <- All
    MaxRows = 2
    PushLimit = 1
    FirstLimit = 1
    ReplayLimit = 1
    MaxStreams = 1
    MaxDrops = 1
    MaxHides = 1
    MaxFailures = 2
INVARIANTS
    OneOutcome
    NothingSkipped
    NothingPassed
    HiddenIsTakenBack
    StreamCap
PROPERTIES
    OnceInOrder
SYMMETRY Symmetric
CHECK_DEADLOCK FALSE
