SPECIFICATION Spec
CONSTANTS
    s1 = s1
    s2 = s2
    Streams <- TwoStreams
    Wants <- All
    MaxRows = 2
    PushLimit = 2
    FirstLimit = 2
    ReplayLimit = 2
    MaxStreams = 2
    MaxDrops = 0
    MaxHides = 0
    MaxFailures = 0
INVARIANTS
    NothingMissed
SYMMETRY Symmetric
CHECK_DEADLOCK FALSE
