SPECIFICATION Spec
CONSTANTS
    sent = sent
    again = again
    other = other
    page = page
    key1 = key1
    key2 = key2
    small = small
    large = large
    Reqs <- AllReqs
    Forms <- OneForm
    Key <- AllKeys
    Body <- AllBody
    Funding <- Mixed
    MaxUnpaid = 1
    MaxFaults = 1
    MaxErases = 1
SYMMETRY Twins
INVARIANTS
    OnceCharged
    ReplayIsOwn
    RunsOnce
    ErasedIsGone
CHECK_DEADLOCK FALSE
