SPECIFICATION Spec
CONSTANTS
    sent = sent
    again = again
    other = other
    page = page
    key1 = key1
    key2 = key2
    small = small
    large = large
    Reqs <- AllReqs
    Forms <- OneForm
    Key <- AllKeys
    Body <- AllBody
    Funding <- Checkout
    MaxUnpaid = 1
    MaxFaults = 0
    MaxErases = 0
INVARIANTS
    AnsweredIsBegun
CHECK_DEADLOCK FALSE
