SPECIFICATION FairSpec
CONSTANTS
    Tips <- OneTip
    Donations = {}
    Receipts = {}
    Kinds = {"paid_message"}
    Settled <- PaidLines
    Amounts = {1}
    NoTxn = NoTxn
    NoRef = NoRef
    ChatOn = TRUE
    i1 = i1
    w1 = w1
    w2 = w2
    Workers <- TwoWorkers
    Batch = 2
    MaxAttempts = 3
    NoEffect = NoEffect
    MaxCrashes = 1
INVARIANTS
    LineOnce
    DeliveredWasPosted
    GivenUpForCause
PROPERTIES
    RowsAsAgreed
    QueuedEnds
