SPECIFICATION Spec
CONSTANTS
    NoTxn = NoTxn
    NoRef = NoRef
    NoTip = NoTip
    Tips = {t1}
    Donations = {}
    Receipts = {}
    Procs = {w1, w2}
    Kinds = {"tip"}
    Amounts = {1}
    TestFlags = {FALSE}
    Watched = {}
    ChatOn = TRUE
    TransferBatch = 1
    InOrder = TRUE
    SameTransfers = FALSE
    MaxReversals = 1
    MaxRepublished = 0
    MaxCrashes = 0
CHECK_DEADLOCK FALSE
INVARIANT
    FailedMovedNothing
