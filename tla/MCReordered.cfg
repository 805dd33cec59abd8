SPECIFICATION Spec
CONSTANTS
    NoTxn = NoTxn
    NoRef = NoRef
    NoTip = NoTip
    Tips = {t1}
    Donations = {}
    Receipts = {}
    Procs = {w1}
    Kinds = {"tip"}
    Amounts = {1}
    TestFlags = {FALSE}
    Watched = {}
    ChatOn = TRUE
    TransferBatch = 1
    InOrder = FALSE
    SameTransfers = FALSE
    MaxReversals = 1
    MaxRepublished = 0
    MaxCrashes = 0
CHECK_DEADLOCK FALSE
INVARIANT
    BooksReconcile
