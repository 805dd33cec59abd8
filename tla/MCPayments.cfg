SPECIFICATION Spec
CONSTANTS
    NoTxn = NoTxn
    NoRef = NoRef
    NoTip = NoTip
    Tips = {t1, t2}
    Donations = {d1}
    Receipts = {}
    Procs = {w1}
    Kinds = {"tip"}
    Amounts = {1}
    TestFlags = {FALSE}
    Watched = {}
    ChatOn = TRUE
    TransferBatch = 2
    InOrder = TRUE
    SameTransfers = FALSE
    MaxReversals = 1
    MaxRepublished = 1
    MaxCrashes = 0
CHECK_DEADLOCK FALSE
SYMMETRY Symmetry
INVARIANTS
    TypeOK
    OneRowPerPayment
    BackedByBilling
    BooksReconcile
