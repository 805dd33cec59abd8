SPECIFICATION FairSpec
CONSTANTS
    NoTxn = NoTxn
    NoRef = NoRef
    NoTip = NoTip
    Tips = {t1}
    Donations = {}
    Receipts = {}
    Procs = {w1, w2}
    Kinds = {"tip"}
    Amounts = {1}
    TestFlags = {FALSE}
    Watched = {}
    ChatOn = TRUE
    TransferBatch = 1
    InOrder = FALSE
    SameTransfers = TRUE
    MaxReversals = 1
    MaxRepublished = 0
    MaxCrashes = 1
CHECK_DEADLOCK FALSE
PROPERTIES
    SettlementIsFinal
    FundedIsGiven
    MovedIsSettled
