SPECIFICATION Spec
CONSTANTS
    NoTxn = NoTxn
    NoRef = NoRef
    NoTip = NoTip
    Tips = {t1}
    Donations = {}
    Receipts = {r1}
    Procs = {w1}
    Kinds = {"tts"}
    Amounts = {2}
    TestFlags = {FALSE, TRUE}
    Watched = {t1}
    ChatOn = TRUE
    TransferBatch = 1
    InOrder = TRUE
    SameTransfers = FALSE
    MaxReversals = 2
    MaxRepublished = 0
    MaxCrashes = 0
INVARIANTS
    NothingBeforePayment
    QueueIsLive
    OverlayFollowsModeration
    PaidRowFollows
    GoalFollowsMoney
    ReadyOnce
    FailureIsTold
PROPERTIES
    EffectsAreFinal
    ImplementsLifecycle
