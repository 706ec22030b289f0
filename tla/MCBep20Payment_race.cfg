SPECIFICATION Spec
CONSTANTS
    o1 = o1
    o2 = o2
    t1 = t1
    w1 = w1
    w2 = w2
    NoOrder = NoOrder
    NoSession = NoSession
    NoTransfer = NoTransfer
    NoWorker = NoWorker
    Orders = {o1}
    Transfers = {t1}
    Sessions = {1, 2}
    Workers = {w1, w2}
    Price <- Two
    Amount <- TransferOfThree
    AutoLimits = {0, 1}
SYMMETRY WorkerSymmetry
CHECK_DEADLOCK FALSE
INVARIANTS
    TypeOK
    ChainPaidMeansPaid
PROPERTIES
    PaidIsFinal
    RejectedStaysRejected
