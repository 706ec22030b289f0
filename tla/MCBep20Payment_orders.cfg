SPECIFICATION Spec
CONSTANTS
    o1 = o1
    o2 = o2
    t1 = t1
    w1 = w1
    w2 = w2
    NoOrder = NoOrder
    NoSession = NoSession
    NoTransfer = NoTransfer
    NoWorker = NoWorker
    Orders = {o1, o2}
    Transfers = {t1}
    Sessions = {1, 2}
    Workers = {w1}
    Price <- TwoAndThree
    Amount <- TransferOfTwo
    AutoLimits = {0, 1}
CHECK_DEADLOCK FALSE
INVARIANTS
    MoneyIsBacked
    PaidOrderHasTransfer
    UnderpaidCreditIsFinal
PROPERTIES
    ImplementsLedger
