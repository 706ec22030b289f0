SPECIFICATION FairSpec
CONSTANTS
    r1 = r1  w1 = w1  w2 = w2
    Recharges <- OneRecharge
    Manual <- NoRecharges
    Snpay <- OneRecharge
    Sessions = {1, 2}
    Workers <- TwoWorkers
    NoRecharge = NoRecharge
    NoSession = NoSession
INVARIANTS
    TypeOK
    PaidSessionIsCredited
    CreditIsPaidFor
PROPERTIES
    InTimePaymentIsCredited
CHECK_DEADLOCK FALSE
