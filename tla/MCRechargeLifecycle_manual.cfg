SPECIFICATION Spec
CONSTANTS
    r1 = r1  w1 = w1  w2 = w2
    Recharges <- OneRecharge
    Manual <- OneRecharge
    Snpay <- NoRecharges
    Sessions = {1, 2}
    Workers <- TwoWorkers
    NoRecharge = NoRecharge
    NoSession = NoSession
INVARIANTS
    LedgerMatchesStatus
PROPERTIES
    LateCreditIsJustified
    CompletedIsFinal
SYMMETRY WorkerSymmetry
CHECK_DEADLOCK FALSE
