SPECIFICATION Spec
CONSTANTS
    r1 = r1  w1 = w1  w2 = w2
    Recharges <- OneRecharge
    Manual <- NoRecharges
    Snpay <- OneRecharge
    Sessions = {1}
    Workers <- TwoWorkers
    NoRecharge = NoRecharge
    NoSession = NoSession
PROPERTIES
    ClosedSessionStaysClosed
CHECK_DEADLOCK FALSE
