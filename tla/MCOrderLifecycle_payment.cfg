\* One manual order, a balance that pays for it, and two sessions on two
\* channels, one of them snpay.
SPECIFICATION Spec
CONSTANTS
    o1 = o1  o2 = o2  u1 = u1  u2 = u2  u3 = u3  s1 = s1  s2 = s2
    Orders <- OneOrder
    AutoOrders <- NoOrders
    Qty <- JustOne
    Units <- NoOrders
    DatedUnits <- NoOrders
    Sessions <- TwoSessions
    Channels = {"alipay", "usdt"}
    SnpayChannels = {"alipay"}
    InitStock = 1
    InitBalance = 1
    AdminMoves <- HaltingMoves
    Keep = Keep
    NoOrder = NoOrder
INVARIANTS
    CollectedOnce
    PaidOrderKeepsGoods
    OneActiveSession
PROPERTIES
    PaidSessionIsFinal
SYMMETRY SessionSymmetry
CHECK_DEADLOCK FALSE
