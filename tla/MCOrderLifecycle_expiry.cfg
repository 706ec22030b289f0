\* A manual order of two pieces and an automatic one of one unit share a stock
\* of two, a balance of two and one session; only the expiry scan is fair.
SPECIFICATION FairSpec
CONSTANTS
    o1 = o1  o2 = o2  u1 = u1  u2 = u2  u3 = u3  s1 = s1  s2 = s2
    Orders <- TwoOrders
    AutoOrders <- SecondOrder
    Qty <- TwoAndOne
    Units <- OneUnit
    DatedUnits <- NoOrders
    Sessions <- OneSession
    Channels = {"alipay"}
    SnpayChannels = {"alipay"}
    InitStock = 2
    InitBalance = 2
    AdminMoves <- CancelMoves
    Keep = Keep
    NoOrder = NoOrder
INVARIANTS
    TypeOK
    StockConserved
PROPERTIES
    DueOrderIsSettled
CHECK_DEADLOCK FALSE
