\* Two automatic orders contend for three units paid from the balance;
\* administrators halt, reopen and override orders.
SPECIFICATION Spec
CONSTANTS
    o1 = o1  o2 = o2  u1 = u1  u2 = u2  u3 = u3  s1 = s1  s2 = s2
    Orders <- TwoOrders
    AutoOrders <- TwoOrders
    Qty <- TwoAndOne
    Units <- ThreeUnits
    DatedUnits <- OneUnit
    Sessions <- NoOrders
    Channels = {}
    SnpayChannels = {}
    InitStock = 0
    InitBalance = 3
    AdminMoves <- MixedMoves
    Keep = Keep
    NoOrder = NoOrder
INVARIANTS
    ReservationMatchesOrder
    BalanceMatchesDebits
    NoLeakedReservation
PROPERTIES
    ImplementsReservation
CHECK_DEADLOCK FALSE
