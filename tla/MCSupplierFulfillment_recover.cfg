\* Two calls deliver one item from two units on the shelf or
\* from the supplier, and an administrator reconciles what a crash abandons.
\* No symmetry: a liveness property is checked.
SPECIFICATION FairSpec
CONSTANTS
    i1 = i1  u1 = u1  u2 = u2  w1 = w1  w2 = w2
    Items <- OneItem
    Qty <- JustOne
    Units <- TwoUnits
    Workers <- TwoWorkers
    ReadFaults = {"lost"}
    NoItem = NoItem
INVARIANTS
    TypeOK
    OneBuyer
    SuppliedAsBought
    LocalGoodsWithinQuantity
PROPERTIES
    FulfilledIsFinal
    PurchasedOnce
    NoLocalGoodsAfterRequest
    AbandonedPurchaseRecovers
