\* The GET of a purchase reference is rate limited.
SPECIFICATION Spec
CONSTANTS
    i1 = i1  u1 = u1  u2 = u2  w1 = w1  w2 = w2
    Items <- OneItem
    Qty <- JustOne
    Units <- NoUnits
    Workers <- OneWorker
    ReadFaults = {"limited"}
    NoItem = NoItem
PROPERTY
    KnownOrderNotRepurchased
