------------------------- MODULE ReservationProofs -------------------------
(***************************************************************************)
(* OrderLifecycle implements Reservation, for every set of orders, units   *)
(* and sessions and under every admin update; and what follows from it:    *)
(* an order that has not given its reservation back holds exactly its      *)
(* quantity.                                                               *)
(*                                                                         *)
(* Every step of the shop maps to a step of Reservation or to a stutter    *)
(* (NextMaps).  The counting invariant is then proved over the five steps  *)
(* of Reservation rather than over the two dozen of OrderLifecycle.        *)
(***************************************************************************)
EXTENDS OrderLifecycleProofs

(* The refinement mapping. *)
Phase == [o \in Orders |-> IF orders[o].status = "none" THEN "fresh"
                           ELSE IF orders[o].released THEN "freed" ELSE "holding"]
Goods == [u \in Units |-> [place |-> Place[units[u].state], for |-> units[u].owner]]

-----------------------------------------------------------------------------
(* Four kinds of step, by what they do to phases and goods.                *)

LEMMA PlaceValues ==
    ASSUME TypeOK, NEW u \in Units
    PROVE  /\ Goods[u].place = "shelf" <=> units[u].state = "available"
           /\ Goods[u].place = "held" <=> units[u].state = "reserved"
           /\ Goods[u].place = "gone" <=> units[u].state = "delivered"
           /\ Goods[u].place = "withdrawn" <=> units[u].state = "disabled"
           /\ Goods[u].for = units[u].owner
           /\ Goods[u] = [place |-> Goods[u].place, for |-> Goods[u].for]
BY DEF TypeOK, UnitRow, UnitStates, Goods, Place

LEMMA PhasesKept ==
    ASSUME OrdersKept
    PROVE  Phase' = Phase
BY DEF OrdersKept, Exists, Phase

LEMMA GoodsKept ==
    ASSUME UNCHANGED units
    PROVE  Goods' = Goods
BY DEF Goods

(* The rows in set change place; nothing else does. *)
LEMMA GoodsMove ==
    ASSUME NEW set \in SUBSET Units, NEW state \in UnitStates, NEW o,
           \A u \in set : units'[u].state = state /\ units'[u].owner = o,
           \A u \in Units \ set : units'[u].state = units[u].state
                                  /\ units'[u].owner = units[u].owner
    PROVE  Abstract!Move(set, Place[state], o)
BY DEF Abstract!Move

-----------------------------------------------------------------------------
LEMMA HeldIsReserved ==
    ASSUME TypeOK, NEW o
    PROVE  Abstract!Held(o) = UnitsIn(o, "reserved")
BY PlaceValues DEF Abstract!Held, UnitsIn, Goods

LEMMA ShelfIsAvailable ==
    ASSUME TypeOK
    PROVE  Abstract!OnShelf = {u \in Units : units[u].state = "available"}
BY PlaceValues DEF Abstract!OnShelf, Goods

(* Reservation counts with the same operator.                              *)
LEMMA SameCount ==
    ASSUME NEW set
    PROVE  Abstract!Cardinality(set) = Cardinality(set)
BY DEF Abstract!Cardinality, Cardinality

LEMMA CreationMaps ==
    ASSUME ReservationInv, TypeOK', NEW o \in Orders, Creates(o)
    PROVE  Abstract!Reserve(o)
<1>1. Phase[o] = "fresh" /\ Phase' = [Phase EXCEPT ![o] = "holding"]
  BY DEF Creates, Exists, Phase
<1>2. CASE o \in ManualOrders /\ UNCHANGED units
  <2>1. Cardinality({}) = 0
    BY FS_EmptySet
  <2>2. Abstract!Move({}, "held", o)
    BY <1>2 DEF Abstract!Move
  <2> QED BY <1>1, <1>2, <2>1, <2>2, SameCount DEF Abstract!Reserve, Phase, ManualOrders
<1>3. ASSUME o \in AutoOrders, NEW picked \in SUBSET {u \in Units : Reservable(u)},
             Cardinality(picked) = Qty[o], ReserveUnits(o, picked)
      PROVE  Abstract!Reserve(o)
  <2>1. picked \in SUBSET Abstract!OnShelf
    BY <1>3, ShelfIsAvailable DEF ReservationInv, Reservable
  <2>2. /\ \A u \in picked : units'[u].state = "reserved" /\ units'[u].owner = o
        /\ \A u \in Units \ picked : units'[u] = units[u]
    BY <1>3 DEF ReserveUnits, ReservationInv, TypeOK, UnitRow
  <2>3. Abstract!Move(picked, Place["reserved"], o)
    BY <1>3, <2>2, GoodsMove DEF UnitStates
  <2>4. Abstract!Move(picked, "held", o)
    BY <2>3 DEF Place
  <2> QED BY <1>1, <1>3, <2>1, <2>4, SameCount DEF Abstract!Reserve, Phase
<1> QED BY <1>2, <1>3 DEF Creates

LEMMA ReleaseMaps ==
    ASSUME ReservationInv, TypeOK', NEW o \in Orders, Releases(o)
    PROVE  Abstract!GiveBack(o) \/ UNCHANGED Abstract!vars
<1>1. CASE Releasable(o)
  <2>1. Phase[o] = "holding" /\ Phase' = [Phase EXCEPT ![o] = "freed"]
    BY <1>1 DEF Releases, ReleasedAfter, Releasable, Exists, Phase
  <2>2. /\ \A u \in UnitsIn(o, "reserved") : /\ units'[u].state = "available"
                                             /\ units'[u].owner = NoOrder
        /\ \A u \in Units \ UnitsIn(o, "reserved") : units'[u] = units[u]
    BY <1>1 DEF Releases, ReleaseGoods, FreedUnits, FreeUnit, UnitsIn, ReservationInv,
                TypeOK, UnitRow
  <2>3. Abstract!Move(UnitsIn(o, "reserved"), Place["available"], NoOrder)
    BY <2>2, GoodsMove DEF UnitStates, UnitsIn
  <2>4. Abstract!Move(Abstract!Held(o), "shelf", NoOrder)
    BY <2>3, HeldIsReserved DEF Place, ReservationInv
  <2> QED BY <2>1, <2>4 DEF Abstract!GiveBack, Phase
<1>2. CASE ~Releasable(o)
  <2>1. OrdersKept
    BY <1>2 DEF Releases, ReleasedAfter, OrdersKept, Exists, ReservationInv, TypeOK, OrderRow
  <2>2. UNCHANGED units
    BY <1>2 DEF Releases, ReleaseGoods
  <2> QED BY <2>1, <2>2, PhasesKept, GoodsKept DEF Abstract!vars, Phase, Goods
<1> QED BY <1>1, <1>2

LEMMA HandOverMaps ==
    ASSUME ReservationInv, TypeOK', NEW o \in Orders, OrdersKept, Exists(o),
           NEW taken \in SUBSET DeliverableUnits(o), HandsOver(o, taken)
    PROVE  Abstract!HandOver(o) \/ UNCHANGED Abstract!vars
<1>1. Phase' = Phase
  BY PhasesKept
<1>2. CASE taken = {}
  <2>1. UNCHANGED units
    BY <1>2 DEF HandsOver, ReservationInv, TypeOK
  <2> QED BY <1>1, <2>1, GoodsKept DEF Abstract!vars, Phase, Goods
<1>3. CASE taken # {}
  <2>1. taken \subseteq UnitsIn(o, "reserved")
    BY DEF DeliverableUnits
  <2>2. ~orders[o].released
    BY <1>3, <2>1 DEF UnitsIn, ReservationInv, NoLeakedReservation
  <2>3. Phase[o] = "holding"
    BY <2>2 DEF Exists, Phase
  <2>4. /\ \A u \in taken : units'[u].state = "delivered" /\ units'[u].owner = o
        /\ \A u \in Units \ taken : units'[u] = units[u]
    BY <2>1 DEF HandsOver, UnitsIn, ReservationInv, TypeOK, UnitRow
  <2>5. Abstract!Move(taken, Place["delivered"], o)
    BY <2>1, <2>4, GoodsMove DEF UnitStates, UnitsIn
  <2>6. Abstract!Move(taken, "gone", o)
    BY <2>5 DEF Place
  <2>7. taken \in SUBSET Abstract!Held(o)
    BY <2>1, HeldIsReserved DEF ReservationInv
  <2> QED BY <1>1, <2>3, <2>6, <2>7 DEF Abstract!HandOver, Phase
<1> QED BY <1>2, <1>3

LEMMA UnitStepMaps ==
    ASSUME ReservationInv, TypeOK', NEW u \in Units, UnitStep(u)
    PROVE  Abstract!Withdraw(u) \/ Abstract!Restore(u) \/ UNCHANGED Abstract!vars
<1>1. UNCHANGED orders
  BY DEF UnitStep, AdminDisableUnit, AdminEnableUnit, UnitLapses
<1>2. Phase' = Phase
  BY <1>1 DEF Phase
<1>3. CASE AdminDisableUnit(u)
  <2>1. /\ units'[u].state = "disabled" /\ units'[u].owner = NoOrder
        /\ \A v \in Units \ {u} : units'[v] = units[v]
    BY <1>3 DEF AdminDisableUnit, ReservationInv, TypeOK, UnitRow
  <2>2. Abstract!Move({u}, Place["disabled"], NoOrder)
    BY <2>1, GoodsMove DEF UnitStates
  <2>3. Goods[u].place = "shelf"
    BY <1>3, PlaceValues DEF AdminDisableUnit, ReservationInv
  <2> QED BY <1>2, <2>2, <2>3 DEF Abstract!Withdraw, Place, Phase, Goods
<1>4. CASE AdminEnableUnit(u)
  <2>1. /\ units'[u].state = "available" /\ units'[u].owner = NoOrder
        /\ \A v \in Units \ {u} : units'[v] = units[v]
    BY <1>4 DEF AdminEnableUnit, ReservationInv, TypeOK, UnitRow
  <2>2. Abstract!Move({u}, Place["available"], NoOrder)
    BY <2>1, GoodsMove DEF UnitStates
  <2>3. Goods[u].place = "withdrawn"
    BY <1>4, PlaceValues DEF AdminEnableUnit, ReservationInv
  <2> QED BY <1>2, <2>2, <2>3 DEF Abstract!Restore, Place, Phase, Goods
<1>5. CASE UnitLapses(u)
  <2>1. \A v \in Units : units'[v].state = units[v].state /\ units'[v].owner = units[v].owner
    BY <1>5 DEF UnitLapses, ReservationInv, TypeOK, UnitRow
  <2>2. Goods' = Goods
    BY <2>1 DEF Goods
  <2> QED BY <1>2, <2>2 DEF Abstract!vars, Phase, Goods
<1> QED BY <1>3, <1>4, <1>5 DEF UnitStep

LEMMA NextMaps ==
    ASSUME ReservationInv, [Next]_vars
    PROVE  [Abstract!Next]_(Abstract!vars)
<1>a. TypeOK'
  BY TypeStep DEF ReservationInv
<1>b. ASSUME OrdersKept, UNCHANGED units
      PROVE  UNCHANGED Abstract!vars
  BY <1>b, PhasesKept, GoodsKept DEF Abstract!vars, Phase, Goods
<1>1. ASSUME NEW o \in Orders, OrderStep(o)
      PROVE  Abstract!Reserve(o) \/ Abstract!GiveBack(o) \/ Abstract!HandOver(o)
             \/ UNCHANGED Abstract!vars
  <2>1. CASE Creates(o)
    BY <1>a, <2>1, CreationMaps
  <2>2. CASE Releases(o)
    BY <1>a, <2>2, ReleaseMaps
  <2>3. ASSUME Exists(o), OrdersKept, NEW taken \in SUBSET DeliverableUnits(o),
               HandsOver(o, taken)
        PROVE  Abstract!HandOver(o) \/ UNCHANGED Abstract!vars
    BY <1>a, <2>3, HandOverMaps
  <2>4. CASE LeavesGoods
    BY <1>b, <2>4 DEF LeavesGoods
  <2> QED BY <1>1, <2>1, <2>2, <2>3, <2>4, OrderStepEffect DEF Effect
<1>2. ASSUME NEW s \in Sessions, SessionStep(s)
      PROVE  UNCHANGED Abstract!vars
  <2>1. OrdersKept
    BY <1>a, <1>2, SessionStepReservations
  <2>2. UNCHANGED units
    BY <1>2, SessionStepOrders DEF ReservationInv
  <2> QED BY <1>b, <2>1, <2>2
<1>3. ASSUME NEW u \in Units, UnitStep(u)
      PROVE  Abstract!Withdraw(u) \/ Abstract!Restore(u) \/ UNCHANGED Abstract!vars
  BY <1>a, <1>3, UnitStepMaps
<1>4. CASE UNCHANGED vars
  <2>1. OrdersKept /\ UNCHANGED units
    BY <1>4 DEF vars, OrdersKept, Exists
  <2> QED BY <1>b, <2>1
<1> QED BY <1>1, <1>2, <1>3, <1>4 DEF Next, Abstract!Next

LEMMA InitMaps == Init => Abstract!Init
<1> SUFFICES ASSUME Init PROVE Abstract!Init
  OBVIOUS
<1>1. \A o \in Orders : orders[o].status = "none"
  BY DEF Init
<1>2. \A u \in Units : units[u].state = "available" /\ units[u].owner = NoOrder
  BY DEF Init
<1> QED BY <1>1, <1>2 DEF Abstract!Init, Place

(* Orders, payments, sessions, retries and administrators together do      *)
(* nothing to goods but what Reservation allows: an order takes all it     *)
(* needs at once, is handed only what it holds, and gives back once.       *)
THEOREM ReservationImplemented == Spec => ImplementsReservation
<1>1. Init => ReservationInv
  BY InitReservations
<1>2. ReservationInv /\ [Next]_vars => ReservationInv'
  BY ReservationStep
<1>3. ReservationInv /\ [Next]_vars => [Abstract!Next]_(Abstract!vars)
  BY NextMaps
<1> QED BY <1>1, <1>2, <1>3, InitMaps, PTL DEF Spec, ImplementsReservation, Abstract!Spec

-----------------------------------------------------------------------------
(* Counting: what an order holds or received is what it ordered.           *)

In(o, place) == {u \in Units : Goods[u] = [place |-> place, for |-> o]}

(* Nothing was handed over before the order existed; until it gives back   *)
(* what it holds, that and what it received make up the quantity.          *)
Matches(o) ==
    /\ Phase[o] = "fresh" => In(o, "gone") = {}
    /\ Phase[o] = "holding" => Cardinality(In(o, "held") \cup In(o, "gone")) = Qty[o]
    /\ Cardinality(In(o, "gone")) <= Qty[o]

CountInv == ReservationInv /\ \A o \in AutoOrders : Matches(o)

LEMMA InFinite ==
    ASSUME NEW o, NEW place
    PROVE  IsFiniteSet(In(o, place)) /\ Cardinality(In(o, place)) \in Nat
<1>1. In(o, place) \subseteq Units
  BY DEF In
<1> QED BY <1>1, InventoryAssumption, FS_Subset, FS_CardinalityType

LEMMA InIsUnitsIn ==
    ASSUME TypeOK, NEW o
    PROVE  In(o, "held") = UnitsIn(o, "reserved") /\ In(o, "gone") = UnitsIn(o, "delivered")
<1>1. ASSUME NEW u \in Units
      PROVE  /\ Goods[u] = [place |-> "held", for |-> o] <=>
                  units[u].owner = o /\ units[u].state = "reserved"
             /\ Goods[u] = [place |-> "gone", for |-> o] <=>
                  units[u].owner = o /\ units[u].state = "delivered"
  <2>1. Goods[u] = [place |-> Place[units[u].state], for |-> units[u].owner]
    BY DEF Goods
  <2>2. units[u].state \in UnitStates
    BY DEF TypeOK, UnitRow
  <2> QED BY <2>1, <2>2 DEF Place, UnitStates
<1> QED BY <1>1 DEF In, UnitsIn

LEMMA MoveChangesIn ==
    ASSUME NEW set \in SUBSET Units, NEW place, NEW o, Abstract!Move(set, place, o),
           NEW p, NEW q
    PROVE  /\ q = place /\ p = o => In(p, q)' = In(p, q) \cup set
           /\ q # place \/ p # o => In(p, q)' = In(p, q) \ set
BY DEF Abstract!Move, In, Goods

LEMMA SameMatches ==
    ASSUME NEW o, Matches(o), Phase'[o] = Phase[o],
           In(o, "held")' = In(o, "held"), In(o, "gone")' = In(o, "gone")
    PROVE  Matches(o)'
BY DEF Matches

LEMMA MatchStep ==
    ASSUME CountInv, [Next]_vars, NEW p \in AutoOrders
    PROVE  Matches(p)'
<1>a. p \in Orders /\ Qty[p] \in Nat /\ Matches(p)
  BY OrdersAssumption DEF CountInv
<1>b. [Abstract!Next]_(Abstract!vars)
  BY NextMaps DEF CountInv
<1>c. \A o \in Orders : \A value :
        Phase' = [Phase EXCEPT ![o] = value] => Phase'[p] = IF p = o THEN value ELSE Phase[p]
  BY <1>a DEF Phase
<1>1. ASSUME NEW o \in Orders, Abstract!Reserve(o)
      PROVE  Matches(p)'
  <2>1. PICK set \in SUBSET Abstract!OnShelf :
          /\ Cardinality(set) = (IF o \in AutoOrders THEN Qty[o] ELSE 0)
          /\ Abstract!Move(set, "held", o)
    BY <1>1, SameCount DEF Abstract!Reserve
  <2>2. Phase[o] = "fresh" /\ Phase' = [Phase EXCEPT ![o] = "holding"]
    BY <1>1 DEF Abstract!Reserve, Phase
  <2>3. /\ set \in SUBSET Units
        /\ \A q \in {"held", "gone"} : In(p, q) \cap set = {}
    BY <2>1 DEF Abstract!OnShelf, In, Goods
  <2>4. In(p, "gone")' = In(p, "gone")
    BY <2>1, <2>3, MoveChangesIn
  <2>5. CASE p # o
    <3>1. In(p, "held")' = In(p, "held")
      BY <2>1, <2>3, <2>5, MoveChangesIn
    <3>2. Phase'[p] = Phase[p]
      BY <1>c, <2>2, <2>5
    <3> QED BY <1>a, <2>4, <3>1, <3>2, SameMatches
  <2>6. CASE p = o
    <3>1. In(p, "held") = {}
      BY <2>2, <2>6, InIsUnitsIn DEF Phase, CountInv, ReservationInv, NoLeakedReservation,
           UnitsIn, Exists
    <3>2. In(p, "held")' = set
      <4>1. In(p, "held")' = In(p, "held") \cup set
        BY <2>1, <2>3, <2>6, MoveChangesIn
      <4> QED BY <3>1, <4>1
    <3>3. In(p, "gone")' = {}
      BY <1>a, <2>2, <2>4, <2>6 DEF Matches
    <3>4. Cardinality(In(p, "held")' \cup In(p, "gone")') = Qty[p]
      <4>1. In(p, "held")' \cup In(p, "gone")' = set
        BY <3>2, <3>3
      <4>2. Cardinality(set) = Qty[p]
        BY <2>1, <2>6
      <4> HIDE DEF In
      <4> QED BY <4>1, <4>2
    <3>5. Cardinality(In(p, "gone")') <= Qty[p]
      BY <1>a, <3>3, FS_EmptySet
    <3> QED BY <3>3, <3>4, <3>5 DEF Matches
  <2> QED BY <2>5, <2>6
<1>2. ASSUME NEW o \in Orders, Abstract!GiveBack(o)
      PROVE  Matches(p)'
  <2>1. /\ Abstract!Move(In(o, "held"), "shelf", NoOrder)
        /\ Phase' = [Phase EXCEPT ![o] = "freed"]
    BY <1>2 DEF Abstract!GiveBack, Abstract!Held, In, Goods, Phase
  <2>2. /\ In(o, "held") \in SUBSET Units
        /\ In(p, "gone") \cap In(o, "held") = {}
        /\ p # o => In(p, "held") \cap In(o, "held") = {}
    BY DEF In
  <2> DEFINE set == In(o, "held")
  <2> HIDE DEF set
  <2>a. /\ set \in SUBSET Units
        /\ Abstract!Move(set, "shelf", NoOrder)
        /\ In(p, "gone") \cap set = {}
        /\ p # o => In(p, "held") \cap set = {}
    BY <2>1, <2>2 DEF set
  <2>b. \A q \in {"held", "gone"} : In(p, q)' = In(p, q) \ set
    BY <2>a, MoveChangesIn
  <2>3. In(p, "gone")' = In(p, "gone")
    BY <2>a, <2>b
  <2>4. CASE p # o
    <3>1. In(p, "held")' = In(p, "held")
      BY <2>4, <2>a, <2>b
    <3>2. Phase'[p] = Phase[p]
      BY <1>c, <2>1, <2>4
    <3> QED BY <1>a, <2>3, <3>1, <3>2, SameMatches
  <2>5. CASE p = o
    <3>1. Phase'[p] = "freed"
      BY <1>c, <2>1, <2>5
    <3>2. Cardinality(In(p, "gone")') <= Qty[p]
      BY <1>a, <2>3 DEF Matches
    <3> QED BY <3>1, <3>2 DEF Matches
  <2> QED BY <2>4, <2>5
<1>3. ASSUME NEW o \in Orders, Abstract!HandOver(o)
      PROVE  Matches(p)'
  <2>1. PICK set \in SUBSET In(o, "held") : Abstract!Move(set, "gone", o)
    BY <1>3 DEF Abstract!HandOver, Abstract!Held, In, Goods
  <2>2. Phase[o] = "holding" /\ Phase' = Phase
    BY <1>3 DEF Abstract!HandOver, Phase
  <2>3. set \in SUBSET Units
    BY <2>1 DEF In
  <2>4. In(p, "held")' = In(p, "held") \ set
    BY <2>1, <2>3, MoveChangesIn
  <2>5. CASE p # o
    <3>1. In(p, "gone") \cap set = {} /\ In(p, "held") \cap set = {}
      BY <2>1, <2>5 DEF In
    <3>2. In(p, "gone")' = In(p, "gone")
      BY <2>1, <2>3, <2>5, <3>1, MoveChangesIn
    <3>3. In(p, "held")' = In(p, "held")
      BY <2>4, <3>1
    <3> QED BY <1>a, <2>2, <3>2, <3>3, SameMatches
  <2>6. CASE p = o
    <3>1. In(p, "gone")' = In(p, "gone") \cup set
      BY <2>1, <2>3, <2>6, MoveChangesIn
    <3>2. In(p, "held")' \cup In(p, "gone")' = In(p, "held") \cup In(p, "gone")
      BY <2>1, <2>4, <2>6, <3>1
    <3>3. Cardinality(In(p, "held") \cup In(p, "gone")) = Qty[p]
      BY <1>a, <2>2, <2>6 DEF Matches
    <3>4. Cardinality(In(p, "gone")') <= Qty[p]
      <4>1. IsFiniteSet(In(p, "held") \cup In(p, "gone"))
        BY InFinite, FS_Union
      <4>2. In(p, "gone")' \subseteq In(p, "held") \cup In(p, "gone")
        BY <3>2
      <4> QED BY <3>3, <4>1, <4>2, FS_Subset
    <3>5. Cardinality(In(p, "held")' \cup In(p, "gone")') = Qty[p]
      BY <3>2, <3>3
    <3>6. Phase'[p] = "holding"
      BY <2>2, <2>6
    <3> QED BY <3>4, <3>5, <3>6 DEF Matches
  <2> QED BY <2>5, <2>6
<1>4. ASSUME NEW u \in Units, Abstract!Withdraw(u) \/ Abstract!Restore(u)
      PROVE  Matches(p)'
  <2>1. /\ Goods[u].place \in {"shelf", "withdrawn"}
        /\ Phase' = Phase
        /\ \E place \in {"shelf", "withdrawn"} : Abstract!Move({u}, place, NoOrder)
    BY <1>4 DEF Abstract!Withdraw, Abstract!Restore, Goods, Phase
  <2>2. \A q \in {"held", "gone"} : In(p, q) \cap {u} = {}
    BY <2>1 DEF In
  <2>3. \A q \in {"held", "gone"} : In(p, q)' = In(p, q)
    BY <2>1, <2>2, MoveChangesIn
  <2> QED BY <1>a, <2>1, <2>3, SameMatches
<1>5. CASE UNCHANGED Abstract!vars
  <2>1. Phase' = Phase /\ Goods' = Goods
    BY <1>5 DEF Abstract!vars, Phase, Goods
  <2>2. \A q : In(p, q)' = In(p, q)
    BY <2>1 DEF In
  <2> QED BY <1>a, <2>1, <2>2, SameMatches
<1> QED BY <1>b, <1>1, <1>2, <1>3, <1>4, <1>5 DEF Abstract!Next

(* Until an automatic order gives back what it holds, what is reserved for *)
(* it and what it received are exactly what it ordered, and never does an  *)
(* order receive more: partial deliveries, skipped rows, refused releases  *)
(* and repeated calls lose and duplicate nothing.                          *)
THEOREM ReservationsMatch == Spec => []ReservationMatchesOrder
<1>1. Init => CountInv
  <2> SUFFICES ASSUME Init PROVE CountInv
    OBVIOUS
  <2>1. ReservationInv
    BY InitReservations
  <2>2. ASSUME NEW o \in AutoOrders PROVE Matches(o)
    <3>1. In(o, "gone") = {} /\ Phase[o] = "fresh"
      BY <2>1, <2>2, InIsUnitsIn, OrdersAssumption DEF Init, Phase, UnitsIn, ReservationInv
    <3>2. Qty[o] \in Nat
      BY OrdersAssumption
    <3> QED BY <3>1, <3>2, FS_EmptySet DEF Matches
  <2> QED BY <2>1, <2>2 DEF CountInv
<1>2. CountInv /\ [Next]_vars => CountInv'
  BY ReservationStep, MatchStep DEF CountInv
<1>3. CountInv => ReservationMatchesOrder
  <2> SUFFICES ASSUME CountInv, NEW o \in AutoOrders
               PROVE  /\ Exists(o) /\ ~orders[o].released =>
                           Cardinality(UnitsIn(o, "reserved"))
                             + Cardinality(UnitsIn(o, "delivered")) = Qty[o]
                      /\ Cardinality(UnitsIn(o, "delivered")) <= Qty[o]
    BY DEF ReservationMatchesOrder
  <2>1. In(o, "held") = UnitsIn(o, "reserved") /\ In(o, "gone") = UnitsIn(o, "delivered")
    BY InIsUnitsIn DEF CountInv, ReservationInv
  <2>2. Cardinality(In(o, "held") \cup In(o, "gone"))
          = Cardinality(In(o, "held")) + Cardinality(In(o, "gone"))
    <3>1. In(o, "held") \cap In(o, "gone") = {}
      BY DEF In
    <3>2. Cardinality(In(o, "held") \cap In(o, "gone")) = 0
      BY <3>1, FS_EmptySet
    <3>3. /\ IsFiniteSet(In(o, "held")) /\ Cardinality(In(o, "held")) \in Nat
          /\ IsFiniteSet(In(o, "gone")) /\ Cardinality(In(o, "gone")) \in Nat
      BY InFinite
    <3> HIDE DEF In
    <3>4. Cardinality(In(o, "held") \cup In(o, "gone"))
            = Cardinality(In(o, "held")) + Cardinality(In(o, "gone"))
                - Cardinality(In(o, "held") \cap In(o, "gone"))
      BY <3>3, FS_Union
    <3> QED BY <3>2, <3>3, <3>4
  <2>3. Exists(o) /\ ~orders[o].released => Phase[o] = "holding"
    BY OrdersAssumption DEF Phase, Exists
  <2> QED BY <2>1, <2>2, <2>3 DEF CountInv, Matches
<1> QED BY <1>1, <1>2, <1>3, PTL DEF Spec
=============================================================================
