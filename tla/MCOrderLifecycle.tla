-------------------------- MODULE MCOrderLifecycle --------------------------
(***************************************************************************)
(* Instances of OrderLifecycle for TLC.                                    *)
(***************************************************************************)
EXTENDS OrderLifecycle, TLC

CONSTANTS o1, o2, u1, u2, u3, s1, s2

(* Two units each against three, one unit dated. *)
TwoOrders == {o1, o2}
OneOrder == {o1}
NoOrders == {}
TwoAndOne == o1 :> 2 @@ o2 :> 1
JustOne == o1 :> 1
SecondOrder == {o2}
ThreeUnits == {u1, u2, u3}
OneUnit == {u1}
TwoSessions == {s1, s2}
OneSession == {s1}

(* Updates that only halt an order. *)
HaltingMoves == {[to |-> "cancelled", pay |-> Keep], [to |-> "failed", pay |-> "unpaid"],
                 [to |-> "refunded", pay |-> "refunded"]}
(* A halt, a reopening and a payment override: with these an order reaches *)
(* every combination of status and release.                                *)
MixedMoves == {[to |-> "cancelled", pay |-> Keep], [to |-> "processing", pay |-> Keep],
               [to |-> "failed", pay |-> "unpaid"]}
(* The cancellations of the order page. *)
CancelMoves == [to : {"cancelled", "expired"}, pay : {Keep}]

SessionSymmetry == Permutations({s1, s2})
=============================================================================
