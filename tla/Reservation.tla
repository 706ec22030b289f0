---------------------------- MODULE Reservation ----------------------------
(***************************************************************************)
(* What the shop promises about digital goods: an order takes exactly what *)
(* it needs off the shelf, at once and exclusively; it is handed goods     *)
(* only out of its own reservation; it gives the rest back at most once,   *)
(* after which it is handed nothing; what was handed over stays gone.      *)
(***************************************************************************)
EXTENDS Integers, FiniteSets

CONSTANTS Orders, Units, Need, Nobody

VARIABLES
    phase,   \* phase[o]: "fresh", "holding" or "freed"
    goods    \* goods[u]: [place, for]

vars == <<phase, goods>>

Held(o) == {u \in Units : goods[u] = [place |-> "held", for |-> o]}
OnShelf == {u \in Units : goods[u].place = "shelf"}

Move(set, place, o) ==
    goods' = [u \in Units |-> IF u \in set THEN [place |-> place, for |-> o] ELSE goods[u]]

Init ==
    /\ phase = [o \in Orders |-> "fresh"]
    /\ goods = [u \in Units |-> [place |-> "shelf", for |-> Nobody]]

(* An order takes all it needs, or there is no order. *)
Reserve(o) ==
    /\ phase[o] = "fresh"
    /\ phase' = [phase EXCEPT ![o] = "holding"]
    /\ \E set \in SUBSET OnShelf :
         Cardinality(set) = Need[o] /\ Move(set, "held", o)

(* Everything still held goes back, once. *)
GiveBack(o) ==
    /\ phase[o] = "holding"
    /\ phase' = [phase EXCEPT ![o] = "freed"]
    /\ Move(Held(o), "shelf", Nobody)

(* Some of what the order holds is handed to the customer. *)
HandOver(o) ==
    /\ phase[o] = "holding"
    /\ \E set \in SUBSET Held(o) : Move(set, "gone", o)
    /\ UNCHANGED phase

Withdraw(u) ==
    /\ goods[u].place = "shelf"
    /\ Move({u}, "withdrawn", Nobody)
    /\ UNCHANGED phase

Restore(u) ==
    /\ goods[u].place = "withdrawn"
    /\ Move({u}, "shelf", Nobody)
    /\ UNCHANGED phase

Next ==
    \/ \E o \in Orders : Reserve(o) \/ GiveBack(o) \/ HandOver(o)
    \/ \E u \in Units : Withdraw(u) \/ Restore(u)

Spec == Init /\ [][Next]_vars
=============================================================================
