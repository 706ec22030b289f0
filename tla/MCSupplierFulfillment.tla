----------------------- MODULE MCSupplierFulfillment -----------------------
(***************************************************************************)
(* Instances of SupplierFulfillment for TLC.                               *)
(***************************************************************************)
EXTENDS SupplierFulfillment, TLC

CONSTANTS i1, u1, u2, w1, w2

OneItem == {i1}
NoUnits == {}
TwoUnits == {u1, u2}
OneWorker == {w1}
TwoWorkers == {w1, w2}
JustOne == i1 :> 1
=============================================================================
