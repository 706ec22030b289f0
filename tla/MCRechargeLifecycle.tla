------------------------ MODULE MCRechargeLifecycle ------------------------
(***************************************************************************)
(* Instances of RechargeLifecycle for TLC.                                 *)
(***************************************************************************)
EXTENDS RechargeLifecycle, TLC

CONSTANTS r1, w1, w2

OneRecharge == {r1}
NoRecharges == {}
OneWorker == {w1}
TwoWorkers == {w1, w2}
WorkerSymmetry == Permutations(Workers)
=============================================================================
