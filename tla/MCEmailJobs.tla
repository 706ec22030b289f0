----------------------------- MODULE MCEmailJobs ----------------------------
(***************************************************************************)
(* Instances of EmailJobs for TLC.                                         *)
(***************************************************************************)
EXTENDS EmailJobs, TLC

CONSTANTS w1, w2

TwoWorkers == {w1, w2}
=============================================================================
