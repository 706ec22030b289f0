-------------------------------- MODULE Totals --------------------------------
(***************************************************************************)
(* What the members of a finite set weigh together: quantities of orders,  *)
(* amounts of transfers.  A total is the number of pieces it comes to, one *)
(* per unit of weight, so that two totals are compared by comparing sets   *)
(* of pieces and no sum has to be unfolded.                                *)
(***************************************************************************)
EXTENDS Naturals, FiniteSets

Pieces(weight, S) == UNION {{x} \X (1 .. weight[x]) : x \in S}

Total(weight, S) == Cardinality(Pieces(weight, S))
=============================================================================
