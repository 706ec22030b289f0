---------------------------- MODULE MCBep20Payment ----------------------------
(* Instances of Bep20Payment. *)
EXTENDS Bep20Payment, TLC

CONSTANTS o1, o2, t1, w1, w2

Two == [o \in Orders |-> 2]
TwoAndThree == (o1 :> 2) @@ (o2 :> 3)
TransferOfTwo == [t \in Transfers |-> 2]
TransferOfThree == [t \in Transfers |-> 3]

WorkerSymmetry == Permutations(Workers)
=============================================================================
