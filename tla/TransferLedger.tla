---------------------------- MODULE TransferLedger ----------------------------
(***************************************************************************)
(* What the shop promises about transfers on the chain, each step at once. *)
(* One payment attempt of one order speaks for a transfer, or a recharge   *)
(* is credited with it.  An order is booked with a transfer that brings    *)
(* its price, or ends unpaid, once.  A transfer is credited to the wallet  *)
(* once: all of it, for a recharge or when its order is cancelled because  *)
(* it fell short; what exceeds the price, when its order was booked.       *)
(***************************************************************************)
EXTENDS Integers

CONSTANTS Orders, Price, Attempts, Transfers, Amount, Nobody

VARIABLES
    orders,     \* orders[o]: "pending", "paid", "cancelled" or "expired"
    claim,      \* claim[t]: the order and the attempt that speak for t
    recharged,  \* transfers credited to a recharge
    credit,     \* credit[t]: how much of t went to the wallet
    wallet

vars == <<orders, claim, recharged, credit, wallet>>

Init ==
    /\ orders = [o \in Orders |-> "pending"]
    /\ claim = [t \in Transfers |-> Nobody]
    /\ recharged = {}
    /\ credit = [t \in Transfers |-> 0]
    /\ wallet = 0

Unclaimed(t) == claim[t] = Nobody /\ t \notin recharged
Holds(o, t) == \E a \in Attempts : claim[t] = <<o, a>>

End(o, status) ==
    /\ orders[o] = "pending"
    /\ orders' = [orders EXCEPT ![o] = status]

ToWallet(t, n) ==
    /\ credit[t] = 0
    /\ credit' = [credit EXCEPT ![t] = n]
    /\ wallet' = wallet + n

Claim(t, o, a) ==
    /\ Unclaimed(t)
    /\ claim' = [claim EXCEPT ![t] = <<o, a>>]
    /\ UNCHANGED <<orders, recharged, credit, wallet>>

Recharge(t) ==
    /\ Unclaimed(t)
    /\ recharged' = recharged \cup {t}
    /\ ToWallet(t, Amount[t])
    /\ UNCHANGED <<orders, claim>>

Book(o, t) ==
    /\ Holds(o, t)
    /\ Amount[t] >= Price[o]
    /\ credit[t] = 0
    /\ End(o, "paid")
    /\ UNCHANGED <<claim, recharged, credit, wallet>>

BookWithExcess(o, t) ==
    /\ Holds(o, t)
    /\ Amount[t] > Price[o]
    /\ End(o, "paid")
    /\ ToWallet(t, Amount[t] - Price[o])
    /\ UNCHANGED <<claim, recharged>>

CreditExcess(o, t) ==
    /\ Holds(o, t)
    /\ Amount[t] > Price[o]
    /\ orders[o] = "paid"
    /\ ToWallet(t, Amount[t] - Price[o])
    /\ UNCHANGED <<orders, claim, recharged>>

CreditShort(o, t) ==
    /\ Holds(o, t)
    /\ Amount[t] < Price[o]
    /\ End(o, "cancelled")
    /\ ToWallet(t, Amount[t])
    /\ UNCHANGED <<claim, recharged>>

EndUnpaid(o) ==
    /\ End(o, "cancelled") \/ End(o, "expired")
    /\ UNCHANGED <<claim, recharged, credit, wallet>>

Next ==
    \/ \E o \in Orders, t \in Transfers :
         \/ \E a \in Attempts : Claim(t, o, a)
         \/ Book(o, t) \/ BookWithExcess(o, t) \/ CreditExcess(o, t) \/ CreditShort(o, t)
    \/ \E o \in Orders : EndUnpaid(o)
    \/ \E t \in Transfers : Recharge(t)

Spec == Init /\ [][Next]_vars
=============================================================================
