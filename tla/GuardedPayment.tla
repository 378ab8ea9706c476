--------------------------- MODULE GuardedPayment ---------------------------
(***************************************************************************)
(* What the payment plane promises, without threads, tables or requests: a *)
(* charge is made only for the basket as it is, only while that basket has *)
(* been quoted, for exactly what it costs, within the actor's limit, and   *)
(* once per actor and basket (README.md, "Money-Safety Model"; the header  *)
(* of app/commerce.py).                                                    *)
(***************************************************************************)
EXTENDS Integers, Sequences

CONSTANTS
    Basket,     \* the baskets there can be
    Actor,      \* who pays
    Total,      \* what each basket costs
    Limit       \* largest charge, by actor

VARIABLES
    basket,     \* the basket now
    quoted,     \* whether this basket has an open quote
    charges     \* the charges made, in order

vars == <<basket, quoted, charges>>

Init ==
    /\ basket \in Basket
    /\ quoted = FALSE
    /\ charges = <<>>

\* A changed basket has no quote.
Shop ==
    /\ basket' \in Basket \ {basket}
    /\ quoted' = FALSE
    /\ UNCHANGED charges

Offer == quoted' = TRUE /\ UNCHANGED <<basket, charges>>

Withdraw == quoted' = FALSE /\ UNCHANGED <<basket, charges>>

Charged(a) == \E i \in DOMAIN charges : charges[i].actor = a /\ charges[i].basket = basket

Charge(a) ==
    /\ quoted
    /\ ~Charged(a)
    /\ Total[basket] <= Limit[a]
    /\ charges' = Append(charges,
         [actor |-> a, basket |-> basket, amount |-> Total[basket]])
    /\ UNCHANGED <<basket, quoted>>

Next == Shop \/ Offer \/ Withdraw \/ \E a \in Actor : Charge(a)

Spec == Init /\ [][Next]_vars

=============================================================================
