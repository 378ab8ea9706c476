------------------------------ MODULE Recovery ------------------------------
(***************************************************************************)
(* The growth-recovery agent (app/growth_agent.py, served by agent_recovery*)
(* of app/main.py): for a cart above the limit of one charge it proposes a *)
(* smaller quantity of one line.  It only reads the cart.  Its round() of  *)
(* a float is TwoPlaces but for half a paisa, which it may round down.     *)
(***************************************************************************)
EXTENDS CommerceData, Guardrail

CONSTANT MinRecovery  \* MIN_RECOVERY_AMOUNT

ASSUME RecoveryAssumption == MinRecovery \in Nat

LineTotal(r) == r.price * r.qty

\* _dominant_item: the line that costs most; of equals the smaller SKU.
Dominant(items) ==
    LET lines == {i \in DOMAIN items : LineTotal(items[i]) > 0}
        top   == {i \in lines : \A j \in lines : LineTotal(items[i]) >= LineTotal(items[j])}
    IN  items[Min(top)]

\* Mutant: the quantity is rounded up.
ProposedRoundedUp(r, limit) == Min({r.qty, (10 * limit + r.price - 1) \div r.price})

\* What fits of one line, as if the cart held nothing else.
Proposed(r, limit) == Min({r.qty, (10 * limit) \div r.price})

\* recover_cart: the proposed quantity of the dominant line, 0 when the cart
\* is not eligible.
Recover(actor, items) ==
    LET limit == MaxPerTransaction[actor]
        line  == Dominant(items)
        qty   == Proposed(line, limit)
    IN  IF \/ limit <= 0 \/ CartTotal(items) = 0 \/ CartTotal(items) <= limit
           \/ qty < 1 \/ qty >= line.qty \/ TwoPlaces(qty * line.price) < MinRecovery
        THEN 0 ELSE qty

\* By its contract: the largest quantity of a line alone that one charge
\* allows, if that is worth a charge; nothing for a cart that needs none.
LargestThatFits(actor, r) ==
    LET fitting == {n \in 1 .. r.qty : TwoPlaces(n * r.price) <= MaxPerTransaction[actor]}
        most    == Max({0} \cup fitting)
    IN  IF most = r.qty \/ TwoPlaces(most * r.price) < MinRecovery THEN 0 ELSE most

=============================================================================
