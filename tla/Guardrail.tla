----------------------------- MODULE Guardrail -----------------------------
(***************************************************************************)
(* The deterministic policy layer (app/guardrail.py) and the mandate it    *)
(* mints (app/mandate.py).                                                 *)
(***************************************************************************)
EXTENDS CommerceData

CONSTANTS
    Actor,              \* ALLOWED_ACTORS: who may spend
    MaxPerTransaction,  \* largest amount of one charge, by actor
    MaxPerSession       \* largest sum of a session's charges, by actor

ASSUME LimitAssumption ==
    /\ MaxPerTransaction \in [Actor -> Nat]
    /\ MaxPerSession \in [Actor -> Nat]

\* Mutant: only looks at what the caller read, not at the cart.
QuoteStillOpen(quote, status, items, version) ==
    items # <<>> /\ ~quote.expired

\* Mutant: trusts the version and the status, does not compare the hash.
QuoteVersionOnly(quote, status, items, version) ==
    /\ items # <<>>
    /\ quote.version = version
    /\ status = "active"
    /\ ~quote.expired

\* validate_quote_against_cart: the quote is an exact snapshot of the cart,
\* open and not expired.  `status` is the one the caller has read, `expired`
\* whether its expiry time has passed by now.  The actor is not compared.
QuoteMatchesCart(quote, status, items, version) ==
    /\ items # <<>>
    /\ quote.hash = Hash(items)
    /\ quote.version = version
    /\ status = "active"
    /\ ~quote.expired

\* Mutant: forgets the per-transaction limit.
WithinSessionLimit(actor, amount, spent) ==
    actor \in Actor /\ spent + amount <= MaxPerSession[actor]

\* check_transaction: the spend limits.
WithinLimits(actor, amount, spent) ==
    /\ actor \in Actor
    /\ amount <= MaxPerTransaction[actor]
    /\ spent + amount <= MaxPerSession[actor]

\* sign_mandate: an HMAC over these four fields and the session id.  Signatures
\* are taken to be unforgeable, so a signature is the tuple it signs.
Sign(actor, hash, amount, quote) ==
    [actor |-> actor, hash |-> hash, amount |-> amount, quote |-> quote]

\* verify_order_mandate: the order's own fields are the ones that were signed.
MandateVerifies(order) ==
    order.mandate = Sign(order.actor, order.hash, order.total, order.quote)

=============================================================================
