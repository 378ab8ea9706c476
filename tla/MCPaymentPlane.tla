--------------------------- MODULE MCPaymentPlane ---------------------------
(***************************************************************************)
(* Values of the constants of PaymentPlane for model checking.  SKU 1 is   *)
(* in the catalogue, SKU 9 is a listing.  Prices are in tenths of a paisa, *)
(* limits in paise.                                                        *)
(***************************************************************************)
EXTENDS PaymentPlane

CONSTANTS w1, w2

OneWorker == {w1}
TwoWorkers == {w1, w2}
WorkerSymmetry == Permutations(TwoWorkers)

MCMerchant == {1}
MCReference == {9}
MCStock == [s \in MCMerchant |-> 2]
MCPrice == [s \in MCMerchant |-> 30]
MCListingPrice == {20, 30}
FinePrices == {24, 26}   \* 2 and 3 paise, rounded
AlikePrices == {21, 24}  \* 2 paise each, rounded

BothActors == {"human", "buyer_agent"}
AgentOnly == {"buyer_agent"}
HumanOnly == {"human"}
TransactionLimits == [a \in Actor |-> IF a = "human" THEN 5 ELSE 3]
SessionLimits == [a \in Actor |-> IF a = "human" THEN 15 ELSE 5]

AddOne == [kind |-> "add", sku |-> 1, qty |-> 1, price |-> 0]
AddTwo == [AddOne EXCEPT !.qty = 2]
Clear == [AddOne EXCEPT !.kind = "set", !.qty = 0]
AddListing == [kind |-> "addref", sku |-> 9, qty |-> 1, price |-> 20]
AddDearer == [AddListing EXCEPT !.price = 30]
UnknownItem == [AddListing EXCEPT !.kind = "unknown", !.price = 0]

\* One worker, a rich mix of requests: a sale, a repriced listing, a cart the
\* stock cannot fill.
SerialCalls == {AddOne, Clear, AddListing}
SerialCarts == {<<AddOne>>, <<AddOne, AddListing>>, <<AddOne, AddTwo>>, <<AddDearer>>}

\* Carts that together exceed the session limit.
CapCalls == {[AddListing EXCEPT !.price = 24]}
CapCarts == {<<AddOne>>, <<[AddListing EXCEPT !.price = 26]>>}

\* Two units of a listing at prices that round alike: 4 and 5 paise.
NoCalls == {}
AlikeCarts == {<<[AddListing EXCEPT !.qty = 2, !.price = p]>> : p \in AlikePrices}

\* Few requests, so that they may fail at every step.
CrashCalls == {AddOne, Clear}
CrashCarts == {<<AddListing>>, <<AddOne, UnknownItem>>}

\* Two workers: few requests, so that every interleaving fits.
RaceCalls == {AddOne, Clear}
RaceCarts == {<<AddOne>>}

=============================================================================
