--------------------------- MODULE Merchandising ---------------------------
(***************************************************************************)
(* What the shop itself proposes for a query: the capture score of its     *)
(* products (app/merchant_capture.py), the list of suggestions built from  *)
(* it (app/orchestration.py) and the next best offer (app/offer_engine.py, *)
(* app/growth.py).  Scores are in thousandths.                             *)
(***************************************************************************)
EXTENDS Market

CONSTANTS
    Product,         \* the shop's SKUs
    Fit,             \* text, attachment, margin and priority of a product
                     \* for a query: the parts of its score, of 750
    Named,           \* words that name items, by the products they occur in
    Complements,     \* _CATALOG_COMPLEMENTS
    AddonPercent,    \* MAX_ADDON_RATIO
    MinConfidence,   \* MIN_OFFER_CONFIDENCE, in percent
    DefaultAccept    \* OFFER_DEFAULT_ACCEPT_PROBABILITY, in percent

\* A catalogue: the price and stock of the products it holds.
Offer == [price : Nat, stock : Nat]
IsCatalogue(c) ==
    IsFiniteSet(DOMAIN c) /\ DOMAIN c \subseteq Product /\ c \in [DOMAIN c -> Offer]

ASSUME MerchandisingAssumption ==
    /\ Product \subseteq Nat \ {0}
    /\ Fit \in [Product \X Query -> 0 .. 750]
    /\ Named \in [Product -> SUBSET STRING]
    /\ Complements \in [Product -> Seq(Product)]
    /\ {AddonPercent, MinConfidence, DefaultAccept} \subseteq 0 .. 100

-----------------------------------------------------------------------------
(* Capture. *)

PriceScore(price, budget) ==
    CASE budget = 0 -> 120
      [] budget # 0 /\ 10 * price <= 8 * budget -> 150
      [] budget # 0 /\ 10 * price > 8 * budget /\ price <= budget -> 105
      [] OTHER -> Max({0, 75 - (150 * (price - budget)) \div budget})
StockScore(stock) == 10 * Min({10, stock})
CaptureScore(c, s, q) ==
    Fit[<<s, q>>] + PriceScore(c[s].price, q.budget) + StockScore(c[s].stock)

\* Mutant: only a strong fit counts.
StrongFit(c, s, q) ==
    c[s].stock > 0 /\ (q.budget # 0 => c[s].price <= q.budget) /\ CaptureScore(c, s, q) >= 700

\* capture_verdict: "capture" or "recommend_offers".
Captured(c, s, q) ==
    c[s].stock > 0 /\ (q.budget # 0 => c[s].price <= q.budget) /\ CaptureScore(c, s, q) >= 450

\* Scored alike, the product that comes first in the table goes first.
Preferred(c, q, s, t) ==
    \/ CaptureScore(c, s, q) > CaptureScore(c, t, q)
    \/ CaptureScore(c, s, q) = CaptureScore(c, t, q) /\ s < t

\* top_merchant_matches.
TopMatches(c, q) ==
    LET captured == {s \in DOMAIN c : Captured(c, s, q)}
    IN  FirstThree(InOrder(captured,
            {st \in captured \X captured : Preferred(c, q, st[1], st[2])}))

\* A named item must be the product's own: no neighbour of its category will do.
IsNamed(s, q) == q.items # {} => q.items \cap Named[s] # {}
Candidates(c, q) ==
    LET top == TopMatches(c, q)
    IN  Picked(top, {i \in DOMAIN top : IsNamed(top[i], q)})

\* Mutant: the cascade's verdict forgets the products that fit in part.
NoStrongMatch(c, q) == {s \in DOMAIN c : StrongFit(c, s, q) /\ IsNamed(s, q)} = {}

\* _no_merchant_match.
NoMerchantMatch(c, q) ==
    LET top == TopMatches(c, q)
    IN  \A i \in DOMAIN top : ~IsNamed(top[i], q)

\* agent_discover: the one best product of all, if it is captured and named.
BestCapture(c, q) ==
    LET best == {s \in DOMAIN c : \A t \in DOMAIN c \ {s} : Preferred(c, q, s, t)}
    IN  {s \in best : Captured(c, s, q) /\ IsNamed(s, q)}

-----------------------------------------------------------------------------
(* Suggestions. *)

\* Mutant: what is sold out is suggested all the same.
PayableUnstocked(o, budget) == o.price > 0 /\ (budget # 0 => o.price <= budget)

Payable(o, budget) ==
    o.stock > 0 /\ o.price > 0 /\ (budget # 0 => o.price <= budget)

\* push: an entry of the list is suggested if it is payable, not in the cart
\* (the first may be) and of another product than those pushed before it.
Pushed(list, i, budget, carted) ==
    LET May(j) == Payable(list[j], budget) /\ (j > 1 => list[j].sku \notin carted)
    IN  May(i) /\ \A j \in 1 .. i - 1 : May(j) => list[j].sku # list[i].sku

Card(c, s) == [sku |-> s, price |-> c[s].price, stock |-> c[s].stock]

\* _suggestion_list: the captured product, even when it is in the cart, the
\* complements of it the catalogue `c` of now holds, then the other candidates
\* (cards of the products as they were read).
SuggestionList(cards, c, budget, carted) ==
    LET usual == Complements[cards[1].sku]
        sold  == Picked(usual, {i \in DOMAIN usual : usual[i] \in DOMAIN c})
        list  == <<cards[1]>> \o [i \in DOMAIN sold |-> Card(c, sold[i])] \o cards
    IN  FirstThree(Picked(list, {i \in DOMAIN list : Pushed(list, i, budget, carted)}))

-----------------------------------------------------------------------------
(* The next best offer. *)

\* How often an offer was shown for a product, and how often accepted.
NoHistory == [shown |-> 0, accepted |-> 0]

\* offer_stats: Beta(1, 1) smoothing, in ten-thousandths.
AcceptProbability(h) ==
    IF h.shown = 0 THEN 100 * DefaultAccept
    ELSE (10000 * (h.accepted + 1)) \div (h.shown + 2)

CandidateOffers(c, base, carted) ==
    {s \in DOMAIN c \ ({base.sku} \cup carted) :
        /\ c[s].price > 0
        /\ 100 * c[s].price <= AddonPercent * base.price
        /\ c[s].stock > 0}

\* best_offer: at most one, by expected revenue (30 % margin on the price).
BestOffer(c, base, carted, history) ==
    LET confident == {s \in CandidateOffers(c, base, carted) :
                         AcceptProbability(history[<<base.sku, s>>]) >= 100 * MinConfidence}
        Revenue(s) == AcceptProbability(history[<<base.sku, s>>]) * c[s].price
    IN  {s \in confident : \A t \in confident \ {s} :
            Revenue(s) > Revenue(t) \/ (Revenue(s) = Revenue(t) /\ s < t)}

=============================================================================
