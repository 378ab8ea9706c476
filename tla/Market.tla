------------------------------- MODULE Market -------------------------------
(***************************************************************************)
(* Listings of the market outside the shop: how a search's raw answer      *)
(* becomes at most three recommendations (app/discovery.py), and when an   *)
(* earlier answer is used again (app/semantic_cache.py).                   *)
(***************************************************************************)
EXTENDS Integers, Sequences, FiniteSets, SequencesExt

CONSTANTS
    Query,          \* the requirements that may be searched for
    Similarity,     \* cosine of two queries' embeddings, in percent
    SimilarEnough,  \* SEMANTIC_CACHE_SIMILARITY_THRESHOLD, in percent
    CacheTTL,       \* SEMANTIC_CACHE_TTL_SECONDS
    CacheWindow     \* how many of the newest rows a lookup reads

\* What a shopper looks for; a budget of 0 is none, and so is "".  The type is
\* the product_type.
Requirements == [category : STRING, type : STRING, brand : STRING,
                 items : SUBSET STRING, features : SUBSET STRING, budget : Nat]

\* The cache does not look at the type (requirements_to_query).
SameWords(q, r) == [q EXCEPT !.type = ""] = [r EXCEPT !.type = ""]

\* A listing: its title and brand (the deduplication key), a price (0 when it
\* could not be read), what of the wanted features it covers, how well its
\* words match (keywords and features, of 600), and when it was found.
Listing == [key : STRING, price : Nat, rating : Nat,
            availability : {"in_stock", "out_of_stock", "unknown"},
            covers : SUBSET STRING, relevance : 0 .. 600, found : Nat]

ASSUME MarketAssumption ==
    /\ Query \subseteq Requirements
    /\ Similarity \in [Query \X Query -> 0 .. 100]
    /\ \A q, r, p \in Query :
          SameWords(q, r) => Similarity[<<q, p>>] = Similarity[<<r, p>>]
    /\ SimilarEnough \in 0 .. 100
    /\ CacheTTL \in Nat \ {0}
    /\ CacheWindow \in Nat \ {0}

FirstThree(s) == SubSeq(s, 1, Min({3, Len(s)}))

\* The members of S in the order that `before`, a set of pairs, puts them.
InOrder(S, before) ==
    [n \in 1 .. Cardinality(S) |->
        CHOOSE x \in S : Cardinality({y \in S : <<y, x>> \in before}) = n - 1]

\* What a sequence holds at the places of I.
Picked(s, I) ==
    LET places == InOrder(I, {ij \in I \X I : ij[1] < ij[2]})
    IN  [k \in DOMAIN places |-> s[places[k]]]

-----------------------------------------------------------------------------
(* The pipeline of discover: deduplicate, filter, rank, take three. *)

\* Within a key the best rated listing stays, the cheapest of equals, the
\* first of those.
Better(a, b) == a.rating > b.rating \/ (a.rating = b.rating /\ a.price < b.price)
Winner(found, i) ==
    \A j \in DOMAIN found \ {i} :
        found[j].key = found[i].key =>
            Better(found[i], found[j]) \/ (~Better(found[j], found[i]) /\ i < j)

\* Mutant: an unavailable listing passes.
WithinBudget(l, q) ==
    /\ q.budget # 0 => l.price <= q.budget
    /\ q.features \subseteq l.covers

MeetsHardConstraints(l, q) ==
    /\ q.budget # 0 => l.price <= q.budget
    /\ q.features \subseteq l.covers
    /\ l.availability # "out_of_stock"

\* rank_by_fit, in thousandths: with a budget, the closer to it the better.
Closeness(l, q) ==
    IF q.budget = 0 THEN 300
    ELSE Max({0, 300 - (300 * Max({l.price - q.budget, q.budget - l.price})) \div q.budget})
RankScore(l, q) ==
    l.relevance + Closeness(l, q) + (IF l.availability = "in_stock" THEN 100 ELSE 0)

\* Equal scores keep the order in which their keys were first found.
FirstSeen(found, i) == Min({j \in DOMAIN found : found[j].key = found[i].key})
FitsBetter(found, q, i, j) ==
    \/ RankScore(found[i], q) > RankScore(found[j], q)
    \/ /\ RankScore(found[i], q) = RankScore(found[j], q)
       /\ FirstSeen(found, i) < FirstSeen(found, j)

Kept(found, q) ==
    {i \in DOMAIN found : Winner(found, i) /\ MeetsHardConstraints(found[i], q)}
Ranked(found, q) ==
    LET kept  == Kept(found, q)
        order == InOrder(kept, {ij \in kept \X kept : FitsBetter(found, q, ij[1], ij[2])})
    IN  [k \in DOMAIN order |-> found[order[k]]]

\* Mutant: the ranking is not cut.
RecommendAll(found, q) == Ranked(found, q)

Recommendations(found, q) == FirstThree(Ranked(found, q))

-----------------------------------------------------------------------------
(* The cache: a row is a query, its recommendations and when it expires. *)

CacheRow(q, recs, now) == [query |-> q, results |-> recs, expires |-> now + CacheTTL]

\* normalize_requirements: only a query that says something is looked up.
Meaningful(q) ==
    \/ q.category # "" \/ q.type # "" \/ q.brand # ""
    \/ q.items # {} \/ q.features # {} \/ q.budget # 0

\* Both name items, and not one of them is the same.
OtherItems(q, r) == q.items # {} /\ r.items # {} /\ q.items \cap r.items = {}

UsableRows(rows, q, now, threshold) ==
    {i \in DOMAIN rows :
        /\ i > Len(rows) - CacheWindow
        /\ rows[i].expires > now
        /\ ~OtherItems(q, rows[i].query)
        /\ Similarity[<<q, rows[i].query>>] >= Max({threshold, 1})}

\* Mutant: rows do not expire.
LookupForever(rows, q, now, threshold) ==
    LET usable == UsableRows(rows, q, 0, threshold)
        best   == {i \in usable : \A j \in usable :
                      Similarity[<<q, rows[i].query>>] >= Similarity[<<q, rows[j].query>>]}
    IN  IF ~Meaningful(q) \/ usable = {} THEN 0 ELSE Max(best)

\* cached_lookup: the most similar usable row, the newest of equals; 0: none.
Lookup(rows, q, now, threshold) ==
    LET usable == UsableRows(rows, q, now, threshold)
        best   == {i \in usable : \A j \in usable :
                      Similarity[<<q, rows[i].query>>] >= Similarity[<<q, rows[j].query>>]}
    IN  IF ~Meaningful(q) \/ usable = {} THEN 0 ELSE Max(best)

=============================================================================
