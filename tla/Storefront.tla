----------------------------- MODULE Storefront -----------------------------
(***************************************************************************)
(* What the shop shows and proposes: a search in the chat (discover_node   *)
(* of app/orchestration.py and Tier 2 of app/cascade_router.py) and a      *)
(* search by an agent (agent_discover of app/main.py), over the products   *)
(* table the merchant edits, the cache of market answers and the history   *)
(* of offers, beside the catalogue index and its feed.                     *)
(***************************************************************************)
EXTENDS CatalogIndex

CONSTANTS
    CertainlySimilar, \* CASCADE_TIER2_THRESHOLD, in percent
    MarketAnswers,    \* what the market may answer to a query
    Readings,         \* what the cascade and the pipeline read in one message
    AgentQuery,       \* what agents search for
    MarketComplement, \* _EXTERNAL_COMPLEMENTS, by product
    Carts,            \* the SKUs a session may have in its cart
    MaxTime,          \* bound: the clock
    MaxCached         \* bound: rows of the cache

ASSUME StorefrontAssumption ==
    /\ CertainlySimilar \in 0 .. 100
    /\ Readings \subseteq [cascade : Query, pipeline : Query]
    /\ AgentQuery \subseteq Query
    /\ MarketAnswers \in [Query -> SUBSET Seq(Listing)]
    /\ MarketComplement \in [Product -> Seq(Query)]
    /\ Carts \subseteq SUBSET Product
    /\ {MaxTime, MaxCached} \subseteq Nat

\* What _build_requirements of the cascade fills in whatever the message is.
ASSUME ReadingAssumption ==
    \A r \in Readings : r.cascade.type = r.cascade.category /\ r.cascade.brand = ""

VARIABLES
    clock,    \* the time of day
    cache,    \* the search_cache table
    history,  \* the offer_events table: how often shown and accepted, by pair
    search    \* what each thread is searching

storeVars == <<indexVars, clock, cache, history, search>>
shelf == <<clock, cache, history>>

SearchLabel == {"idle", "tier2", "verdict", "match", "offer", "record", "suggest",
                "lookup", "market", "best", "shortlist", "cross", "reply"}
NoQuery == [category |-> "", type |-> "", brand |-> "",
            items |-> {}, features |-> {}, budget |-> 0]

\* A search in progress: whose it is, its query and cart, the query that is
\* being looked up (in Tier 2 the cascade's own), the listings found for it and
\* whether they came from the cache, the product cards it has read, the
\* suggestions and the offer it answers with, and the complements it has still
\* to look for.
IdleSearch == [at |-> "idle", by |-> "none", query |-> NoQuery, cart |-> {},
               asked |-> NoQuery, recs |-> <<>>, cached |-> FALSE, cards |-> <<>>,
               suggestions |-> <<>>, offer |-> {}, todo |-> <<>>]
CardRecord == [sku : Product, price : Nat, stock : Nat]
Search == [at : SearchLabel, by : {"none", "chat", "agent"},
           query : Query \cup {NoQuery}, cart : SUBSET Product,
           asked : Query \cup {NoQuery}, recs : Seq(Listing),
           cached : BOOLEAN, cards : Seq(CardRecord), suggestions : Seq(CardRecord),
           offer : SUBSET Product, todo : Seq(Seq(Query))]

StoreTypeOK ==
    /\ IndexTypeOK
    /\ clock \in 0 .. MaxTime
    /\ cache \in Seq([query : Query, results : Seq(Listing), expires : Nat])
    /\ history \in [Product \X Product -> [shown : Nat, accepted : Nat]]
    /\ search \in [Worker -> Search]
    /\ \A w \in Worker : Len(search[w].recs) <= 3 /\ Len(search[w].suggestions) <= 3

StoreInit ==
    /\ IndexInit
    /\ clock = 0
    /\ cache = <<>>
    /\ history = [pair \in Product \X Product |-> NoHistory]
    /\ search = [w \in Worker |-> IdleSearch]

-----------------------------------------------------------------------------
(* Helpers. *)

Free(w) == server.up /\ job[w].at = "idle" /\ search[w].at = "idle"
Searching(w, label) == search[w].at = label
Become(w, s) == search' = [search EXCEPT ![w] = s]
Pass(w, label) == Become(w, [search[w] EXCEPT !.at = label])

Now == Catalogues[products]
Cards(skus) == [i \in DOMAIN skus |-> Card(Now, skus[i])]

\* Where a search goes on when a query has its listings: a shopper's is
\* answered, an agent's goes on with the shop's own products; of a product's
\* complements the first that is found will do.
NextComplements(todo, recs) ==
    IF recs # <<>> \/ Len(Head(todo)) = 1 THEN Tail(todo)
    ELSE <<Tail(Head(todo))>> \o Tail(todo)
Listed(s, recs, cached) ==
    CASE s.todo # <<>> -> [s EXCEPT !.at = "cross", !.todo = NextComplements(s.todo, recs)]
      [] s.todo = <<>> /\ s.by = "chat" ->
             [s EXCEPT !.at = "reply", !.recs = recs, !.cached = cached]
      [] OTHER -> [s EXCEPT !.at = "best", !.recs = recs, !.cached = cached]

-----------------------------------------------------------------------------
(* A search in the chat. *)

\* A message is read twice: _build_requirements of the cascade takes the
\* category for the type too, and no brand; _structured_requirements of the
\* pipeline has no type and brand but the model's (extract_requirements_llm),
\* and nothing at all of a command that the router did not take for a search.
\* Tier 2 is skipped in the first turn, and when the cascade's reading holds no
\* signal.
Signal(q) == q.category # "" \/ q.features # {} \/ q.budget # 0
StartChatSearch(w) ==
    /\ Free(w)
    /\ \E r \in Readings, c \in Carts, label \in {"tier2", "match"} :
         /\ label = "tier2" => Signal(r.cascade)
         /\ Become(w, [IdleSearch EXCEPT !.at = label, !.by = "chat", !.cart = c,
                           !.query = r.pipeline, !.asked = r.cascade])
    /\ UNCHANGED <<indexVars, shelf>>

\* _cached_discovery_lookup, of the cascade's reading, with its own, stricter
\* threshold.
TierTwo(w) ==
    LET row == Lookup(cache, search[w].asked, clock, CertainlySimilar)
    IN  /\ Searching(w, "tier2")
        /\ IF row = 0 THEN Pass(w, "match")
           ELSE Become(w, [search[w] EXCEPT !.at = "verdict", !.cached = TRUE,
                                           !.recs = FirstThree(cache[row].results)])
        /\ UNCHANGED <<indexVars, shelf>>

\* The cached listings are the answer only if the shop has no match itself for
\* what the cascade read.
TierTwoAnswers(w) ==
    /\ Searching(w, "verdict") /\ NoMerchantMatch(Now, search[w].asked)
    /\ Pass(w, "reply")
    /\ UNCHANGED <<indexVars, shelf>>

TierTwoPasses(w) ==
    /\ Searching(w, "verdict") /\ ~NoMerchantMatch(Now, search[w].asked)
    /\ Become(w, [search[w] EXCEPT !.at = "match", !.recs = <<>>, !.cached = FALSE])
    /\ UNCHANGED <<indexVars, shelf>>

\* discover_node, of the pipeline's reading: the shop's own products first,
\* else the market.
Match(w) ==
    LET skus == Candidates(Now, search[w].query)
    IN  /\ Searching(w, "match")
        /\ Become(w, [search[w] EXCEPT !.cards = Cards(skus), !.asked = search[w].query,
                                       !.at = IF skus = <<>> THEN "lookup" ELSE "offer"])
        /\ UNCHANGED <<indexVars, shelf>>

\* _offers: the products are read again and the best offer is chosen ...
MakeOffer(w) ==
    /\ Searching(w, "offer")
    /\ Become(w, [search[w] EXCEPT !.at = "record",
           !.offer = BestOffer(Now, search[w].cards[1], search[w].cart, history)])
    /\ UNCHANGED <<indexVars, shelf>>

\* ... and then recorded as shown; a record that cannot be written is done
\* without (record_offer_event), and the offer is shown all the same.
Recorded(base, offer) ==
    [pair \in Product \X Product |->
        IF pair[1] = base.sku /\ pair[2] \in offer
        THEN [history[pair] EXCEPT !.shown = @ + 1] ELSE history[pair]]
RecordOffer(w) ==
    /\ Searching(w, "record")
    /\ Pass(w, "suggest")
    /\ history' \in {history, Recorded(search[w].cards[1], search[w].offer)}
    /\ UNCHANGED <<indexVars, clock, cache>>

\* The complements are read from the table once more.
Suggest(w) ==
    LET s == search[w]
    IN  /\ Searching(w, "suggest")
        /\ Become(w, [s EXCEPT !.at = "reply",
               !.suggestions = SuggestionList(s.cards, Now, s.query.budget, s.cart)])
        /\ UNCHANGED <<indexVars, shelf>>

-----------------------------------------------------------------------------
(* discover: the cache, else the market. *)

LookUp(w) ==
    LET row == Lookup(cache, search[w].asked, clock, SimilarEnough)
    IN  /\ Searching(w, "lookup")
        /\ IF row = 0 THEN Pass(w, "market")
           ELSE Become(w, Listed(search[w], cache[row].results, TRUE))
        /\ UNCHANGED <<indexVars, shelf>>

\* Listings carry the time they are found at.
Stamped(answer) == [i \in DOMAIN answer |-> [answer[i] EXCEPT !.found = clock]]

\* Mutant: an empty answer is remembered too.
Remember(q, recs) ==
    IF Meaningful(q) THEN {Append(cache, CacheRow(q, recs, clock))} ELSE {cache}

\* cache_put: never an empty answer, nor one to a query that says nothing; a
\* row that cannot be written is done without.
CachePut(q, recs) ==
    IF Meaningful(q) /\ recs # <<>>
    THEN {cache, Append(cache, CacheRow(q, recs, clock))}
    ELSE {cache}

\* A provider that fails is an answer without listings of the offline mock.
SearchMarket(w) ==
    /\ Searching(w, "market")
    /\ Len(cache) < MaxCached
    /\ \E answer \in MarketAnswers[search[w].asked] :
         LET recs == Recommendations(Stamped(answer), search[w].asked)
         IN  /\ cache' \in CachePut(search[w].asked, recs)
             /\ Become(w, Listed(search[w], recs, FALSE))
    /\ UNCHANGED <<indexVars, clock, history>>

-----------------------------------------------------------------------------
(* A search by an agent: agent_discover. *)

StartAgentSearch(w) ==
    /\ Free(w)
    /\ \E q \in AgentQuery :
         Become(w, [IdleSearch EXCEPT !.at = "lookup", !.by = "agent", !.query = q,
                                      !.asked = q])
    /\ UNCHANGED <<indexVars, shelf>>

\* The best product of all is the match, or there is none.
FindBest(w) ==
    /\ Searching(w, "best")
    /\ Become(w, [search[w] EXCEPT !.at = "shortlist",
                                   !.offer = BestCapture(Now, search[w].query)])
    /\ UNCHANGED <<indexVars, shelf>>

\* _merchant_candidate_shortlist: for a category only; the named item is not
\* asked for again.  Each product comes with a complement from the market.
Shortlist(w) ==
    LET skus == IF search[w].query.category = "" THEN <<>>
                ELSE TopMatches(Now, search[w].query)
        terms == [i \in DOMAIN skus |-> MarketComplement[skus[i]]]
    IN  /\ Searching(w, "shortlist")
        /\ Become(w, [search[w] EXCEPT !.at = "cross", !.suggestions = Cards(skus),
                                       !.todo = Picked(terms,
                                           {i \in DOMAIN terms : terms[i] # <<>>})])
        /\ UNCHANGED <<indexVars, shelf>>

CrossSell(w) ==
    LET s == search[w]
    IN  /\ Searching(w, "cross")
        /\ IF s.todo = <<>> THEN Pass(w, "reply")
           ELSE Become(w, [s EXCEPT !.at = "lookup", !.asked = Head(Head(s.todo))])
        /\ UNCHANGED <<indexVars, shelf>>

Reply(w) ==
    /\ Searching(w, "reply")
    /\ Become(w, IdleSearch)
    /\ UNCHANGED <<indexVars, shelf>>

-----------------------------------------------------------------------------
(* Everything together. *)

Tick ==
    /\ clock < MaxTime
    /\ clock' = clock + 1
    /\ UNCHANGED <<indexVars, cache, history, search>>

SearchStep(w) ==
    \/ TierTwo(w) \/ TierTwoAnswers(w) \/ TierTwoPasses(w) \/ Match(w) \/ MakeOffer(w)
    \/ RecordOffer(w) \/ Suggest(w) \/ LookUp(w) \/ SearchMarket(w) \/ FindBest(w)
    \/ Shortlist(w) \/ CrossSell(w) \/ Reply(w)

StoreNext ==
    \/ \E w \in Worker :
         \/ StartChatSearch(w) \/ StartAgentSearch(w) \/ SearchStep(w)
         \/ (Boot(w) \/ IndexStep(w)) /\ UNCHANGED <<shelf, search>>
         \/ ReadRows(w) /\ Free(w) /\ UNCHANGED <<shelf, search>>
    \/ EditProducts /\ UNCHANGED <<shelf, search>>
    \/ StopServer /\ search' = [w \in Worker |-> IdleSearch] /\ UNCHANGED shelf
    \/ Tick

StoreSpec == StoreInit /\ [][StoreNext]_storeVars

-----------------------------------------------------------------------------
(* Safety. *)

\* Listings taken from the cache were found less than CacheTTL ago: nothing
\* that is served is ever cached anew (semantic_cache, "fresh").
ServedFresh ==
    [][\A w \in Worker : ~search[w].cached /\ search'[w].cached =>
          \A i \in DOMAIN search'[w].recs :
              clock < search'[w].recs[i].found + CacheTTL]_storeVars

\* An answer just found on the market fits the query: the listings are within
\* its budget, available and of different products, and the better fit comes
\* first (discover).
FoundFits ==
    \A w \in Worker : Searching(w, "reply") /\ ~search[w].cached =>
        LET recs == search[w].recs
            q    == search[w].query
        IN  \A i \in DOMAIN recs :
                /\ recs[i].availability # "out_of_stock"
                /\ q.budget # 0 => recs[i].price <= q.budget
                /\ \A j \in 1 .. i - 1 :
                     /\ recs[j].key # recs[i].key
                     /\ RankScore(recs[j], q) >= RankScore(recs[i], q)

\* A search never ends up with an empty answer from the cache, which would
\* hide what the market has until it expires (discover, "never cache an empty
\* result set").
CacheAnswersSomething ==
    \A w \in Worker : search[w].cached => search[w].recs # <<>>

\* Every suggestion of the chat could be bought when its card was read (the
\* matches before the offer, the complements after it, with the merchant's edits
\* between): it was in stock, has a price within the budget, comes once, and is
\* not in the cart, unless it is the captured product (_suggestion_list).
SuggestionsPayable ==
    \A w \in Worker : Searching(w, "reply") /\ search[w].by = "chat" =>
        LET s == search[w]
        IN  \A i \in DOMAIN s.suggestions :
                LET card == s.suggestions[i]
                IN  /\ card.stock > 0 /\ card.price > 0
                    /\ s.query.budget # 0 => card.price <= s.query.budget
                    /\ i > 1 => card.sku \notin s.cart
                    /\ \A j \in 1 .. i - 1 : s.suggestions[j].sku # card.sku

\* What is left of the cascade's "identical output guarantee": where its reading
\* of the message has the words of the pipeline's, Tier 2 shows the listings the
\* pipeline would look up, in spite of its own threshold; and where the two
\* readings are the same, type included, the shop has indeed no product to
\* capture the search with when Tier 2 answers it.  (A message that names a
\* category has no two equal readings, and then the verdicts may differ.)
TierTwoAgrees ==
    [][\A w \in Worker :
          /\ /\ Searching(w, "tier2") /\ search'[w].at = "verdict"
             /\ SameWords(search[w].asked, search[w].query)
             => LET row == Lookup(cache, search[w].query, clock, SimilarEnough)
                IN  row # 0 /\ search'[w].recs = FirstThree(cache[row].results)
          /\ /\ Searching(w, "verdict") /\ search'[w].at = "reply"
             /\ search[w].asked = search[w].query
             => Candidates(Now, search[w].query) = <<>>]_storeVars

=============================================================================
