# Verifying GrowthMate

TLA+ specifications of GrowthMate (`src/`), the model-checking configurations that
exercise them and the proofs that hold for every size of the system.

GrowthMate is a shopping assistant. A human chats with it, and other programs (buyer
agents) call its HTTP API. Both fill the cart of a *session*, get a *quote* over it and
approve a payment, which becomes an *order* and a Razorpay payment *link*. Whoever
proposes a cart, deterministic code decides whether money may move. That code, the
*payment plane*, is the core of the program. The *chat* drives it with one turn per
message, and the *storefront* (search, cache, offers, catalogue index) decides what is
proposed in the first place.

Contents: [1 Inventory](#1-inventory) · [2 Modules](#2-modules) ·
[3 How the model corresponds to the code](#3-how-the-model-corresponds-to-the-code) ·
[4 Properties and runs](#4-properties-and-runs) · [5 Proofs](#5-proofs) ·
[6 Where code and documents disagree](#6-where-code-and-documents-disagree) ·
[7 What is not modelled](#7-what-is-not-modelled) · [8 Plan](#8-plan)

## 1 Inventory

| Component | State it keeps | Operations | Modelled |
|---|---|---|---|
| Cart (`commerce.py`) | `cart_items` | add, add_reference, set_quantity, remove, list | yes |
| Orders and payment (`commerce.py`) | `orders`, `order_items` | create_payment_order, execute_payment | yes |
| Quotes (`quote.py`) | `quotes`, `session_state.cart_version` | create, get, current, invalidate, load/bump version | yes |
| Guardrail (`guardrail.py`) | none | validate quote, check limits, validate approval | yes |
| Mandate (`mandate.py`) | none | sign, verify | yes |
| Agent API (`main.py`) | none of its own | /agent/quote, /agent/checkout, /webhook/razorpay | yes |
| Razorpay client (`razorpay_client.py`) | links, at Razorpay | create link, verify webhook signature | its effects |
| Session state (`session_state.py`) | `session_state` | load, save | yes |
| Chat pipeline (`orchestration.py`) | the state of one turn | route, agent, discover, tool, approval, guardrail, pay, respond | yes |
| Cascade and intent router (`cascade_router.py`, `router.py`) | none that decides | tier and action of a message | the decisions |
| Discovery and cache (`discovery.py`, `semantic_cache.py`) | `search_cache` | search, lookup, put, prune | all but prune, which nothing calls |
| Catalog index (`catalog_index.py`) | index file, copy in memory | build, load, is_current, backfill, retrieve | all but retrieve, which nothing calls |
| Offers and growth (`offer_engine.py`, `growth.py`, `cross_sell.py`) | `offer_events` | candidate_offers, best_offer, stats, record | all but the insights |
| Merchant capture (`merchant_capture.py`) | none | score, verdict, top matches | yes |
| Recovery agent (`growth_agent.py`) | none | recover_cart | yes |
| Agent feeds (`agent_feed.py`) | none of their own | catalog_feed, orders_feed | the first |
| Audit/PII, buyer agent, frontend | append-only logs | log, redact, display | no |

**Interactions.** The API handlers and the chat nodes call `commerce`, `quote`,
`guardrail` and `mandate` as functions; these share nothing but the database. A cart
mutation calls `quote.invalidate_quote` and `quote.bump_cart_version`. A checkout calls
the guardrail, signs a mandate and calls `commerce.execute_payment`, which calls Razorpay.
Razorpay calls back through the webhook. A chat turn loads the session's memory, decides
what the message asks for, runs a search or a cart operation or a payment, and saves the memory.
Searches read the products table and the market's answers through the semantic cache.
The feed is served from an index of the products table, built when the server starts.

**What is hard.** The endpoints are `def`, not `async def`, so the server runs them on a
thread pool; every helper opens its own database session and commits it; nothing locks a
session's rows. One request is therefore a sequence of up to a dozen separate
transactions, between which come the steps of other requests, a crash, or a webhook.
Razorpay may refuse a call, or carry it out and lose the answer, and repeats reports.
A chat turn reads the version, the spend and the quote when it starts and uses them nodes
later, remembers across turns what may have changed since, and judges a message by the phrases
in it. A search reads a table and a cache that change while it runs, and the index
must survive a kill at any point. The hazards this leads to are in `PROJECT.json`, each at its line.

**What makes the parts correct.** *Cart*: one row per SKU, never above the stock.
*Quotes*: immutable, and the open ones describe the cart as it is. *Guardrail*: nothing
is charged for a stale or superseded quote, or above a limit. *Mandate*: every order
verifies over its own fields. *Orders*: one order and one charge per actor and snapshot; an order is
paid exactly if its link was. *Chat pipeline*: a turn
pays only after a preview and an approving message; what enters the cart was asked for; saving a
turn undoes nothing. *Storefront*: what is shown fits, can be paid and is fresh; a cached answer
is what the pipeline would have said. *Index*: a whole file survives any crash, and the feed
never goes back. *Offers and recovery*: proposals respect stock, price ratio and limit.

## 2 Modules

| Module | What it is |
|---|---|
| `CommerceData` | Cart rows, the canonical listing and total, one cart operation as a function of the row it loaded, and what the ORM's UPDATE by primary key does to a table that has changed since |
| `Guardrail` | The policy checks and the mandate, pure |
| `PaymentPlane` | The state machine: threads serving cart operations, `/agent/quote` and `/agent/checkout` in small steps; the webhook; links at Razorpay; crashes. Extends both modules above |
| `GuardedPayment` | What the payment plane promises, abstractly: a basket, whether it is quoted, and charges |
| `PaymentPlane_proofs` | Theorems about `PaymentPlane` for any number of threads, checked by TLAPS |
| `SerialPlane_proofs` | Theorems about `PaymentPlane` with one thread, and the refinement of `GuardedPayment` |
| `Spending_proofs` | The session limit |
| `Sums_proofs`, `CommerceData_proofs` | Lemmas about sums over finite sets and about listings of a cart |
| `Assistant` | What a message makes a turn do, pure: the cascade's tiers, the agent's tasking rules, the approval test, each a decision list |
| `Assistant_proofs` | What a decision may be, for any message |
| `Recovery` | `recover_cart`, pure, and its contract |
| `ChatPipeline` | The state machine of the chat: turns as their nodes, the session's memory, and the payment plane they drive. Extends `PaymentPlane`, `Assistant` and `Recovery`; it takes the plane's steps as they are |
| `ChatPipeline_proofs` | Theorems about the chat and about the plane under it |
| `Market` | Listings and cached answers, pure: deduplicate, filter, rank, look up |
| `Merchandising` | The shop's own proposals, pure: capture, suggestions, offers. Extends `Market` |
| `CatalogIndex` | The state machine of the index file, its copy in memory, the start of the server and the feed |
| `Storefront` | The state machine of searches over all of these. Extends `CatalogIndex` |
| `Storefront_proofs` | Theorems about searches, cache, offers, index and feed |
| `MCPaymentPlane`, `MCChat`, `MCStorefront` | Values of the constants for TLC |

`PaymentPlane` instantiates `GuardedPayment` (`Promise == INSTANCE ...`) under a refinement
mapping: the basket is the cart's listing, it is quoted while an open quote has its hash,
and the charges are the links at Razorpay.

Operators called "Mutant" in a comment are plausible bugs of the definition that follows
them. They are not used by the specification; each one is known to break the property
`PROJECT.json` pairs it with, which shows that the property depends on that code.

## 3 How the model corresponds to the code

### The payment plane

One shopping session is modelled; sessions share no row.

| Variable | In the code |
|---|---|
| `cart` | `cart_items` rows by primary key. There is no unique constraint on the SKU, and SQLite reuses the key of a deleted last row; both are modelled |
| `version` | `session_state.cart_version` |
| `quotes` | `quotes`; a quote's id is its index and stands for its nonce too |
| `orders` | `orders` with their `order_items` |
| `links` | Razorpay's payment links, external to the code. `known` once the URL was stored and so can reach a buyer |
| `pc`, `req` | where each thread is in its request, and the local variables it holds |

A value of `pc` is a point between two database sessions, and an action is what happens
up to the next one: a SELECT into locals, a commit, the call to Razorpay, an answer.

- *Cart operation* (`_mutate`, `add_reference_to_cart`): `read` (SELECT and checks), `write`
  (INSERT, UPDATE or DELETE and commit), `supersede` (`invalidate_quote`), `version` and
  `bump` (the two halves of `bump_cart_version`: SELECT, then commit).
- */agent/quote*: removes the rows it has listed and adds the requested items through cart
  operations, ignoring their errors; then `items`, `stamp` and `quote`.
- */agent/checkout*: `cart`, `validate`, `limits` (and the mandate), `find` (an order of this
  actor and hash), `snapshot` and `insert` (the order, over the cart *as it is now*),
  `razorpay`, `record` or `fail`, and `settle` (supersede the open quotes).
- *Webhook*: one action; there is no `await` between its SELECT and its commit.
- *Around the server*: `ExpireQuote`, `EndLink` (a buyer pays, or a link ends), `Abort` (an
  exception of the database, or the process dies, between two steps). `Abort` also stands
  for a lock timeout, and for the IntegrityError of two requests that both seed the
  session's row.

A row write is an UPDATE, by primary key, of the columns that differ from what was
loaded. When the row has gone the commit raises (`WriteFails`); when the key holds a newer
row, that row is changed (`Flush`).

**Abstractions.**

- The SHA-256 of a listing is collision-free: the listing stands for its hash. HMACs cannot
  be forged: a signature is the tuple it signs, and webhooks report only what happened.
- Money is an integer. The code adds, multiplies by a quantity and compares exact decimals;
  the spend sum and the limits are floats, taken to be exact at these magnitudes.
- `.first()` without an ORDER BY may return any row. Equal SKUs are listed in the order of
  their keys. The rows `/agent/quote` drops are taken in some fixed order.
- An item's name, the source of a listing, `cart_events`, audit rows and timings are left out:
  nothing reads them back. Time is one bit per quote, expired or not.
- The branches that fill in an order's missing signature are not modelled: both callers
  sign before they call.
- `partially_paid` does not occur: links are created without `accept_partial`.

### The chat

| Variable | In the code |
|---|---|
| `memory` | `session_state.state_json`: the quote of the last preview, the pending proposal, the suggestions and the captured candidates |
| `turn` | each worker's `AgentState`, and the node it is at |
| `errors` | errors that have struck a turn (a bound) |

A turn is `StartTurn` (`load_state`), `LoadVersion`, `LoadSpend` and, with a preview in the
memory, `LoadQuote`: four separate reads. `DecideTurn` is `route_node` and `agent_node`, which read
nothing that others write. Then `Discover`, a tool action, or `Approve`/`BlockApproval` and
the guardrail (`GuardAllow`, `GuardLimits`, `GuardStale`), and the payment. Wherever the turn calls
`commerce` or `quote`, `PlaneStep` runs the same steps of `PaymentPlane` that the API runs. `SaveRead` and
`SaveWrite` are the two halves of `save_state`; `SaveRefused` is the insert that fails for
an actor other than the row's. `TurnDies` is an exception or restart between two steps;
`PayRaises` is an exception in the payment, which `pay_node` catches.

A message is what the code can find in it: the phrases it has between blanks and those
it has inside words (the code tests substrings), a SKU token, a full product name, the products its words occur in, a
digit that stands alone, and two counts of words, since the cascade and `_apply_llm_intent` count differently. Words for
numbers are phrases like others, and `SelectionPick` tries them in the code's order: "third one" picks option 1.
`Route` and `TaskTurn` list the code's rules in its order; the first that applies decides.
The language model may answer anything of a given set. A listing's SKU is its place
in the list, as `EXT-001` is; the list a `Finding` leaves is the suggestion list, without the listings that have no price.
`Owner` is the actor of the session's row; it may be "unknown" when a cart operation has made the row (`quote.py:164`), and
then every turn starts from a blank memory.

### The storefront

| Variable | In the code |
|---|---|
| `products` | the products table, as the number of the catalogue it holds now |
| `file`, `memory` | `catalog_index.json` (missing, torn or whole) and `_INDEX` |
| `server`, `job` | whether the process is up and its warm-up went through; what each thread does with the index |
| `fed` | the catalogue the feed has last answered with (history) |
| `clock`, `cache` | the time, and `search_cache` |
| `history` | `offer_events`, counted by pair of products |
| `search` | a search in progress: the locals of `discover_node` or `agent_discover`, with the two readings of its message (`asked`, `query`) |

`ReadProducts`, `SameHash`/`OtherHash`, `WriteTemporary`, `Install` and `SetMemory` are `build`
and its atomic write; `WriteFails` is an exception in either write, which the warm-up and
the feed both swallow; `StopServer` is a kill. A chat search is Tier 2 (`TierTwo`, then the
verdict) or `discover_node` (`Match`, then `MakeOffer`, `RecordOffer` and `Suggest`, or `LookUp` and
`SearchMarket`); an agent's is `LookUp`, `FindBest`, `Shortlist` and one look-up per complement. Each
reads the products table anew, as the code does, and the merchant may edit it between any two. An offer is chosen
from the history and recorded in separate transactions (`MakeOffer`, `RecordOffer`); the record may fail unnoticed, and
the offer is shown all the same.

A message is read twice. Tier 2 uses what the cascade reads (`_build_requirements`): the product type is the category, and there
is no brand. `discover_node` uses what the pipeline reads (`_structured_requirements`): type and brand are the language model's
or none, and a message that the router takes for a command ("buy running shoes under 2500") has no category, features and
budget but the model's. `Readings` is the set of pairs a message may have; `asked` is the reading in use, first the
cascade's, from `Match` on the pipeline's.

A sort is `InOrder`: the member with n - 1 members ahead of it is at place n. A filtered list is `Picked`: what the list
holds at the places kept. The loop of `_suggestion_list` is stated by which entries it keeps (`Pushed`): those that are
payable, not carted (the first may be), and of no SKU kept before.

**Abstractions.** Scores are integers: the terms that come from words and embeddings are numbers
given per product and query; price, stock, closeness and acceptance terms are computed as
the code does, in thousandths. Cosine similarity is a given table. The hash of an
index is collision-free, and `Catalogues` lists contents without repetition. Listings are stamped when they are found,
so that their age can be told after a cache hit. A listing offered as a cross-sell in the
chat has a positive price (the code refuses to add one without).

## 4 Properties and runs

### The payment plane

Constants: one catalogue SKU (3 paise, stock 2), one reference listing (2 or 3 paise; in `serial_live` 2.4 or 2.6, in
`rounding` 2.1 or 2.4), actors with limits 5/15 (human) and 3/5 (buyer agent) per transaction and session.

| Run | Threads | Question | Result |
|---|---|---|---|
| `serial` | 1 | With both actors, a repriced listing, a cart the stock cannot fill, refusals, expiry: is what is charged what was quoted, once, and is the promise kept? | holds |
| `serial_live` | 1 | Is the session limit kept, every request answered, every payment recorded? | holds |
| `serial_crash` | 1 | Requests may die anywhere and Razorpay's answer may be lost: do orders still verify and stay unique, links stay found, paid orders stay paid? | holds |
| `race` | 2 | Which guarantees survive every interleaving? | holds |
| `race_stale` | 2 | Is every charge for a quote that is open and fits the cart? | violated |
| `race_links` | 2 | Is a snapshot charged once? | violated |
| `retry_cap` | 1 | Does the session limit survive refused calls? | violated |
| `rounding` | 1 | Is a checkout answered with a link over the amount it has quoted, when unit prices have more than two decimals? | violated |

**Any number of threads** (`race`; section 5 proves them): `TypeOK`; `OrderAuthorised`, every order
carries the hash of a quote and a mandate over that quote, within the transaction limit;
`PaidMeansPaid`, a paid order has a paid link made for it; `QuotesFrozen`, no step
rewrites or reopens a quote.

**One request at a time**: `OrdersVerify`, the order's total is the signed amount, though
the order is computed from a cart read again after the check; `OneOrderPerSnapshot`;
`OpenQuotesCurrent`, at rest the open quotes describe the cart; `OneRowPerSku`,
`WithinStock`, `SpendCap`; `KnownLinksOwned`, a link in a buyer's reach is the one its
order knows; `PaidIsFinal`; and `PromiseKept`, the refinement of `GuardedPayment`.

`serial` and `serial_crash` differ in what is true. After a crash between a cart write and the
superseding of quotes, a quote is open over a changed cart, so `OpenQuotesCurrent` and
the refinement are claimed only without crashes, while `OrdersVerify` holds with
them: the hash comparison alone catches such a quote. A lost Razorpay answer makes a
second link, so one link per snapshot is not claimed there either, but the first link's
URL never reached a buyer. `SpendCap` is claimed in `serial_live`, where Razorpay
issues every link; section 6 says why not beyond. `OrdersVerify`, `SpendCap` and the refinement assume prices in whole paise when
they are proved (`WholePaise`, section 5); `rounding` shows what happens otherwise.

**Bounds.** `MaxQty`, `MaxRows`, `MaxVersion`, `MaxQuotes`, `MaxOrders`, `MaxLinks`. A request is only
admitted when what it may create fits, so no request is cut short by a bound. Two quotes
suffice for a superseded one beside an open one, two orders for two snapshots or one
snapshot twice, two links (three with crashes) for a retry, four versions for a full
`/agent/quote` over a filled cart and a mutation after it. Two threads suffice for each race listed: each is
between two requests. Threads are interchangeable, which `race` uses as symmetry. Session limits are
chosen so that one order fits and two do not. `serial`, `serial_crash` and `race` reach
0.3 to 1.5 million distinct states.

**Fairness** (`FairSpec`, only in `serial_live`). A thread that can go on with its request does:
the handlers have no wait but the database and the Razorpay library call, which return
or raise. Razorpay delivers the report of a settled link in the end: it repeats
a webhook until it is acknowledged. No client is assumed ever to act, no link to be paid.

**Deadlock** is checked in every run of the payment plane: `RefuseCheckout` is always open to an idle thread, and
`RequestsEnd` shows that a thread in a request can go on to its end.

### The chat

Two actors: the human who owns the session's row, and a buyer agent that both calls the API
and sometimes chats in the human's session. One product (price 3, stock 2), limits 5/7 and 3/5.

| Run | Question | Result |
|---|---|---|
| `chat` | With misleading messages, API calls between the turns, a foreign actor and turns that die: is nothing charged without a preview and what the code takes for an approval, do orders verify, within limits, and is only what was asked for added? | holds |
| `chat_shown` | Is what an approval pays the quote that was shown? | violated |
| `chat_listing` | Does adding a listing again only bump its quantity? | violated |

`chat` checks the plane's `OrderAuthorised`, `OrdersVerify` and `SpendCap` again, now that the turn reads
the spend and the quote at its start and acts on them some nodes later. With one worker the spend cannot change within a
turn: that a stale sum breaks the limit with several is hazard `orchestration.py:1242`. Of the chat itself:

- `OnlyApprovalPays`: when a turn's link is made, an affirmative pattern occurs in its message and no negation stands there
  between blanks, a preview was in the memory, and the quote is no older than that preview. This is the code's own test of an
  approval, and weaker than its comments (section 6): "no, do it later" passes it.
- `VersionGrows`: the version written back by `save_state` never undoes a bump.
- `OnlyAskedAdded`: what enters the cart was named by SKU or full name, or stands at a number the message mentions, or is
  the pending proposal and the message has one of the code's confirming phrases ("sure" in "not sure" is one).
- `RecoveryFits`: in every cart reached, the recovery agent's proposal is the largest quantity that fits.

**Bounds.** The messages are chosen for where the rules disagree: a SKU, a catalogue word in a
message that contains "ok" inside "broken", "third one", "checkout", "yes", "not sure", "no, do it later", and a text only
the language model can place; `chat_listing` has a bare digit. The model's answers include emptying the cart and removing
an item. A search finds one captured product too dear to suggest (so that a number picks from
the candidates); `chat_listing` has two listings with different prices instead. Two quotes,
orders and links, two versions (four in `chat_shown`); one error per behaviour
(`MaxErrors`). A turn decides only for what its outcome fits in. About 857,000 states.

One worker serves all requests. With two, the chat loses what `race` shows the plane to lose, and
`VersionGrows` besides: `save_state` writes back a version read before another request's bump.
No liveness is claimed: a turn whose outcome does not fit the bounds waits for ever, in
the model only, which is also why these runs check no deadlock.

### The storefront

| Run | Question | Result |
|---|---|---|
| `storefront` | Is what is shown fitting, payable and fresh while products are edited, writes fail and the server is killed, and do index and feed never go back? | holds |

- `FoundFits`, `ServedFresh`, `CacheAnswersSomething`: new market answers meet the constraints
  and come best first; cached listings are younger than the time to live, since nothing that is
  served is cached again; an empty answer never comes from the cache.
- `SuggestionsPayable`: a product suggested was in stock, priced and within the budget when its card was read, and is not repeated.
  It says nothing of the market's listings and their numbers (section 6).
- `TierTwoAgrees`: where the cascade's reading of the message has the words of the pipeline's, Tier 2 answers with the
  row the pipeline would look up; where the two readings are equal, which no message that names a category has, the
  shop has no product either. Where they differ more, the code promises agreement and does not give it (section 6).
- `IndexKept`, `StartedFresh`, `FeedNeverGoesBack`: a whole file is never lost to a failed write or a kill;
  a clean start serves nothing older than the table it found; the feed never goes back,
  even over failed warm-ups.

**Bounds.** Three catalogues: none, a shoe with a cheap complement, and the same sold out and dearer.
Three messages: one that both sides read alike ("something light"), one they read in the same words ("shoes under 9"), and a
command whose budget the pipeline misses. Agents search for boots (named, so that neighbours do not
count), and the complement is a query of its own. The market answers with nothing usable or with eight listings
that include duplicates, one too dear, one sold out, one without a price and one that lacks a wanted feature; the best rated
duplicate is the dear one. Thresholds 62 % and 80 %, time to live 1 of 2 ticks, a window of 2
rows and 2 rows at most (`MaxCached`), three faults (`MaxFaults`): a failed write, a kill,
and one more. `DefaultAccept` is 60 %, since with the code's defaults (0.35 against a
minimum of 0.55) no offer is ever made; both come from the environment. 3.3 million states.

One thread: with two, a slow build may install an older catalogue over a newer one. The clock,
the table and the faults stop at their bounds, so deadlock is not checked.

## 5 Proofs

TLAPS checks 31 theorems: every invariant and every action property that a passing run
checks, and the refinement, under the hypotheses below, for every value of the constants that meets the modules' named
assumptions (`DataAssumption`, `LimitAssumption`, `PlaneAssumption`, those of the chat, and
`MarketAssumption` to `ReadingAssumption`). Those ask for no more than the code gives:
disjoint sets of positive SKUs, natural prices and limits, finite catalogues for chat and storefront, messages and
answers of the right shape, `"none"` not an actor. No bound has a fixed value (`MaxQty` is at least 1 in the chat).

| Theorem | States | For |
|---|---|---|
| *PaymentPlane_proofs* | | |
| `TypeCorrect` | `[](TypeOK /\ WorkersPlaced)`: what each request holds exists | any threads |
| `QuotesAreFrozen` | `QuotesFrozen` | any threads |
| `OrdersAreAuthorised` | `[]OrderAuthorised` | any threads |
| `PaidOrdersArePaid` | `[]PaidMeansPaid` | any threads |
| *SerialPlane_proofs* | | |
| `MandatesVerify` | `[]OrdersVerify` | one thread, `WholePaise` |
| `OneOrderForASnapshot` | `[]OneOrderPerSnapshot` | one thread |
| `KnownLinksAreOwned` | `[]KnownLinksOwned` | one thread |
| `PaymentsAreFinal` | `PaidIsFinal` | one thread |
| `RowsAreUnique` | `[]OneRowPerSku` | one thread |
| `StockIsRespected` | `[]WithinStock` | one thread |
| `OpenQuotesAreCurrent` | `[]OpenQuotesCurrent` | one thread, `~Aborts` |
| `PromiseIsKept` | `PromiseKept`, the refinement of `GuardedPayment` | one thread, `WholePaise`, `~Aborts`, no answer lost |
| *Spending_proofs* | | |
| `SpendIsCapped` | `[]SpendCap` | one thread, `WholePaise`, every link issued |
| *Assistant_proofs* | | |
| `DecisionsAreSound` | each decision is one the message asks for, by the code's tests | any message, memory, model answer |
| *ChatPipeline_proofs* | | |
| `ChatTypeCorrect` | `[](ChatTypeOK /\ WorkersPlaced /\ TurnsPlaced)` | any workers |
| `ApprovalPays` | `OnlyApprovalPays` | any workers |
| `ChatOrdersAuthorised` | `[]OrderAuthorised` | any workers |
| `RecoveryProposesTheLargest` | `[]RecoveryFits` | any workers, `WholePaise` |
| `ChatMandatesVerify` | `[]OrdersVerify` | one worker, `WholePaise` |
| `VersionNeverGoesBack` | `VersionGrows` | one worker |
| `TurnsAddWhatWasAsked` | `OnlyAskedAdded` | one worker |
| `ChatSpendIsCapped` | `[]SpendCap` | one worker, `WholePaise`, every link issued |
| *Storefront_proofs* | | |
| `StoreIsTyped` | `[]StoreTypeOK` | any threads |
| `AnswersFit` | `[]FoundFits` | any threads |
| `CacheIsNeverEmptyHanded` | `[]CacheAnswersSomething` | any threads |
| `ChatSuggestsPayable` | `[]SuggestionsPayable` | any threads |
| `CacheServesFresh` | `ServedFresh` | any threads |
| `StartsAreFresh` | `[]StartedFresh` | any threads |
| `IndexIsKept` | `IndexKept` | any threads |
| `CascadeAgrees` | `TierTwoAgrees` | any threads, `SimilarEnough <= CertainlySimilar` |
| `FeedGoesForward` | `FeedNeverGoesBack` | one thread |

**The hypotheses** each have a reason in the code.

- *One thread* (`OneAtATime`: there is one `Worker`). Nothing in the code serialises the requests of a
  session; with a second worker TLC violates each property so marked of the plane and the storefront, and the
  chat's proofs rest on the plane's. For the feed, two builds may
  install in the other order.
- *`WholePaise`*: every price is a whole number of paise, so that rounding it changes nothing and a hash determines the
  total. Prices of the catalogue are; that of a listing is whatever float the client or the market gave. Run `rounding` shows
  what the hypothesis excludes.
- *`~Aborts`*. A request that dies between a cart write and the superseding of quotes leaves a quote open over a changed
  cart; both theorems fail then. All others allow it.
- *No answer lost* (`"lost" \notin RazorpayAnswers`). A retry after a lost answer makes a second link, a second charge in
  the promise's terms.
- *Every link issued* (`OnlyIssued`). A refused call breaks the session limit: run `retry_cap`.
- *`SimilarEnough <= CertainlySimilar`*. The cascade's threshold is 0.80 and the cache's 0.62 by default, both
  from the environment; the other way round Tier 2 answers from rows the pipeline would not use.

### The payment plane

*Type correctness* is not inductive: an action indexes `quotes`, `orders` and `links` with
what the thread holds. `TypeInv` adds `WorkersPlaced`: at each label the locals the next
action uses are there (a call at hand before `read`, a quote from `cart` on, an order
from `razorpay` on, a link at `record`) and a loaded row is one a
write can flush. Since tables only grow, `Placed` is stated over their domains and survives
the steps of other threads. There is one lemma per action.

*Frozen quotes* follow action by action: only `CreateQuote` appends, and superseding
and expiry touch one field each. *Authorised orders*: `InsertOrder` runs five steps after `CheckLimits`, so
`AuthInv` adds that a thread between the two holds a quote within its actor's limit, which stays true
whatever others do only because quotes are frozen. *Paid orders*: `PaidInv` adds `LinksBelong`, the link an
order knows was made for it. Races may make an order forget a link; it never knows somebody else's.

*One thread.* Each invariant says what the worker's locals still have to do with the tables while nobody else runs:

- `VerifyInv`: a quote's amount is what its listing costs, which under `WholePaise` its hash determines, and from the validation to the insertion the cart still
  lists as the quote does, so the rows read again are the rows that were signed.
- `SingleInv`: a checkout about to insert has no order for its snapshot.
- `OwnedInv`: the order at hand has no link when Razorpay is called, so that the link an order knows is never
  replaced, and a paid order knows the link that was paid.
- `RowsInv`: a row loaded is still one a fresh SELECT may return, so that an insertion finds no row of its SKU and a quantity
  is added to the current one.
- `CurrentInv`: between the write of a row and the superseding no claim is made; from there until the bump no
  quote is open.
- `CapInv`: orders only fail by the expiry of their link, from which they do not come back, so the sum over created
  and paid orders only falls between the check of the limits and the insertion. The sum is `MapThenSumSet` of
  the community modules; `Sums_proofs` shows how it changes with one more order or one less.

*The refinement.* `KeptInv` puts these together and adds that a checkout past its validation holds an open quote and that
every link but the one just issued is known to its order. Under it each step is a step of
`GuardedPayment` (change the basket, quote it, drop the quote, charge) or a stutter.

### The chat

`ChatInv` extends `TypeInv` by `TurnPlaced`: what a turn holds at each node, that the plane is idle under it
unless a tool, a preview or a payment is under way and then works on what the turn has decided, that the quote read is no
older than the preview, and that only an approving message is on its way to the payment. `ApprovalPays` follows from it
for any number of workers. A turn runs the plane's own steps, so the plane's step lemmas are used as they stand and
only the nodes need proofs of their own.

With one worker: `ChatVerifyInv` adds that a turn at the guardrail has listed the cart as it is; `VersionInv` that the
version a turn has read is the current one, except where the code reads it again; `AskedInv` that the calls of a tool
only drop rows or add what `DecisionsAreSound` allows; `ChatCapInv` that the spend read at the start of a
turn is no less than the spend at its guardrail.

`RecoveryProposesTheLargest` needs no invariant but the type: it is arithmetic about the quotient.

### The storefront

`IndexInv`: the file is never torn; a build holds a version no older than the table was when the server started;
until the server is up only its warm-up runs, so what this has checked is there when it ends. `FeedInv`: what was fed <=
memory <= file <= table, and a build has read a version no older than the file.

`SearchInv` says of each search (`Sound`) what it has shown so far: from `Match` on it asks for the pipeline's reading, listings
not from the cache fit the query, suggestions could be bought when read; and
of each row of the cache (`Honest`) that it holds something, and expires no later than its listings get old. These are
facts about one record or row, so that other threads cannot disturb them. `CascadeAgrees` rests on `SameLookup`: a look-up does not
depend on the product type, since neither the text that is embedded nor the item signature has it.

### Shared lemmas

`Items`, `Ranked` and `TopMatches` sort a finite set; no recursion is needed. Under a strict total order the
number of members ahead of a member is its place, and as there are as many places as members each is taken (`CommerceData_proofs`, first
part of `Storefront_proofs`). Sums over sets are recursive functions of the library; since the library's induction rules
cannot be used here, `Sums_proofs` takes a smallest set for which a claim fails and refutes it.

**Model-checked only.** `RequestsEnd` and `PaymentsArrive`: liveness under fairness, and `ENABLED`, are beyond the
proof system as installed. The six violations of section 6 are counterexamples and have nothing to prove. That the
sorting helpers agree with Python's stable sort, and Python's floats with exact numbers, is an abstraction (section 3).

## 6 Where code and documents disagree

1. **`race_stale`.** `commerce.py:11-12` says a stale quote can never pay for an altered cart.
   `/agent/checkout` validates (`main.py:506`) and then reads the cart again to build the order
   (`commerce.py:265`), with nothing held in between. A cart operation that falls between the
   two supersedes the quote and still the link is made. `OrderAuthorised` survives, so
   the mandate no longer verifies and the order can be told apart afterwards.
2. **`race_links`.** `commerce.py:13-15` says a repeated payment for one snapshot reuses the link.
   Two concurrent checkouts both find none.
3. **`retry_cap`.** `README.md:205` promises a per-session cap. `execute_payment` sets an order to
   `failed` when Razorpay refuses, and a successful retry stores the link but leaves the
   status. `_session_spend` does not count it, so another order is admitted, and when both
   links are paid the cap is exceeded. No concurrency is needed.
4. **`rounding`.** `quote.py:4` says a quote ties the exact payable snapshot. `canonical_cart_json` hashes unit prices rounded to two
   decimals (`quote.py:36`), `cart_total` multiplies the unrounded ones (`quote.py:52`), and the price of a listing is any
   positive float (`schemas.py:115`). Two units at 2.1 paise cost 4 paise, at 2.4 they cost 5, and both carts have one hash:
   the second checkout is answered with the first one's order and link (`commerce.py:249`), over 4 paise where 5 were quoted.
5. **`chat_shown`.** `docs/LOW_LEVEL_DESIGN.md:615` says an approval is for the same quote or cart version,
   `guardrail.py:109` that it is tied to the shown quote. `run_turn` takes the newest quote of the
   session (`orchestration.py:1255`), so a "yes" to one preview pays a quote that a
   buyer agent made since, over the buyer agent's cart.
6. **`chat_listing`.** `commerce.py:175` says repeats just bump the quantity. `EXT-001` is whatever is first in
   the current list: picking it after another search adds to the row of the earlier listing,
   keeps its name and reprices all of it.

Also seen while modelling, without a run of its own (all part of the model but the numbers in a reply, which are text):

- The pending proposal is confirmed by any message with "sure", "ok" or "yes" in it
  (`orchestration.py:248`): "not sure" adds it.
- `guardrail.py:83-85` says that any negation anywhere flips an approval, `docs/LOW_LEVEL_DESIGN.md:635` that it must override. Negations need blanks: "no, do it later"
  approves. Affirmatives are substrings: after a preview, "broken" approves.
- `orchestration.py:252` and `:430` give "third one" as the way to pick option 3. The words for one are tried first, so
  it picks option 1.
- `guardrail.py:167` says an actor mismatch blocks. The function never compares actors, so a quote made by one actor is
  charged for the other, under the other's limits (with an order and a mandate in the payer's name).
- `cascade_router.py:318-319` calls `_build_requirements` an exact mirror of `_structured_requirements`, and line 454 promises
  identical output. The cascade's product type is the category, the pipeline's is none or the model's, so the scores of
  the shop's products and the verdict may differ; and of a message that the router takes for a command, "buy running shoes
  under 2500", the pipeline has no category, features or budget, so the row may differ too. `TierTwoAgrees` is claimed
  where the readings agree.
- `discovery.py:412-414` says the reply's numbers are those the suggestion list resolves. The reply numbers every listing,
  the list leaves out those without a price (`orchestration.py:836-869`), and a pick counts in the list: after an unpriced first
  listing, "2" adds the third.
- `quote.current_quote` is documented to return the active quote; it returns the newest. A turn that holds a
  superseded one is blocked by `validate_approval`.
- `cascade_router.py:102-103` says a fast path never drifts from the pipeline. The rules differ:
  "clear my cart" empties it on the fast path, and the agent's own rules would show it.
- A turn of an actor other than the session row's owner finds no memory, cannot save, and its reply is
  replaced by the error text; its changes to the cart stay.
- Deduplication comes before the filter (`discovery.py:371`), so a dear duplicate with a better
  rating takes an affordable one out with it; the test for a named item comes after the cut
  to three matches. Cached answers are not filtered by the budget again.
- `agent_discover` takes its match from the single best product even when that is sold out, so
  the match may be empty beside a shortlist, and the shortlist skips the test for a named item.
- Nothing records an accepted offer, so with each record an offer's estimate falls, from the default to a third at the first:
  it is then below the minimum confidence and not made again, unless the record failed, which `record_offer_event`
  swallows (`growth.py:80`). With the defaults none is shown at all.
- The recovery agent promises the largest cart total that passes (`growth_agent.py:11-12`) but
  forgets the cart's other lines: `RecoveryFits` holds for carts of one line.
- `agent_feed.py:24` promises the same feed for the same database. The copy in memory is
  compared with the database only at a start.

## 7 What is not modelled

- *Observability, audit, PII redaction*: append-only; nothing decides on what they write.
- *Buyer agent*: a scripted client; `PaymentPlane` admits its calls in any order.
- *Frontend*: display.
- *Embeddings, keyword tables and LLM calls*: numeric, data or external; the models of their callers
  take any answer of a given set.
- `catalog_index.retrieve`, `semantic_cache.prune_expired` and `growth.get_growth_insights` have no caller
  in the program.
- *orders_feed* and the other listings of the API only read.
- Turns of the chat that run at the same time, and searches that do, are in the modules (any set of
  `Worker`) but checked with one worker only, for the reasons in section 4.
- A composition of chat and storefront: a turn takes any `Finding`, of which a search's outcome
  is one; the product of the two state spaces is beyond TLC.

## 8 Plan

Built: the payment plane, the chat over it, the storefront, and the proofs of all their safety properties. Left, the most useful first:

1. A run of two checkouts of different quotes against the session limit, which `SpendCap` for one thread does not cover.
2. What several threads keep: `KnownLinksOwned` and `OneOrderPerSnapshot` fail with two, but weaker forms (each known
   link was made for an order with the same snapshot and amount) may hold for any number and are worth stating.
3. A fact about the feed with several threads: it serves some version between the server's start and now.
4. `agent_feed.orders_feed` over the orders of the plane: which orders it flags after the races of section 6.
5. Counterexamples as runs for three of the differences of section 6 that have none: the two readings of a message, the numbers of
   the reply, and the actor that is not compared.
6. How far a stale spend can pass the session limit when several turns run at once.
