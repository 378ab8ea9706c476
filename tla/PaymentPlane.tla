---------------------------- MODULE PaymentPlane ----------------------------
(***************************************************************************)
(* The payment plane of one shopping session: the cart, the quotes over    *)
(* it, the orders charged from them and the payment links behind them.     *)
(*                                                                         *)
(* The HTTP endpoints are synchronous functions that the server runs on a  *)
(* pool of threads.  Every helper of app/commerce.py and app/quote.py      *)
(* opens a database session of its own and commits it, and a SELECT takes  *)
(* no lock, so a request is a sequence of small steps between which the    *)
(* steps of other requests fall.  A Worker is a thread that serves one     *)
(* request at a time; with a single worker the requests are serial.        *)
(***************************************************************************)
EXTENDS CommerceData, Guardrail

CONSTANTS
    Worker,          \* threads that serve this session's requests
    CartCalls,       \* the cart operations a client may ask for
    QuoteRequests,   \* the carts (sequences of calls) /agent/quote may get
    RazorpayAnswers, \* among "issued", "refused", "lost"
    LinkFates,       \* among "paid", "expired", "cancelled"
    Aborts,          \* whether a request may die between two steps
    MaxVersion,      \* bound: cart version
    MaxQuotes,       \* bound: quotes
    MaxOrders,       \* bound: orders
    MaxLinks         \* bound: payment links

ASSUME PlaneAssumption ==
    /\ "none" \notin Actor
    /\ CartCalls \subseteq Call
    /\ QuoteRequests \subseteq Seq(Call)
    /\ RazorpayAnswers \subseteq {"issued", "refused", "lost"}
    /\ LinkFates \subseteq {"paid", "expired", "cancelled"}
    /\ Aborts \in BOOLEAN
    /\ {MaxVersion, MaxQuotes, MaxOrders, MaxLinks} \subseteq Nat

VARIABLES
    cart,     \* cart_items: the session's rows by primary key
    version,  \* session_state.cart_version
    quotes,   \* the quotes table; a quote's id and its nonce are its index
    orders,   \* the orders table
    links,    \* payment links at Razorpay (external)
    pc,       \* where each worker is in its request
    req       \* each worker's local variables

vars == <<cart, version, quotes, orders, links, pc, req>>
database == <<cart, version, quotes, orders, links>>

-----------------------------------------------------------------------------
(***************************************************************************)
(* The tables.  `expired` says that the quote's expires_at has passed.  A  *)
(* link is `known` once its URL has been stored, hence can reach a buyer.  *)
(***************************************************************************)
QuoteRow == [actor : Actor, version : Nat, hash : Hashed, amount : Amount,
             status : {"active", "superseded"}, expired : BOOLEAN]

Mandate == [actor : Actor, hash : Hashed, amount : Amount, quote : Nat]

OrderStatus == {"created", "paid", "failed"}
OrderRow == [actor : Actor, hash : Hashed, items : Snapshot, total : Amount,
             quote : Nat, mandate : Mandate, status : OrderStatus, link : Nat]

LinkState == {"open", "paid", "expired", "cancelled"}
Link == [order : Nat, amount : Amount, state : LinkState, known : BOOLEAN]

(***************************************************************************)
(* A worker's local variables: the operation, the caller's actor, the rows *)
(* still to drop and the calls still to make, the row just loaded, the     *)
(* cart listing, version, quote and status column just read, and the order *)
(* and link at hand.                                                       *)
(***************************************************************************)
Request == [op : {"none", "cart", "quote", "checkout"}, actor : Actor \cup {"none"},
            drop : SUBSET (RowId \X Sku), todo : Seq(Call), loaded : Loaded,
            items : Snapshot, version : Nat, quote : Nat,
            status : {"none", "active", "superseded"} \cup OrderStatus,
            order : Nat, link : Nat]
NoRequest == [op |-> "none", actor |-> "none", drop |-> {},
              todo |-> <<>>, loaded |-> NothingLoaded, items |-> <<>>,
              version |-> 0, quote |-> 0, status |-> "none", order |-> 0, link |-> 0]

CartPc == {"read", "write", "supersede", "version", "bump"}
QuotePc == {"items", "stamp", "quote"}
CheckoutPc == {"cart", "validate", "limits", "find", "snapshot", "insert",
               "razorpay", "record", "fail", "settle"}
Label == {"idle"} \cup CartPc \cup QuotePc \cup CheckoutPc

TypeOK ==
    /\ cart \in Cart
    /\ version \in Nat
    /\ quotes \in Seq(QuoteRow)
    /\ orders \in Seq(OrderRow)
    /\ links \in Seq(Link)
    /\ pc \in [Worker -> Label]
    /\ req \in [Worker -> Request]

Init ==
    /\ cart = EmptyCart
    /\ version = 0
    /\ quotes = <<>>
    /\ orders = <<>>
    /\ links = <<>>
    /\ pc = [w \in Worker |-> "idle"]
    /\ req = [w \in Worker |-> NoRequest]

-----------------------------------------------------------------------------
(* Bounds.  A request is only admitted when everything it may create fits. *)

Busy(op) == {w \in Worker : req[w].op = op}
Adds(calls) == Len(SelectSeq(calls, LAMBDA call : call.kind \in {"add", "addref"}))
Ahead(r) == Cardinality(r.drop) + Len(r.todo)
Admits(r) ==
    /\ version + Ahead(r) + MapThenSumSet(LAMBDA w : Ahead(req[w]), Worker)
         <= MaxVersion
    /\ TopId(cart) + Adds(r.todo) + MapThenSumSet(LAMBDA w : Adds(req[w].todo), Worker)
         <= MaxRows

-----------------------------------------------------------------------------
(* The end of a request, and moving on inside one. *)

Answer(w) ==
    /\ pc' = [pc EXCEPT ![w] = "idle"]
    /\ req' = [req EXCEPT ![w] = NoRequest]

Goto(w, label) == pc' = [pc EXCEPT ![w] = label]

\* The cart call at hand: first the rows to drop, then the calls to make.
NextDrop(r) == CHOOSE d \in r.drop : TRUE
CurrentCall(r) == IF r.drop # {} THEN RemoveCall(NextDrop(r)[2]) ELSE Head(r.todo)
CallsLeft(r) == r.drop # {} \/ r.todo # <<>>
AfterCall(r) ==
    LET next == [r EXCEPT !.loaded = NothingLoaded, !.version = 0]
    IN  IF r.drop # {} THEN [next EXCEPT !.drop = @ \ {NextDrop(r)}]
        ELSE [next EXCEPT !.todo = Tail(@)]

\* Go on with request r: the next call, the quote, or the answer.
Resume(w, r) ==
    IF CallsLeft(r)
    THEN Goto(w, "read") /\ req' = [req EXCEPT ![w] = r]
    ELSE IF r.op = "quote"
    THEN Goto(w, "items") /\ req' = [req EXCEPT ![w] = r]
    ELSE Answer(w)

FinishCall(w) == Resume(w, AfterCall(req[w]))

\* invalidate_quote: every open quote of the session is superseded.
Supersede ==
    quotes' = [k \in DOMAIN quotes |-> [quotes[k] EXCEPT !.status = "superseded"]]

-----------------------------------------------------------------------------
(***************************************************************************)
(* One cart operation: _mutate, add_reference_to_cart.                     *)
(***************************************************************************)

\* A client asks for one cart operation (a tool call of a chat turn).
StartCart(w) ==
    /\ pc[w] = "idle"
    /\ \E call \in CartCalls :
         LET r == [NoRequest EXCEPT !.op = "cart", !.todo = <<call>>]
         IN  Admits(r) /\ Resume(w, r)
    /\ UNCHANGED database

\* SELECT the row and the product; the checks pass.
ReadRow(w) ==
    LET call == CurrentCall(req[w])
    IN  /\ pc[w] = "read"
        /\ call.kind # "unknown"
        /\ \E l \in Loads(cart, call.sku) :
             /\ ~Refuses(call, l)
             /\ req' = [req EXCEPT ![w].loaded = l]
        /\ Goto(w, "write")
        /\ UNCHANGED database

\* The checks fail: {"error": ...}.  agent_quote ignores it and goes on.
RefuseCall(w) ==
    LET call == CurrentCall(req[w])
    IN  /\ pc[w] = "read"
        /\ call.kind # "unknown"
        /\ \E l \in Loads(cart, call.sku) : Refuses(call, l)
        /\ FinishCall(w)
        /\ UNCHANGED database

\* agent_quote meets an item it does not know: HTTP 422.
RejectItem(w) ==
    /\ pc[w] = "read"
    /\ CurrentCall(req[w]).kind = "unknown"
    /\ Answer(w)
    /\ UNCHANGED database

\* Commit the insert, update or delete (bounds: MaxQty, MaxRows).
WriteRow(w) ==
    LET l   == req[w].loaded
        row == Wanted(CurrentCall(req[w]), l)
    IN  /\ pc[w] = "write"
        /\ ~Vanished(cart, l, row)
        /\ row.qty <= MaxQty
        /\ row # NoRow /\ l.id = 0 => TopId(cart) < MaxRows
        /\ cart' = Flush(cart, l, row)
        /\ Goto(w, "supersede")
        /\ UNCHANGED <<version, quotes, orders, links, req>>

\* The row to update has gone: the commit raises and the request fails.
WriteFails(w) ==
    LET l == req[w].loaded
    IN  /\ pc[w] = "write"
        /\ Vanished(cart, l, Wanted(CurrentCall(req[w]), l))
        /\ Answer(w)
        /\ UNCHANGED database

\* Mutant: the open quotes are left as they are.
SupersedeNothing(w) ==
    /\ pc[w] = "supersede"
    /\ Goto(w, "version")
    /\ UNCHANGED <<database, req>>

\* Mutant: the quotes are moved to the next version instead.
RefreshQuotes(w) ==
    /\ pc[w] = "supersede"
    /\ quotes' = [k \in DOMAIN quotes |-> [quotes[k] EXCEPT !.version = version + 1]]
    /\ Goto(w, "version")
    /\ UNCHANGED <<cart, version, orders, links, req>>

SupersedeQuotes(w) ==
    /\ pc[w] = "supersede"
    /\ Supersede
    /\ Goto(w, "version")
    /\ UNCHANGED <<cart, version, orders, links, req>>

\* bump_cart_version reads the version ...
ReadVersion(w) ==
    /\ pc[w] = "version"
    /\ req' = [req EXCEPT ![w].version = version]
    /\ Goto(w, "bump")
    /\ UNCHANGED database

\* ... and writes it back plus one; the operation is over.
BumpVersion(w) ==
    /\ pc[w] = "bump"
    /\ version' = req[w].version + 1
    /\ FinishCall(w)
    /\ UNCHANGED <<cart, quotes, orders, links>>

-----------------------------------------------------------------------------
(***************************************************************************)
(* POST /agent/quote: empty the cart row by row, add the requested items,  *)
(* then list the cart, read its version and insert a quote.                *)
(***************************************************************************)
StartQuote(w) ==
    /\ pc[w] = "idle"
    /\ Len(quotes) + Cardinality(Busy("quote")) < MaxQuotes
    /\ \E a \in Actor, wanted \in QuoteRequests :
         LET r == [NoRequest EXCEPT !.op = "quote", !.actor = a, !.todo = wanted,
                                    !.drop = {<<i, cart[i].sku>> : i \in RowsOf(cart)}]
         IN  Admits(r) /\ Resume(w, r)
    /\ UNCHANGED database

ReadItems(w) ==
    /\ pc[w] = "items"
    /\ req' = [req EXCEPT ![w].items = Items(cart)]
    /\ Goto(w, "stamp")
    /\ UNCHANGED database

StampVersion(w) ==
    /\ pc[w] = "stamp"
    /\ req' = [req EXCEPT ![w].version = version]
    /\ Goto(w, "quote")
    /\ UNCHANGED database

CreateQuote(w) ==
    /\ pc[w] = "quote"
    /\ quotes' = Append(quotes,
         [actor |-> req[w].actor, version |-> req[w].version,
          hash |-> Hash(req[w].items), amount |-> CartTotal(req[w].items),
          status |-> "active", expired |-> FALSE])
    /\ Answer(w)
    /\ UNCHANGED <<cart, version, orders, links>>

-----------------------------------------------------------------------------
(***************************************************************************)
(* POST /agent/checkout.  Every block is an answer and nothing else.       *)
(***************************************************************************)

\* get_quote finds the quote and the nonce is the quote's.
StartCheckout(w) ==
    /\ pc[w] = "idle"
    /\ Len(orders) + Cardinality(Busy("checkout")) < MaxOrders
    /\ Len(links) + Cardinality(Busy("checkout")) < MaxLinks
    /\ \E a \in Actor, k \in DOMAIN quotes :
         req' = [req EXCEPT ![w] =
             [NoRequest EXCEPT !.op = "checkout", !.actor = a, !.quote = k,
                               !.status = quotes[k].status]]
    /\ Goto(w, "cart")
    /\ UNCHANGED database

\* No such quote in the session, or the nonce of another one.
RefuseCheckout(w) ==
    /\ pc[w] = "idle"
    /\ \E k \in 0 .. MaxQuotes, nonce \in 0 .. MaxQuotes :
         k \notin DOMAIN quotes \/ nonce # k
    /\ UNCHANGED vars

ReadCart(w) ==
    /\ pc[w] = "cart"
    /\ req' = [req EXCEPT ![w].items = Items(cart)]
    /\ Goto(w, "validate")
    /\ UNCHANGED database

Valid(w) == QuoteMatchesCart(quotes[req[w].quote], req[w].status, req[w].items, version)

ValidateQuote(w) ==
    /\ pc[w] = "validate"
    /\ Valid(w)
    /\ req' = [req EXCEPT ![w].items = <<>>]
    /\ Goto(w, "limits")
    /\ UNCHANGED database

BlockQuote(w) ==
    /\ pc[w] = "validate"
    /\ ~Valid(w)
    /\ Answer(w)
    /\ UNCHANGED database

\* _session_spend: what the actor's orders in these states come to.
SpentIn(actor, states) ==
    MapThenSumSet(LAMBDA o : orders[o].total,
        {o \in DOMAIN orders : orders[o].actor = actor /\ orders[o].status \in states})

\* Mutant: only paid orders count as spent.
AffordableUnpaid(w) ==
    WithinLimits(req[w].actor, quotes[req[w].quote].amount,
                 SpentIn(req[w].actor, {"paid"}))

Affordable(w) ==
    WithinLimits(req[w].actor, quotes[req[w].quote].amount,
                 SpentIn(req[w].actor, {"created", "paid"}))

CheckLimits(w) ==
    /\ pc[w] = "limits"
    /\ Affordable(w)
    /\ Goto(w, "find")
    /\ UNCHANGED <<database, req>>

\* Mutant: the request waits for the spend to fall.
BlockLimitsWait(w) ==
    /\ pc[w] = "limits"
    /\ ~Affordable(w)
    /\ UNCHANGED vars

BlockLimits(w) ==
    /\ pc[w] = "limits"
    /\ ~Affordable(w)
    /\ Answer(w)
    /\ UNCHANGED database

\* Mutant: a failed order is not found again.
OrdersNotFailed(actor, hash) ==
    {o \in DOMAIN orders : orders[o].actor = actor /\ orders[o].hash = hash
                            /\ orders[o].status # "failed"}

\* Mutant: an order is found by its link.
OrdersWithLink(actor, hash) ==
    {o \in DOMAIN orders : orders[o].actor = actor /\ orders[o].hash = hash
                            /\ orders[o].link # 0}

\* create_payment_order: the orders of this actor for this snapshot.
OrdersFor(actor, hash) ==
    {o \in DOMAIN orders : orders[o].actor = actor /\ orders[o].hash = hash}
Matching(w) == OrdersFor(req[w].actor, quotes[req[w].quote].hash)

\* Mutant: Razorpay is called although the order has a link.
ReuseOrderAfresh(w) ==
    /\ pc[w] = "find"
    /\ \E o \in Matching(w) : req' = [req EXCEPT ![w].order = o]
    /\ Goto(w, "razorpay")
    /\ UNCHANGED database

\* Mutant: reusing an order puts it back to "created".
ReuseOrderReopened(w) ==
    /\ pc[w] = "find"
    /\ \E o \in Matching(w) :
         /\ req' = [req EXCEPT ![w].order = o]
         /\ orders' = [orders EXCEPT ![o].status = "created"]
         /\ Goto(w, IF orders[o].link # 0 THEN "settle" ELSE "razorpay")
    /\ UNCHANGED <<cart, version, quotes, links>>

\* One exists, whatever its status: reuse it, and its link when it has one.
ReuseOrder(w) ==
    /\ pc[w] = "find"
    /\ \E o \in Matching(w) :
         /\ req' = [req EXCEPT ![w].order = o]
         /\ Goto(w, IF orders[o].link # 0 THEN "settle" ELSE "razorpay")
    /\ UNCHANGED database

NeedOrder(w) ==
    /\ pc[w] = "find"
    /\ Matching(w) = {}
    /\ Goto(w, "snapshot")
    /\ UNCHANGED <<database, req>>

\* The rows of the cart as it is now ...
SnapshotCart(w) ==
    /\ pc[w] = "snapshot"
    /\ Items(cart) # <<>>
    /\ req' = [req EXCEPT ![w].items = Items(cart)]
    /\ Goto(w, "insert")
    /\ UNCHANGED database

FindCartEmpty(w) ==
    /\ pc[w] = "snapshot"
    /\ Items(cart) = <<>>
    /\ Answer(w)
    /\ UNCHANGED database

\* Mutant: the order is filed under the hash of the rows just read.
InsertOrderRehashed(w) ==
    LET k == req[w].quote
        q == quotes[k]
    IN  /\ pc[w] = "insert"
        /\ orders' = Append(orders,
             [actor |-> req[w].actor, hash |-> Hash(req[w].items), items |-> req[w].items,
              total |-> CartTotal(req[w].items), quote |-> k,
              mandate |-> Sign(req[w].actor, q.hash, q.amount, k),
              status |-> "created", link |-> 0])
        /\ req' = [req EXCEPT ![w].order = Len(orders) + 1, ![w].items = <<>>]
        /\ Goto(w, "razorpay")
        /\ UNCHANGED <<cart, version, quotes, links>>

\* ... become an order under the hash, quote and mandate passed in.
InsertOrder(w) ==
    LET k == req[w].quote
        q == quotes[k]
    IN  /\ pc[w] = "insert"
        /\ orders' = Append(orders,
             [actor |-> req[w].actor, hash |-> q.hash, items |-> req[w].items,
              total |-> CartTotal(req[w].items), quote |-> k,
              mandate |-> Sign(req[w].actor, q.hash, q.amount, k),
              status |-> "created", link |-> 0])
        /\ req' = [req EXCEPT ![w].order = Len(orders) + 1, ![w].items = <<>>]
        /\ Goto(w, "razorpay")
        /\ UNCHANGED <<cart, version, quotes, links>>

\* execute_payment reopens the order row and asks Razorpay for a link over
\* its total; the link carries the order's id.
NewLink(o) == Append(links, [order |-> o, amount |-> orders[o].total,
                             state |-> "open", known |-> FALSE])

LinkIssued(w) ==
    LET o == req[w].order
    IN  /\ pc[w] = "razorpay"
        /\ "issued" \in RazorpayAnswers
        /\ links' = NewLink(o)
        /\ req' = [req EXCEPT ![w].link = Len(links) + 1]
        /\ Goto(w, "record")
        /\ UNCHANGED <<cart, version, quotes, orders>>

\* The call fails: at Razorpay, or after Razorpay has made the link.
LinkFails(w) ==
    LET o == req[w].order
    IN  /\ pc[w] = "razorpay"
        /\ \/ "refused" \in RazorpayAnswers /\ UNCHANGED links
           \/ "lost" \in RazorpayAnswers /\ links' = NewLink(o)
        /\ req' = [req EXCEPT ![w].status = orders[o].status]
        /\ Goto(w, "fail")
        /\ UNCHANGED <<cart, version, quotes, orders>>

\* Mutant: the order is taken as paid once it has a link.
RecordLinkPaid(w) ==
    /\ pc[w] = "record"
    /\ orders' = [orders EXCEPT ![req[w].order].link = req[w].link,
                                ![req[w].order].status = "paid"]
    /\ links' = [links EXCEPT ![req[w].link].known = TRUE]
    /\ Goto(w, "settle")
    /\ UNCHANGED <<cart, version, quotes, req>>

\* Mutant: the URL is handed out, the link's id is not stored.
RecordUrlOnly(w) ==
    /\ pc[w] = "record"
    /\ links' = [links EXCEPT ![req[w].link].known = TRUE]
    /\ Goto(w, "settle")
    /\ UNCHANGED <<cart, version, quotes, orders, req>>

RecordLink(w) ==
    /\ pc[w] = "record"
    /\ orders' = [orders EXCEPT ![req[w].order].link = req[w].link]
    /\ links' = [links EXCEPT ![req[w].link].known = TRUE]
    /\ Goto(w, "settle")
    /\ UNCHANGED <<cart, version, quotes, req>>

\* status = "failed"; no UPDATE when that is what the row was read as.
RecordFailure(w) ==
    /\ pc[w] = "fail"
    /\ orders' = IF req[w].status = "failed" THEN orders
                 ELSE [orders EXCEPT ![req[w].order].status = "failed"]
    /\ Answer(w)
    /\ UNCHANGED <<cart, version, quotes, links>>

\* The checkout is allowed: the session's open quotes are superseded.
Settle(w) ==
    /\ pc[w] = "settle"
    /\ Supersede
    /\ Answer(w)
    /\ UNCHANGED <<cart, version, orders, links>>

-----------------------------------------------------------------------------
(* Around the server. *)

\* A request dies between two steps: an exception of the database (a lock
\* timeout, two workers inserting the session row) or a process restart.
Abort(w) ==
    /\ Aborts
    /\ pc[w] # "idle"
    /\ Answer(w)
    /\ UNCHANGED database

\* The quote's time to live runs out.
ExpireQuote(k) ==
    /\ ~quotes[k].expired
    /\ quotes' = [quotes EXCEPT ![k].expired = TRUE]
    /\ UNCHANGED <<cart, version, orders, links, pc, req>>

\* Razorpay settles a link; only a buyer who has its URL can pay it.
EndLink(l) ==
    /\ links[l].state = "open"
    /\ \E fate \in LinkFates :
         /\ fate = "paid" => links[l].known
         /\ links' = [links EXCEPT ![l].state = fate]
    /\ UNCHANGED <<cart, version, quotes, orders, pc, req>>

\* Mutant: the link's own state is stored as the order's status.
WebhookVerbatim(l) ==
    /\ links[l].state # "open"
    /\ orders' = [o \in DOMAIN orders |->
         IF orders[o].link # l THEN orders[o]
         ELSE [orders[o] EXCEPT !.status = links[l].state]]
    /\ UNCHANGED <<cart, version, quotes, links, pc, req>>

\* POST /webhook/razorpay: Razorpay reports what became of a link, at any
\* time later and any number of times; a cancellation changes nothing.
Webhook(l) ==
    /\ links[l].state # "open"
    /\ orders' = [o \in DOMAIN orders |->
         IF orders[o].link # l THEN orders[o]
         ELSE [orders[o] EXCEPT !.status =
                 CASE links[l].state = "paid" -> "paid"
                   [] links[l].state = "expired" -> "failed"
                   [] OTHER -> @]]
    /\ UNCHANGED <<cart, version, quotes, links, pc, req>>

-----------------------------------------------------------------------------
CartStep(w) ==
    \/ ReadRow(w) \/ RefuseCall(w) \/ RejectItem(w) \/ WriteRow(w)
    \/ WriteFails(w) \/ SupersedeQuotes(w) \/ ReadVersion(w) \/ BumpVersion(w)

QuoteStep(w) == ReadItems(w) \/ StampVersion(w) \/ CreateQuote(w)

CheckoutStep(w) ==
    \/ ReadCart(w) \/ ValidateQuote(w) \/ BlockQuote(w) \/ CheckLimits(w)
    \/ BlockLimits(w) \/ ReuseOrder(w) \/ NeedOrder(w) \/ SnapshotCart(w)
    \/ FindCartEmpty(w) \/ InsertOrder(w) \/ LinkIssued(w) \/ LinkFails(w)
    \/ RecordLink(w) \/ RecordFailure(w) \/ Settle(w)

Step(w) == CartStep(w) \/ QuoteStep(w) \/ CheckoutStep(w)

Next ==
    \/ \E w \in Worker :
         \/ StartCart(w) \/ StartQuote(w) \/ StartCheckout(w)
         \/ RefuseCheckout(w) \/ Step(w) \/ Abort(w)
    \/ \E k \in DOMAIN quotes : ExpireQuote(k)
    \/ \E l \in DOMAIN links : EndLink(l) \/ Webhook(l)

Spec == Init /\ [][Next]_vars

\* A thread goes on with the request it serves, and Razorpay delivers the
\* report of every settled link in the end.
Fairness ==
    /\ \A w \in Worker : WF_vars(Step(w))
    /\ \A l \in 1 .. MaxLinks : WF_vars(l \in DOMAIN links /\ Webhook(l))

FairSpec == Spec /\ Fairness

-----------------------------------------------------------------------------
(* Safety, for any number of workers. *)

\* Every order was authorised: it names a quote of the session, carries that
\* quote's hash and a mandate over that quote's amount, and the amount is
\* within the actor's per-transaction limit (agent_checkout signs only after
\* the guardrail has allowed, create_payment_order stores what it was given).
OrderAuthorised ==
    \A o \in DOMAIN orders :
        LET order == orders[o]
            quote == quotes[order.quote]
        IN  /\ order.quote \in DOMAIN quotes
            /\ order.hash = quote.hash
            /\ order.mandate = Sign(order.actor, quote.hash, quote.amount, order.quote)
            /\ quote.amount <= MaxPerTransaction[order.actor]

\* An order says "paid" only when a link made for it was paid: creating a
\* link, failing to, or retrying never looks like a payment.
PaidMeansPaid ==
    \A o \in DOMAIN orders : orders[o].status = "paid" =>
        \E l \in DOMAIN links : links[l].order = o /\ links[l].state = "paid"

\* Quotes are immutable snapshots: rows are only added, a quote is never
\* rewritten, and once superseded or expired it never opens again.
KeepsQuotes ==
    \A k \in DOMAIN quotes :
        /\ k \in DOMAIN quotes'
        /\ quotes'[k] = [quotes[k] EXCEPT !.status = quotes'[k].status,
                                          !.expired = quotes'[k].expired]
        /\ quotes[k].status = "superseded" => quotes'[k].status = "superseded"
        /\ quotes[k].expired => quotes'[k].expired
QuotesFrozen == [][KeepsQuotes]_vars

-----------------------------------------------------------------------------
(* Safety of a server that handles a session's requests one at a time. *)

\* What an order charges is what was quoted and signed: its mandate verifies
\* over its own actor, hash, total and quote, as orders_feed checks.
OrdersVerify == \A o \in DOMAIN orders : MandateVerifies(orders[o])

\* create_payment_order is idempotent: one order per actor and snapshot.
OneOrderPerSnapshot ==
    \A o, p \in DOMAIN orders :
        orders[o].actor = orders[p].actor /\ orders[o].hash = orders[p].hash => o = p

\* Every link a buyer may hold is the one its order knows, so that the
\* webhook of its payment finds the order.
KnownLinksOwned ==
    \A l \in DOMAIN links : links[l].known => orders[links[l].order].link = l

\* While no request is being served, the open quotes are snapshots of the
\* cart, at what it costs: every mutation has superseded the quotes before it.
OpenQuotesCurrent ==
    (\A w \in Worker : pc[w] = "idle") =>
        \A k \in DOMAIN quotes : quotes[k].status = "active" =>
            /\ quotes[k].hash = Hash(Items(cart))
            /\ quotes[k].amount = CartTotal(Items(cart))
            /\ quotes[k].version = version

\* A SKU has one row: adding it again bumps the quantity.
OneRowPerSku ==
    \A i, j \in RowsOf(cart) : cart[i].sku = cart[j].sku => i = j

\* No merchant row asks for more than the catalogue has.
WithinStock ==
    \A i \in RowsOf(cart) :
        cart[i].sku \in Merchant => cart[i].qty <= Stock[cart[i].sku]

\* What an actor's orders come to, charged or still chargeable, stays within
\* the session limit.
SpendCap == \A a \in Actor : SpentIn(a, {"created", "paid"}) <= MaxPerSession[a]

\* A paid order stays paid.
PaidIsFinal ==
    [][\A o \in DOMAIN orders :
          orders[o].status = "paid" => orders'[o].status = "paid"]_vars

-----------------------------------------------------------------------------
(* Liveness. *)

\* Every request is answered.
RequestsEnd == \A w \in Worker : pc[w] # "idle" ~> pc[w] = "idle"

\* A payment a buyer makes reaches the order it was made for.
PaymentsArrive ==
    \A l \in 1 .. MaxLinks :
        (l \in DOMAIN links /\ links[l].state = "paid") ~>
        (l \in DOMAIN links /\ orders[links[l].order].status = "paid")

-----------------------------------------------------------------------------
(***************************************************************************)
(* The payment plane keeps the promise of GuardedPayment: the basket is    *)
(* the cart's listing, it is quoted while an open quote has its hash, and  *)
(* the charges are the links at Razorpay, for the rows of their orders.    *)
(***************************************************************************)
Promise == INSTANCE GuardedPayment WITH
    Basket  <- Snapshot,
    Total   <- [items \in Snapshot |-> CartTotal(items)],
    Limit   <- MaxPerTransaction,
    basket  <- Items(cart),
    quoted  <- \E k \in DOMAIN quotes :
                  quotes[k].status = "active" /\ quotes[k].hash = Hash(Items(cart)),
    charges <- [l \in DOMAIN links |->
                  [actor  |-> orders[links[l].order].actor,
                   basket |-> orders[links[l].order].items,
                   amount |-> links[l].amount]]

\* Every behaviour of the code is one of the promise, as long as every price is
\* a whole number of paise: no charge for a stale or superseded quote, at
\* another amount, over the limit, or a second time.
PromiseKept == Promise!Spec

-----------------------------------------------------------------------------
(* What the repository's comments and documents say, which does not always *)
(* hold of the code.                                                       *)

\* A link is only made for a quote that is open and matches the cart at that
\* moment.
ChargesAreFresh ==
    [][\A w \in Worker : pc[w] = "razorpay" /\ Len(links') > Len(links) =>
          /\ quotes[req[w].quote].status = "active"
          /\ quotes[req[w].quote].hash = Hash(Items(cart))]_vars

\* A snapshot is charged once: Razorpay holds one link per actor and snapshot.
OneLinkPerSnapshot ==
    \A l, m \in DOMAIN links :
        LET o == orders[links[l].order]
            p == orders[links[m].order]
        IN  o.actor = p.actor /\ o.hash = p.hash => l = m

\* The link a checkout answers with is over the amount it has quoted.
AnsweredAsQuoted ==
    \A w \in Worker : pc[w] = "settle" =>
        orders[req[w].order].total = quotes[req[w].quote].amount

=============================================================================
