------------------------- MODULE SerialPlane_proofs -------------------------
(***************************************************************************)
(* What TLAPS proves of PaymentPlane when the requests of a session are    *)
(* served one at a time, for every value of the other constants.  None of  *)
(* it survives a second worker: TLC finds each of these properties         *)
(* violated with two.                                                      *)
(***************************************************************************)
EXTENDS PaymentPlane_proofs, CommerceData_proofs

\* Only one thread serves the session.
OneAtATime == \E w \in Worker : Worker = {w}

\* A step is one of the worker's, or one that leaves it and the cart alone.
LEMMA SerialStep ==
    ASSUME OneAtATime, NEW w \in Worker, [Next]_vars
    PROVE  \/ StartCart(w) \/ StartQuote(w) \/ StartCheckout(w) \/ Abort(w)
           \/ CartStep(w) \/ QuoteStep(w) \/ CheckoutStep(w)
           \/ UNCHANGED <<cart, version, pc, req>>
<1>1. ASSUME NEW v \in Worker, RefuseCheckout(v)
      PROVE  UNCHANGED <<cart, version, pc, req>>
  BY <1>1 DEF RefuseCheckout, vars
<1>2. ASSUME NEW k \in DOMAIN quotes, ExpireQuote(k)
      PROVE  UNCHANGED <<cart, version, pc, req>>
  BY <1>2 DEF ExpireQuote
<1>3. ASSUME NEW l \in DOMAIN links, EndLink(l) \/ Webhook(l)
      PROVE  UNCHANGED <<cart, version, pc, req>>
  BY <1>3 DEF EndLink, Webhook
<1>4. \A v \in Worker : v = w
  BY DEF OneAtATime
<1> QED
  BY <1>1, <1>2, <1>3, <1>4 DEF Next, Step, vars

\* Only a cart operation writes the cart.
LEMMA CartTouched ==
    ASSUME [Next]_vars
    PROVE  UNCHANGED cart \/ \E w \in Worker : WriteRow(w)
<1>1. ASSUME NEW w \in Worker, CartStep(w) \/ QuoteStep(w)
      PROVE  UNCHANGED cart \/ WriteRow(w)
  BY <1>1 DEF CartStep, ReadRow, RefuseCall, RejectItem, WriteFails,
              SupersedeQuotes, ReadVersion, BumpVersion, QuoteStep, ReadItems,
              StampVersion, CreateQuote, database
<1>2. ASSUME NEW w \in Worker, CheckoutStep(w)
      PROVE  UNCHANGED cart
  BY <1>2 DEF CheckoutStep, ReadCart, ValidateQuote, BlockQuote, CheckLimits,
              BlockLimits, ReuseOrder, NeedOrder, SnapshotCart, FindCartEmpty,
              InsertOrder, LinkIssued, LinkFails, RecordLink, RecordFailure,
              Settle, database
<1>3. ASSUME NEW w \in Worker,
             StartCart(w) \/ StartQuote(w) \/ StartCheckout(w) \/ RefuseCheckout(w)
               \/ Abort(w)
      PROVE  UNCHANGED cart
  BY <1>3 DEF StartCart, StartQuote, StartCheckout, RefuseCheckout, Abort,
              database, vars
<1>4. ASSUME NEW k \in DOMAIN quotes, ExpireQuote(k)
      PROVE  UNCHANGED cart
  BY <1>4 DEF ExpireQuote
<1>5. ASSUME NEW l \in DOMAIN links, EndLink(l) \/ Webhook(l)
      PROVE  UNCHANGED cart
  BY <1>5 DEF EndLink, Webhook
<1> QED
  BY <1>1, <1>2, <1>3, <1>4, <1>5 DEF Next, Step, vars

-----------------------------------------------------------------------------
(***************************************************************************)
(* Orders verify.  A quote has the hash and the total of one listing.  A   *)
(* checkout past its validation has a cart of the quote's hash, since no   *)
(* cart operation runs meanwhile; when prices are whole numbers of paise   *)
(* that makes it the listing that was quoted and signed.                   *)
(***************************************************************************)
QuotesPriced ==
    \A k \in DOMAIN quotes : \E items \in Seq(Row) :
        quotes[k].hash = Hash(items) /\ quotes[k].amount = CartTotal(items)

QuotedLabel == {"limits", "find", "snapshot", "insert", "razorpay"}

AsQuoted(w) ==
    /\ pc[w] = "validate" => req[w].items = Items(cart)
    /\ pc[w] \in QuotedLabel => quotes[req[w].quote].hash = Hash(Items(cart))
    /\ pc[w] = "insert" => req[w].items = Items(cart)

VerifyInv ==
    /\ TypeInv
    /\ QuotesPriced
    /\ \A w \in Worker : AsQuoted(w)
    /\ OrdersVerify

\* A quote of the cart's hash is over what the cart costs.
LEMMA HashPrices ==
    ASSUME WholePaise, TypeInv, QuotesPriced, NEW k \in DOMAIN quotes,
           quotes[k].hash = Hash(Items(cart))
    PROVE  quotes[k].amount = CartTotal(Items(cart))
<1>1. PICK items \in Seq(Row) :
        quotes[k].hash = Hash(items) /\ quotes[k].amount = CartTotal(items)
  BY DEF QuotesPriced
<1>2. Items(cart) \in Seq(Row) /\ Hash(Items(cart)) = Hash(items)
  BY <1>1, ItemsAre DEF TypeInv, TypeOK
<1>3. Items(cart) = items
  BY <1>2, HashTells
<1> QED
  BY <1>1, <1>3

LEMMA PricedStep ==
    ASSUME TypeInv, QuotesPriced, [Next]_vars
    PROVE  QuotesPriced'
<1>1. KeepsQuotes /\ \A k \in DOMAIN quotes : quotes[k] \in QuoteRow
  BY QuotesKept DEF TypeInv, TypeOK
<1>2. \A k \in DOMAIN quotes : /\ quotes'[k].hash = quotes[k].hash
                               /\ quotes'[k].amount = quotes[k].amount
  BY <1>1 DEF KeepsQuotes, QuoteRow
<1>3. CASE DOMAIN quotes' = DOMAIN quotes
  BY <1>2, <1>3 DEF QuotesPriced
<1>4. ASSUME NEW w \in Worker, CreateQuote(w)
      PROVE  QuotesPriced'
  <2> DEFINE items == req[w].items
             row == [actor |-> req[w].actor, version |-> req[w].version,
                     hash |-> Hash(items), amount |-> CartTotal(items),
                     status |-> "active", expired |-> FALSE]
  <2>1. quotes' = Append(quotes, row)
    BY <1>4 DEF CreateQuote
  <2>2. row.hash = Hash(items) /\ row.amount = CartTotal(items)
    OBVIOUS
  <2>3. items \in Seq(Row)
    BY SnapshotsAre DEF TypeInv, TypeOK, Request
  <2> HIDE DEF row, items
  <2>4. \A k \in DOMAIN quotes' : k \in DOMAIN quotes \/ quotes'[k] = row
    BY <2>1 DEF TypeInv, TypeOK
  <2> SUFFICES ASSUME NEW k \in DOMAIN quotes'
               PROVE  \E i \in Seq(Row) :
                        quotes'[k].hash = Hash(i) /\ quotes'[k].amount = CartTotal(i)
    BY DEF QuotesPriced
  <2>5. CASE k \in DOMAIN quotes
    BY <1>2, <2>5 DEF QuotesPriced
  <2>6. CASE quotes'[k] = row
    BY <2>2, <2>3, <2>6
  <2> QED
    BY <2>4, <2>5, <2>6
<1>5. Supersede \/ (\E k \in DOMAIN quotes : ExpireQuote(k))
        => DOMAIN quotes' = DOMAIN quotes
  BY DEF Supersede, ExpireQuote
<1> QED
  BY <1>3, <1>4, <1>5, QuotesStep

\* Hashes and amounts that stay.
LEMMA QuotesStay ==
    ASSUME TypeInv, [Next]_vars
    PROVE  \A k \in DOMAIN quotes : /\ k \in DOMAIN quotes'
                                    /\ quotes'[k].hash = quotes[k].hash
                                    /\ quotes'[k].amount = quotes[k].amount
<1>1. KeepsQuotes /\ \A k \in DOMAIN quotes : quotes[k] \in QuoteRow
  BY QuotesKept DEF TypeInv, TypeOK
<1> QED
  BY <1>1 DEF KeepsQuotes, QuoteRow

\* A checkout step that goes on past the validation of the quote.
LEMMA AsQuotedGoesOn ==
    ASSUME TypeInv, NEW w \in Worker, AsQuoted(w), CheckoutStep(w),
           pc'[w] \in QuotedLabel \cup {"validate"}
    PROVE  AsQuoted(w)'
<1>1. /\ req[w] \in Request /\ req[w].quote \in DOMAIN quotes
      /\ pc \in [Worker -> Label] /\ req \in [Worker -> Request]
  BY DEF CheckoutStep, ReadCart, ValidateQuote, BlockQuote, CheckLimits,
         BlockLimits, ReuseOrder, NeedOrder, SnapshotCart, FindCartEmpty,
         InsertOrder, LinkIssued, LinkFails, RecordLink, RecordFailure, Settle,
         TypeInv, TypeOK, WorkersPlaced, Placed, CheckoutPc
<1>2. CASE ReadCart(w)
  BY <1>1, <1>2 DEF ReadCart, AsQuoted, QuotedLabel, Goto, Request, database
<1>3. CASE ValidateQuote(w)
  <2>1. quotes[req[w].quote].hash = Hash(Items(cart))
    BY <1>3 DEF ValidateQuote, AsQuoted, Valid, QuoteMatchesCart
  <2>2. /\ pc'[w] = "limits" /\ req'[w].quote = req[w].quote
        /\ UNCHANGED <<cart, quotes>>
    BY <1>1, <1>3 DEF ValidateQuote, Goto, Request, database
  <2> QED
    BY <2>1, <2>2 DEF AsQuoted
<1>4. CASE CheckLimits(w) \/ NeedOrder(w)
  BY <1>1, <1>4 DEF CheckLimits, NeedOrder, AsQuoted, QuotedLabel, Goto, database
<1>5. CASE ReuseOrder(w) \/ SnapshotCart(w)
  <2>1. /\ pc[w] \in QuotedLabel /\ req'[w].quote = req[w].quote
        /\ UNCHANGED <<cart, quotes>>
        /\ pc'[w] # "validate" /\ (pc'[w] = "insert" => req'[w].items = Items(cart))
    BY <1>1, <1>5 DEF ReuseOrder, SnapshotCart, QuotedLabel, Goto, Request, database
  <2> QED
    BY <2>1 DEF AsQuoted
<1>6. CASE InsertOrder(w)
  <2>1. /\ pc[w] \in QuotedLabel /\ req'[w].quote = req[w].quote
        /\ UNCHANGED <<cart, quotes>> /\ pc'[w] = "razorpay"
    BY <1>1, <1>6 DEF InsertOrder, QuotedLabel, Goto, Request
  <2> QED
    BY <2>1 DEF AsQuoted
<1>7. CASE BlockQuote(w) \/ BlockLimits(w) \/ FindCartEmpty(w) \/ RecordFailure(w)
             \/ Settle(w)
  BY <1>1, <1>7
  DEF BlockQuote, BlockLimits, FindCartEmpty, RecordFailure, Settle, Answer, QuotedLabel
<1>8. CASE LinkIssued(w) \/ LinkFails(w) \/ RecordLink(w)
  BY <1>1, <1>8 DEF LinkIssued, LinkFails, RecordLink, Goto, QuotedLabel
<1> QED
  BY <1>2, <1>3, <1>4, <1>5, <1>6, <1>7, <1>8 DEF CheckoutStep

LEMMA AsQuotedStep ==
    ASSUME OneAtATime, TypeInv, [Next]_vars, NEW w \in Worker, AsQuoted(w)
    PROVE  AsQuoted(w)'
<1> DEFINE away == Label \ (QuotedLabel \cup {"validate"})
<1>1. ASSUME Moves(w, away) PROVE AsQuoted(w)'
  BY <1>1 DEF Moves, AsQuoted, QuotedLabel
<1>2. CASE CartStep(w) \/ QuoteStep(w)
  <2>1. Moves(w, away)
    BY <1>2, CartMoves, QuoteMoves
    DEF TypeInv, Moves, Label, CartPc, QuotePc, CheckoutPc, QuotedLabel
  <2> QED
    BY <1>1, <2>1
<1>3. CASE StartCart(w) \/ StartQuote(w) \/ StartCheckout(w) \/ Abort(w)
  <2>1. Moves(w, away)
    BY <1>3, StartMoves, AnswerMoves
    DEF TypeInv, Abort, Moves, Label, CartPc, QuotePc, CheckoutPc, QuotedLabel
  <2> QED
    BY <1>1, <2>1
<1>4. CASE CheckoutStep(w)
  BY <1>4, AsQuotedGoesOn DEF AsQuoted, QuotedLabel
<1>5. CASE UNCHANGED <<cart, version, pc, req>>
  <2>1. pc[w] \in QuotedLabel => req[w].quote \in DOMAIN quotes
    BY DEF TypeInv, WorkersPlaced, Placed, CheckoutPc, QuotedLabel
  <2> QED
    BY <1>5, <2>1, QuotesStay DEF AsQuoted
<1> QED
  BY <1>2, <1>3, <1>4, <1>5, SerialStep

\* The order carries the mandate over what its rows cost.
LEMMA VerifyStep ==
    ASSUME WholePaise, VerifyInv, [Next]_vars
    PROVE  OrdersVerify'
<1>1. CASE KeepsOrders
  BY <1>1 DEF VerifyInv, OrdersVerify, MandateVerifies, KeepsOrders
<1>2. ASSUME NEW w \in Worker, InsertOrder(w)
      PROVE  OrdersVerify'
  <2> DEFINE k == req[w].quote
             q == quotes[k]
             row == [actor |-> req[w].actor, hash |-> q.hash, items |-> req[w].items,
                     total |-> CartTotal(req[w].items), quote |-> k,
                     mandate |-> Sign(req[w].actor, q.hash, q.amount, k),
                     status |-> "created", link |-> 0]
  <2>1. k \in DOMAIN quotes /\ req[w].items = Items(cart) /\ q.hash = Hash(Items(cart))
    BY <1>2 DEF InsertOrder, VerifyInv, TypeInv, WorkersPlaced, Placed, CheckoutPc,
                AsQuoted, QuotedLabel
  <2>2. q.amount = CartTotal(req[w].items)
    BY <2>1, HashPrices DEF VerifyInv
  <2>3. MandateVerifies(row)
    BY <2>2 DEF MandateVerifies
  <2>4. orders' = Append(orders, row)
    BY <1>2 DEF InsertOrder
  <2> HIDE DEF row
  <2>5. \A o \in DOMAIN orders' : \/ o \in DOMAIN orders /\ orders'[o] = orders[o]
                                  \/ orders'[o] = row
    BY <2>4 DEF VerifyInv, TypeInv, TypeOK
  <2> QED
    BY <2>3, <2>5 DEF VerifyInv, OrdersVerify
<1> QED
  BY <1>1, <1>2, OrdersStep DEF VerifyInv

LEMMA VerifyInit == Init => VerifyInv
<1>1. Init => QuotesPriced /\ OrdersVerify
  BY DEF Init, QuotesPriced, OrdersVerify
<1>2. Init => \A w \in Worker : AsQuoted(w)
  BY DEF Init, AsQuoted, QuotedLabel
<1> QED
  BY <1>1, <1>2, TypeInit DEF VerifyInv

LEMMA VerifyNext ==
    ASSUME OneAtATime, WholePaise, VerifyInv, [Next]_vars
    PROVE  VerifyInv'
  BY TypeNext, PricedStep, AsQuotedStep, VerifyStep DEF VerifyInv

\* Every order's mandate verifies over the order's own actor, hash, total and
\* quote: what is charged is what was quoted and signed (create_payment_order
\* recomputes the total from the cart rows, app/commerce.py; the orders feed
\* re-verifies, app/mandate.py).  With other prices a crash that leaves a quote
\* open over another listing of the same hash would break it.
THEOREM MandatesVerify ==
    ASSUME OneAtATime, WholePaise
    PROVE  Spec => []OrdersVerify
<1>1. VerifyInv /\ [Next]_vars => VerifyInv'
  BY VerifyNext
<1>2. VerifyInv => OrdersVerify
  BY DEF VerifyInv
<1> QED
  BY VerifyInit, <1>1, <1>2, PTL DEF Spec

-----------------------------------------------------------------------------
(***************************************************************************)
(* One order per actor and snapshot.  A checkout that found no order still *)
(* finds none when it inserts one, since no other checkout runs meanwhile. *)
(***************************************************************************)
NoOrderYet(w) == pc[w] \in {"snapshot", "insert"} => Matching(w) = {}

SingleInv ==
    /\ TypeInv
    /\ \A w \in Worker : NoOrderYet(w)
    /\ OneOrderPerSnapshot

\* What a checkout matches depends on its actor, its quote and the orders.
LEMMA MatchingKept ==
    ASSUME TypeInv, [Next]_vars, NEW w \in Worker, req[w].quote \in DOMAIN quotes,
           KeepsOrders, req'[w].actor = req[w].actor, req'[w].quote = req[w].quote
    PROVE  Matching(w)' = Matching(w)
<1>1. quotes'[req'[w].quote].hash = quotes[req[w].quote].hash
  BY QuotesStay
<1> QED
  BY <1>1 DEF KeepsOrders, Matching, OrdersFor

LEMMA NoOrderYetStep ==
    ASSUME OneAtATime, TypeInv, [Next]_vars, NEW w \in Worker, NoOrderYet(w)
    PROVE  NoOrderYet(w)'
<1> SUFFICES ASSUME pc'[w] \in {"snapshot", "insert"}
             PROVE  Matching(w)' = {}
  BY DEF NoOrderYet
<1>1. /\ pc \in [Worker -> Label] /\ req \in [Worker -> Request]
      /\ PastLimits(w)' /\ PastLimits(w)
      /\ req'[w].actor = req[w].actor /\ req'[w].quote = req[w].quote
  <2>1. PastLimits(w)'
    BY DEF PastLimits
  <2>2. ~CheckLimits(w)
    BY DEF CheckLimits, Goto, TypeInv, TypeOK
  <2> QED
    BY <2>1, <2>2, PastLimitsStep DEF TypeInv, TypeOK
<1>2. req[w].quote \in DOMAIN quotes
  BY <1>1 DEF PastLimits, TypeInv, WorkersPlaced, Placed, CheckoutPc
<1>3. KeepsOrders
  <2>1. ~InsertOrder(w)
    BY <1>1 DEF InsertOrder, Goto
  <2> QED
    BY <2>1, OrdersStep DEF OneAtATime
<1>4. Matching(w) = {}
  <2>1. CASE NeedOrder(w)
    BY <2>1 DEF NeedOrder
  <2>2. CASE SnapshotCart(w)
    BY <2>2 DEF SnapshotCart, NoOrderYet
  <2>3. CASE UNCHANGED pc
    BY <2>3 DEF NoOrderYet
  <2>4. CASE CheckoutStep(w) /\ ~NeedOrder(w) /\ ~SnapshotCart(w)
    <3>1. ~LinkIssued(w) /\ ~CheckLimits(w)
      BY <1>1 DEF LinkIssued, CheckLimits, Goto
    <3> QED
      BY <2>4, <3>1, CheckoutMoves DEF Moves, TypeInv
  <2>5. CASE CartStep(w) \/ QuoteStep(w)
    BY <2>5, CartMoves, QuoteMoves DEF Moves, TypeInv, CartPc, QuotePc
  <2>6. CASE StartCart(w) \/ StartQuote(w) \/ StartCheckout(w) \/ Abort(w)
    BY <2>6, StartMoves, AnswerMoves DEF Abort, Moves, TypeInv
  <2> QED
    BY <2>1, <2>2, <2>3, <2>4, <2>5, <2>6, SerialStep
<1> QED
  BY <1>1, <1>2, <1>3, <1>4, MatchingKept

LEMMA OneOrderStep ==
    ASSUME SingleInv, [Next]_vars
    PROVE  OneOrderPerSnapshot'
<1>1. CASE KeepsOrders
  BY <1>1 DEF SingleInv, OneOrderPerSnapshot, KeepsOrders
<1>2. ASSUME NEW w \in Worker, InsertOrder(w)
      PROVE  OneOrderPerSnapshot'
  <2> DEFINE k == req[w].quote
             q == quotes[k]
             row == [actor |-> req[w].actor, hash |-> q.hash, items |-> req[w].items,
                     total |-> CartTotal(req[w].items), quote |-> k,
                     mandate |-> Sign(req[w].actor, q.hash, q.amount, k),
                     status |-> "created", link |-> 0]
  <2>1. \A o \in DOMAIN orders : ~(orders[o].actor = row.actor /\ orders[o].hash = row.hash)
    BY <1>2 DEF InsertOrder, SingleInv, NoOrderYet, Matching, OrdersFor
  <2>2. orders' = Append(orders, row)
    BY <1>2 DEF InsertOrder
  <2> HIDE DEF row
  <2>3. \A o \in DOMAIN orders' : \/ o \in DOMAIN orders /\ orders'[o] = orders[o]
                                  \/ o = Len(orders) + 1 /\ orders'[o] = row
    BY <2>2 DEF SingleInv, TypeInv, TypeOK
  <2> QED
    BY <2>1, <2>3 DEF SingleInv, OneOrderPerSnapshot
<1> QED
  BY <1>1, <1>2, OrdersStep DEF SingleInv

LEMMA SingleInit == Init => SingleInv
<1>1. Init => OneOrderPerSnapshot /\ \A w \in Worker : NoOrderYet(w)
  BY DEF Init, OneOrderPerSnapshot, NoOrderYet
<1> QED
  BY <1>1, TypeInit DEF SingleInv

LEMMA SingleNext ==
    ASSUME OneAtATime, SingleInv, [Next]_vars
    PROVE  SingleInv'
  BY TypeNext, NoOrderYetStep, OneOrderStep DEF SingleInv

\* create_payment_order is idempotent: however often a checkout is retried,
\* dies or is refused by Razorpay, an actor has one order per snapshot
\* (app/commerce.py looks the order up by actor and hash before it inserts).
THEOREM OneOrderForASnapshot ==
    ASSUME OneAtATime
    PROVE  Spec => []OneOrderPerSnapshot
<1>1. SingleInv /\ [Next]_vars => SingleInv'
  BY SingleNext
<1>2. SingleInv => OneOrderPerSnapshot
  BY DEF SingleInv
<1> QED
  BY SingleInit, <1>1, <1>2, PTL DEF Spec

-----------------------------------------------------------------------------
(* What a step makes of one order and of one link. *)

LEMMA OrderAfter ==
    ASSUME TypeInv, [Next]_vars, NEW o \in DOMAIN orders'
    PROVE  \/ /\ o \notin DOMAIN orders
              /\ orders'[o].link = 0 /\ orders'[o].status = "created"
           \/ /\ o \in DOMAIN orders
              /\ orders'[o].link = orders[o].link
              /\ orders'[o].status = orders[o].status
           \/ \E w \in Worker :
                /\ RecordLink(w) /\ o = req[w].order /\ o \in DOMAIN orders
                /\ orders'[o].link = req[w].link
                /\ orders'[o].status = orders[o].status
           \/ \E w \in Worker :
                /\ RecordFailure(w) /\ o = req[w].order /\ o \in DOMAIN orders
                /\ orders'[o].link = orders[o].link
           \/ \E l \in DOMAIN links :
                /\ Webhook(l) /\ o \in DOMAIN orders
                /\ orders[o].link = l /\ orders'[o].link = l
                /\ orders'[o].status = CASE links[l].state = "paid" -> "paid"
                                         [] links[l].state = "expired" -> "failed"
                                         [] OTHER -> orders[o].status
<1>1. \A p \in DOMAIN orders : orders[p] \in OrderRow
  BY DEF TypeInv, TypeOK
<1>2. ASSUME NEW w \in Worker, InsertOrder(w)
      PROVE  \/ o \in DOMAIN orders /\ orders'[o] = orders[o]
             \/ /\ o \notin DOMAIN orders
                /\ orders'[o].link = 0 /\ orders'[o].status = "created"
  BY <1>2 DEF InsertOrder, TypeInv, TypeOK
<1>3. ASSUME NEW w \in Worker, RecordLink(w)
      PROVE  \/ o \in DOMAIN orders /\ orders'[o] = orders[o]
             \/ /\ o = req[w].order /\ o \in DOMAIN orders
                /\ orders'[o].link = req[w].link
                /\ orders'[o].status = orders[o].status
  BY <1>1, <1>3 DEF RecordLink, OrderRow
<1>4. ASSUME NEW w \in Worker, RecordFailure(w)
      PROVE  \/ o \in DOMAIN orders /\ orders'[o] = orders[o]
             \/ /\ o = req[w].order /\ o \in DOMAIN orders
                /\ orders'[o].link = orders[o].link
  BY <1>1, <1>4 DEF RecordFailure, OrderRow
<1>5. ASSUME NEW l \in DOMAIN links, Webhook(l)
      PROVE  \/ o \in DOMAIN orders /\ orders'[o] = orders[o]
             \/ /\ o \in DOMAIN orders
                /\ orders[o].link = l /\ orders'[o].link = l
                /\ orders'[o].status = CASE links[l].state = "paid" -> "paid"
                                         [] links[l].state = "expired" -> "failed"
                                         [] OTHER -> orders[o].status
  <2> DEFINE new == CASE links[l].state = "paid" -> "paid"
                      [] links[l].state = "expired" -> "failed"
                      [] OTHER -> orders[o].status
  <2>1. o \in DOMAIN orders
    BY <1>5 DEF Webhook
  <2>2. orders'[o] = IF orders[o].link # l THEN orders[o]
                     ELSE [orders[o] EXCEPT !.status = new]
    BY <1>5, <2>1 DEF Webhook
  <2> HIDE DEF new
  <2>3. orders[o].link = l =>
          orders'[o].link = l /\ orders'[o].status = new
    BY <1>1, <2>1, <2>2 DEF OrderRow
  <2>4. orders[o].link # l => orders'[o] = orders[o]
    BY <2>2
  <2> QED
    BY <2>1, <2>3, <2>4 DEF new
<1> QED
  BY <1>2, <1>3, <1>4, <1>5, OrdersTouched

LEMMA LinkAfter ==
    ASSUME TypeInv, [Next]_vars, NEW l \in DOMAIN links'
    PROVE  \/ /\ l \notin DOMAIN links /\ l = Len(links) + 1
              /\ \E w \in Worker :
                   /\ LinkIssued(w) \/ LinkFails(w)
                   /\ links'[l] = [order |-> req[w].order,
                                   amount |-> orders[req[w].order].total,
                                   state |-> "open", known |-> FALSE]
           \/ /\ l \in DOMAIN links
              /\ links'[l].known = links[l].known
              /\ links[l].state # "open" => links'[l].state = links[l].state
           \/ /\ l \in DOMAIN links
              /\ \E w \in Worker : RecordLink(w) /\ l = req[w].link
              /\ links'[l].state = links[l].state
<1>1. \A m \in DOMAIN links : links[m] \in Link
  BY DEF TypeInv, TypeOK
<1>2. ASSUME NEW w \in Worker, LinkIssued(w) \/ LinkFails(w), links' # links
      PROVE  \/ l \in DOMAIN links /\ links'[l] = links[l]
             \/ /\ l \notin DOMAIN links /\ l = Len(links) + 1
                /\ links'[l] = [order |-> req[w].order,
                                amount |-> orders[req[w].order].total,
                                state |-> "open", known |-> FALSE]
  <2> DEFINE link == [order |-> req[w].order, amount |-> orders[req[w].order].total,
                      state |-> "open", known |-> FALSE]
  <2>1. links' = Append(links, link)
    BY <1>2 DEF LinkIssued, LinkFails, NewLink
  <2> HIDE DEF link
  <2>2. \/ l \in DOMAIN links /\ links'[l] = links[l]
        \/ l \notin DOMAIN links /\ l = Len(links) + 1 /\ links'[l] = link
    BY <2>1 DEF TypeInv, TypeOK
  <2> QED
    BY <2>2 DEF link
<1>3. ASSUME NEW w \in Worker, RecordLink(w)
      PROVE  /\ l \in DOMAIN links /\ links'[l].state = links[l].state
             /\ links'[l].known = links[l].known \/ l = req[w].link
  BY <1>1, <1>3 DEF RecordLink, Link
<1>4. ASSUME NEW m \in DOMAIN links, EndLink(m)
      PROVE  /\ l \in DOMAIN links
             /\ links'[l].known = links[l].known
             /\ links[l].state # "open" => links'[l].state = links[l].state
  BY <1>1, <1>4 DEF EndLink, Link
<1> QED
  BY <1>2, <1>3, <1>4, LinksTouched

-----------------------------------------------------------------------------
(***************************************************************************)
(* Links.  An order that a checkout asks a link for, or is about to mark   *)
(* as failed, has none: it was inserted by this checkout or reused because *)
(* it had none, and nobody else gives it one meanwhile.  So the link an    *)
(* order knows never changes, a buyer never holds another one, and an      *)
(* order that is paid knows the link that was.                             *)
(***************************************************************************)
LinkAtHand(w) ==
    pc[w] \in {"razorpay", "record", "fail"} => orders[req[w].order].link = 0

LinksNameOrders == \A l \in DOMAIN links : links[l].order \in DOMAIN orders

PaidByItsLink ==
    \A o \in DOMAIN orders : orders[o].status = "paid" =>
        orders[o].link # 0 /\ links[orders[o].link].state = "paid"

OwnedInv ==
    /\ PaidInv
    /\ \A w \in Worker : LinkAtHand(w)
    /\ LinksNameOrders
    /\ KnownLinksOwned
    /\ PaidByItsLink

\* Every link names an order, for any number of workers.
LEMMA LinksNameOrdersStep ==
    ASSUME TypeInv, LinksNameOrders, [Next]_vars
    PROVE  LinksNameOrders'
<1> SUFFICES ASSUME NEW l \in DOMAIN links'
             PROVE  links'[l].order \in DOMAIN orders'
  BY DEF LinksNameOrders
<1>1. DOMAIN orders \subseteq DOMAIN orders'
  <2>1. ASSUME NEW w \in Worker, InsertOrder(w)
        PROVE  DOMAIN orders \subseteq DOMAIN orders'
    BY <2>1 DEF InsertOrder, TypeInv, TypeOK
  <2> QED
    BY <2>1, OrdersStep DEF KeepsOrders
<1>2. CASE l \in DOMAIN links
  BY <1>1, <1>2, LinksKept DEF KeepsLinks, LinksNameOrders
<1>3. CASE l \notin DOMAIN links
  <2>1. PICK w \in Worker :
          /\ LinkIssued(w) \/ LinkFails(w)
          /\ links'[l] = [order |-> req[w].order, amount |-> orders[req[w].order].total,
                          state |-> "open", known |-> FALSE]
    BY <1>3, LinkAfter
  <2>2. req[w].order \in DOMAIN orders
    BY <2>1 DEF LinkIssued, LinkFails, TypeInv, WorkersPlaced, Placed
  <2> QED
    BY <1>1, <2>1, <2>2
<1> QED
  BY <1>2, <1>3

LEMMA LinkAtHandStep ==
    ASSUME OneAtATime, TypeInv, [Next]_vars, NEW w \in Worker, LinkAtHand(w)
    PROVE  LinkAtHand(w)'
<1> DEFINE at == {"razorpay", "record", "fail"}
<1>1. /\ pc \in [Worker -> Label] /\ req \in [Worker -> Request]
      /\ pc[w] \in at => req[w].order \in DOMAIN orders
  BY DEF TypeInv, TypeOK, WorkersPlaced, Placed
<1>2. ASSUME Moves(w, Label \ at) PROVE LinkAtHand(w)'
  BY <1>2 DEF Moves, LinkAtHand
<1>3. CASE CartStep(w) \/ QuoteStep(w)
  <2>1. Moves(w, Label \ at)
    BY <1>3, CartMoves, QuoteMoves DEF TypeInv, Moves, Label, CartPc, QuotePc
  <2> QED
    BY <1>2, <2>1
<1>4. CASE StartCart(w) \/ StartQuote(w) \/ StartCheckout(w) \/ Abort(w)
  <2>1. Moves(w, Label \ at)
    BY <1>4, StartMoves, AnswerMoves
    DEF TypeInv, Abort, Moves, Label, CartPc, QuotePc, CheckoutPc
  <2> QED
    BY <1>2, <2>1
<1>5. CASE InsertOrder(w)
  <2>1. Len(orders) + 1 \in DOMAIN orders' /\ Len(orders) + 1 \notin DOMAIN orders
    BY <1>5 DEF InsertOrder, TypeInv, TypeOK
  <2>2. orders'[Len(orders) + 1].link = 0
    <3>1. ~RecordLink(w) /\ ~RecordFailure(w)
      BY <1>5 DEF InsertOrder, RecordLink, RecordFailure
    <3> QED
      BY <2>1, <3>1, OrderAfter DEF OneAtATime
  <2>3. req'[w].order = Len(orders) + 1
    BY <1>1, <1>5 DEF InsertOrder, Request
  <2> QED
    BY <2>2, <2>3 DEF LinkAtHand
<1>6. CASE ReuseOrder(w)
  BY <1>1, <1>6 DEF ReuseOrder, LinkAtHand, Goto, Request, database
<1>7. CASE LinkIssued(w) \/ LinkFails(w)
  <2>1. /\ UNCHANGED orders /\ pc[w] = "razorpay" /\ req'[w].order = req[w].order
    BY <1>1, <1>7 DEF LinkIssued, LinkFails, Request
  <2> QED
    BY <2>1 DEF LinkAtHand
<1>8. CASE ReadCart(w) \/ ValidateQuote(w) \/ CheckLimits(w) \/ NeedOrder(w)
             \/ SnapshotCart(w) \/ RecordLink(w)
  BY <1>1, <1>8 DEF ReadCart, ValidateQuote, CheckLimits, NeedOrder, SnapshotCart,
                    RecordLink, Goto, LinkAtHand
<1>9. CASE BlockQuote(w) \/ BlockLimits(w) \/ FindCartEmpty(w) \/ RecordFailure(w)
             \/ Settle(w)
  BY <1>1, <1>9 DEF BlockQuote, BlockLimits, FindCartEmpty, RecordFailure, Settle,
                    Answer, LinkAtHand
<1>10. CASE UNCHANGED <<cart, version, pc, req>>
  <2> SUFFICES ASSUME pc[w] \in at
               PROVE  orders'[req[w].order].link = 0
    BY <1>10 DEF LinkAtHand
  <2>1. ~InsertOrder(w) /\ ~RecordLink(w) /\ ~RecordFailure(w)
    BY <1>1, <1>10 DEF InsertOrder, RecordLink, RecordFailure, Goto, Answer
  <2>2. req[w].order \in DOMAIN orders'
    BY <1>1, <2>1, OrdersStep DEF OneAtATime, KeepsOrders
  <2>3. \A l \in DOMAIN links : l # 0
    BY DEF TypeInv, TypeOK
  <2> QED
    BY <1>1, <2>1, <2>2, <2>3, OrderAfter DEF OneAtATime, LinkAtHand
<1> QED
  BY <1>3, <1>4, <1>5, <1>6, <1>7, <1>8, <1>9, <1>10, SerialStep DEF CheckoutStep

LEMMA KnownLinksStep ==
    ASSUME OwnedInv, [Next]_vars
    PROVE  KnownLinksOwned'
<1> SUFFICES ASSUME NEW l \in DOMAIN links', links'[l].known
             PROVE  orders'[links'[l].order].link = l
  BY DEF KnownLinksOwned
<1>1. l \in DOMAIN links /\ links'[l].order = links[l].order
  BY LinkAfter, LinksKept DEF OwnedInv, PaidInv, KeepsLinks
<1> DEFINE o == links[l].order
<1>2. o \in DOMAIN orders /\ o \in DOMAIN orders'
  <2>1. o \in DOMAIN orders
    BY <1>1 DEF OwnedInv, LinksNameOrders
  <2>2. ASSUME NEW w \in Worker, InsertOrder(w)
        PROVE  DOMAIN orders \subseteq DOMAIN orders'
    BY <2>2 DEF InsertOrder, OwnedInv, PaidInv, TypeInv, TypeOK
  <2> QED
    BY <2>1, <2>2, OrdersStep DEF OwnedInv, PaidInv, KeepsOrders
<1>3. CASE links[l].known
  <2>1. orders[o].link = l /\ l # 0
    BY <1>1, <1>3 DEF OwnedInv, PaidInv, TypeInv, TypeOK, KnownLinksOwned
  <2>2. ASSUME NEW w \in Worker, RecordLink(w) PROVE o # req[w].order
    BY <2>1, <2>2 DEF RecordLink, OwnedInv, LinkAtHand
  <2> QED
    BY <1>1, <1>2, <2>1, <2>2, OrderAfter DEF OwnedInv, PaidInv
<1>4. CASE ~links[l].known
  <2>1. PICK w \in Worker : RecordLink(w) /\ l = req[w].link
    BY <1>1, <1>4, LinkAfter DEF OwnedInv, PaidInv
  <2>2. o = req[w].order
    BY <2>1 DEF RecordLink, OwnedInv, PaidInv, LinksBelong
  <2>3. orders[o] \in OrderRow
    BY <1>2 DEF OwnedInv, PaidInv, TypeInv, TypeOK
  <2>4. orders'[o].link = l
    BY <1>2, <2>1, <2>2, <2>3 DEF RecordLink, OrderRow
  <2> QED
    BY <1>1, <2>4
<1> QED
  BY <1>3, <1>4

LEMMA PaidByItsLinkStep ==
    ASSUME OwnedInv, [Next]_vars
    PROVE  PaidByItsLink'
<1> SUFFICES ASSUME NEW o \in DOMAIN orders', orders'[o].status = "paid"
             PROVE  orders'[o].link # 0 /\ links'[orders'[o].link].state = "paid"
  BY DEF PaidByItsLink
<1>1. KeepsLinks /\ \A l \in DOMAIN links : l # 0
  BY LinksKept DEF OwnedInv, PaidInv, TypeInv, TypeOK
<1>2. ASSUME o \in DOMAIN orders, orders[o].status = "paid"
      PROVE  /\ orders[o].link # 0 /\ orders[o].link \in DOMAIN links
             /\ links[orders[o].link].state = "paid"
  BY <1>2 DEF OwnedInv, PaidInv, PaidByItsLink, LinksBelong
<1>3. ASSUME NEW w \in Worker, RecordLink(w) \/ RecordFailure(w), o = req[w].order,
             o \in DOMAIN orders
      PROVE  orders[o].link = 0
  BY <1>3 DEF RecordLink, RecordFailure, OwnedInv, LinkAtHand
<1>4. ASSUME NEW w \in Worker, RecordFailure(w), o = req[w].order, o \in DOMAIN orders
      PROVE  orders'[o].status # "paid"
  <2>1. orders[o] \in OrderRow /\ orders[o].status # "paid"
    BY <1>2, <1>3, <1>4 DEF OwnedInv, PaidInv, TypeInv, TypeOK
  <2> QED
    BY <1>4, <2>1 DEF RecordFailure, OrderRow
<1>5. ASSUME NEW l \in DOMAIN links, orders'[o].link = l, links[l].state = "paid"
      PROVE  orders'[o].link # 0 /\ links'[orders'[o].link].state = "paid"
  BY <1>1, <1>5 DEF KeepsLinks
<1> QED
  BY <1>1, <1>2, <1>3, <1>4, <1>5, OrderAfter DEF OwnedInv, PaidInv, KeepsLinks

LEMMA OwnedInit == Init => OwnedInv
<1>1. Init => PaidInv
  <2>1. Init => LinksBelong /\ PaidMeansPaid
    BY DEF Init, LinksBelong, PaidMeansPaid
  <2> QED
    BY <2>1, TypeInit DEF PaidInv
<1>2. Init => /\ \A w \in Worker : LinkAtHand(w)
              /\ LinksNameOrders /\ KnownLinksOwned /\ PaidByItsLink
  BY DEF Init, LinkAtHand, LinksNameOrders, KnownLinksOwned, PaidByItsLink
<1> QED
  BY <1>1, <1>2 DEF OwnedInv

LEMMA OwnedNext ==
    ASSUME OneAtATime, OwnedInv, [Next]_vars
    PROVE  OwnedInv'
<1>1. PaidInv'
  BY TypeNext, LinksBelongStep, PaidStep DEF OwnedInv, PaidInv
<1>2. LinksNameOrders' /\ \A w \in Worker : LinkAtHand(w)'
  BY LinksNameOrdersStep, LinkAtHandStep DEF OwnedInv, PaidInv
<1> QED
  BY <1>1, <1>2, KnownLinksStep, PaidByItsLinkStep DEF OwnedInv

\* Every link whose URL a buyer may hold is the one its order knows, so the
\* report of its payment finds the order, even when requests die between two
\* steps or Razorpay's answer is lost (execute_payment in app/commerce.py).
THEOREM KnownLinksAreOwned ==
    ASSUME OneAtATime
    PROVE  Spec => []KnownLinksOwned
<1>1. OwnedInv /\ [Next]_vars => OwnedInv'
  BY OwnedNext
<1>2. OwnedInv => KnownLinksOwned
  BY DEF OwnedInv
<1> QED
  BY OwnedInit, <1>1, <1>2, PTL DEF Spec

\* A paid order stays paid: neither a retried checkout that fails nor a late
\* or repeated report of another outcome takes the payment back
\* (razorpay_webhook in app/main.py, execute_payment in app/commerce.py).
THEOREM PaymentsAreFinal ==
    ASSUME OneAtATime
    PROVE  Spec => PaidIsFinal
<1> DEFINE Final == \A o \in DOMAIN orders :
                      orders[o].status = "paid" => orders'[o].status = "paid"
<1>1. OwnedInv /\ [Next]_vars => OwnedInv'
  BY OwnedNext
<1>2. ASSUME OwnedInv, [Next]_vars
      PROVE  Final
  <2> SUFFICES ASSUME NEW o \in DOMAIN orders, orders[o].status = "paid"
               PROVE  orders'[o].status = "paid"
    OBVIOUS
  <2>1. o \in DOMAIN orders'
    <3>1. ASSUME NEW w \in Worker, InsertOrder(w)
          PROVE  DOMAIN orders \subseteq DOMAIN orders'
      BY <3>1 DEF InsertOrder, OwnedInv, PaidInv, TypeInv, TypeOK
    <3> QED
      BY <1>2, <3>1, OrdersStep DEF OwnedInv, PaidInv, KeepsOrders
  <2>2. orders[o].link # 0 /\ links[orders[o].link].state = "paid"
    BY <1>2 DEF OwnedInv, PaidByItsLink
  <2>3. ASSUME NEW w \in Worker, RecordFailure(w) PROVE o # req[w].order
    BY <1>2, <2>2, <2>3 DEF RecordFailure, OwnedInv, LinkAtHand
  <2> QED
    BY <1>2, <2>1, <2>2, <2>3, OrderAfter DEF OwnedInv, PaidInv
<1> QED
  BY OwnedInit, <1>1, <1>2, PTL DEF Spec, PaidIsFinal

-----------------------------------------------------------------------------
(***************************************************************************)
(* The cart.  When a cart operation commits, the row it has loaded is      *)
(* still the row of its SKU, so it neither adds a second one nor counts    *)
(* the stock from an old quantity.                                         *)
(***************************************************************************)
LoadedNow(w) == pc[w] = "write" =>
    req[w].loaded \in Loads(cart, CurrentCall(req[w]).sku)

RowsInv ==
    /\ TypeInv
    /\ \A w \in Worker : LoadedNow(w)
    /\ OneRowPerSku
    /\ WithinStock

\* What a call writes over the row it has just loaded: its SKU's only row,
\* within the stock.
LEMMA FlushNow ==
    ASSUME NEW c \in Cart, NEW call \in Call, NEW l \in Loads(c, call.sku),
           call.kind # "unknown", ~Refuses(call, l), Wanted(call, l).qty <= MaxQty,
           NEW i \in RowId, Flush(c, l, Wanted(call, l))[i] \notin {NoRow, c[i]}
    PROVE  LET row == Flush(c, l, Wanted(call, l))[i]
           IN  /\ row.sku = call.sku
               /\ i = IF l.id = 0 THEN TopId(c) + 1 ELSE l.id
               /\ call.sku \in Merchant => row.qty <= Stock[call.sku]
<1> DEFINE r == Wanted(call, l)
<1>1. \/ l = NothingLoaded
      \/ /\ l.id \in RowId /\ l.id # 0 /\ l.row = c[l.id] /\ l.row \in Row
         /\ l.row.sku = call.sku
  BY DataAssumption DEF Loads, RowsOf, Cart, RowId
<1>2. r # NoRow
  <2>1. ASSUME r = NoRow PROVE Flush(c, l, r)[i] \in {NoRow, c[i]}
    BY <2>1 DEF Flush
  <2> QED
    BY <2>1
<1>3. r \in Row
  <2>1. l \in Loaded
    BY DEF Loads, Loaded, RowsOf, Cart
  <2> QED
    BY <1>2, <2>1, WantedType
<1>4. r.sku = call.sku
  BY <1>2 DEF Wanted
<1>5. call.sku \in Merchant => r.qty <= Stock[call.sku]
  <2>1. CASE call.kind = "add"
    <3>1. call.qty \in Int /\ l.row.qty \in Int
      BY <1>1 DEF NothingLoaded, NoRow, Row, Call, CallRecord
    <3>2. r.qty = l.row.qty + call.qty
      BY <1>2, <2>1 DEF Wanted
    <3> QED
      BY <2>1, <3>1, <3>2, DataAssumption DEF Refuses
  <2>2. CASE call.kind = "set"
    BY <1>2, <2>2, DataAssumption DEF Wanted, Refuses, Call, CallRecord
  <2>3. CASE call.kind = "addref"
    BY <2>3, DataAssumption DEF Call
  <2>4. call.kind # "remove"
    BY <1>2 DEF Wanted
  <2> QED
    BY <2>1, <2>2, <2>3, <2>4 DEF Call, CallRecord
<1>6. CASE l.id = 0
  <2>1. Flush(c, l, r) = [c EXCEPT ![TopId(c) + 1] = r]
    BY <1>2, <1>6 DEF Flush
  <2>2. i = TopId(c) + 1 /\ Flush(c, l, r)[i] = r
    BY <2>1 DEF Cart
  <2> QED
    BY <1>4, <1>5, <1>6, <2>2
<1>7. CASE l.id # 0
  <2> DEFINE new == [sku   |-> c[l.id].sku,
                     qty   |-> IF r.qty # l.row.qty THEN r.qty ELSE c[l.id].qty,
                     price |-> IF r.price # l.row.price THEN r.price
                               ELSE c[l.id].price]
  <2>1. l.id \in RowId /\ l.row = c[l.id] /\ l.row.sku = call.sku
    BY <1>1, <1>7 DEF NothingLoaded
  <2>2. Flush(c, l, r) = [c EXCEPT ![l.id] = new]
    BY <1>2, <1>7, <2>1 DEF Flush, Cart
  <2>3. i = l.id /\ Flush(c, l, r)[i] = new
    BY <2>2 DEF Cart
  <2>4. new.sku = call.sku /\ new.qty = r.qty
    BY <2>1
  <2> QED
    BY <1>5, <1>7, <2>3, <2>4
<1> QED
  BY <1>6, <1>7

LEMMA LoadedNowStep ==
    ASSUME OneAtATime, TypeInv, [Next]_vars, NEW w \in Worker, LoadedNow(w)
    PROVE  LoadedNow(w)'
<1>1. pc \in [Worker -> Label] /\ req \in [Worker -> Request]
  BY DEF TypeInv, TypeOK
<1>2. CASE ReadRow(w)
  <2>1. PICK l \in Loads(cart, CurrentCall(req[w]).sku) :
          req' = [req EXCEPT ![w].loaded = l]
    BY <1>2 DEF ReadRow
  <2>2. /\ req'[w].loaded = l /\ req'[w].drop = req[w].drop
        /\ req'[w].todo = req[w].todo
    BY <1>1, <2>1 DEF Request
  <2>3. CurrentCall(req'[w]) = CurrentCall(req[w])
    BY <2>2 DEF CurrentCall, NextDrop
  <2> QED
    BY <1>2, <2>2, <2>3 DEF ReadRow, LoadedNow, database
<1>3. CASE WriteRow(w) \/ SupersedeQuotes(w) \/ ReadVersion(w)
  BY <1>1, <1>3 DEF WriteRow, SupersedeQuotes, ReadVersion, Goto, LoadedNow
<1>4. CASE RefuseCall(w) \/ BumpVersion(w)
  <2>1. Moves(w, {"read", "items"})
    BY <1>4, ResumeMoves DEF RefuseCall, BumpVersion, FinishCall, TypeInv
  <2> QED
    BY <2>1 DEF Moves, LoadedNow
<1>5. CASE RejectItem(w) \/ WriteFails(w) \/ Abort(w)
  BY <1>5, AnswerMoves DEF RejectItem, WriteFails, Abort, Moves, TypeInv, LoadedNow
<1>6. CASE StartCart(w) \/ StartQuote(w) \/ StartCheckout(w) \/ QuoteStep(w)
  BY <1>6, StartMoves, QuoteMoves DEF Moves, TypeInv, LoadedNow, QuotePc
<1>7. CASE CheckoutStep(w)
  <2>1. CASE CheckLimits(w) \/ NeedOrder(w) \/ SnapshotCart(w) \/ LinkIssued(w)
    BY <1>1, <2>1 DEF CheckLimits, NeedOrder, SnapshotCart, LinkIssued, Goto, LoadedNow
  <2> QED
    BY <1>7, <2>1, CheckoutMoves DEF Moves, TypeInv, LoadedNow, CheckoutPc
<1>8. CASE UNCHANGED <<cart, version, pc, req>>
  BY <1>8 DEF LoadedNow
<1> QED
  BY <1>2, <1>3, <1>4, <1>5, <1>6, <1>7, <1>8, SerialStep DEF CartStep

\* A row of the cart after a step is one from before it, or the row that the
\* call at hand has just written.
LEMMA RowAfter ==
    ASSUME RowsInv, [Next]_vars, NEW i \in RowsOf(cart')
    PROVE  \/ i \in RowsOf(cart) /\ cart'[i] = cart[i]
           \/ \E w \in Worker :
                LET call == CurrentCall(req[w])
                    l    == req[w].loaded
                IN  /\ l \in Loads(cart, call.sku)
                    /\ cart'[i].sku = call.sku
                    /\ i = IF l.id = 0 THEN TopId(cart) + 1 ELSE l.id
                    /\ call.sku \in Merchant => cart'[i].qty <= Stock[call.sku]
<1>1. CASE UNCHANGED cart
  BY <1>1 DEF RowsOf
<1>2. ASSUME NEW w \in Worker, WriteRow(w), cart'[i] # cart[i]
      PROVE  LET call == CurrentCall(req[w])
                 l    == req[w].loaded
             IN  /\ l \in Loads(cart, call.sku)
                 /\ cart'[i].sku = call.sku
                 /\ i = IF l.id = 0 THEN TopId(cart) + 1 ELSE l.id
                 /\ call.sku \in Merchant => cart'[i].qty <= Stock[call.sku]
  <2> DEFINE call == CurrentCall(req[w])
             l    == req[w].loaded
  <2>1. /\ call \in Call /\ call.kind # "unknown" /\ ~Refuses(call, l)
        /\ l \in Loads(cart, call.sku)
    BY <1>2, CurrentCallType
    DEF WriteRow, RowsInv, LoadedNow, TypeInv, TypeOK, WorkersPlaced, Placed, CartPc
  <2>2. /\ cart' = Flush(cart, l, Wanted(call, l)) /\ Wanted(call, l).qty <= MaxQty
        /\ cart \in Cart
    BY <1>2 DEF WriteRow, RowsInv, TypeInv, TypeOK
  <2>3. i \in RowId /\ cart'[i] \notin {NoRow, cart[i]}
    BY <1>2 DEF RowsOf
  <2> HIDE DEF call, l
  <2>4. /\ cart'[i].sku = call.sku
        /\ i = IF l.id = 0 THEN TopId(cart) + 1 ELSE l.id
        /\ call.sku \in Merchant => cart'[i].qty <= Stock[call.sku]
    BY <2>1, <2>2, <2>3, FlushNow
  <2> QED
    BY <2>1, <2>4 DEF call, l
<1>3. ASSUME NEW w \in Worker, WriteRow(w), cart'[i] = cart[i]
      PROVE  i \in RowsOf(cart) /\ cart'[i] = cart[i]
  BY <1>3 DEF RowsOf
<1> QED
  BY <1>1, <1>2, <1>3, CartTouched

LEMMA RowsStep ==
    ASSUME OneAtATime, RowsInv, [Next]_vars
    PROVE  OneRowPerSku' /\ WithinStock'
<1>1. WithinStock'
  BY RowAfter DEF RowsInv, WithinStock
<1>2. ASSUME NEW i \in RowsOf(cart'), NEW j \in RowsOf(cart'),
             cart'[i].sku = cart'[j].sku
      PROVE  i = j
  <2>1. ASSUME NEW m \in RowsOf(cart), NEW s, NEW l \in Loads(cart, s), cart[m].sku = s
        PROVE  l.id # 0 /\ l.id \in RowsOf(cart) /\ cart[l.id].sku = s
    BY <2>1 DEF Loads, RowsOf, RowId
  <2>2. ASSUME NEW m \in RowsOf(cart), NEW n \in RowsOf(cart), cart[m].sku = cart[n].sku
        PROVE  m = n
    BY <2>2 DEF RowsInv, OneRowPerSku
  <2> QED
    BY <1>2, <2>1, <2>2, RowAfter DEF OneAtATime
<1> QED
  BY <1>1, <1>2 DEF OneRowPerSku

LEMMA RowsInit == Init => RowsInv
<1>1. Init => RowsOf(cart) = {}
  BY DEF Init, RowsOf, EmptyCart
<1>2. Init => OneRowPerSku /\ WithinStock
  BY <1>1 DEF OneRowPerSku, WithinStock
<1>3. Init => \A w \in Worker : LoadedNow(w)
  BY DEF Init, LoadedNow
<1> QED
  BY <1>2, <1>3, TypeInit DEF RowsInv

LEMMA RowsNext ==
    ASSUME OneAtATime, RowsInv, [Next]_vars
    PROVE  RowsInv'
  BY TypeNext, LoadedNowStep, RowsStep DEF RowsInv

\* A SKU has at most one row: adding it again bumps the quantity of that row,
\* although the table has no unique constraint (_mutate and
\* add_reference_to_cart in app/commerce.py).
THEOREM RowsAreUnique ==
    ASSUME OneAtATime
    PROVE  Spec => []OneRowPerSku
<1>1. RowsInv /\ [Next]_vars => RowsInv'
  BY RowsNext
<1>2. RowsInv => OneRowPerSku
  BY DEF RowsInv
<1> QED
  BY RowsInit, <1>1, <1>2, PTL DEF Spec

\* No merchant row ever asks for more units than the catalogue has, whatever
\* sequence of additions and changes led to it (the stock check of _mutate).
THEOREM StockIsRespected ==
    ASSUME OneAtATime
    PROVE  Spec => []WithinStock
<1>1. RowsInv /\ [Next]_vars => RowsInv'
  BY RowsNext
<1>2. RowsInv => WithinStock
  BY DEF RowsInv
<1> QED
  BY RowsInit, <1>1, <1>2, PTL DEF Spec

-----------------------------------------------------------------------------
(***************************************************************************)
(* Open quotes are current, as long as no request dies half-way.  Between  *)
(* the commit of a row and the superseding of the quotes the open quotes   *)
(* are stale; from there until the version is written none is open.        *)
(***************************************************************************)
Stamped(w) ==
    /\ pc[w] \in {"stamp", "quote"} => req[w].items = Items(cart)
    /\ pc[w] = "quote" => req[w].version = version

OpenQuotes ==
    \A k \in DOMAIN quotes, w \in Worker : quotes[k].status = "active" =>
        /\ pc[w] \notin {"version", "bump"}
        /\ pc[w] # "supersede" =>
             /\ quotes[k].hash = Hash(Items(cart))
             /\ quotes[k].amount = CartTotal(Items(cart))
             /\ quotes[k].version = version

CurrentInv ==
    /\ TypeInv
    /\ \A w \in Worker : Stamped(w)
    /\ OpenQuotes

LEMMA StampedStep ==
    ASSUME OneAtATime, TypeInv, [Next]_vars, NEW w \in Worker, Stamped(w)
    PROVE  Stamped(w)'
<1>1. pc \in [Worker -> Label] /\ req \in [Worker -> Request]
  BY DEF TypeInv, TypeOK
<1>2. CASE ReadItems(w) \/ StampVersion(w)
  BY <1>1, <1>2 DEF ReadItems, StampVersion, Goto, Stamped, Request, database
<1>3. CASE CreateQuote(w) \/ Abort(w)
  BY <1>3, AnswerMoves DEF CreateQuote, Abort, Moves, TypeInv, Stamped
<1>4. CASE CartStep(w) \/ StartCart(w) \/ StartQuote(w) \/ StartCheckout(w)
  BY <1>4, CartMoves, StartMoves DEF Moves, TypeInv, Stamped, CartPc
<1>5. CASE CheckoutStep(w)
  <2>1. CASE CheckLimits(w) \/ NeedOrder(w) \/ SnapshotCart(w) \/ LinkIssued(w)
    BY <1>1, <2>1 DEF CheckLimits, NeedOrder, SnapshotCart, LinkIssued, Goto, Stamped
  <2> QED
    BY <1>5, <2>1, CheckoutMoves DEF Moves, TypeInv, Stamped, CheckoutPc
<1>6. CASE UNCHANGED <<cart, version, pc, req>>
  BY <1>6 DEF Stamped
<1> QED
  BY <1>2, <1>3, <1>4, <1>5, <1>6, SerialStep DEF QuoteStep

\* Superseding leaves no quote open.
LEMMA NoneOpen ==
    ASSUME TypeInv, Supersede
    PROVE  OpenQuotes'
<1>1. /\ DOMAIN quotes' = DOMAIN quotes
      /\ \A k \in DOMAIN quotes : quotes'[k] = [quotes[k] EXCEPT !.status = "superseded"]
      /\ \A k \in DOMAIN quotes : quotes[k] \in QuoteRow
  BY SupersedeType DEF TypeInv, TypeOK
<1>2. \A k \in DOMAIN quotes' : quotes'[k].status = "superseded"
  BY <1>1 DEF QuoteRow
<1> QED
  BY <1>2 DEF OpenQuotes

\* A step that is not between the commit of a row and that of the version.
LEMMA OpenStay ==
    ASSUME OneAtATime, OpenQuotes, UNCHANGED <<cart, version, quotes>>,
           NEW w \in Worker,
           pc[w] \notin {"supersede", "version", "bump"},
           pc'[w] \notin {"version", "bump"}
    PROVE  OpenQuotes'
<1>1. \A v \in Worker : v = w
  BY DEF OneAtATime
<1> QED
  BY <1>1 DEF OpenQuotes

LEMMA OpenCartStep ==
    ASSUME OneAtATime, TypeInv, OpenQuotes, NEW w \in Worker, CartStep(w)
    PROVE  OpenQuotes'
<1>1. pc \in [Worker -> Label] /\ \A v \in Worker : v = w
  BY DEF TypeInv, TypeOK, OneAtATime
<1>2. CASE ReadRow(w)
  BY <1>1, <1>2, OpenStay DEF ReadRow, Goto, database
<1>3. CASE RefuseCall(w)
  <2>1. pc'[w] \in {"read", "items", "idle"}
    BY <1>3, ResumeMoves DEF RefuseCall, FinishCall, Moves, TypeInv
  <2> QED
    BY <1>3, <2>1, OpenStay DEF RefuseCall, database
<1>4. CASE RejectItem(w) \/ WriteFails(w)
  <2>1. pc'[w] = "idle"
    BY <1>4, AnswerMoves DEF RejectItem, WriteFails, Moves, TypeInv
  <2> QED
    BY <1>4, <2>1, OpenStay DEF RejectItem, WriteFails, database
<1>5. CASE WriteRow(w)
  BY <1>1, <1>5 DEF WriteRow, Goto, OpenQuotes
<1>6. CASE SupersedeQuotes(w)
  BY <1>6, NoneOpen DEF SupersedeQuotes
<1>7. CASE ReadVersion(w) \/ BumpVersion(w)
  <2>1. UNCHANGED quotes /\ pc[w] \in {"version", "bump"}
    BY <1>7 DEF ReadVersion, BumpVersion, database
  <2>2. \A k \in DOMAIN quotes' : quotes'[k].status # "active"
    BY <2>1 DEF OpenQuotes
  <2> QED
    BY <2>2 DEF OpenQuotes
<1> QED
  BY <1>2, <1>3, <1>4, <1>5, <1>6, <1>7 DEF CartStep

LEMMA OpenQuoteStep ==
    ASSUME OneAtATime, TypeInv, OpenQuotes, NEW w \in Worker, Stamped(w), QuoteStep(w)
    PROVE  OpenQuotes'
<1>1. pc \in [Worker -> Label] /\ \A v \in Worker : v = w
  BY DEF TypeInv, TypeOK, OneAtATime
<1>2. CASE ReadItems(w) \/ StampVersion(w)
  BY <1>1, <1>2, OpenStay DEF ReadItems, StampVersion, Goto, database
<1>3. CASE CreateQuote(w)
  <2> DEFINE row == [actor |-> req[w].actor, version |-> req[w].version,
                     hash |-> Hash(req[w].items), amount |-> CartTotal(req[w].items),
                     status |-> "active", expired |-> FALSE]
  <2>1. quotes' = Append(quotes, row) /\ UNCHANGED <<cart, version>>
    BY <1>3 DEF CreateQuote
  <2>2. /\ row.hash = Hash(Items(cart)) /\ row.amount = CartTotal(Items(cart))
        /\ row.version = version
    BY <1>3 DEF CreateQuote, Stamped
  <2> HIDE DEF row
  <2>3. \A k \in DOMAIN quotes' : \/ k \in DOMAIN quotes /\ quotes'[k] = quotes[k]
                                  \/ quotes'[k] = row
    BY <2>1 DEF TypeInv, TypeOK
  <2>4. pc[w] = "quote" /\ pc'[w] = "idle"
    BY <1>1, <1>3 DEF CreateQuote, Answer
  <2> QED
    BY <1>1, <2>1, <2>2, <2>3, <2>4 DEF OpenQuotes
<1> QED
  BY <1>2, <1>3 DEF QuoteStep

LEMMA OpenCheckoutStep ==
    ASSUME OneAtATime, TypeInv, OpenQuotes, NEW w \in Worker, CheckoutStep(w)
    PROVE  OpenQuotes'
<1>1. CASE Settle(w)
  BY <1>1, NoneOpen DEF Settle
<1>2. CASE ~Settle(w)
  <2>1. UNCHANGED <<cart, version, quotes>> /\ pc[w] \in CheckoutPc
    BY <1>2 DEF CheckoutStep, ReadCart, ValidateQuote, BlockQuote, CheckLimits,
       BlockLimits, ReuseOrder, NeedOrder, SnapshotCart, FindCartEmpty, InsertOrder,
       LinkIssued, LinkFails, RecordLink, RecordFailure, database, CheckoutPc
  <2>2. pc'[w] \notin {"version", "bump"}
    <3>1. CASE CheckLimits(w) \/ NeedOrder(w) \/ SnapshotCart(w) \/ LinkIssued(w)
      BY <3>1 DEF CheckLimits, NeedOrder, SnapshotCart, LinkIssued, Goto, TypeInv, TypeOK
    <3> QED
      BY <3>1, CheckoutMoves DEF Moves, TypeInv, CheckoutPc
  <2> QED
    BY <2>1, <2>2, OpenStay DEF CheckoutPc
<1> QED
  BY <1>1, <1>2

LEMMA OpenQuotesStep ==
    ASSUME OneAtATime, ~Aborts, CurrentInv, [Next]_vars
    PROVE  OpenQuotes'
<1>1. PICK w \in Worker : \A v \in Worker : v = w
  BY DEF OneAtATime
<1>2. CASE CartStep(w) \/ QuoteStep(w) \/ CheckoutStep(w)
  BY <1>2, OpenCartStep, OpenQuoteStep, OpenCheckoutStep DEF CurrentInv
<1>3. CASE StartCart(w) \/ StartQuote(w) \/ StartCheckout(w)
  <2>1. pc'[w] \in {"read", "items", "cart", "idle"}
    BY <1>3, StartMoves DEF Moves, CurrentInv, TypeInv
  <2>2. pc[w] = "idle" /\ UNCHANGED database
    BY <1>3 DEF StartCart, StartQuote, StartCheckout
  <2> QED
    BY <2>1, <2>2, OpenStay DEF CurrentInv, database
<1>4. CASE UNCHANGED <<cart, version, pc, req>>
  <2>1. KeepsQuotes /\ \A k \in DOMAIN quotes : quotes[k] \in QuoteRow
    BY QuotesKept DEF CurrentInv, TypeInv, TypeOK
  <2>2. \A k \in DOMAIN quotes :
          /\ quotes'[k].hash = quotes[k].hash
          /\ quotes'[k].amount = quotes[k].amount
          /\ quotes'[k].version = quotes[k].version
          /\ quotes'[k].status = "active" => quotes[k].status = "active"
    BY <2>1 DEF KeepsQuotes, QuoteRow
  <2>3. CASE ~CreateQuote(w)
    <3>1. DOMAIN quotes' = DOMAIN quotes
      BY <1>1, <2>3, QuotesStep DEF Supersede, ExpireQuote
    <3> QED
      BY <1>4, <2>2, <3>1 DEF CurrentInv, OpenQuotes
  <2>4. CASE CreateQuote(w)
    BY <2>4, OpenQuoteStep DEF QuoteStep, CurrentInv
  <2> QED
    BY <2>3, <2>4
<1> QED
  BY <1>2, <1>3, <1>4, SerialStep DEF Abort

LEMMA CurrentInit == Init => CurrentInv
<1>1. Init => OpenQuotes /\ \A w \in Worker : Stamped(w)
  BY DEF Init, OpenQuotes, Stamped
<1> QED
  BY <1>1, TypeInit DEF CurrentInv

LEMMA CurrentNext ==
    ASSUME OneAtATime, ~Aborts, CurrentInv, [Next]_vars
    PROVE  CurrentInv'
  BY TypeNext, StampedStep, OpenQuotesStep DEF CurrentInv

\* While no request is being served, the open quotes are exact snapshots of
\* the cart, at what it costs: every cart operation has superseded the quotes before it, unless
\* it died between the two commits (invalidate_quote and bump_cart_version in
\* app/commerce.py).
THEOREM OpenQuotesAreCurrent ==
    ASSUME OneAtATime, ~Aborts
    PROVE  Spec => []OpenQuotesCurrent
<1>1. CurrentInv /\ [Next]_vars => CurrentInv'
  BY CurrentNext
<1>2. CurrentInv => OpenQuotesCurrent
  <2>1. PICK w \in Worker : \A v \in Worker : v = w
    BY DEF OneAtATime
  <2> QED
    BY <2>1 DEF CurrentInv, OpenQuotes, OpenQuotesCurrent
<1> QED
  BY CurrentInit, <1>1, <1>2, PTL DEF Spec

-----------------------------------------------------------------------------
(***************************************************************************)
(* The promise.  While prices are whole numbers of paise, no request dies  *)
(* half-way and Razorpay's answers are not lost, the payment plane         *)
(* implements GuardedPayment.  A checkout that has passed the validation   *)
(* holds an open quote, the order it asks a link for is its actor's order  *)
(* for that quote's hash, an order is filed under the hash of its own      *)
(* rows, and every link is known to its order but for the one just issued. *)
(***************************************************************************)
QuoteAtHand(w) ==
    /\ pc[w] \in {"cart", "validate"} => req[w].status = quotes[req[w].quote].status
    /\ pc[w] \in QuotedLabel => quotes[req[w].quote].status = "active"

OrderAtHand(w) == pc[w] = "razorpay" =>
    /\ orders[req[w].order].actor = req[w].actor
    /\ orders[req[w].order].hash = quotes[req[w].quote].hash

OrdersListed == \A o \in DOMAIN orders : orders[o].hash = Hash(orders[o].items)

LinksRecorded ==
    \A l \in DOMAIN links :
        \/ orders[links[l].order].link = l
        \/ \E w \in Worker : pc[w] = "record" /\ req[w].link = l

KeptInv ==
    /\ AuthInv /\ VerifyInv /\ SingleInv /\ OwnedInv /\ CurrentInv
    /\ \A w \in Worker : QuoteAtHand(w) /\ OrderAtHand(w)
    /\ LinksRecorded
    /\ OrdersListed

\* A checkout goes on with the quote it has, in the state it has it.
LEMMA QuoteAtHandGoesOn ==
    ASSUME TypeInv, NEW w \in Worker, QuoteAtHand(w), CheckoutStep(w)
    PROVE  QuoteAtHand(w)'
<1>1. pc \in [Worker -> Label] /\ req \in [Worker -> Request]
  BY DEF TypeInv, TypeOK
<1>2. CASE ReadCart(w)
  BY <1>1, <1>2 DEF ReadCart, QuoteAtHand, QuotedLabel, Goto, Request, database
<1>3. CASE ValidateQuote(w)
  <2>1. quotes[req[w].quote].status = "active"
    BY <1>3 DEF ValidateQuote, QuoteAtHand, Valid, QuoteMatchesCart
  <2>2. /\ pc'[w] = "limits" /\ req'[w].quote = req[w].quote
        /\ UNCHANGED quotes
    BY <1>1, <1>3 DEF ValidateQuote, Goto, Request, database
  <2> QED
    BY <2>1, <2>2 DEF QuoteAtHand
<1>4. CASE CheckLimits(w) \/ NeedOrder(w)
  BY <1>1, <1>4 DEF CheckLimits, NeedOrder, QuoteAtHand, QuotedLabel, Goto, database
<1>5. CASE ReuseOrder(w) \/ SnapshotCart(w) \/ InsertOrder(w)
  <2>1. /\ pc[w] \in QuotedLabel /\ req'[w].quote = req[w].quote
        /\ UNCHANGED quotes /\ pc'[w] \notin {"cart", "validate"}
    BY <1>1, <1>5
    DEF ReuseOrder, SnapshotCart, InsertOrder, QuotedLabel, Goto, Request, database
  <2> QED
    BY <2>1 DEF QuoteAtHand
<1>6. CASE BlockQuote(w) \/ BlockLimits(w) \/ FindCartEmpty(w) \/ RecordFailure(w)
             \/ Settle(w)
  BY <1>1, <1>6 DEF BlockQuote, BlockLimits, FindCartEmpty, RecordFailure, Settle,
                    Answer, QuotedLabel, QuoteAtHand
<1>7. CASE LinkIssued(w) \/ LinkFails(w) \/ RecordLink(w)
  BY <1>1, <1>7
  DEF LinkIssued, LinkFails, RecordLink, Goto, QuotedLabel, QuoteAtHand
<1> QED
  BY <1>2, <1>3, <1>4, <1>5, <1>6, <1>7 DEF CheckoutStep

LEMMA QuoteAtHandStep ==
    ASSUME OneAtATime, TypeInv, [Next]_vars, NEW w \in Worker, QuoteAtHand(w)
    PROVE  QuoteAtHand(w)'
<1>1. /\ pc \in [Worker -> Label] /\ req \in [Worker -> Request]
      /\ \A v \in Worker : v = w
  BY DEF TypeInv, TypeOK, OneAtATime
<1>2. CASE CartStep(w) \/ QuoteStep(w)
  BY <1>2, CartMoves, QuoteMoves
  DEF Moves, TypeInv, CartPc, QuotePc, QuotedLabel, QuoteAtHand
<1>3. CASE StartCart(w) \/ StartQuote(w) \/ Abort(w)
  <2>1. pc'[w] \in {"read", "items", "idle"}
    BY <1>3, ResumeMoves, AnswerMoves DEF StartCart, StartQuote, Abort, Moves, TypeInv
  <2> QED
    BY <2>1 DEF QuotedLabel, QuoteAtHand
<1>4. CASE StartCheckout(w)
  BY <1>1, <1>4
  DEF StartCheckout, NoRequest, Goto, QuotedLabel, QuoteAtHand, database
<1>5. CASE UNCHANGED <<cart, version, pc, req>>
  <2> SUFFICES ASSUME pc[w] \in QuotedLabel \cup {"cart", "validate"}
               PROVE  quotes'[req[w].quote].status = quotes[req[w].quote].status
    BY <1>5 DEF QuoteAtHand
  <2>1. req[w].quote \in DOMAIN quotes
    BY DEF TypeInv, WorkersPlaced, Placed, CheckoutPc, QuotedLabel
  <2>2. quotes[req[w].quote] \in QuoteRow
    BY <2>1 DEF TypeInv, TypeOK
  <2>3. CASE ~CartStep(w) /\ ~QuoteStep(w) /\ ~CheckoutStep(w)
    <3>1. UNCHANGED quotes \/ \E k \in DOMAIN quotes : ExpireQuote(k)
      BY <1>1, <2>3 DEF Next, Step, vars, StartCart, StartQuote, StartCheckout,
                        RefuseCheckout, Abort, EndLink, Webhook, database
    <3> QED
      BY <2>1, <2>2, <3>1 DEF ExpireQuote, QuoteRow
  <2>4. CASE CheckoutStep(w)
    <3>1. ~Settle(w)
      BY <1>1, <1>5 DEF Settle, Answer
    <3> QED
      BY <2>4, <3>1 DEF CheckoutStep, ReadCart, ValidateQuote, BlockQuote,
         CheckLimits, BlockLimits, ReuseOrder, NeedOrder, SnapshotCart,
         FindCartEmpty, InsertOrder, LinkIssued, LinkFails, RecordLink,
         RecordFailure, database
  <2>5. ~CartStep(w) /\ ~QuoteStep(w)
    BY DEF CartStep, ReadRow, RefuseCall, RejectItem, WriteRow, WriteFails,
           SupersedeQuotes, ReadVersion, BumpVersion, QuoteStep, ReadItems,
           StampVersion, CreateQuote, QuotedLabel
  <2> QED
    BY <2>3, <2>4, <2>5
<1> QED
  BY <1>2, <1>3, <1>4, <1>5, QuoteAtHandGoesOn, SerialStep

LEMMA OrderAtHandStep ==
    ASSUME OneAtATime, TypeInv, [Next]_vars, NEW w \in Worker, OrderAtHand(w)
    PROVE  OrderAtHand(w)'
<1>1. /\ pc \in [Worker -> Label] /\ req \in [Worker -> Request]
      /\ \A v \in Worker : v = w
  BY DEF TypeInv, TypeOK, OneAtATime
<1> SUFFICES ASSUME pc'[w] = "razorpay"
             PROVE  /\ orders'[req'[w].order].actor = req'[w].actor
                    /\ orders'[req'[w].order].hash = quotes'[req'[w].quote].hash
  BY DEF OrderAtHand
<1>2. CASE ReuseOrder(w)
  BY <1>1, <1>2 DEF ReuseOrder, Matching, OrdersFor, Request, database
<1>3. CASE InsertOrder(w)
  <2> DEFINE q == quotes[req[w].quote]
             row == [actor |-> req[w].actor, hash |-> q.hash, items |-> req[w].items,
                     total |-> CartTotal(req[w].items), quote |-> req[w].quote,
                     mandate |-> Sign(req[w].actor, q.hash, q.amount, req[w].quote),
                     status |-> "created", link |-> 0]
  <2>1. /\ orders' = Append(orders, row) /\ req'[w].order = Len(orders) + 1
        /\ req'[w].actor = req[w].actor /\ req'[w].quote = req[w].quote
        /\ UNCHANGED quotes
    BY <1>1, <1>3 DEF InsertOrder, Request
  <2>2. row.actor = req[w].actor /\ row.hash = q.hash
    OBVIOUS
  <2> HIDE DEF row
  <2>3. orders'[Len(orders) + 1] = row
    BY <2>1 DEF TypeInv, TypeOK
  <2> QED
    BY <2>1, <2>2, <2>3
<1>4. CASE UNCHANGED <<cart, version, pc, req>>
  <2>1. req[w].order \in DOMAIN orders /\ req[w].quote \in DOMAIN quotes
    BY <1>4 DEF TypeInv, WorkersPlaced, Placed, CheckoutPc
  <2>2. KeepsOrders
    <3>1. ~InsertOrder(w)
      BY <1>4 DEF InsertOrder
    <3> QED
      BY <1>1, <3>1, OrdersStep
  <2> QED
    BY <1>4, <2>1, <2>2, QuotesStay DEF KeepsOrders, OrderAtHand
<1>5. CASE CheckoutStep(w) /\ ~ReuseOrder(w) /\ ~InsertOrder(w)
  BY <1>1, <1>5
  DEF CheckoutStep, ReadCart, ValidateQuote, BlockQuote, CheckLimits, BlockLimits,
      NeedOrder, SnapshotCart, FindCartEmpty, LinkIssued, LinkFails, RecordLink,
      RecordFailure, Settle, Goto, Answer
<1>6. CASE CartStep(w) \/ QuoteStep(w)
  BY <1>6, CartMoves, QuoteMoves DEF Moves, TypeInv, CartPc, QuotePc
<1>7. CASE StartCart(w) \/ StartQuote(w) \/ StartCheckout(w) \/ Abort(w)
  BY <1>7, StartMoves, AnswerMoves DEF Abort, Moves, TypeInv
<1> QED
  BY <1>2, <1>3, <1>4, <1>5, <1>6, <1>7, SerialStep

LEMMA ListedStep ==
    ASSUME VerifyInv, OrdersListed, [Next]_vars
    PROVE  OrdersListed'
<1>1. CASE KeepsOrders
  BY <1>1 DEF OrdersListed, KeepsOrders
<1>2. ASSUME NEW w \in Worker, InsertOrder(w)
      PROVE  OrdersListed'
  <2> DEFINE q == quotes[req[w].quote]
             row == [actor |-> req[w].actor, hash |-> q.hash, items |-> req[w].items,
                     total |-> CartTotal(req[w].items), quote |-> req[w].quote,
                     mandate |-> Sign(req[w].actor, q.hash, q.amount, req[w].quote),
                     status |-> "created", link |-> 0]
  <2>1. q.hash = Hash(req[w].items)
    BY <1>2 DEF InsertOrder, VerifyInv, AsQuoted, QuotedLabel
  <2>2. orders' = Append(orders, row) /\ row.hash = Hash(row.items)
    BY <1>2, <2>1 DEF InsertOrder
  <2> HIDE DEF row
  <2>3. \A o \in DOMAIN orders' : \/ o \in DOMAIN orders /\ orders'[o] = orders[o]
                                  \/ orders'[o] = row
    BY <2>2 DEF VerifyInv, TypeInv, TypeOK
  <2> QED
    BY <2>2, <2>3 DEF OrdersListed
<1> QED
  BY <1>1, <1>2, OrdersStep DEF VerifyInv

\* Between the call of Razorpay and the commit of the link nothing is lost.
LEMMA LinksRecordedStep ==
    ASSUME OneAtATime, ~Aborts, "lost" \notin RazorpayAnswers, OwnedInv, LinksRecorded,
           [Next]_vars
    PROVE  LinksRecorded'
<1>1. PICK w \in Worker : \A v \in Worker : v = w
  BY DEF OneAtATime
<1>2. /\ TypeInv /\ pc \in [Worker -> Label] /\ req \in [Worker -> Request]
      /\ \A l \in DOMAIN links : l # 0
  BY DEF OwnedInv, PaidInv, TypeInv, TypeOK
<1> SUFFICES ASSUME NEW l \in DOMAIN links'
             PROVE  \/ orders'[links'[l].order].link = l
                    \/ pc'[w] = "record" /\ req'[w].link = l
  BY DEF LinksRecorded
<1>3. CASE l \notin DOMAIN links
  <2>1. LinkIssued(w)
    BY <1>1, <1>2, <1>3, LinkAfter DEF LinkFails
  <2>2. l = Len(links) + 1
    BY <1>2, <1>3, LinkAfter
  <2> QED
    BY <1>2, <2>1, <2>2 DEF LinkIssued, Goto, Request
<1>4. CASE l \in DOMAIN links
  <2> DEFINE o == links[l].order
  <2>1. links'[l].order = o /\ o \in DOMAIN orders /\ o \in DOMAIN orders'
    <3>1. o \in DOMAIN orders
      BY <1>4 DEF OwnedInv, LinksNameOrders
    <3>2. InsertOrder(w) => DOMAIN orders \subseteq DOMAIN orders'
      BY <1>2 DEF InsertOrder, TypeInv, TypeOK
    <3> QED
      BY <1>1, <1>2, <1>4, <3>1, <3>2, LinksKept, OrdersStep DEF KeepsLinks, KeepsOrders
  <2>2. CASE orders[o].link = l
    <3>1. RecordLink(w) => o # req[w].order
      BY <1>2, <1>4, <2>2 DEF RecordLink, OwnedInv, LinkAtHand
    <3> QED
      BY <1>1, <1>2, <2>1, <2>2, <3>1, OrderAfter
  <2>3. CASE orders[o].link # l
    <3>1. pc[w] = "record" /\ req[w].link = l
      BY <1>1, <1>4, <2>3 DEF LinksRecorded
    <3>2. RecordLink(w) \/ UNCHANGED <<pc, req>>
      BY <1>1, <3>1
      DEF Next, Step, vars, StartCart, StartQuote, StartCheckout, RefuseCheckout, Abort,
          ExpireQuote, EndLink, Webhook, CartStep, ReadRow, RefuseCall, RejectItem,
          WriteRow, WriteFails, SupersedeQuotes, ReadVersion, BumpVersion, QuoteStep,
          ReadItems, StampVersion, CreateQuote, CheckoutStep, ReadCart, ValidateQuote,
          BlockQuote, CheckLimits, BlockLimits, ReuseOrder, NeedOrder, SnapshotCart,
          FindCartEmpty, InsertOrder, LinkIssued, LinkFails, RecordFailure, Settle
    <3>3. CASE RecordLink(w)
      <4>1. o = req[w].order /\ orders[o] \in OrderRow
        BY <2>1, <3>1 DEF OwnedInv, PaidInv, LinksBelong, TypeInv, TypeOK
      <4> QED
        BY <2>1, <3>1, <3>3, <4>1 DEF RecordLink, OrderRow
    <3> QED
      BY <3>1, <3>2, <3>3
  <2> QED
    BY <2>2, <2>3
<1> QED
  BY <1>3, <1>4

LEMMA KeptInit == Init => KeptInv
<1>1. Init => AuthInv
  <2>1. Init => OrderAuthorised /\ Cleared
    BY DEF Init, OrderAuthorised, Cleared, PastLimits
  <2> QED
    BY <2>1, TypeInit DEF AuthInv
<1>2. Init => /\ \A w \in Worker : QuoteAtHand(w) /\ OrderAtHand(w)
              /\ LinksRecorded /\ OrdersListed
  BY DEF Init, QuoteAtHand, OrderAtHand, QuotedLabel, LinksRecorded, OrdersListed
<1> QED
  BY <1>1, <1>2, VerifyInit, SingleInit, OwnedInit, CurrentInit DEF KeptInv

LEMMA KeptNext ==
    ASSUME OneAtATime, WholePaise, ~Aborts, "lost" \notin RazorpayAnswers, KeptInv,
           [Next]_vars
    PROVE  KeptInv'
<1>1. TypeInv
  BY DEF KeptInv, AuthInv
<1>2. AuthInv'
  BY <1>1, TypeNext, AuthorisedStep, ClearedStep DEF KeptInv, AuthInv
<1>3. \A w \in Worker : QuoteAtHand(w)' /\ OrderAtHand(w)'
  BY <1>1, QuoteAtHandStep, OrderAtHandStep DEF KeptInv
<1>4. LinksRecorded' /\ OrdersListed'
  BY LinksRecordedStep, ListedStep DEF KeptInv
<1>5. VerifyInv' /\ SingleInv' /\ OwnedInv' /\ CurrentInv'
  BY VerifyNext, SingleNext, OwnedNext, CurrentNext DEF KeptInv
<1> QED
  BY <1>2, <1>3, <1>4, <1>5 DEF KeptInv

-----------------------------------------------------------------------------
(* The refinement mapping: the charges are the links, read with the actor  *)
(* and the rows of their orders.                                           *)

Quoted == \E k \in DOMAIN quotes :
    quotes[k].status = "active" /\ quotes[k].hash = Hash(Items(cart))

ChargeOf(l) == [actor  |-> orders[links[l].order].actor,
                basket |-> orders[links[l].order].items,
                amount |-> links[l].amount]
Charges == [l \in DOMAIN links |-> ChargeOf(l)]

LEMMA Mapping ==
    /\ Promise!Init <=> /\ Items(cart) \in Snapshot
                        /\ Quoted = FALSE
                        /\ Charges = <<>>
    /\ Promise!vars = <<Items(cart), Quoted, Charges>>
  BY DEF Promise!Init, Promise!vars, Quoted, Charges, ChargeOf

\* What a charge says of its order does not change.
LEMMA ChargeKept ==
    ASSUME TypeInv, LinksNameOrders, [Next]_vars, NEW l \in DOMAIN links
    PROVE  l \in DOMAIN links' /\ ChargeOf(l)' = ChargeOf(l)
<1>1. KeepsLinks /\ links[l].order \in DOMAIN orders
  BY LinksKept DEF LinksNameOrders
<1>2. ASSUME NEW w \in Worker, InsertOrder(w)
      PROVE  \A o \in DOMAIN orders : orders'[o] = orders[o]
  BY <1>2 DEF InsertOrder, TypeInv, TypeOK
<1>3. \A o \in DOMAIN orders : orders'[o].actor = orders[o].actor
                               /\ orders'[o].items = orders[o].items
  BY <1>2, OrdersStep DEF KeepsOrders
<1> QED
  BY <1>1, <1>3 DEF KeepsLinks, ChargeOf

LEMMA ChargesKept ==
    ASSUME TypeInv, LinksNameOrders, [Next]_vars, DOMAIN links' = DOMAIN links
    PROVE  Charges' = Charges
  BY ChargeKept DEF Charges

\* A new link is one more charge.
LEMMA ChargeAdded ==
    ASSUME TypeInv, LinksNameOrders, [Next]_vars,
           NEW o \in DOMAIN orders, UNCHANGED orders, links' = NewLink(o)
    PROVE  Charges' = Append(Charges, [actor  |-> orders[o].actor,
                                       basket |-> orders[o].items,
                                       amount |-> orders[o].total])
<1> DEFINE ChargeRow == [actor : Actor, basket : Snapshot, amount : Amount]
           link == [order |-> o, amount |-> orders[o].total, state |-> "open",
                    known |-> FALSE]
           charge == [actor |-> orders[o].actor, basket |-> orders[o].items,
                      amount |-> orders[o].total]
<1>0. PICK n : n = Len(links)
  OBVIOUS
<1>1. \A p \in DOMAIN orders : orders[p] \in OrderRow
  BY DEF TypeInv, TypeOK
<1>2. /\ links \in Seq(Link) /\ n \in Nat /\ DOMAIN links = 1 .. n
      /\ \A l \in DOMAIN links : links[l] \in Link
  BY <1>0 DEF TypeInv, TypeOK
<1>3. \A l \in DOMAIN links : ChargeOf(l) \in ChargeRow
  BY <1>1, <1>2 DEF LinksNameOrders, ChargeOf, OrderRow, Link
<1>4. charge \in ChargeRow
  BY <1>1 DEF OrderRow
<1>5. links' = Append(links, link) /\ link.order = o /\ link.amount = orders[o].total
  BY DEF NewLink
<1> HIDE DEF link
<1>6. ASSUME NEW m, m = n + 1
      PROVE  ChargeOf(m)' = charge
  <2>1. links'[m] = link
    BY <1>0, <1>2, <1>5, <1>6
  <2> QED
    BY <1>5, <2>1 DEF ChargeOf
<1> HIDE DEF charge, ChargeRow
<1>7. DOMAIN links' = 1 .. n + 1
  BY <1>0, <1>2, <1>5
<1>8. /\ Charges \in Seq(ChargeRow) /\ Len(Charges) = n /\ DOMAIN Charges = 1 .. n
      /\ \A l \in 1 .. n : Charges[l] = ChargeOf(l)
  <2>1. /\ Charges \in [1 .. n -> ChargeRow]
        /\ \A l \in 1 .. n : Charges[l] = ChargeOf(l)
    BY <1>2, <1>3 DEF Charges
  <2> QED
    BY <1>2, <2>1, SeqDef
<1>9. \A l \in 1 .. n + 1 : ChargeOf(l)' = Append(Charges, charge)[l]
  <2> TAKE l \in 1 .. n + 1
  <2>1. CASE l = n + 1
    BY <1>2, <1>4, <1>6, <1>8, <2>1
  <2>2. CASE l \in 1 .. n
    <3>1. ChargeOf(l)' = Charges[l]
      BY <1>2, <1>8, <2>2, ChargeKept
    <3>2. Append(Charges, charge)[l] = Charges[l]
      BY <1>4, <1>8, <2>2, AppendProperties
    <3> QED
      BY <3>1, <3>2
  <2>3. l = n + 1 \/ l \in 1 .. n
    BY <1>2
  <2> QED
    BY <2>1, <2>2, <2>3
<1>10. /\ Append(Charges, charge) \in Seq(ChargeRow)
       /\ Len(Append(Charges, charge)) = n + 1
       /\ DOMAIN Append(Charges, charge) = 1 .. n + 1
  BY <1>2, <1>4, <1>8, AppendProperties
<1>11. /\ DOMAIN Charges' = 1 .. n + 1
       /\ \A l \in 1 .. n + 1 : Charges'[l] = ChargeOf(l)'
       /\ Charges' = [l \in 1 .. n + 1 |-> ChargeOf(l)']
  BY <1>7 DEF Charges
<1>12. Charges' \in Seq(ChargeRow) /\ Len(Charges') = n + 1
  <2>1. \A l \in 1 .. n + 1 : ChargeOf(l)' \in ChargeRow
    BY <1>9, <1>10
  <2>2. Charges' \in [1 .. n + 1 -> ChargeRow]
    BY <1>11, <2>1
  <2> QED
    BY <1>2, <2>2, SeqDef
<1>13. Charges' = Append(Charges, charge)
  BY <1>9, <1>10, <1>11, <1>12, SeqEqual
<1> QED
  BY <1>13 DEF charge

\* The steps of the promise, with the mapping written out.
LEMMA PromiseSteps ==
    ASSUME TypeOK
    PROVE  /\ Quoted' = FALSE /\ UNCHANGED <<Items(cart), Charges>>
              => Promise!Next
           /\ Quoted' = TRUE /\ UNCHANGED <<Items(cart), Charges>>
              => Promise!Next
           /\ UNCHANGED <<Items(cart), Quoted, Charges>> => UNCHANGED Promise!vars
           /\ Items(cart)' \in Snapshot \ {Items(cart)} /\ Quoted' = FALSE
                /\ UNCHANGED Charges
              => Promise!Next
  BY DEF Promise!Next, Promise!Shop, Promise!Offer, Promise!Withdraw, Promise!vars,
         Quoted, Charges, ChargeOf

\* Whether the basket is quoted depends on the cart, and on the states and the
\* hashes of the quotes.
LEMMA QuotedStays ==
    ASSUME UNCHANGED cart, DOMAIN quotes' = DOMAIN quotes,
           \A k \in DOMAIN quotes : /\ quotes'[k].status = quotes[k].status
                                    /\ quotes'[k].hash = quotes[k].hash
    PROVE  UNCHANGED <<Items(cart), Quoted>>
  BY DEF Quoted

\* A committed cart operation is a step of the promise, or none.
LEMMA WriteKeeps ==
    ASSUME OneAtATime, WholePaise, KeptInv, TypeOK', NEW w \in Worker, WriteRow(w), UNCHANGED Charges
    PROVE  [Promise!Next]_Promise!vars
<1>1. TypeOK /\ Items(cart)' \in Snapshot
  BY ItemsType DEF KeptInv, AuthInv, TypeInv, TypeOK, Snapshot
<1>2. UNCHANGED quotes
  BY DEF WriteRow
<1>3. CASE Items(cart)' = Items(cart)
  <2>1. Quoted' = Quoted
    BY <1>2, <1>3 DEF Quoted
  <2> QED
    BY <1>1, <1>3, <2>1, PromiseSteps
<1>4. CASE Items(cart)' # Items(cart)
  <2>1. \A k \in DOMAIN quotes :
          quotes[k].status = "active" => quotes[k].hash = Hash(Items(cart))
    BY DEF KeptInv, CurrentInv, OpenQuotes, WriteRow
  <2>2. Items(cart) \in Seq(Row) /\ Items(cart)' \in Seq(Row)
    BY <1>1, ItemsAre, SnapshotsAre DEF TypeOK
  <2>3. Hash(Items(cart)') # Hash(Items(cart))
    BY <1>4, <2>2, HashTells
  <2>4. Quoted' = FALSE
    BY <1>2, <2>1, <2>3 DEF Quoted
  <2> QED
    BY <1>1, <1>4, <2>4, PromiseSteps
<1> QED
  BY <1>3, <1>4

\* Superseding the quotes withdraws the offer.
LEMMA SupersedeKeeps ==
    ASSUME KeptInv, Supersede, UNCHANGED <<cart, Charges>>
    PROVE  [Promise!Next]_Promise!vars
<1>1. TypeOK /\ \A k \in DOMAIN quotes : quotes[k] \in QuoteRow
  BY DEF KeptInv, AuthInv, TypeInv, TypeOK
<1>2. /\ DOMAIN quotes' = DOMAIN quotes
      /\ \A k \in DOMAIN quotes : quotes'[k] = [quotes[k] EXCEPT !.status = "superseded"]
  BY DEF Supersede
<1>3. Quoted' = FALSE
  BY <1>1, <1>2 DEF Quoted, QuoteRow
<1> QED
  BY <1>1, <1>3, PromiseSteps

\* A new quote is an offer of the cart as it is.
LEMMA QuoteKeeps ==
    ASSUME KeptInv, NEW w \in Worker, CreateQuote(w), UNCHANGED Charges
    PROVE  [Promise!Next]_Promise!vars
<1> DEFINE row == [actor |-> req[w].actor, version |-> req[w].version,
                   hash |-> Hash(req[w].items), amount |-> CartTotal(req[w].items),
                   status |-> "active", expired |-> FALSE]
<1>1. TypeOK /\ quotes \in Seq(QuoteRow)
  BY DEF KeptInv, AuthInv, TypeInv, TypeOK
<1>2. quotes' = Append(quotes, row) /\ UNCHANGED cart
  BY DEF CreateQuote
<1>3. row.status = "active" /\ row.hash = Hash(Items(cart))
  BY DEF KeptInv, CurrentInv, Stamped, CreateQuote
<1> HIDE DEF row
<1>4. Len(quotes) + 1 \in DOMAIN quotes' /\ quotes'[Len(quotes) + 1] = row
  BY <1>1, <1>2
<1>5. Quoted' = TRUE
  BY <1>2, <1>3, <1>4 DEF Quoted
<1> QED
  BY <1>1, <1>2, <1>5, PromiseSteps

\* What a checkout about to call Razorpay knows: its quote is open over the
\* cart, its order is the actor's only order for it, not charged so far, and
\* comes to what the cart costs, within the limit.
LEMMA ReadyToCharge ==
    ASSUME OneAtATime, WholePaise, KeptInv, NEW w \in Worker, pc[w] = "razorpay",
           NEW o, o = req[w].order
    PROVE  /\ o \in DOMAIN orders /\ orders[o].actor \in Actor
           /\ Quoted
           /\ orders[o].items = Items(cart)
           /\ orders[o].total = CartTotal(Items(cart))
           /\ orders[o].total <= MaxPerTransaction[orders[o].actor]
           /\ \A l \in DOMAIN links :
                ~(/\ orders[links[l].order].actor = orders[o].actor
                  /\ orders[links[l].order].items = Items(cart))
<1>1. TypeInv /\ \A v \in Worker : v = w
  BY DEF KeptInv, AuthInv, OneAtATime
<1>2. o \in DOMAIN orders /\ orders[o] \in OrderRow /\ req[w].quote \in DOMAIN quotes
  BY <1>1 DEF TypeInv, TypeOK, WorkersPlaced, Placed, CheckoutPc
<1>3. /\ quotes[req[w].quote].status = "active"
      /\ quotes[req[w].quote].hash = Hash(Items(cart))
      /\ orders[o].hash = quotes[req[w].quote].hash
  BY DEF KeptInv, VerifyInv, AsQuoted, QuotedLabel, QuoteAtHand, OrderAtHand
<1>4. Quoted
  BY <1>2, <1>3 DEF Quoted
<1>5. /\ orders[o].quote \in DOMAIN quotes
      /\ orders[o].hash = quotes[orders[o].quote].hash
      /\ orders[o].total = quotes[orders[o].quote].amount
      /\ quotes[orders[o].quote].amount <= MaxPerTransaction[orders[o].actor]
  <2>1. OrderAuthorised /\ OrdersVerify
    BY DEF KeptInv, AuthInv, VerifyInv
  <2>2. /\ orders[o].quote \in DOMAIN quotes
        /\ orders[o].hash = quotes[orders[o].quote].hash
        /\ orders[o].mandate = Sign(orders[o].actor, quotes[orders[o].quote].hash,
                                    quotes[orders[o].quote].amount, orders[o].quote)
        /\ quotes[orders[o].quote].amount <= MaxPerTransaction[orders[o].actor]
    BY <1>2, <2>1 DEF OrderAuthorised
  <2>3. orders[o].mandate = Sign(orders[o].actor, orders[o].hash, orders[o].total,
                                 orders[o].quote)
    BY <1>2, <2>1 DEF OrdersVerify, MandateVerifies
  <2>4. orders[o].total = quotes[orders[o].quote].amount
    BY <2>2, <2>3 DEF Sign
  <2> QED
    BY <2>2, <2>4
<1>6. orders[o].items = Items(cart) /\ orders[o].total = CartTotal(Items(cart))
  <2>1. orders[o].items \in Seq(Row) /\ Items(cart) \in Seq(Row)
    BY <1>1, <1>2, ItemsAre, SnapshotsAre DEF OrderRow, TypeInv, TypeOK
  <2>2. Hash(orders[o].items) = Hash(Items(cart))
    BY <1>2, <1>3 DEF KeptInv, OrdersListed
  <2>3. orders[o].items = Items(cart)
    BY <2>1, <2>2, HashTells
  <2> QED
    BY <1>1, <1>3, <1>5, <2>3, HashPrices DEF KeptInv, VerifyInv
<1>7. ASSUME NEW l \in DOMAIN links,
             orders[links[l].order].actor = orders[o].actor,
             orders[links[l].order].items = Items(cart)
      PROVE  FALSE
  <2>0. /\ links[l].order \in DOMAIN orders
        /\ orders[links[l].order].hash = orders[o].hash
    BY <1>3, <1>7 DEF KeptInv, OwnedInv, LinksNameOrders, OrdersListed
  <2>1. links[l].order = o
    BY <1>2, <1>7, <2>0 DEF KeptInv, SingleInv, OneOrderPerSnapshot
  <2>2. orders[o].link = l
    BY <1>1, <1>7, <2>1 DEF KeptInv, LinksRecorded
  <2>3. l # 0
    BY <1>1, <1>7 DEF TypeInv, TypeOK
  <2> QED
    BY <2>2, <2>3 DEF KeptInv, OwnedInv, LinkAtHand
<1> QED
  BY <1>2, <1>3, <1>4, <1>5, <1>6, <1>7 DEF OrderRow

\* A link issued is a charge of the promise.
LEMMA IssueKeeps ==
    ASSUME OneAtATime, WholePaise, KeptInv, [Next]_vars, NEW w \in Worker, LinkIssued(w)
    PROVE  Promise!Next
<1> DEFINE total == [items \in Snapshot |-> CartTotal(items)]
<1>1. PICK o : o = req[w].order
  OBVIOUS
<1>2. /\ pc[w] = "razorpay" /\ UNCHANGED <<cart, quotes, orders>> /\ links' = NewLink(o)
      /\ TypeInv /\ LinksNameOrders
  BY <1>1 DEF LinkIssued, KeptInv, AuthInv, OwnedInv
<1>3. /\ o \in DOMAIN orders /\ orders[o].actor \in Actor
      /\ Quoted
      /\ orders[o].items = Items(cart)
      /\ orders[o].total = CartTotal(Items(cart))
      /\ orders[o].total <= MaxPerTransaction[orders[o].actor]
      /\ \A l \in DOMAIN links :
           ~(/\ orders[links[l].order].actor = orders[o].actor
             /\ orders[links[l].order].items = Items(cart))
  BY <1>1, <1>2, ReadyToCharge
<1>4. total[Items(cart)] = CartTotal(Items(cart))
  BY <1>2, ItemsType DEF TypeInv
<1>5. Charges' = Append(Charges, [actor  |-> orders[o].actor,
                                  basket |-> Items(cart),
                                  amount |-> total[Items(cart)]])
  BY <1>2, <1>3, <1>4, ChargeAdded
<1>6. \A l \in DOMAIN Charges : ~(/\ Charges[l].actor = orders[o].actor
                                  /\ Charges[l].basket = Items(cart))
  BY <1>3 DEF Charges, ChargeOf
<1>7. UNCHANGED <<Items(cart), Quoted>>
  BY <1>2, QuotedStays
<1>8. \E a \in Actor : Promise!Charge(a)
  BY <1>3, <1>4, <1>5, <1>6, <1>7
  DEF Promise!Charge, Promise!Charged, Quoted, Charges, ChargeOf
<1> QED
  BY <1>8 DEF Promise!Next

LEMMA PromiseStep ==
    ASSUME OneAtATime, WholePaise, "lost" \notin RazorpayAnswers, KeptInv, TypeOK',
           [Next]_vars
    PROVE  [Promise!Next]_Promise!vars
<1>1. TypeInv /\ LinksNameOrders
  BY DEF KeptInv, AuthInv, OwnedInv
<1>2. ASSUME NEW w \in Worker, LinkIssued(w)
      PROVE  [Promise!Next]_Promise!vars
  BY <1>2, IssueKeeps
<1>3. CASE ~ \E w \in Worker : LinkIssued(w)
  <2>1. UNCHANGED Charges
    <3>1. DOMAIN links' = DOMAIN links
      BY <1>3, LinksTouched DEF LinkFails, RecordLink, EndLink
    <3> QED
      BY <1>1, <3>1, ChargesKept
  <2>2. ASSUME NEW w \in Worker, WriteRow(w)
        PROVE  [Promise!Next]_Promise!vars
    BY <2>1, <2>2, WriteKeeps
  <2>3. CASE UNCHANGED cart
    <3>1. CASE Supersede
      BY <2>1, <2>3, <3>1, SupersedeKeeps
    <3>2. ASSUME NEW w \in Worker, CreateQuote(w)
          PROVE  [Promise!Next]_Promise!vars
      BY <2>1, <3>2, QuoteKeeps
    <3>3. ASSUME UNCHANGED quotes \/ \E k \in DOMAIN quotes : ExpireQuote(k)
          PROVE  [Promise!Next]_Promise!vars
      <4>1. \A k \in DOMAIN quotes : quotes[k] \in QuoteRow
        BY <1>1 DEF TypeInv, TypeOK
      <4>2. /\ DOMAIN quotes' = DOMAIN quotes
            /\ \A k \in DOMAIN quotes : /\ quotes'[k].status = quotes[k].status
                                        /\ quotes'[k].hash = quotes[k].hash
        BY <3>3, <4>1 DEF ExpireQuote, QuoteRow
      <4>3. UNCHANGED <<Items(cart), Quoted>>
        BY <2>3, <4>2, QuotedStays
      <4> QED
        BY <1>1, <2>1, <4>3, PromiseSteps DEF TypeInv
    <3> QED
      BY <3>1, <3>2, <3>3, QuotesStep
  <2> QED
    BY <2>2, <2>3, CartTouched
<1> QED
  BY <1>2, <1>3

\* The payment plane keeps the promise of GuardedPayment: with one thread,
\* prices in whole paise, no request dying half-way and no answer of Razorpay
\* lost, every step of every endpoint is a step of the promise or none, so no
\* link is ever made for a stale or superseded quote, for other rows than the
\* cart's or at another amount than they cost, above the actor's limit, or for
\* the second time (agent_checkout in app/main.py, create_payment_order and
\* execute_payment in app/commerce.py).  With finer prices it does not hold:
\* the hash rounds them, so an order may be reused for a cart that costs less
\* or more (run "rounding").
THEOREM PromiseIsKept ==
    ASSUME OneAtATime, WholePaise, ~Aborts, "lost" \notin RazorpayAnswers
    PROVE  Spec => PromiseKept
<1>1. Init => Promise!Init
  <2> SUFFICES ASSUME Init PROVE Promise!Init
    OBVIOUS
  <2>1. Items(cart) \in Snapshot
    BY TypeInit, ItemsType DEF TypeInv
  <2>2. Quoted = FALSE
    BY DEF Init, Quoted
  <2>3. Charges = <<>>
    BY DEF Init, Charges
  <2> QED
    BY <2>1, <2>2, <2>3, Mapping
<1>2. KeptInv /\ [Next]_vars => KeptInv'
  BY KeptNext
<1>3. KeptInv /\ KeptInv' /\ [Next]_vars => [Promise!Next]_Promise!vars
  <2>1. KeptInv' => TypeOK'
    BY DEF KeptInv, AuthInv, TypeInv
  <2> QED
    BY <2>1, PromiseStep
<1> QED
  BY KeptInit, <1>1, <1>2, <1>3, PTL DEF Spec, PromiseKept, Promise!Spec

=============================================================================
