------------------------ MODULE PaymentPlane_proofs ------------------------
(***************************************************************************)
(* What TLAPS proves of PaymentPlane, for every value of its constants.    *)
(***************************************************************************)
EXTENDS PaymentPlane, SequenceTheorems, TLAPS

-----------------------------------------------------------------------------
(* The cart operations. *)

\* The call at hand is one a request may make.
LEMMA CurrentCallType ==
    ASSUME NEW r \in Request, CallsLeft(r)
    PROVE  CurrentCall(r) \in Call
<1>1. CASE r.drop # {}
  <2>1. NextDrop(r) \in RowId \X Sku
    BY <1>1 DEF NextDrop, Request
  <2>2. CurrentCall(r) = RemoveCall(NextDrop(r)[2])
    BY <1>1 DEF CurrentCall
  <2>3. RemoveCall(NextDrop(r)[2]) \in CallRecord
    BY <2>1, DataAssumption DEF RemoveCall, CallRecord
  <2> QED
    BY <2>2, <2>3 DEF RemoveCall, Call
<1>2. CASE r.drop = {}
  <2>1. r.todo \in Seq(Call) /\ r.todo # <<>>
    BY <1>2 DEF Request, CallsLeft
  <2> QED
    BY <1>2, <2>1 DEF CurrentCall
<1> QED
  BY <1>1, <1>2

\* Moving past a call leaves a well-formed request.
LEMMA AfterCallType ==
    ASSUME NEW r \in Request, CallsLeft(r)
    PROVE  AfterCall(r) \in Request
<1>1. NothingLoaded \in Loaded
  BY DEF Loaded
<1>2. CASE r.drop # {}
  BY <1>1, <1>2 DEF AfterCall, Request
<1>3. CASE r.drop = {}
  <2>1. r.todo \in Seq(Call) /\ r.todo # <<>>
    BY <1>3 DEF Request, CallsLeft
  <2>2. Tail(r.todo) \in Seq(Call)
    BY <2>1
  <2> QED
    BY <1>1, <1>3, <2>2 DEF AfterCall, Request
<1> QED
  BY <1>2, <1>3

\* What a call that was not refused wants to leave behind is a row.
LEMMA WantedType ==
    ASSUME NEW call \in Call, NEW l \in Loaded,
           call.kind # "unknown", ~Refuses(call, l),
           Wanted(call, l) # NoRow, Wanted(call, l).qty <= MaxQty
    PROVE  Wanted(call, l) \in Row
<1>1. \/ l = NothingLoaded
      \/ l.id \in RowId /\ l.row \in Row /\ l.id # 0
  BY DataAssumption DEF Loaded, RowId
<1>2. CASE call.kind = "add"
  BY <1>1, <1>2, DataAssumption
  DEF Wanted, Refuses, Row, NoRow, NothingLoaded, Call, CallRecord, Money
<1>3. CASE call.kind = "set"
  BY <1>1, <1>3, DataAssumption
  DEF Wanted, Refuses, Row, NoRow, NothingLoaded, Call, CallRecord, Money
<1>4. CASE call.kind = "addref"
  BY <1>1, <1>4, DataAssumption
  DEF Wanted, Refuses, Row, NoRow, NothingLoaded, Call, CallRecord, Money
<1> QED
  BY <1>2, <1>3, <1>4 DEF Wanted, Call, CallRecord

\* Writing a row keeps the cart well-formed.
LEMMA FlushType ==
    ASSUME NEW c \in Cart, NEW l \in Loaded, NEW r \in Row \cup {NoRow},
           ~Vanished(c, l, r)
    PROVE  Flush(c, l, r) \in Cart
<1>1. \/ l = NothingLoaded
      \/ l.id \in RowId /\ l.row \in Row /\ l.id # 0
  BY DataAssumption DEF Loaded, RowId
<1>2. CASE r = NoRow
  BY <1>2 DEF Flush, Cart
<1>3. CASE r # NoRow /\ l.id = 0
  BY <1>3 DEF Flush, Cart
<1>4. CASE r # NoRow /\ l.id # 0
  <2> DEFINE old == c[l.id]
             new == [sku   |-> old.sku,
                     qty   |-> IF r.qty # l.row.qty THEN r.qty ELSE old.qty,
                     price |-> IF r.price # l.row.price THEN r.price ELSE old.price]
  <2>1. l.id \in RowId /\ l.row \in Row /\ r \in Row
    BY <1>1, <1>4 DEF NothingLoaded
  <2>2. Flush(c, l, r) = [c EXCEPT ![l.id] = new]
    BY <1>4, <2>1 DEF Flush, Cart
  <2>3. CASE old = NoRow
    <3>1. r = l.row
      BY <1>4, <2>3 DEF Vanished
    <3>2. new = NoRow
      BY <2>3, <3>1 DEF NoRow
    <3> QED
      BY <2>2, <3>2 DEF Cart
  <2>4. CASE old # NoRow
    <3>1. old \in Row
      BY <2>1, <2>4 DEF Cart
    <3>2. new \in Row
      BY <2>1, <3>1 DEF Row
    <3> QED
      BY <2>2, <3>2 DEF Cart
  <2> QED
    BY <2>3, <2>4
<1> QED
  BY <1>2, <1>3, <1>4

-----------------------------------------------------------------------------
(***************************************************************************)
(* Type correctness.  It is not inductive alone: a step indexes the tables *)
(* with a worker's locals, so what those hold at each point of a request   *)
(* is part of the invariant.  qs, os and ls are the ids of the quotes,     *)
(* orders and links there are.                                             *)
(***************************************************************************)
Placed(label, r, qs, os, ls) ==
    /\ label \in CartPc => CallsLeft(r)
    /\ label = "write" =>
         /\ CurrentCall(r).kind # "unknown"
         /\ ~Refuses(CurrentCall(r), r.loaded)
    /\ label \in QuotePc => r.op = "quote"
    /\ label \in CheckoutPc => r.op = "checkout" /\ r.quote \in qs
    /\ label \in {"razorpay", "record", "fail"} => r.order \in os
    /\ label = "record" => r.link \in ls
    /\ r.op \in {"quote", "checkout"} => r.actor \in Actor

WorkersPlaced ==
    \A w \in Worker : Placed(pc[w], req[w], DOMAIN quotes, DOMAIN orders, DOMAIN links)

TypeInv == TypeOK /\ WorkersPlaced

\* The tables after a step: well-formed, and no row is ever deleted.
TablesOK ==
    /\ cart' \in Cart
    /\ version' \in Nat
    /\ quotes' \in Seq(QuoteRow)
    /\ orders' \in Seq(OrderRow)
    /\ links' \in Seq(Link)
    /\ DOMAIN quotes \subseteq DOMAIN quotes'
    /\ DOMAIN orders \subseteq DOMAIN orders'
    /\ DOMAIN links \subseteq DOMAIN links'

LEMMA SameTables ==
    ASSUME TypeOK, UNCHANGED database
    PROVE  TablesOK
  BY DEF TypeOK, TablesOK, database

\* Superseding touches the status of the quotes and nothing else.
LEMMA SupersedeType ==
    ASSUME quotes \in Seq(QuoteRow), Supersede
    PROVE  /\ quotes' \in Seq(QuoteRow)
           /\ DOMAIN quotes' = DOMAIN quotes
           /\ \A k \in DOMAIN quotes :
                quotes'[k] = [quotes[k] EXCEPT !.status = "superseded"]
<1>1. DOMAIN quotes = 1 .. Len(quotes) /\ Len(quotes) \in Nat
  OBVIOUS
<1>2. \A k \in DOMAIN quotes : quotes[k] \in QuoteRow
  OBVIOUS
<1>3. \A k \in DOMAIN quotes : [quotes[k] EXCEPT !.status = "superseded"] \in QuoteRow
  BY <1>2 DEF QuoteRow
<1>4. quotes' \in [1 .. Len(quotes) -> QuoteRow]
  BY <1>1, <1>3 DEF Supersede
<1> QED
  BY <1>1, <1>4, SeqDef DEF Supersede

\* Moving a worker leaves every other worker where it is.
LEMMA MoveType ==
    ASSUME TypeOK, NEW w \in Worker, NEW r \in Request, NEW label \in Label,
           Goto(w, label), req' = [req EXCEPT ![w] = r]
    PROVE  /\ pc' \in [Worker -> Label]
           /\ req' \in [Worker -> Request]
           /\ pc'[w] = label /\ req'[w] = r
           /\ \A v \in Worker \ {w} : pc'[v] = pc[v] /\ req'[v] = req[v]
  BY DEF TypeOK, Goto

LEMMA NoRequestType == NoRequest \in Request
  BY DEF NoRequest, Request, Loaded, Snapshot

LEMMA AnswerType ==
    ASSUME TypeOK, NEW w \in Worker, Answer(w)
    PROVE  /\ pc' \in [Worker -> Label]
           /\ req' \in [Worker -> Request]
           /\ pc'[w] = "idle" /\ req'[w] = NoRequest
           /\ \A v \in Worker \ {w} : pc'[v] = pc[v] /\ req'[v] = req[v]
  BY NoRequestType DEF TypeOK, Answer, Label

LEMMA ResumeType ==
    ASSUME TypeOK, NEW w \in Worker, NEW r \in Request, Resume(w, r)
    PROVE  /\ pc' \in [Worker -> Label]
           /\ req' \in [Worker -> Request]
           /\ \/ pc'[w] = "read" /\ req'[w] = r /\ CallsLeft(r)
              \/ pc'[w] = "items" /\ req'[w] = r /\ r.op = "quote"
              \/ pc'[w] = "idle" /\ req'[w] = NoRequest
           /\ \A v \in Worker \ {w} : pc'[v] = pc[v] /\ req'[v] = req[v]
<1>1. "read" \in Label /\ "items" \in Label
  BY DEF Label, CartPc, QuotePc
<1>2. CASE CallsLeft(r)
  BY <1>1, <1>2, MoveType DEF Resume
<1>3. CASE ~CallsLeft(r) /\ r.op = "quote"
  BY <1>1, <1>3, MoveType DEF Resume
<1>4. CASE ~CallsLeft(r) /\ r.op # "quote"
  BY <1>4, AnswerType DEF Resume
<1> QED
  BY <1>2, <1>3, <1>4

\* What a worker holds stays valid while the tables grow, so a step is well
\* typed when the worker that takes it is placed after it.
LEMMA StepType ==
    ASSUME TypeInv, TablesOK, NEW w \in Worker,
           pc' \in [Worker -> Label], req' \in [Worker -> Request],
           \A v \in Worker \ {w} : pc'[v] = pc[v] /\ req'[v] = req[v],
           Placed(pc'[w], req'[w], DOMAIN quotes', DOMAIN orders', DOMAIN links')
    PROVE  TypeInv'
<1>1. \A v \in Worker \ {w} : Placed(pc'[v], req'[v], DOMAIN quotes', DOMAIN orders', DOMAIN links')
  BY DEF TypeInv, WorkersPlaced, TablesOK, Placed
<1>2. WorkersPlaced'
  BY <1>1 DEF WorkersPlaced
<1>3. TypeOK'
  BY DEF TablesOK, TypeOK
<1> QED
  BY <1>2, <1>3 DEF TypeInv

LEMMA GotoStepType ==
    ASSUME TypeInv, TablesOK, NEW w \in Worker, NEW r \in Request, NEW label \in Label,
           Goto(w, label), req' = [req EXCEPT ![w] = r],
           Placed(label, r, DOMAIN quotes', DOMAIN orders', DOMAIN links')
    PROVE  TypeInv'
  BY MoveType, StepType DEF TypeInv

LEMMA IdlePlaced ==
    ASSUME NEW qs, NEW os, NEW ls
    PROVE  Placed("idle", NoRequest, qs, os, ls)
  BY DEF Placed, NoRequest, CartPc, QuotePc, CheckoutPc

LEMMA AnswerStepType ==
    ASSUME TypeInv, TablesOK, NEW w \in Worker, Answer(w)
    PROVE  TypeInv'
  BY AnswerType, IdlePlaced, StepType DEF TypeInv

LEMMA ResumeStepType ==
    ASSUME TypeInv, TablesOK, NEW w \in Worker, NEW r \in Request, Resume(w, r),
           r.op \in {"quote", "checkout"} => r.actor \in Actor
    PROVE  TypeInv'
<1>1. CallsLeft(r) => Placed("read", r, DOMAIN quotes', DOMAIN orders', DOMAIN links')
  BY DEF Placed, QuotePc, CheckoutPc
<1>2. r.op = "quote" => Placed("items", r, DOMAIN quotes', DOMAIN orders', DOMAIN links')
  BY DEF Placed, CartPc, QuotePc, CheckoutPc
<1> QED
  BY <1>1, <1>2, IdlePlaced, ResumeType, StepType DEF TypeInv

LEMMA TypeInit == Init => TypeInv
<1> SUFFICES ASSUME Init PROVE TypeInv
  OBVIOUS
<1>1. EmptyCart \in Cart
  BY DEF EmptyCart, Cart
<1>2. TypeOK
  BY <1>1, NoRequestType DEF Init, TypeOK, Label
<1>3. WorkersPlaced
  BY IdlePlaced DEF Init, WorkersPlaced
<1> QED
  BY <1>2, <1>3 DEF TypeInv

-----------------------------------------------------------------------------
(* The steps of a cart operation. *)

LEMMA ReadRowType ==
    ASSUME TypeInv, NEW w \in Worker, ReadRow(w)
    PROVE  TypeInv'
<1>1. PICK l \in Loads(cart, CurrentCall(req[w]).sku) :
        /\ ~Refuses(CurrentCall(req[w]), l)
        /\ req' = [req EXCEPT ![w].loaded = l]
  BY DEF ReadRow
<1>2. l \in Loaded
  BY <1>1 DEF TypeInv, Loads, Loaded, RowsOf, TypeOK, Cart
<1> DEFINE r == [req[w] EXCEPT !.loaded = l]
<1>3. r \in Request /\ "write" \in Label
  BY <1>2 DEF TypeInv, TypeOK, Request, Label, CartPc
<1>4. Goto(w, "write") /\ req' = [req EXCEPT ![w] = r] /\ TablesOK
  BY <1>1, SameTables DEF ReadRow, TypeInv
<1>5. /\ CurrentCall(r) = CurrentCall(req[w])
      /\ CallsLeft(r) = CallsLeft(req[w])
      /\ r.loaded = l /\ r.op = req[w].op /\ r.actor = req[w].actor
  BY DEF CurrentCall, CallsLeft, NextDrop, TypeInv, TypeOK, Request
<1>6. /\ CurrentCall(req[w]).kind # "unknown" /\ CallsLeft(req[w])
      /\ req[w].op \in {"quote", "checkout"} => req[w].actor \in Actor
  BY DEF ReadRow, TypeInv, WorkersPlaced, Placed, CartPc
<1>7. Placed("write", r, DOMAIN quotes', DOMAIN orders', DOMAIN links')
  BY <1>1, <1>5, <1>6 DEF Placed, CartPc, QuotePc, CheckoutPc
<1> QED
  BY <1>3, <1>4, <1>7, GotoStepType

LEMMA FinishCallType ==
    ASSUME TypeInv, TablesOK, NEW w \in Worker, pc[w] \in CartPc, FinishCall(w)
    PROVE  TypeInv'
<1>1. /\ req[w] \in Request /\ CallsLeft(req[w])
      /\ req[w].op \in {"quote", "checkout"} => req[w].actor \in Actor
  BY DEF TypeInv, TypeOK, WorkersPlaced, Placed
<1>2. AfterCall(req[w]) \in Request
  BY <1>1, AfterCallType
<1>3. AfterCall(req[w]).op = req[w].op /\ AfterCall(req[w]).actor = req[w].actor
  BY <1>1 DEF AfterCall, Request
<1> QED
  BY <1>1, <1>2, <1>3, ResumeStepType DEF FinishCall

LEMMA WriteRowType ==
    ASSUME TypeInv, NEW w \in Worker, WriteRow(w)
    PROVE  TypeInv'
<1> DEFINE l == req[w].loaded
           row == Wanted(CurrentCall(req[w]), l)
<1>1. /\ req[w] \in Request /\ l \in Loaded /\ CallsLeft(req[w])
      /\ Placed("write", req[w], DOMAIN quotes, DOMAIN orders, DOMAIN links)
      /\ CurrentCall(req[w]).kind # "unknown" /\ ~Refuses(CurrentCall(req[w]), l)
  BY DEF TypeInv, TypeOK, Request, WorkersPlaced, Placed, WriteRow, CartPc
<1>2. row \in Row \cup {NoRow}
  BY <1>1, CurrentCallType, WantedType DEF WriteRow
<1>3. cart' \in Cart
  BY <1>1, <1>2, FlushType DEF WriteRow, TypeInv, TypeOK
<1>4. TablesOK
  BY <1>3 DEF WriteRow, TypeInv, TypeOK, TablesOK
<1>5. Placed("supersede", req[w], DOMAIN quotes', DOMAIN orders', DOMAIN links')
  BY <1>1 DEF Placed, CartPc, QuotePc, CheckoutPc
<1>6. Goto(w, "supersede") /\ req' = [req EXCEPT ![w] = req[w]] /\ "supersede" \in Label
  BY DEF WriteRow, TypeInv, TypeOK, Label, CartPc
<1> QED
  BY <1>1, <1>4, <1>5, <1>6, GotoStepType

LEMMA SupersedeQuotesType ==
    ASSUME TypeInv, NEW w \in Worker, SupersedeQuotes(w)
    PROVE  TypeInv'
<1>1. TablesOK
  BY SupersedeType DEF SupersedeQuotes, TypeInv, TypeOK, TablesOK
<1>2. Placed("version", req[w], DOMAIN quotes', DOMAIN orders', DOMAIN links')
  BY DEF SupersedeQuotes, TypeInv, WorkersPlaced, Placed, CartPc, QuotePc, CheckoutPc
<1>3. /\ Goto(w, "version") /\ req' = [req EXCEPT ![w] = req[w]]
      /\ "version" \in Label /\ req[w] \in Request
  BY DEF SupersedeQuotes, TypeInv, TypeOK, Label, CartPc
<1> QED
  BY <1>1, <1>2, <1>3, GotoStepType

LEMMA ReadVersionType ==
    ASSUME TypeInv, NEW w \in Worker, ReadVersion(w)
    PROVE  TypeInv'
<1> DEFINE r == [req[w] EXCEPT !.version = version]
<1>1. r \in Request /\ "bump" \in Label
  BY DEF TypeInv, TypeOK, Request, Label, CartPc
<1>2. /\ CallsLeft(r) = CallsLeft(req[w])
      /\ r.op = req[w].op /\ r.actor = req[w].actor
  BY DEF CallsLeft, TypeInv, TypeOK, Request
<1>3. Placed("bump", r, DOMAIN quotes', DOMAIN orders', DOMAIN links')
  BY <1>2 DEF ReadVersion, TypeInv, WorkersPlaced, Placed, CartPc, QuotePc, CheckoutPc
<1>4. Goto(w, "bump") /\ req' = [req EXCEPT ![w] = r] /\ TablesOK
  BY SameTables DEF ReadVersion, TypeInv
<1> QED
  BY <1>1, <1>3, <1>4, GotoStepType

LEMMA BumpVersionType ==
    ASSUME TypeInv, NEW w \in Worker, BumpVersion(w)
    PROVE  TypeInv'
<1>1. TablesOK
  BY DEF BumpVersion, TypeInv, TypeOK, TablesOK, Request
<1> QED
  BY <1>1, FinishCallType DEF BumpVersion, CartPc

LEMMA CartStepType ==
    ASSUME TypeInv, NEW w \in Worker, CartStep(w)
    PROVE  TypeInv'
<1>1. CASE RefuseCall(w)
  BY <1>1, SameTables, FinishCallType DEF RefuseCall, TypeInv, CartPc
<1>2. CASE RejectItem(w)
  BY <1>2, SameTables, AnswerStepType DEF RejectItem, TypeInv
<1>3. CASE WriteFails(w)
  BY <1>3, SameTables, AnswerStepType DEF WriteFails, TypeInv
<1> QED
  BY <1>1, <1>2, <1>3, ReadRowType, WriteRowType, SupersedeQuotesType,
     ReadVersionType, BumpVersionType DEF CartStep

-----------------------------------------------------------------------------
(* The start of a request. *)

LEMMA StartCartType ==
    ASSUME TypeInv, NEW w \in Worker, StartCart(w)
    PROVE  TypeInv'
<1>1. PICK call \in CartCalls :
        Resume(w, [NoRequest EXCEPT !.op = "cart", !.todo = <<call>>])
  BY DEF StartCart
<1> DEFINE r == [NoRequest EXCEPT !.op = "cart", !.todo = <<call>>]
<1>2. <<call>> \in Seq(Call)
  BY PlaneAssumption
<1>3. r \in Request /\ r.op = "cart"
  BY <1>2, NoRequestType DEF NoRequest, Request
<1>4. TablesOK
  BY SameTables DEF StartCart, TypeInv
<1> QED
  BY <1>1, <1>3, <1>4, ResumeStepType

LEMMA StartQuoteType ==
    ASSUME TypeInv, NEW w \in Worker, StartQuote(w)
    PROVE  TypeInv'
<1> DEFINE rows == {<<i, cart[i].sku>> : i \in RowsOf(cart)}
<1>1. PICK a \in Actor, wanted \in QuoteRequests :
        Resume(w, [NoRequest EXCEPT !.op = "quote", !.actor = a, !.todo = wanted,
                                    !.drop = rows])
  BY DEF StartQuote
<1> DEFINE r == [NoRequest EXCEPT !.op = "quote", !.actor = a, !.todo = wanted,
                                  !.drop = rows]
<1>2. wanted \in Seq(Call)
  BY PlaneAssumption
<1>3. rows \in SUBSET (RowId \X Sku)
  BY DEF RowsOf, TypeInv, TypeOK, Cart, Row
<1> HIDE DEF rows
<1>4. r \in Request /\ r.actor \in Actor
  BY <1>2, <1>3, NoRequestType DEF NoRequest, Request
<1>5. TablesOK
  BY SameTables DEF StartQuote, TypeInv
<1> QED
  BY <1>1, <1>4, <1>5, ResumeStepType

LEMMA StartCheckoutType ==
    ASSUME TypeInv, NEW w \in Worker, StartCheckout(w)
    PROVE  TypeInv'
<1>1. PICK a \in Actor, k \in DOMAIN quotes :
        req' = [req EXCEPT ![w] =
            [NoRequest EXCEPT !.op = "checkout", !.actor = a, !.quote = k,
                              !.status = quotes[k].status]]
  BY DEF StartCheckout
<1> DEFINE r == [NoRequest EXCEPT !.op = "checkout", !.actor = a, !.quote = k,
                                  !.status = quotes[k].status]
<1>2. k \in Nat /\ quotes[k] \in QuoteRow
  BY DEF TypeInv, TypeOK
<1>3. r \in Request
  BY <1>2, NoRequestType DEF NoRequest, Request, QuoteRow
<1>4. TablesOK /\ Goto(w, "cart") /\ "cart" \in Label
  BY SameTables DEF StartCheckout, TypeInv, Label, CheckoutPc
<1>5. r.op = "checkout" /\ r.actor = a /\ r.quote = k
  BY DEF NoRequest
<1>6. Placed("cart", r, DOMAIN quotes', DOMAIN orders', DOMAIN links')
  BY <1>4, <1>5 DEF Placed, CartPc, QuotePc,
                    CheckoutPc, TablesOK
<1> QED
  BY <1>1, <1>3, <1>4, <1>6, GotoStepType

-----------------------------------------------------------------------------
(* The steps of a quote. *)

\* Listings of the cart are snapshots, and what they cost is an amount.
LEMMA ItemsType ==
    ASSUME TypeOK
    PROVE  Items(cart) \in Snapshot
  BY DEF TypeOK, Snapshot

LEMMA QuotedType ==
    ASSUME NEW items \in Snapshot
    PROVE  Hash(items) \in Hashed /\ CartTotal(items) \in Amount
  BY DEF Hashed, Amount

LEMMA ReadItemsType ==
    ASSUME TypeInv, NEW w \in Worker, ReadItems(w)
    PROVE  TypeInv'
<1> DEFINE r == [req[w] EXCEPT !.items = Items(cart)]
<1>1. r \in Request /\ r.op = req[w].op /\ r.actor = req[w].actor
  BY ItemsType DEF TypeInv, TypeOK, Request
<1>2. /\ Goto(w, "stamp") /\ req' = [req EXCEPT ![w] = r] /\ TablesOK
      /\ "stamp" \in Label
  BY SameTables DEF ReadItems, TypeInv, Label, QuotePc
<1>3. Placed("stamp", r, DOMAIN quotes', DOMAIN orders', DOMAIN links')
  BY <1>1 DEF ReadItems, TypeInv, WorkersPlaced, Placed, CartPc, QuotePc, CheckoutPc
<1> QED
  BY <1>1, <1>2, <1>3, GotoStepType

LEMMA StampVersionType ==
    ASSUME TypeInv, NEW w \in Worker, StampVersion(w)
    PROVE  TypeInv'
<1> DEFINE r == [req[w] EXCEPT !.version = version]
<1>1. r \in Request /\ r.op = req[w].op /\ r.actor = req[w].actor
  BY DEF TypeInv, TypeOK, Request
<1>2. /\ Goto(w, "quote") /\ req' = [req EXCEPT ![w] = r] /\ TablesOK
      /\ "quote" \in Label
  BY SameTables DEF StampVersion, TypeInv, Label, QuotePc
<1>3. Placed("quote", r, DOMAIN quotes', DOMAIN orders', DOMAIN links')
  BY <1>1 DEF StampVersion, TypeInv, WorkersPlaced, Placed, CartPc, QuotePc, CheckoutPc
<1> QED
  BY <1>1, <1>2, <1>3, GotoStepType

LEMMA CreateQuoteType ==
    ASSUME TypeInv, NEW w \in Worker, CreateQuote(w)
    PROVE  TypeInv'
<1> DEFINE row == [actor |-> req[w].actor, version |-> req[w].version,
                   hash |-> Hash(req[w].items), amount |-> CartTotal(req[w].items),
                   status |-> "active", expired |-> FALSE]
<1>1. req[w] \in Request /\ req[w].actor \in Actor
  BY DEF CreateQuote, TypeInv, TypeOK, WorkersPlaced, Placed, QuotePc
<1>2. row \in QuoteRow
  BY <1>1, QuotedType DEF Request, QuoteRow
<1>3. quotes' = Append(quotes, row)
  BY DEF CreateQuote
<1> HIDE DEF row
<1>4. quotes' \in Seq(QuoteRow) /\ DOMAIN quotes \subseteq DOMAIN quotes'
  BY <1>2, <1>3 DEF TypeInv, TypeOK
<1>5. TablesOK
  BY <1>4 DEF CreateQuote, TypeInv, TypeOK, TablesOK
<1> QED
  BY <1>5, AnswerStepType DEF CreateQuote

-----------------------------------------------------------------------------
(* The steps of a checkout. *)

LEMMA ReadCartType ==
    ASSUME TypeInv, NEW w \in Worker, ReadCart(w)
    PROVE  TypeInv'
<1> DEFINE r == [req[w] EXCEPT !.items = Items(cart)]
<1>1. /\ r \in Request /\ r.op = req[w].op /\ r.actor = req[w].actor
      /\ r.quote = req[w].quote
  BY ItemsType DEF TypeInv, TypeOK, Request
<1>2. /\ Goto(w, "validate") /\ req' = [req EXCEPT ![w] = r] /\ TablesOK
      /\ "validate" \in Label
  BY SameTables DEF ReadCart, TypeInv, Label, CheckoutPc
<1>3. Placed("validate", r, DOMAIN quotes', DOMAIN orders', DOMAIN links')
  BY <1>1, <1>2 DEF ReadCart, TypeInv, WorkersPlaced, Placed, CartPc, QuotePc,
                    CheckoutPc, TablesOK
<1> QED
  BY <1>1, <1>2, <1>3, GotoStepType

LEMMA ValidateQuoteType ==
    ASSUME TypeInv, NEW w \in Worker, ValidateQuote(w)
    PROVE  TypeInv'
<1> DEFINE r == [req[w] EXCEPT !.items = <<>>]
<1>1. /\ r \in Request /\ r.op = req[w].op /\ r.actor = req[w].actor
      /\ r.quote = req[w].quote
  BY DEF TypeInv, TypeOK, Request, Snapshot
<1>2. /\ Goto(w, "limits") /\ req' = [req EXCEPT ![w] = r] /\ TablesOK
      /\ "limits" \in Label
  BY SameTables DEF ValidateQuote, TypeInv, Label, CheckoutPc
<1>3. Placed("limits", r, DOMAIN quotes', DOMAIN orders', DOMAIN links')
  BY <1>1, <1>2 DEF ValidateQuote, TypeInv, WorkersPlaced, Placed, CartPc, QuotePc,
                    CheckoutPc, TablesOK
<1> QED
  BY <1>1, <1>2, <1>3, GotoStepType

\* Steps that only move on: the limits hold, no order exists.
LEMMA MoveOnType ==
    ASSUME TypeInv, NEW w \in Worker, CheckLimits(w) \/ NeedOrder(w)
    PROVE  TypeInv'
<1>1. PICK label \in {"find", "snapshot"} : Goto(w, label)
  BY DEF CheckLimits, NeedOrder
<1>2. /\ req' = [req EXCEPT ![w] = req[w]] /\ req[w] \in Request /\ TablesOK
      /\ label \in Label
  BY SameTables DEF CheckLimits, NeedOrder, TypeInv, TypeOK, Label, CheckoutPc
<1>3. Placed(label, req[w], DOMAIN quotes', DOMAIN orders', DOMAIN links')
  BY <1>2 DEF CheckLimits, NeedOrder, TypeInv, WorkersPlaced, Placed, CartPc, QuotePc,
              CheckoutPc, TablesOK
<1> QED
  BY <1>1, <1>2, <1>3, GotoStepType

LEMMA ReuseOrderType ==
    ASSUME TypeInv, NEW w \in Worker, ReuseOrder(w)
    PROVE  TypeInv'
<1>1. PICK o \in DOMAIN orders, label \in {"settle", "razorpay"} :
        req' = [req EXCEPT ![w].order = o] /\ Goto(w, label)
  BY DEF ReuseOrder, Matching, OrdersFor
<1> DEFINE r == [req[w] EXCEPT !.order = o]
<1>2. o \in Nat
  BY DEF TypeInv, TypeOK
<1>3. /\ r \in Request /\ r.op = req[w].op /\ r.actor = req[w].actor
      /\ r.quote = req[w].quote /\ r.order = o
  BY <1>2 DEF TypeInv, TypeOK, Request
<1>4. TablesOK /\ label \in Label
  BY SameTables DEF ReuseOrder, TypeInv, Label, CheckoutPc
<1>5. Placed(label, r, DOMAIN quotes', DOMAIN orders', DOMAIN links')
  BY <1>3, <1>4 DEF ReuseOrder, TypeInv, WorkersPlaced, Placed, CartPc, QuotePc,
                    CheckoutPc, TablesOK
<1> QED
  BY <1>1, <1>3, <1>4, <1>5, GotoStepType

LEMMA SnapshotCartType ==
    ASSUME TypeInv, NEW w \in Worker, SnapshotCart(w)
    PROVE  TypeInv'
<1> DEFINE r == [req[w] EXCEPT !.items = Items(cart)]
<1>1. /\ r \in Request /\ r.op = req[w].op /\ r.actor = req[w].actor
      /\ r.quote = req[w].quote
  BY ItemsType DEF TypeInv, TypeOK, Request
<1>2. /\ Goto(w, "insert") /\ req' = [req EXCEPT ![w] = r] /\ TablesOK
      /\ "insert" \in Label
  BY SameTables DEF SnapshotCart, TypeInv, Label, CheckoutPc
<1>3. Placed("insert", r, DOMAIN quotes', DOMAIN orders', DOMAIN links')
  BY <1>1, <1>2 DEF SnapshotCart, TypeInv, WorkersPlaced, Placed, CartPc, QuotePc,
                    CheckoutPc, TablesOK
<1> QED
  BY <1>1, <1>2, <1>3, GotoStepType

LEMMA InsertOrderType ==
    ASSUME TypeInv, NEW w \in Worker, InsertOrder(w)
    PROVE  TypeInv'
<1> DEFINE k == req[w].quote
           q == quotes[k]
           row == [actor |-> req[w].actor, hash |-> q.hash, items |-> req[w].items,
                   total |-> CartTotal(req[w].items), quote |-> k,
                   mandate |-> Sign(req[w].actor, q.hash, q.amount, k),
                   status |-> "created", link |-> 0]
           r == [req[w] EXCEPT !.order = Len(orders) + 1, !.items = <<>>]
<1>1. req[w] \in Request /\ req[w].actor \in Actor /\ k \in DOMAIN quotes
  BY DEF InsertOrder, TypeInv, TypeOK, WorkersPlaced, Placed, CheckoutPc
<1>2. q \in QuoteRow /\ k \in Nat
  BY <1>1 DEF TypeInv, TypeOK
<1>3. Sign(req[w].actor, q.hash, q.amount, k) \in Mandate
  BY <1>1, <1>2 DEF Sign, Mandate, QuoteRow
<1>4. row \in OrderRow
  BY <1>1, <1>2, <1>3, QuotedType DEF Request, QuoteRow, OrderRow, OrderStatus
<1>5. orders' = Append(orders, row)
  BY DEF InsertOrder
<1> HIDE DEF row
<1>6. /\ orders' \in Seq(OrderRow) /\ DOMAIN orders \subseteq DOMAIN orders'
      /\ Len(orders) + 1 \in DOMAIN orders' /\ Len(orders) + 1 \in Nat
  BY <1>4, <1>5 DEF TypeInv, TypeOK
<1>7. TablesOK
  BY <1>6 DEF InsertOrder, TypeInv, TypeOK, TablesOK
<1>8. /\ r \in Request /\ r.op = req[w].op /\ r.actor = req[w].actor
      /\ r.quote = k /\ r.order = Len(orders) + 1
  BY <1>1, <1>6 DEF Request, Snapshot
<1>9. Placed("razorpay", r, DOMAIN quotes', DOMAIN orders', DOMAIN links')
  BY <1>6, <1>7, <1>8 DEF InsertOrder, TypeInv, WorkersPlaced, Placed, CartPc, QuotePc,
                          CheckoutPc, TablesOK
<1>10. Goto(w, "razorpay") /\ req' = [req EXCEPT ![w] = r] /\ "razorpay" \in Label
  BY DEF InsertOrder, Label, CheckoutPc
<1> QED
  BY <1>7, <1>8, <1>9, <1>10, GotoStepType

\* A link made for an existing order is well-formed.
LEMMA NewLinkType ==
    ASSUME TypeOK, NEW o \in DOMAIN orders
    PROVE  /\ NewLink(o) \in Seq(Link)
           /\ DOMAIN links \subseteq DOMAIN NewLink(o)
           /\ Len(links) + 1 \in DOMAIN NewLink(o)
<1>1. o \in Nat /\ orders[o] \in OrderRow
  BY DEF TypeOK
<1>2. [order |-> o, amount |-> orders[o].total, state |-> "open", known |-> FALSE] \in Link
  BY <1>1 DEF Link, LinkState, OrderRow
<1> DEFINE link == [order |-> o, amount |-> orders[o].total, state |-> "open",
                    known |-> FALSE]
<1>3. NewLink(o) = Append(links, link)
  BY DEF NewLink
<1> HIDE DEF link
<1> QED
  BY <1>2, <1>3 DEF TypeOK, link

LEMMA LinkIssuedType ==
    ASSUME TypeInv, NEW w \in Worker, LinkIssued(w)
    PROVE  TypeInv'
<1> DEFINE r == [req[w] EXCEPT !.link = Len(links) + 1]
<1>1. Len(links) + 1 \in Nat /\ req[w].order \in DOMAIN orders
  BY DEF LinkIssued, TypeInv, TypeOK, WorkersPlaced, Placed
<1>2. TablesOK
  BY <1>1, NewLinkType DEF LinkIssued, TypeInv, TypeOK, TablesOK
<1>3. /\ r \in Request /\ r.op = req[w].op /\ r.actor = req[w].actor
      /\ r.quote = req[w].quote /\ r.order = req[w].order
      /\ r.link \in DOMAIN links'
  BY <1>1, NewLinkType DEF LinkIssued, TypeInv, TypeOK, Request
<1>4. Goto(w, "record") /\ req' = [req EXCEPT ![w] = r] /\ "record" \in Label
  BY DEF LinkIssued, Label, CheckoutPc
<1>5. Placed("record", r, DOMAIN quotes', DOMAIN orders', DOMAIN links')
  BY <1>2, <1>3 DEF LinkIssued, TypeInv, WorkersPlaced, Placed, CartPc, QuotePc,
                    CheckoutPc, TablesOK
<1> QED
  BY <1>2, <1>3, <1>4, <1>5, GotoStepType

LEMMA LinkFailsType ==
    ASSUME TypeInv, NEW w \in Worker, LinkFails(w)
    PROVE  TypeInv'
<1> DEFINE o == req[w].order
           r == [req[w] EXCEPT !.status = orders[o].status]
<1>1. o \in DOMAIN orders
  BY DEF LinkFails, TypeInv, WorkersPlaced, Placed
<1>2. links' \in Seq(Link) /\ DOMAIN links \subseteq DOMAIN links'
  BY <1>1, NewLinkType DEF LinkFails, TypeInv, TypeOK
<1>3. TablesOK
  BY <1>2 DEF LinkFails, TypeInv, TypeOK, TablesOK
<1>4. orders[o].status \in OrderStatus
  <2>1. orders[o] \in OrderRow
    BY <1>1 DEF TypeInv, TypeOK
  <2> QED
    BY <2>1 DEF OrderRow
<1>5. /\ r \in Request /\ r.op = req[w].op /\ r.actor = req[w].actor
      /\ r.quote = req[w].quote /\ r.order = req[w].order
  BY <1>4 DEF TypeInv, TypeOK, Request
<1>6. Goto(w, "fail") /\ req' = [req EXCEPT ![w] = r] /\ "fail" \in Label
  BY DEF LinkFails, Label, CheckoutPc
<1>7. Placed("fail", r, DOMAIN quotes', DOMAIN orders', DOMAIN links')
  BY <1>3, <1>5 DEF LinkFails, TypeInv, WorkersPlaced, Placed, CartPc, QuotePc,
                    CheckoutPc, TablesOK
<1> QED
  BY <1>3, <1>5, <1>6, <1>7, GotoStepType

LEMMA RecordLinkType ==
    ASSUME TypeInv, NEW w \in Worker, RecordLink(w)
    PROVE  TypeInv'
<1> DEFINE o == req[w].order
           l == req[w].link
           row == [orders[o] EXCEPT !.link = l]
           link == [links[l] EXCEPT !.known = TRUE]
<1>1. /\ o \in DOMAIN orders /\ orders[o] \in OrderRow
      /\ l \in DOMAIN links /\ links[l] \in Link /\ l \in Nat
  BY DEF RecordLink, TypeInv, TypeOK, WorkersPlaced, Placed
<1>2. /\ row \in OrderRow /\ orders' = [orders EXCEPT ![o] = row]
      /\ link \in Link /\ links' = [links EXCEPT ![l] = link]
  BY <1>1 DEF RecordLink, OrderRow, Link
<1> HIDE DEF row, link
<1>3. orders' \in Seq(OrderRow) /\ DOMAIN orders' = DOMAIN orders
  BY <1>1, <1>2, ExceptSeq DEF TypeInv, TypeOK
<1>4. links' \in Seq(Link) /\ DOMAIN links' = DOMAIN links
  BY <1>1, <1>2, ExceptSeq DEF TypeInv, TypeOK
<1>5. TablesOK
  BY <1>3, <1>4 DEF RecordLink, TypeInv, TypeOK, TablesOK
<1>6. /\ Goto(w, "settle") /\ req' = [req EXCEPT ![w] = req[w]]
      /\ "settle" \in Label /\ req[w] \in Request
  BY DEF RecordLink, TypeInv, TypeOK, Label, CheckoutPc
<1>7. Placed("settle", req[w], DOMAIN quotes', DOMAIN orders', DOMAIN links')
  BY <1>5 DEF RecordLink, TypeInv, WorkersPlaced, Placed, CartPc, QuotePc,
                    CheckoutPc, TablesOK
<1> QED
  BY <1>5, <1>6, <1>7, GotoStepType

LEMMA RecordFailureType ==
    ASSUME TypeInv, NEW w \in Worker, RecordFailure(w)
    PROVE  TypeInv'
<1> DEFINE o == req[w].order
           row == [orders[o] EXCEPT !.status = "failed"]
<1>1. o \in DOMAIN orders /\ orders[o] \in OrderRow
  BY DEF RecordFailure, TypeInv, TypeOK, WorkersPlaced, Placed
<1>2. row \in OrderRow /\ (orders' = orders \/ orders' = [orders EXCEPT ![o] = row])
  BY <1>1 DEF RecordFailure, OrderRow, OrderStatus
<1> HIDE DEF row
<1>3. orders' \in Seq(OrderRow) /\ DOMAIN orders' = DOMAIN orders
  BY <1>1, <1>2, ExceptSeq DEF TypeInv, TypeOK
<1>4. TablesOK
  BY <1>3 DEF RecordFailure, TypeInv, TypeOK, TablesOK
<1> QED
  BY <1>4, AnswerStepType DEF RecordFailure

LEMMA SettleType ==
    ASSUME TypeInv, NEW w \in Worker, Settle(w)
    PROVE  TypeInv'
<1>1. TablesOK
  BY SupersedeType DEF Settle, TypeInv, TypeOK, TablesOK
<1> QED
  BY <1>1, AnswerStepType DEF Settle

LEMMA WorkerStepType ==
    ASSUME TypeInv, NEW w \in Worker, Step(w)
    PROVE  TypeInv'
<1>1. CASE BlockQuote(w)
  BY <1>1, SameTables, AnswerStepType DEF BlockQuote, TypeInv
<1>2. CASE BlockLimits(w)
  BY <1>2, SameTables, AnswerStepType DEF BlockLimits, TypeInv
<1>3. CASE FindCartEmpty(w)
  BY <1>3, SameTables, AnswerStepType DEF FindCartEmpty, TypeInv
<1>4. CASE CartStep(w)
  BY <1>4, CartStepType
<1>5. CASE QuoteStep(w)
  BY <1>5, ReadItemsType, StampVersionType, CreateQuoteType DEF QuoteStep
<1> QED
  BY <1>1, <1>2, <1>3, <1>4, <1>5, ReadCartType, ValidateQuoteType, MoveOnType,
     ReuseOrderType, SnapshotCartType, InsertOrderType, LinkIssuedType,
     LinkFailsType, RecordLinkType, RecordFailureType, SettleType
  DEF Step, CheckoutStep

-----------------------------------------------------------------------------
(* Around the server. *)

\* A step of the surroundings moves no worker.
LEMMA OutsideType ==
    ASSUME TypeInv, TablesOK, UNCHANGED <<pc, req>>
    PROVE  TypeInv'
<1>1. WorkersPlaced'
  BY DEF TypeInv, WorkersPlaced, TablesOK, Placed
<1>2. TypeOK'
  BY DEF TypeInv, TypeOK, TablesOK
<1> QED
  BY <1>1, <1>2 DEF TypeInv

LEMMA ExpireQuoteType ==
    ASSUME TypeInv, NEW k \in DOMAIN quotes, ExpireQuote(k)
    PROVE  TypeInv'
<1> DEFINE row == [quotes[k] EXCEPT !.expired = TRUE]
<1>1. quotes[k] \in QuoteRow
  BY DEF TypeInv, TypeOK
<1>2. row \in QuoteRow /\ quotes' = [quotes EXCEPT ![k] = row]
  BY <1>1 DEF ExpireQuote, QuoteRow
<1> HIDE DEF row
<1>3. quotes' \in Seq(QuoteRow) /\ DOMAIN quotes' = DOMAIN quotes
  BY <1>2, ExceptSeq DEF TypeInv, TypeOK
<1>4. TablesOK
  BY <1>3 DEF ExpireQuote, TypeInv, TypeOK, TablesOK
<1> QED
  BY <1>4, OutsideType DEF ExpireQuote

LEMMA EndLinkType ==
    ASSUME TypeInv, NEW l \in DOMAIN links, EndLink(l)
    PROVE  TypeInv'
<1>1. PICK fate \in LinkFates : links' = [links EXCEPT ![l].state = fate]
  BY DEF EndLink
<1> DEFINE link == [links[l] EXCEPT !.state = fate]
<1>2. links[l] \in Link /\ fate \in LinkState
  BY PlaneAssumption DEF TypeInv, TypeOK, LinkState
<1>3. link \in Link /\ links' = [links EXCEPT ![l] = link]
  BY <1>1, <1>2 DEF Link
<1> HIDE DEF link
<1>4. links' \in Seq(Link) /\ DOMAIN links' = DOMAIN links
  BY <1>3, ExceptSeq DEF TypeInv, TypeOK
<1>5. TablesOK
  BY <1>4 DEF EndLink, TypeInv, TypeOK, TablesOK
<1> QED
  BY <1>5, OutsideType DEF EndLink

\* A report rewrites the status of the orders that know the link.
LEMMA WebhookOrders ==
    ASSUME TypeOK, NEW l \in DOMAIN links, Webhook(l)
    PROVE  /\ orders' \in Seq(OrderRow)
           /\ DOMAIN orders' = DOMAIN orders
           /\ \A o \in DOMAIN orders : \E status \in OrderStatus :
                orders'[o] = [orders[o] EXCEPT !.status = status]
<1>1. DOMAIN orders = 1 .. Len(orders) /\ Len(orders) \in Nat
  BY DEF TypeOK
<1>2. \A o \in DOMAIN orders : orders[o] \in OrderRow
  BY DEF TypeOK
<1>3. DOMAIN orders' = DOMAIN orders
  BY DEF Webhook
<1>4. ASSUME NEW o \in DOMAIN orders
      PROVE  \E status \in OrderStatus : orders'[o] = [orders[o] EXCEPT !.status = status]
  <2> DEFINE new == CASE links[l].state = "paid" -> "paid"
                      [] links[l].state = "expired" -> "failed"
                      [] OTHER -> orders[o].status
  <2>1. new \in OrderStatus
    BY <1>2 DEF OrderRow, OrderStatus
  <2>2. orders'[o] = IF orders[o].link # l THEN orders[o]
                     ELSE [orders[o] EXCEPT !.status = new]
    BY DEF Webhook
  <2>3. orders[o] = [orders[o] EXCEPT !.status = orders[o].status]
        /\ orders[o].status \in OrderStatus
    BY <1>2 DEF OrderRow
  <2> QED
    BY <2>1, <2>2, <2>3
<1>5. \A o \in DOMAIN orders : orders'[o] \in OrderRow
  BY <1>2, <1>4 DEF OrderRow
<1>6. orders' \in [1 .. Len(orders) -> OrderRow]
  BY <1>1, <1>3, <1>5 DEF Webhook
<1> QED
  BY <1>1, <1>3, <1>4, <1>6, SeqDef

LEMMA WebhookType ==
    ASSUME TypeInv, NEW l \in DOMAIN links, Webhook(l)
    PROVE  TypeInv'
<1>1. TablesOK
  BY WebhookOrders DEF Webhook, TypeInv, TypeOK, TablesOK
<1> QED
  BY <1>1, OutsideType DEF Webhook

LEMMA AbortType ==
    ASSUME TypeInv, NEW w \in Worker, Abort(w)
    PROVE  TypeInv'
  BY SameTables, AnswerStepType DEF Abort, TypeInv

LEMMA TypeNext ==
    ASSUME TypeInv, [Next]_vars
    PROVE  TypeInv'
<1>1. ASSUME NEW w \in Worker, RefuseCheckout(w)
      PROVE  TypeInv'
  BY <1>1, SameTables, OutsideType DEF RefuseCheckout, TypeInv, vars, database
<1>2. CASE UNCHANGED vars
  BY <1>2, SameTables, OutsideType DEF TypeInv, vars, database
<1> QED
  BY <1>1, <1>2, StartCartType, StartQuoteType, StartCheckoutType, WorkerStepType,
     AbortType, ExpireQuoteType, EndLinkType, WebhookType DEF Next

\* Every table and every local variable of a request is well-formed in every
\* reachable state, and the request of every worker is one its label allows:
\* whatever the interleaving, a checkout past its start holds a quote of the
\* session, one at Razorpay an order that exists, and one about to record a
\* link a link that exists (app/commerce.py, app/quote.py).
THEOREM TypeCorrect == Spec => [](TypeOK /\ WorkersPlaced)
<1>1. TypeInv => TypeOK /\ WorkersPlaced
  BY DEF TypeInv
<1> QED
  BY TypeInit, TypeNext, <1>1, PTL DEF Spec

-----------------------------------------------------------------------------
(* Quotes are frozen: the steps that touch the quotes table. *)

LEMMA QuotesStep ==
    ASSUME [Next]_vars
    PROVE  \/ UNCHANGED quotes
           \/ Supersede
           \/ \E w \in Worker : CreateQuote(w)
           \/ \E k \in DOMAIN quotes : ExpireQuote(k)
<1>1. ASSUME NEW w \in Worker, CartStep(w)
      PROVE  UNCHANGED quotes \/ Supersede
  BY <1>1 DEF CartStep, ReadRow, RefuseCall, RejectItem, WriteRow, WriteFails,
              SupersedeQuotes, ReadVersion, BumpVersion, database
<1>2. ASSUME NEW w \in Worker, QuoteStep(w)
      PROVE  UNCHANGED quotes \/ CreateQuote(w)
  BY <1>2 DEF QuoteStep, ReadItems, StampVersion, database
<1>3. ASSUME NEW w \in Worker, CheckoutStep(w)
      PROVE  UNCHANGED quotes \/ Supersede
  BY <1>3 DEF CheckoutStep, ReadCart, ValidateQuote, BlockQuote, CheckLimits,
              BlockLimits, ReuseOrder, NeedOrder, SnapshotCart, FindCartEmpty,
              InsertOrder, LinkIssued, LinkFails, RecordLink, RecordFailure,
              Settle, database
<1>4. ASSUME NEW w \in Worker,
             StartCart(w) \/ StartQuote(w) \/ StartCheckout(w) \/ RefuseCheckout(w)
               \/ Abort(w)
      PROVE  UNCHANGED quotes
  BY <1>4 DEF StartCart, StartQuote, StartCheckout, RefuseCheckout, Abort,
              database, vars
<1>5. ASSUME NEW l \in DOMAIN links, EndLink(l) \/ Webhook(l)
      PROVE  UNCHANGED quotes
  BY <1>5 DEF EndLink, Webhook
<1> QED
  BY <1>1, <1>2, <1>3, <1>4, <1>5 DEF Next, Step, vars

LEMMA QuotesKept ==
    ASSUME TypeInv, [Next]_vars
    PROVE  KeepsQuotes
<1>1. /\ quotes \in Seq(QuoteRow)
      /\ \A k \in DOMAIN quotes : quotes[k] \in QuoteRow
  BY DEF TypeInv, TypeOK
<1>2. CASE UNCHANGED quotes
  BY <1>1, <1>2 DEF KeepsQuotes, QuoteRow
<1>3. CASE Supersede
  BY <1>1, <1>3, SupersedeType DEF KeepsQuotes, QuoteRow
<1>4. ASSUME NEW w \in Worker, CreateQuote(w)
      PROVE  KeepsQuotes
  <2>1. PICK row : quotes' = Append(quotes, row)
    BY <1>4 DEF CreateQuote
  <2>2. \A k \in DOMAIN quotes : k \in DOMAIN quotes' /\ quotes'[k] = quotes[k]
    BY <1>1, <2>1
  <2> QED
    BY <1>1, <2>2 DEF KeepsQuotes, QuoteRow
<1>5. ASSUME NEW i \in DOMAIN quotes, ExpireQuote(i)
      PROVE  KeepsQuotes
  <2>1. DOMAIN quotes' = DOMAIN quotes
    BY <1>5 DEF ExpireQuote
  <2>2. \A k \in DOMAIN quotes : quotes'[k] = IF k = i THEN [quotes[k] EXCEPT !.expired = TRUE]
                                             ELSE quotes[k]
    BY <1>5 DEF ExpireQuote
  <2> QED
    BY <1>1, <2>1, <2>2 DEF KeepsQuotes, QuoteRow
<1> QED
  BY <1>2, <1>3, <1>4, <1>5, QuotesStep

\* A quote is an immutable snapshot: whatever the requests do at the same time,
\* no row of the quotes table is rewritten, deleted or reopened (app/quote.py
\* only ever inserts a quote or sets its status to "superseded").
THEOREM QuotesAreFrozen == Spec => QuotesFrozen
<1>1. TypeInv /\ [Next]_vars => KeepsQuotes
  BY QuotesKept
<1> QED
  BY TypeInit, TypeNext, <1>1, PTL DEF Spec, QuotesFrozen

-----------------------------------------------------------------------------
(***************************************************************************)
(* Every order was authorised.  Between the check of the limits and the    *)
(* insertion of the order other requests run, so the inductive invariant   *)
(* also says of a checkout past the check that its quote is within the     *)
(* limit.  It is kept because quotes are frozen and the fields of an order *)
(* that the property names are never written again.                        *)
(***************************************************************************)
PastLimits(w) == pc[w] \in {"find", "snapshot", "insert"}

Cleared ==
    \A w \in Worker : PastLimits(w) =>
        quotes[req[w].quote].amount <= MaxPerTransaction[req[w].actor]

AuthInv == TypeInv /\ OrderAuthorised /\ Cleared

\* An order keeps all but its status and its link.
KeepsOrders ==
    /\ DOMAIN orders' = DOMAIN orders
    /\ \A o \in DOMAIN orders :
         /\ orders'[o].actor = orders[o].actor
         /\ orders'[o].hash = orders[o].hash
         /\ orders'[o].items = orders[o].items
         /\ orders'[o].total = orders[o].total
         /\ orders'[o].quote = orders[o].quote
         /\ orders'[o].mandate = orders[o].mandate

LEMMA OrdersTouched ==
    ASSUME [Next]_vars
    PROVE  \/ UNCHANGED orders
           \/ \E w \in Worker : InsertOrder(w) \/ RecordLink(w) \/ RecordFailure(w)
           \/ \E l \in DOMAIN links : Webhook(l)
<1>1. ASSUME NEW w \in Worker, CartStep(w) \/ QuoteStep(w)
      PROVE  UNCHANGED orders
  BY <1>1 DEF CartStep, ReadRow, RefuseCall, RejectItem, WriteRow, WriteFails,
              SupersedeQuotes, ReadVersion, BumpVersion, QuoteStep, ReadItems,
              StampVersion, CreateQuote, database
<1>2. ASSUME NEW w \in Worker, CheckoutStep(w)
      PROVE  UNCHANGED orders \/ InsertOrder(w) \/ RecordLink(w) \/ RecordFailure(w)
  BY <1>2 DEF CheckoutStep, ReadCart, ValidateQuote, BlockQuote, CheckLimits,
              BlockLimits, ReuseOrder, NeedOrder, SnapshotCart, FindCartEmpty,
              LinkIssued, LinkFails, Settle, database
<1>3. ASSUME NEW w \in Worker,
             StartCart(w) \/ StartQuote(w) \/ StartCheckout(w) \/ RefuseCheckout(w)
               \/ Abort(w)
      PROVE  UNCHANGED orders
  BY <1>3 DEF StartCart, StartQuote, StartCheckout, RefuseCheckout, Abort,
              database, vars
<1>4. ASSUME NEW k \in DOMAIN quotes, ExpireQuote(k)
      PROVE  UNCHANGED orders
  BY <1>4 DEF ExpireQuote
<1>5. ASSUME NEW l \in DOMAIN links, EndLink(l)
      PROVE  UNCHANGED orders
  BY <1>5 DEF EndLink
<1> QED
  BY <1>1, <1>2, <1>3, <1>4, <1>5 DEF Next, Step, vars

LEMMA OrdersStep ==
    ASSUME TypeInv, [Next]_vars
    PROVE  KeepsOrders \/ \E w \in Worker : InsertOrder(w)
<1>1. \A o \in DOMAIN orders : orders[o] \in OrderRow
  BY DEF TypeInv, TypeOK
<1>2. CASE UNCHANGED orders
  BY <1>2 DEF KeepsOrders
<1>3. ASSUME NEW w \in Worker, RecordLink(w)
      PROVE  KeepsOrders
  BY <1>1, <1>3 DEF RecordLink, KeepsOrders, OrderRow
<1>4. ASSUME NEW w \in Worker, RecordFailure(w)
      PROVE  KeepsOrders
  BY <1>1, <1>4 DEF RecordFailure, KeepsOrders, OrderRow
<1>5. ASSUME NEW l \in DOMAIN links, Webhook(l)
      PROVE  KeepsOrders
  BY <1>1, <1>5, WebhookOrders DEF TypeInv, KeepsOrders, OrderRow
<1> QED
  BY <1>2, <1>3, <1>4, <1>5, OrdersTouched

\* Worker w goes to one of the labels, or its request is over; the other
\* workers stay where they are.
Moves(w, labels) ==
    /\ pc'[w] \in labels \cup {"idle"}
    /\ \A v \in Worker \ {w} : pc'[v] = pc[v] /\ req'[v] = req[v]

LEMMA GotoMoves ==
    ASSUME TypeOK, NEW w \in Worker, NEW label, NEW r,
           Goto(w, label), req' = [req EXCEPT ![w] = r]
    PROVE  Moves(w, {label})
  BY DEF TypeOK, Goto, Moves

LEMMA AnswerMoves ==
    ASSUME TypeOK, NEW w \in Worker, Answer(w)
    PROVE  Moves(w, {})
  BY DEF TypeOK, Answer, Moves

LEMMA ResumeMoves ==
    ASSUME TypeOK, NEW w \in Worker, NEW r, Resume(w, r)
    PROVE  Moves(w, {"read", "items"})
<1>1. CASE CallsLeft(r)
  BY <1>1, GotoMoves DEF Resume, Moves
<1>2. CASE ~CallsLeft(r) /\ r.op = "quote"
  BY <1>2, GotoMoves DEF Resume, Moves
<1>3. CASE ~CallsLeft(r) /\ r.op # "quote"
  BY <1>3, AnswerMoves DEF Resume, Moves
<1> QED
  BY <1>1, <1>2, <1>3

LEMMA CartMoves ==
    ASSUME TypeOK, NEW w \in Worker, CartStep(w)
    PROVE  Moves(w, CartPc \cup {"items"})
<1> USE DEF CartPc
<1>1. CASE ReadRow(w)
  BY <1>1 DEF ReadRow, Goto, TypeOK, Moves
<1>2. CASE RefuseCall(w) \/ BumpVersion(w)
  BY <1>2, ResumeMoves DEF RefuseCall, BumpVersion, FinishCall, Moves
<1>3. CASE RejectItem(w) \/ WriteFails(w)
  BY <1>3, AnswerMoves DEF RejectItem, WriteFails, Moves
<1>4. CASE WriteRow(w)
  BY <1>4 DEF WriteRow, Goto, TypeOK, Moves
<1>5. CASE SupersedeQuotes(w)
  BY <1>5 DEF SupersedeQuotes, Goto, TypeOK, Moves, database
<1>6. CASE ReadVersion(w)
  BY <1>6 DEF ReadVersion, Goto, TypeOK, Moves
<1> QED
  BY <1>1, <1>2, <1>3, <1>4, <1>5, <1>6 DEF CartStep

LEMMA QuoteMoves ==
    ASSUME TypeOK, NEW w \in Worker, QuoteStep(w)
    PROVE  Moves(w, QuotePc)
<1>1. CASE ReadItems(w) \/ StampVersion(w)
  BY <1>1 DEF ReadItems, StampVersion, Goto, TypeOK, Moves, QuotePc
<1>2. CASE CreateQuote(w)
  BY <1>2, AnswerMoves DEF CreateQuote, Moves
<1> QED
  BY <1>1, <1>2 DEF QuoteStep

LEMMA StartMoves ==
    ASSUME TypeOK, NEW w \in Worker, StartCart(w) \/ StartQuote(w) \/ StartCheckout(w)
    PROVE  Moves(w, {"read", "items", "cart"})
<1>1. CASE StartCart(w)
  BY <1>1, ResumeMoves DEF StartCart, Moves
<1>2. CASE StartQuote(w)
  BY <1>2, ResumeMoves DEF StartQuote, Moves
<1>3. CASE StartCheckout(w)
  BY <1>3 DEF StartCheckout, Goto, TypeOK, Moves
<1> QED
  BY <1>1, <1>2, <1>3

LEMMA CheckoutMoves ==
    ASSUME TypeOK, NEW w \in Worker, CheckoutStep(w)
    PROVE  \/ Moves(w, CheckoutPc \ {"find", "snapshot", "insert", "record"})
           \/ CheckLimits(w) \/ NeedOrder(w) \/ SnapshotCart(w) \/ LinkIssued(w)
<1> USE DEF CheckoutPc
<1>1. CASE ReadCart(w) \/ ValidateQuote(w)
  BY <1>1 DEF ReadCart, ValidateQuote, Goto, TypeOK, Moves
<1>2. CASE BlockQuote(w) \/ BlockLimits(w) \/ FindCartEmpty(w) \/ RecordFailure(w)
           \/ Settle(w)
  BY <1>2, AnswerMoves
  DEF BlockQuote, BlockLimits, FindCartEmpty, RecordFailure, Settle, Moves
<1>3. CASE ReuseOrder(w)
  BY <1>3 DEF ReuseOrder, Goto, TypeOK, Moves
<1>4. CASE InsertOrder(w)
  BY <1>4 DEF InsertOrder, Goto, TypeOK, Moves
<1>5. CASE LinkFails(w)
  BY <1>5 DEF LinkFails, Goto, TypeOK, Moves
<1>6. CASE RecordLink(w)
  BY <1>6 DEF RecordLink, Goto, TypeOK, Moves
<1> QED
  BY <1>1, <1>2, <1>3, <1>4, <1>5, <1>6 DEF CheckoutStep

\* Only the check of the limits brings a request past them.
LEMMA PastLimitsStep ==
    ASSUME TypeOK, [Next]_vars, NEW w \in Worker, PastLimits(w)'
    PROVE  /\ PastLimits(w) \/ CheckLimits(w)
           /\ req'[w].quote = req[w].quote /\ req'[w].actor = req[w].actor
<1>1. ASSUME NEW v \in Worker, Moves(v, Label \ {"find", "snapshot", "insert"})
      PROVE  PastLimits(w) /\ req'[w] = req[w]
  BY <1>1 DEF Moves, PastLimits
<1>2. ASSUME NEW v \in Worker,
             StartCart(v) \/ StartQuote(v) \/ StartCheckout(v) \/ CartStep(v)
               \/ QuoteStep(v)
      PROVE  Moves(v, Label \ {"find", "snapshot", "insert"})
  BY <1>2, StartMoves, CartMoves, QuoteMoves DEF Moves, Label, CartPc, QuotePc, CheckoutPc
<1>3. ASSUME NEW v \in Worker, Abort(v)
      PROVE  Moves(v, Label \ {"find", "snapshot", "insert"})
  BY <1>3, AnswerMoves DEF Abort, Moves
<1>4. ASSUME NEW v \in Worker, CheckoutStep(v)
      PROVE  \/ Moves(v, Label \ {"find", "snapshot", "insert"})
             \/ CheckLimits(v) \/ NeedOrder(v) \/ SnapshotCart(v)
  <2>1. CASE LinkIssued(v)
    BY <2>1 DEF LinkIssued, Goto, TypeOK, Moves, Label, CheckoutPc
  <2> QED
    BY <1>4, <2>1, CheckoutMoves DEF Moves, Label
<1>5. ASSUME NEW v \in Worker, CheckLimits(v) \/ NeedOrder(v) \/ SnapshotCart(v)
      PROVE  /\ PastLimits(w) \/ CheckLimits(w)
             /\ req'[w].quote = req[w].quote /\ req'[w].actor = req[w].actor
  <2>1. req \in [Worker -> Request] /\ pc \in [Worker -> Label]
    BY DEF TypeOK
  <2>2. CASE v = w
    BY <1>5, <2>1, <2>2
    DEF CheckLimits, NeedOrder, SnapshotCart, PastLimits, Request
  <2>3. CASE v # w
    BY <1>5, <2>1, <2>3
    DEF CheckLimits, NeedOrder, SnapshotCart, PastLimits, Goto
  <2> QED
    BY <2>2, <2>3
<1>6. ASSUME UNCHANGED <<pc, req>>
      PROVE  PastLimits(w) /\ req'[w] = req[w]
  BY <1>6 DEF PastLimits
<1>7. ASSUME NEW k \in DOMAIN quotes, ExpireQuote(k)
      PROVE  UNCHANGED <<pc, req>>
  BY <1>7 DEF ExpireQuote
<1>8. ASSUME NEW l \in DOMAIN links, EndLink(l) \/ Webhook(l)
      PROVE  UNCHANGED <<pc, req>>
  BY <1>8 DEF EndLink, Webhook
<1> QED
  BY <1>1, <1>2, <1>3, <1>4, <1>5, <1>6, <1>7, <1>8
  DEF Next, Step, RefuseCheckout, vars

LEMMA ClearedStep ==
    ASSUME AuthInv, [Next]_vars
    PROVE  Cleared'
<1> SUFFICES ASSUME NEW w \in Worker, PastLimits(w)'
             PROVE  quotes'[req'[w].quote].amount <= MaxPerTransaction[req'[w].actor]
  BY DEF Cleared
<1>1. /\ PastLimits(w) \/ CheckLimits(w)
      /\ req'[w].quote = req[w].quote /\ req'[w].actor = req[w].actor
  BY PastLimitsStep DEF AuthInv, TypeInv
<1>2. quotes[req[w].quote].amount <= MaxPerTransaction[req[w].actor]
  BY <1>1 DEF AuthInv, Cleared, CheckLimits, Affordable, WithinLimits
<1>3. req[w].quote \in DOMAIN quotes
  BY <1>1 DEF AuthInv, TypeInv, WorkersPlaced, Placed, PastLimits, CheckLimits, CheckoutPc
<1>4. quotes[req[w].quote] \in QuoteRow
  BY <1>3 DEF AuthInv, TypeInv, TypeOK
<1>5. quotes'[req[w].quote].amount = quotes[req[w].quote].amount
  BY <1>3, <1>4, QuotesKept DEF AuthInv, KeepsQuotes, QuoteRow
<1> QED
  BY <1>1, <1>2, <1>5

LEMMA AuthorisedStep ==
    ASSUME AuthInv, [Next]_vars
    PROVE  OrderAuthorised'
<1>1. /\ KeepsQuotes
      /\ \A k \in DOMAIN quotes : quotes[k] \in QuoteRow
  BY QuotesKept DEF AuthInv, TypeInv, TypeOK
<1>2. \A k \in DOMAIN quotes : /\ k \in DOMAIN quotes'
                               /\ quotes'[k].hash = quotes[k].hash
                               /\ quotes'[k].amount = quotes[k].amount
  BY <1>1 DEF KeepsQuotes, QuoteRow
<1>3. CASE KeepsOrders
  BY <1>2, <1>3 DEF AuthInv, OrderAuthorised, KeepsOrders
<1>4. ASSUME NEW w \in Worker, InsertOrder(w)
      PROVE  OrderAuthorised'
  <2> DEFINE k == req[w].quote
             q == quotes[k]
             row == [actor |-> req[w].actor, hash |-> q.hash, items |-> req[w].items,
                     total |-> CartTotal(req[w].items), quote |-> k,
                     mandate |-> Sign(req[w].actor, q.hash, q.amount, k),
                     status |-> "created", link |-> 0]
  <2>1. k \in DOMAIN quotes /\ q.amount <= MaxPerTransaction[req[w].actor]
    BY <1>4 DEF InsertOrder, AuthInv, TypeInv, WorkersPlaced, Placed, CheckoutPc, Cleared,
                PastLimits
  <2>2. /\ row.actor = req[w].actor /\ row.hash = q.hash /\ row.quote = k
        /\ row.mandate = Sign(req[w].actor, q.hash, q.amount, k)
    OBVIOUS
  <2>3. orders' = Append(orders, row)
    BY <1>4 DEF InsertOrder
  <2> HIDE DEF row
  <2>4. \A o \in DOMAIN orders' : \/ o \in DOMAIN orders /\ orders'[o] = orders[o]
                                  \/ orders'[o] = row
    BY <2>3 DEF AuthInv, TypeInv, TypeOK
  <2> QED
    BY <1>2, <2>1, <2>2, <2>4 DEF AuthInv, OrderAuthorised
<1> QED
  BY <1>3, <1>4, OrdersStep DEF AuthInv

\* Every order names a quote of the session and carries that quote's hash, a
\* mandate over its amount, and an amount within the actor's transaction limit,
\* for any number of concurrent requests, crashes and failures (agent_checkout
\* in app/main.py, create_payment_order in app/commerce.py).
THEOREM OrdersAreAuthorised == Spec => []OrderAuthorised
<1>1. Init => AuthInv
  <2>1. Init => OrderAuthorised
    BY DEF Init, OrderAuthorised
  <2>2. Init => Cleared
    BY DEF Init, Cleared, PastLimits
  <2> QED
    BY <2>1, <2>2, TypeInit DEF AuthInv
<1>2. AuthInv /\ [Next]_vars => AuthInv'
  BY TypeNext, AuthorisedStep, ClearedStep DEF AuthInv
<1>3. AuthInv => OrderAuthorised
  BY DEF AuthInv
<1> QED
  BY <1>1, <1>2, <1>3, PTL DEF Spec

-----------------------------------------------------------------------------
(***************************************************************************)
(* "paid" means paid.  The webhook marks the orders that know a link, so   *)
(* the inductive invariant says that an order only ever knows a link made  *)
(* for it; between the call of Razorpay and the commit that stores the     *)
(* link it is the worker that holds it.                                    *)
(***************************************************************************)
LinksBelong ==
    /\ \A o \in DOMAIN orders : orders[o].link # 0 =>
         orders[o].link \in DOMAIN links /\ links[orders[o].link].order = o
    /\ \A w \in Worker : pc[w] = "record" => links[req[w].link].order = req[w].order

PaidInv == TypeInv /\ LinksBelong /\ PaidMeansPaid

\* A link is never deleted, keeps its order and its amount, and stays paid.
KeepsLinks ==
    \A l \in DOMAIN links :
        /\ l \in DOMAIN links'
        /\ links'[l].order = links[l].order
        /\ links'[l].amount = links[l].amount
        /\ links[l].state = "paid" => links'[l].state = "paid"

LEMMA LinksTouched ==
    ASSUME [Next]_vars
    PROVE  \/ UNCHANGED links
           \/ \E w \in Worker : LinkIssued(w) \/ LinkFails(w) \/ RecordLink(w)
           \/ \E l \in DOMAIN links : EndLink(l)
<1>1. ASSUME NEW w \in Worker, CartStep(w) \/ QuoteStep(w)
      PROVE  UNCHANGED links
  BY <1>1 DEF CartStep, ReadRow, RefuseCall, RejectItem, WriteRow, WriteFails,
              SupersedeQuotes, ReadVersion, BumpVersion, QuoteStep, ReadItems,
              StampVersion, CreateQuote, database
<1>2. ASSUME NEW w \in Worker, CheckoutStep(w)
      PROVE  UNCHANGED links \/ LinkIssued(w) \/ LinkFails(w) \/ RecordLink(w)
  BY <1>2 DEF CheckoutStep, ReadCart, ValidateQuote, BlockQuote, CheckLimits,
              BlockLimits, ReuseOrder, NeedOrder, SnapshotCart, FindCartEmpty,
              InsertOrder, RecordFailure, Settle, database
<1>3. ASSUME NEW w \in Worker,
             StartCart(w) \/ StartQuote(w) \/ StartCheckout(w) \/ RefuseCheckout(w)
               \/ Abort(w)
      PROVE  UNCHANGED links
  BY <1>3 DEF StartCart, StartQuote, StartCheckout, RefuseCheckout, Abort,
              database, vars
<1>4. ASSUME NEW k \in DOMAIN quotes, ExpireQuote(k)
      PROVE  UNCHANGED links
  BY <1>4 DEF ExpireQuote
<1>5. ASSUME NEW l \in DOMAIN links, Webhook(l)
      PROVE  UNCHANGED links
  BY <1>5 DEF Webhook
<1> QED
  BY <1>1, <1>2, <1>3, <1>4, <1>5 DEF Next, Step, vars

\* The new link comes after the others and names its order.
LEMMA NewLinkKeeps ==
    ASSUME TypeOK, NEW o \in DOMAIN orders, links' = NewLink(o)
    PROVE  KeepsLinks /\ links'[Len(links) + 1].order = o
<1> DEFINE link == [order |-> o, amount |-> orders[o].total, state |-> "open",
                    known |-> FALSE]
<1>1. links' = Append(links, link) /\ link.order = o
  BY DEF NewLink
<1> HIDE DEF link
<1> QED
  BY <1>1 DEF TypeOK, KeepsLinks

LEMMA LinksKept ==
    ASSUME TypeInv, [Next]_vars
    PROVE  KeepsLinks
<1>1. links \in Seq(Link) /\ \A l \in DOMAIN links : links[l] \in Link
  BY DEF TypeInv, TypeOK
<1>2. CASE UNCHANGED links
  BY <1>2 DEF KeepsLinks
<1>3. ASSUME NEW w \in Worker, LinkIssued(w) \/ LinkFails(w)
      PROVE  KeepsLinks
  <2>1. req[w].order \in DOMAIN orders
    BY <1>3 DEF LinkIssued, LinkFails, TypeInv, WorkersPlaced, Placed
  <2>2. UNCHANGED links \/ links' = NewLink(req[w].order)
    BY <1>3 DEF LinkIssued, LinkFails
  <2> QED
    BY <1>2, <2>1, <2>2, NewLinkKeeps DEF TypeInv
<1>4. ASSUME NEW w \in Worker, RecordLink(w)
      PROVE  KeepsLinks
  BY <1>1, <1>4 DEF RecordLink, KeepsLinks, Link
<1>5. ASSUME NEW l \in DOMAIN links, EndLink(l)
      PROVE  KeepsLinks
  BY <1>1, <1>5 DEF EndLink, KeepsLinks, Link
<1> QED
  BY <1>2, <1>3, <1>4, <1>5, LinksTouched

\* Only a link just issued brings a request to the point that records it.
LEMMA RecordStep ==
    ASSUME TypeOK, [Next]_vars, NEW w \in Worker, pc'[w] = "record"
    PROVE  (pc[w] = "record" /\ req'[w] = req[w]) \/ LinkIssued(w)
<1>1. ASSUME NEW v \in Worker, Moves(v, Label \ {"record"})
      PROVE  pc[w] = "record" /\ req'[w] = req[w]
  BY <1>1 DEF Moves
<1>2. ASSUME NEW v \in Worker,
             StartCart(v) \/ StartQuote(v) \/ StartCheckout(v) \/ CartStep(v)
               \/ QuoteStep(v)
      PROVE  Moves(v, Label \ {"record"})
  BY <1>2, StartMoves, CartMoves, QuoteMoves DEF Moves, Label, CartPc, QuotePc, CheckoutPc
<1>3. ASSUME NEW v \in Worker, Abort(v)
      PROVE  Moves(v, Label \ {"record"})
  BY <1>3, AnswerMoves DEF Abort, Moves
<1>4. ASSUME NEW v \in Worker, CheckoutStep(v), ~LinkIssued(v)
      PROVE  Moves(v, Label \ {"record"})
  <2>1. CASE CheckLimits(v) \/ NeedOrder(v) \/ SnapshotCart(v)
    BY <2>1 DEF CheckLimits, NeedOrder, SnapshotCart, Goto, TypeOK, Moves, Label, CheckoutPc
  <2> QED
    BY <1>4, <2>1, CheckoutMoves DEF Moves, Label
<1>5. ASSUME NEW v \in Worker, LinkIssued(v), v # w
      PROVE  pc[w] = "record" /\ req'[w] = req[w]
  BY <1>5 DEF LinkIssued, Goto, TypeOK
<1>6. ASSUME UNCHANGED <<pc, req>>
      PROVE  pc[w] = "record" /\ req'[w] = req[w]
  BY <1>6
<1>7. ASSUME NEW k \in DOMAIN quotes, ExpireQuote(k)
      PROVE  UNCHANGED <<pc, req>>
  BY <1>7 DEF ExpireQuote
<1>8. ASSUME NEW l \in DOMAIN links, EndLink(l) \/ Webhook(l)
      PROVE  UNCHANGED <<pc, req>>
  BY <1>8 DEF EndLink, Webhook
<1> QED
  BY <1>1, <1>2, <1>3, <1>4, <1>5, <1>6, <1>7, <1>8
  DEF Next, Step, RefuseCheckout, vars

LEMMA LinksBelongStep ==
    ASSUME PaidInv, [Next]_vars
    PROVE  LinksBelong'
<1>1. KeepsLinks
  BY LinksKept DEF PaidInv
<1>2. ASSUME NEW w \in Worker, pc'[w] = "record"
      PROVE  links'[req'[w].link].order = req'[w].order
  <2>1. CASE pc[w] = "record" /\ req'[w] = req[w]
    <3>1. req[w].link \in DOMAIN links /\ links[req[w].link].order = req[w].order
      BY <2>1 DEF PaidInv, TypeInv, WorkersPlaced, Placed, LinksBelong
    <3> QED
      BY <1>1, <2>1, <3>1 DEF KeepsLinks
  <2>2. CASE LinkIssued(w)
    <3>1. req[w].order \in DOMAIN orders /\ req[w] \in Request
      BY <2>2 DEF LinkIssued, PaidInv, TypeInv, TypeOK, WorkersPlaced, Placed
    <3>2. req'[w].link = Len(links) + 1 /\ req'[w].order = req[w].order
      BY <2>2, <3>1 DEF LinkIssued, PaidInv, TypeInv, TypeOK, Request
    <3>3. links'[Len(links) + 1].order = req[w].order
      BY <2>2, <3>1, NewLinkKeeps DEF LinkIssued, PaidInv, TypeInv
    <3> QED
      BY <3>2, <3>3
  <2> QED
    BY <1>2, <2>1, <2>2, RecordStep DEF PaidInv, TypeInv
<1>3. ASSUME NEW o \in DOMAIN orders', orders'[o].link # 0
      PROVE  orders'[o].link \in DOMAIN links' /\ links'[orders'[o].link].order = o
  <2>1. CASE o \in DOMAIN orders /\ orders'[o].link = orders[o].link
    BY <1>1, <1>3, <2>1 DEF PaidInv, LinksBelong, KeepsLinks
  <2>2. ASSUME NEW w \in Worker, InsertOrder(w)
        PROVE  orders'[o].link = 0 \/ (o \in DOMAIN orders /\ orders'[o].link = orders[o].link)
    BY <2>2 DEF InsertOrder, PaidInv, TypeInv, TypeOK
  <2>3. ASSUME NEW w \in Worker, RecordFailure(w)
        PROVE  o \in DOMAIN orders /\ orders'[o].link = orders[o].link
    <3>1. orders \in Seq(OrderRow) /\ \A p \in DOMAIN orders : orders[p] \in OrderRow
      BY DEF PaidInv, TypeInv, TypeOK
    <3> QED
      BY <2>3, <3>1 DEF RecordFailure, OrderRow
  <2>4. ASSUME NEW l \in DOMAIN links, Webhook(l)
        PROVE  o \in DOMAIN orders /\ orders'[o].link = orders[o].link
    <3>1. \A p \in DOMAIN orders : orders[p] \in OrderRow
      BY DEF PaidInv, TypeInv, TypeOK
    <3> QED
      BY <2>4, <3>1, WebhookOrders DEF PaidInv, TypeInv, OrderRow
  <2>5. ASSUME NEW w \in Worker, RecordLink(w)
        PROVE  orders'[o].link \in DOMAIN links' /\ links'[orders'[o].link].order = o
    <3>1. \A p \in DOMAIN orders : orders[p] \in OrderRow
      BY DEF PaidInv, TypeInv, TypeOK
    <3>2. o \in DOMAIN orders
      BY <2>5 DEF RecordLink
    <3>3. CASE o = req[w].order
      <4>1. req[w].link \in DOMAIN links /\ links[req[w].link].order = req[w].order
        BY <2>5 DEF RecordLink, PaidInv, TypeInv, WorkersPlaced, Placed, LinksBelong
      <4>2. orders'[o].link = req[w].link
        BY <2>5, <3>1, <3>2, <3>3 DEF RecordLink, OrderRow
      <4> QED
        BY <1>1, <3>3, <4>1, <4>2 DEF KeepsLinks
    <3>4. CASE o # req[w].order
      BY <2>1, <2>5, <3>2, <3>4 DEF RecordLink
    <3> QED
      BY <3>3, <3>4
  <2> QED
    BY <1>3, <2>1, <2>2, <2>3, <2>4, <2>5, OrdersTouched
<1> QED
  BY <1>2, <1>3 DEF LinksBelong

\* An order turns "paid" only on the report of a paid link it knows.
LEMMA PaidStep ==
    ASSUME PaidInv, [Next]_vars
    PROVE  PaidMeansPaid'
<1>1. KeepsLinks /\ \A o \in DOMAIN orders : orders[o] \in OrderRow
  BY LinksKept DEF PaidInv, TypeInv, TypeOK
<1> SUFFICES ASSUME NEW o \in DOMAIN orders', orders'[o].status = "paid"
             PROVE  \E l \in DOMAIN links' : links'[l].order = o /\ links'[l].state = "paid"
  BY DEF PaidMeansPaid
<1>2. CASE o \in DOMAIN orders /\ orders[o].status = "paid"
  <2>1. PICK l \in DOMAIN links : links[l].order = o /\ links[l].state = "paid"
    BY <1>2 DEF PaidInv, PaidMeansPaid
  <2> QED
    BY <1>1, <2>1 DEF KeepsLinks
<1>3. ASSUME NEW w \in Worker, InsertOrder(w)
      PROVE  o \in DOMAIN orders /\ orders[o].status = "paid"
  BY <1>3 DEF InsertOrder, PaidInv, TypeInv, TypeOK
<1>4. ASSUME NEW w \in Worker, RecordLink(w) \/ RecordFailure(w)
      PROVE  o \in DOMAIN orders /\ orders[o].status = "paid"
  BY <1>1, <1>4 DEF RecordLink, RecordFailure, OrderRow
<1>5. ASSUME NEW l \in DOMAIN links, Webhook(l), orders[o].status # "paid"
      PROVE  \E m \in DOMAIN links' : links'[m].order = o /\ links'[m].state = "paid"
  <2>1. o \in DOMAIN orders
    BY <1>5 DEF Webhook
  <2> DEFINE new == CASE links[l].state = "paid" -> "paid"
                      [] links[l].state = "expired" -> "failed"
                      [] OTHER -> orders[o].status
  <2>2. orders'[o] = IF orders[o].link # l THEN orders[o]
                     ELSE [orders[o] EXCEPT !.status = new]
    BY <1>5, <2>1 DEF Webhook
  <2>3. orders[o].link = l /\ new = "paid"
    BY <1>1, <1>5, <2>1, <2>2 DEF OrderRow
  <2>4. links[l].state = "paid"
    BY <1>5, <2>3
  <2>5. links[l].order = o
    <3>1. l # 0
      BY DEF PaidInv, TypeInv, TypeOK
    <3> QED
      BY <2>1, <2>3, <3>1 DEF PaidInv, LinksBelong
  <2> QED
    BY <1>5, <2>4, <2>5 DEF Webhook
<1>6. CASE UNCHANGED orders
  BY <1>2, <1>6
<1>7. ASSUME NEW l \in DOMAIN links, Webhook(l)
      PROVE  o \in DOMAIN orders
  BY <1>7 DEF Webhook
<1> QED
  BY <1>2, <1>3, <1>4, <1>5, <1>6, <1>7, OrdersTouched

\* An order is "paid" only when a payment link made for that very order has
\* been paid, however requests, failures and reports interleave
\* (execute_payment in app/commerce.py, razorpay_webhook in app/main.py).
THEOREM PaidOrdersArePaid == Spec => []PaidMeansPaid
<1>1. Init => PaidInv
  <2>1. Init => LinksBelong /\ PaidMeansPaid
    BY DEF Init, LinksBelong, PaidMeansPaid
  <2> QED
    BY <2>1, TypeInit DEF PaidInv
<1>2. PaidInv /\ [Next]_vars => PaidInv'
  BY TypeNext, LinksBelongStep, PaidStep DEF PaidInv
<1>3. PaidInv => PaidMeansPaid
  BY DEF PaidInv
<1> QED
  BY <1>1, <1>2, <1>3, PTL DEF Spec

=============================================================================
