-------------------------- MODULE Spending_proofs --------------------------
(***************************************************************************)
(* What TLAPS proves of the spend that app/main.py sums up over the        *)
(* orders of an actor, and of the limit on it.                             *)
(***************************************************************************)
EXTENDS SerialPlane_proofs

-----------------------------------------------------------------------------
(***************************************************************************)
(* The sum, over a table of orders os.                                     *)
(***************************************************************************)
Counted(os, a, states) == {o \in DOMAIN os : os[o].actor = a /\ os[o].status \in states}
Totals(os) == [o \in DOMAIN os |-> os[o].total]
SpentOf(os, a, states) == Total(Totals(os), Counted(os, a, states))

\* The model's sum is this one.
LEMMA TotalsAre ==
    ASSUME NEW os, NEW S \in SUBSET DOMAIN os, IsFiniteSet(S)
    PROVE  MapThenSumSet(LAMBDA o : os[o].total, S) = Total(Totals(os), S)
<1> DEFINE f == Totals(os)
           iter == CHOOSE g : g = [s \in SUBSET S |-> IF s = {} THEN 0
                                ELSE LET x == CHOOSE x \in s : TRUE
                                     IN  os[x].total + g[s \ {x}]]
<1>1. PICK g : Sums(g, f, S)
  BY SumsExist
<1>2. \A s \in SUBSET S : s # {} => f[Chosen(s)] = os[Chosen(s)].total
  BY DEF Totals, Chosen
<1>3. g = [s \in SUBSET S |-> IF s = {} THEN 0
             ELSE LET x == CHOOSE x \in s : TRUE
                  IN  os[x].total + g[s \ {x}]]
  BY <1>1, <1>2 DEF Sums, Chosen
<1>4. iter = [s \in SUBSET S |-> IF s = {} THEN 0
             ELSE LET x == CHOOSE x \in s : TRUE
                  IN  os[x].total + iter[s \ {x}]]
  BY <1>3
<1>5. MapThenSumSet(LAMBDA o : os[o].total, S) = iter[S]
  BY DEF MapThenSumSet, MapThenFoldSet
<1> HIDE DEF iter
<1>6. Sums(iter, f, S)
  BY <1>2, <1>4 DEF Sums, Chosen
<1>7. PICK h : Sums(h, f, S) /\ Total(f, S) = h[S]
  BY TotalIsSum
<1>8. \A s \in SUBSET (S \cap S) : (\A x \in s : f[x] = f[x]) => iter[s] = h[s]
  <2> HIDE DEF f
  <2> QED
    BY <1>6, <1>7, SumsAgree
<1> QED
  BY <1>5, <1>7, <1>8

LEMMA OrdersCounted ==
    ASSUME NEW os \in Seq(OrderRow), NEW a, NEW states
    PROVE  /\ Counted(os, a, states) \in SUBSET DOMAIN os
           /\ IsFiniteSet(Counted(os, a, states))
           /\ \A o \in DOMAIN os : Totals(os)[o] \in Nat
<1>1. IsFiniteSet(DOMAIN os)
  BY FS_Interval, LenProperties
<1>2. Counted(os, a, states) \in SUBSET DOMAIN os
  BY DEF Counted
<1>3. IsFiniteSet(Counted(os, a, states))
  BY <1>1, <1>2, FS_Subset
<1>4. ASSUME NEW o \in DOMAIN os
      PROVE  Totals(os)[o] \in Nat
  <2>1. os[o] \in OrderRow
    OBVIOUS
  <2>2. os[o].total \in Amount
    BY <2>1 DEF OrderRow
  <2>3. os[o].total \in Nat
    BY <2>2, SnapshotsAre
  <2> QED
    BY <2>3 DEF Totals
<1> QED
  BY <1>2, <1>3, <1>4

\* An actor has spent a natural number of money.
LEMMA SpentNatural ==
    ASSUME NEW os \in Seq(OrderRow), NEW a, NEW states
    PROVE  SpentOf(os, a, states) \in Nat
<1>1. \A o \in Counted(os, a, states) : Totals(os)[o] \in Nat
  BY OrdersCounted
<1> QED
  BY <1>1, OrdersCounted, TotalNatural DEF SpentOf

\* It does not rise while orders only leave the states that count.
LEMMA SpentShrinks ==
    ASSUME NEW os \in Seq(OrderRow), NEW ns \in Seq(OrderRow), NEW a, NEW states,
           DOMAIN ns = DOMAIN os,
           \A o \in DOMAIN os : ns[o].actor = os[o].actor /\ ns[o].total = os[o].total,
           Counted(ns, a, states) \subseteq Counted(os, a, states)
    PROVE  SpentOf(ns, a, states) <= SpentOf(os, a, states)
<1> DEFINE S == Counted(os, a, states)
           T == Counted(ns, a, states)
<1>1. Totals(ns) = Totals(os)
  BY DEF Totals
<1>2. /\ IsFiniteSet(S) /\ T \in SUBSET S
      /\ \A o \in S : Totals(os)[o] \in Nat
  BY OrdersCounted
<1>3. Total(Totals(os), T) <= Total(Totals(os), S)
  <2> HIDE DEF S, T
  <2> QED
    BY <1>2, TotalMonotone
<1> QED
  BY <1>1, <1>3 DEF SpentOf

\* A new order adds its total to what its actor has spent.
LEMMA SpentGrows ==
    ASSUME NEW os \in Seq(OrderRow), NEW row \in OrderRow, NEW a, NEW states,
           row.status \in states
    PROVE  SpentOf(Append(os, row), a, states) =
             IF a = row.actor THEN row.total + SpentOf(os, a, states)
             ELSE SpentOf(os, a, states)
<1> DEFINE n == Len(os) + 1
           ns == Append(os, row)
           S == Counted(os, a, states)
<1>1. /\ ns \in Seq(OrderRow) /\ DOMAIN ns = DOMAIN os \cup {n} /\ n \notin DOMAIN os
      /\ ns[n] = row /\ \A o \in DOMAIN os : ns[o] = os[o]
  OBVIOUS
<1> HIDE DEF ns, n
<1>2. Counted(ns, a, states) = IF a = row.actor THEN S \cup {n} ELSE S
  <2>1. \A o \in DOMAIN os : o \in Counted(ns, a, states) <=> o \in S
    BY <1>1 DEF Counted
  <2>2. n \in Counted(ns, a, states) <=> a = row.actor
    BY <1>1 DEF Counted
  <2>3. Counted(ns, a, states) \subseteq DOMAIN os \cup {n} /\ S \subseteq DOMAIN os
    BY <1>1 DEF Counted
  <2> QED
    BY <2>1, <2>2, <2>3
<1>3. IsFiniteSet(S) /\ n \notin S /\ \A o \in S : Totals(ns)[o] = Totals(os)[o]
  <2>1. IsFiniteSet(S) /\ S \in SUBSET DOMAIN os
    BY OrdersCounted
  <2> HIDE DEF S
  <2> QED
    BY <1>1, <2>1 DEF Totals
<1>4. Total(Totals(ns), S) = Total(Totals(os), S)
  <2> HIDE DEF S
  <2> QED
    BY <1>3, TotalAgrees
<1>5. \A o \in S \cup {n} : Totals(ns)[o] \in Nat
  <2>1. S \cup {n} \subseteq DOMAIN ns
    BY <1>1 DEF Counted
  <2> QED
    BY <1>1, <2>1, OrdersCounted
<1>6. Total(Totals(ns), S \cup {n}) = Totals(ns)[n] + Total(Totals(ns), S)
  <2> HIDE DEF S
  <2> QED
    BY <1>3, <1>5, TotalAdds
<1>7. Totals(ns)[n] = row.total
  BY <1>1 DEF Totals
<1> QED
  BY <1>2, <1>4, <1>6, <1>7 DEF SpentOf, ns

\* The endpoints' sum, before and after a step.
LEMMA SpentIs ==
    ASSUME orders \in Seq(OrderRow), NEW a, NEW states
    PROVE  SpentIn(a, states) = SpentOf(orders, a, states)
<1> DEFINE S == Counted(orders, a, states)
<1>1. S \in SUBSET DOMAIN orders /\ IsFiniteSet(S)
  BY OrdersCounted
<1>2. MapThenSumSet(LAMBDA o : orders[o].total, S) = Total(Totals(orders), S)
  <2> HIDE DEF S
  <2> QED
    BY <1>1, TotalsAre
<1> QED
  BY <1>2 DEF SpentIn, SpentOf, Counted, MapThenSumSet, MapThenFoldSet

LEMMA SpentBecomes ==
    ASSUME orders' \in Seq(OrderRow), NEW a, NEW states
    PROVE  SpentIn(a, states)' = SpentOf(orders', a, states)
<1> DEFINE S == Counted(orders', a, states)
<1>1. S \in SUBSET DOMAIN orders' /\ IsFiniteSet(S)
  BY OrdersCounted
<1>2. MapThenSumSet(LAMBDA o : orders'[o].total, S) = Total(Totals(orders'), S)
  <2> HIDE DEF S
  <2> QED
    BY <1>1, TotalsAre
<1> QED
  BY <1>2 DEF SpentIn, SpentOf, Counted, MapThenSumSet, MapThenFoldSet

\* So what is read of it is a natural number, at any time.
LEMMA SpentType ==
    ASSUME TypeOK, NEW a, NEW states
    PROVE  SpentIn(a, states) \in Nat
<1>1. orders \in Seq(OrderRow)
  BY DEF TypeOK
<1> QED
  BY <1>1, SpentIs, SpentNatural

-----------------------------------------------------------------------------
(***************************************************************************)
(* The session limit, while every call of Razorpay answers with a link.    *)
(* Then no order fails but by the expiry of its link, from which it does   *)
(* not come back, so an order is only ever taken out of the sum.  From the *)
(* check of the limits to the insertion the quote at hand still fits in.   *)
(***************************************************************************)
Charging == {"created", "paid"}

OnlyIssued == RazorpayAnswers \subseteq {"issued"}

Budgeted(w) == PastLimits(w) =>
    \A a \in Actor : a = req[w].actor =>
        SpentIn(a, Charging) + quotes[req[w].quote].amount <= MaxPerSession[a]

NeverFails == \A w \in Worker : pc[w] # "fail"

FailedByExpiry ==
    \A o \in DOMAIN orders : orders[o].status = "failed" =>
        orders[o].link # 0 /\ links[orders[o].link].state = "expired"

CapInv ==
    /\ OwnedInv
    /\ VerifyInv
    /\ NeverFails
    /\ FailedByExpiry
    /\ \A w \in Worker : Budgeted(w)
    /\ SpendCap

LEMMA NeverFailsStep ==
    ASSUME OneAtATime, OnlyIssued, TypeInv, NeverFails, [Next]_vars
    PROVE  NeverFails'
<1> SUFFICES ASSUME NEW w \in Worker PROVE pc'[w] # "fail"
  BY DEF NeverFails
<1>1. pc[w] # "fail" /\ pc \in [Worker -> Label]
  BY DEF NeverFails, TypeInv, TypeOK
<1>2. CASE StartCart(w) \/ StartQuote(w) \/ StartCheckout(w) \/ Abort(w)
  BY <1>2, StartMoves, AnswerMoves DEF TypeInv, Abort, Moves
<1>3. CASE CartStep(w) \/ QuoteStep(w)
  BY <1>3, CartMoves, QuoteMoves DEF TypeInv, Moves, CartPc, QuotePc
<1>4. CASE CheckoutStep(w)
  <2>1. ~LinkFails(w)
    BY DEF LinkFails, OnlyIssued
  <2> QED
    BY <1>1, <1>4, <2>1
    DEF CheckoutStep, ReadCart, ValidateQuote, BlockQuote, CheckLimits, BlockLimits,
        ReuseOrder, NeedOrder, SnapshotCart, FindCartEmpty, InsertOrder, LinkIssued,
        RecordLink, RecordFailure, Settle, Goto, Answer
<1> QED
  BY <1>1, <1>2, <1>3, <1>4, SerialStep

LEMMA FailedByExpiryStep ==
    ASSUME CapInv, [Next]_vars
    PROVE  FailedByExpiry'
<1> SUFFICES ASSUME NEW o \in DOMAIN orders', orders'[o].status = "failed"
             PROVE  orders'[o].link # 0 /\ links'[orders'[o].link].state = "expired"
  BY DEF FailedByExpiry
<1>1. TypeInv /\ KeepsLinks /\ \A l \in DOMAIN links : l # 0
  BY LinksKept DEF CapInv, OwnedInv, PaidInv, TypeInv, TypeOK
<1>2. ASSUME o \in DOMAIN orders, orders[o].status = "failed"
      PROVE  /\ orders[o].link # 0 /\ orders[o].link \in DOMAIN links
             /\ links[orders[o].link].state = "expired"
  BY <1>2 DEF CapInv, FailedByExpiry, OwnedInv, PaidInv, LinksBelong
<1>3. ASSUME NEW w \in Worker, RecordLink(w), o = req[w].order, o \in DOMAIN orders
      PROVE  orders[o].link = 0
  BY <1>3 DEF RecordLink, CapInv, OwnedInv, LinkAtHand
<1>4. ASSUME NEW w \in Worker PROVE ~RecordFailure(w)
  BY DEF RecordFailure, CapInv, NeverFails
<1>5. ASSUME NEW l \in DOMAIN links, links[l].state = "expired"
      PROVE  links'[l].state = "expired"
  <2>1. l \in DOMAIN links'
    BY <1>1 DEF KeepsLinks
  <2> QED
    BY <1>1, <1>5, <2>1, LinkAfter
<1>6. ASSUME NEW l \in DOMAIN links, orders[o].link = l, orders'[o].link = l,
             orders'[o].status = CASE links[l].state = "paid" -> "paid"
                                   [] links[l].state = "expired" -> "failed"
                                   [] OTHER -> orders[o].status,
             o \in DOMAIN orders
      PROVE  links[l].state = "expired"
  <2> SUFFICES ASSUME links[l].state # "expired" PROVE FALSE
    OBVIOUS
  <2>1. links[l].state # "paid"
    BY <1>6
  <2>2. orders'[o].status = orders[o].status
    BY <1>6, <2>1
  <2> QED
    BY <1>2, <1>6, <2>2
<1> QED
  BY <1>1, <1>2, <1>3, <1>4, <1>5, <1>6, OrderAfter

\* Only an insertion makes an actor spend more.
LEMMA SpendStays ==
    ASSUME CapInv, [Next]_vars, ~\E w \in Worker : InsertOrder(w), NEW a
    PROVE  /\ SpentIn(a, Charging) \in Nat /\ SpentIn(a, Charging)' \in Nat
           /\ SpentIn(a, Charging)' <= SpentIn(a, Charging)
<1>1. TypeInv /\ TypeInv' /\ KeepsOrders
  BY TypeNext, OrdersStep DEF CapInv, VerifyInv
<1>2. orders \in Seq(OrderRow) /\ orders' \in Seq(OrderRow)
  BY <1>1 DEF TypeInv, TypeOK
<1>3. ASSUME NEW o \in DOMAIN orders, orders'[o].status \in Charging
      PROVE  orders[o].status \in Charging
  <2> SUFFICES ASSUME orders[o].status = "failed" PROVE FALSE
    <3>1. orders[o] \in OrderRow
      BY <1>2
    <3> QED
      BY <3>1 DEF OrderRow, OrderStatus, Charging
  <2>1. orders[o].link # 0 /\ links[orders[o].link].state = "expired"
    BY DEF CapInv, FailedByExpiry
  <2>2. orders'[o].status # "failed"
    BY <1>3 DEF Charging
  <2> QED
    BY <1>1, <2>1, <2>2, OrderAfter DEF KeepsOrders, RecordFailure, CapInv, NeverFails
<1>4. Counted(orders', a, Charging) \subseteq Counted(orders, a, Charging)
  BY <1>1, <1>3 DEF Counted, KeepsOrders
<1>5. /\ DOMAIN orders' = DOMAIN orders
      /\ \A o \in DOMAIN orders : orders'[o].actor = orders[o].actor
                                  /\ orders'[o].total = orders[o].total
  BY <1>1 DEF KeepsOrders
<1>6. SpentOf(orders', a, Charging) <= SpentOf(orders, a, Charging)
  BY <1>2, <1>4, <1>5, SpentShrinks
<1> QED
  BY <1>2, <1>6, SpentIs, SpentBecomes, SpentNatural

LEMMA QuotesCost ==
    ASSUME TypeInv, NEW k \in DOMAIN quotes
    PROVE  quotes[k].amount \in Nat
<1>1. quotes \in Seq(QuoteRow)
  BY DEF TypeInv, TypeOK
<1>2. quotes[k] \in QuoteRow
  BY <1>1
<1>3. quotes[k].amount \in Amount
  BY <1>2 DEF QuoteRow
<1> QED
  BY <1>3, SnapshotsAre

LEMMA BudgetedStep ==
    ASSUME OneAtATime, CapInv, [Next]_vars, NEW w \in Worker
    PROVE  Budgeted(w)'
<1> SUFFICES ASSUME PastLimits(w)', NEW a \in Actor, a = req'[w].actor
             PROVE  SpentIn(a, Charging)' + quotes'[req'[w].quote].amount
                      <= MaxPerSession[a]
  BY DEF Budgeted
<1> DEFINE k == req[w].quote
<1>1. TypeInv /\ \A v \in Worker : v = w
  BY DEF CapInv, VerifyInv, OneAtATime
<1>2. /\ PastLimits(w) \/ CheckLimits(w)
      /\ req'[w].quote = k /\ req[w].actor = a
  BY <1>1, PastLimitsStep DEF TypeInv
<1>3. SpentIn(a, Charging) + quotes[k].amount <= MaxPerSession[a]
  <2>1. CASE CheckLimits(w)
    BY <1>2, <2>1 DEF CheckLimits, Affordable, WithinLimits, Charging
  <2>2. CASE PastLimits(w)
    BY <1>2, <2>2 DEF CapInv, Budgeted
  <2> QED
    BY <1>2, <2>1, <2>2
<1>4. ~\E v \in Worker : InsertOrder(v)
  <2>1. ~InsertOrder(w)
    <3>1. pc \in [Worker -> Label] /\ pc'[w] # "razorpay"
      BY <1>1 DEF PastLimits, TypeInv, TypeOK
    <3> QED
      BY <3>1 DEF InsertOrder, Goto
  <2> QED
    BY <1>1, <2>1
<1>5. /\ SpentIn(a, Charging) \in Nat /\ SpentIn(a, Charging)' \in Nat
      /\ SpentIn(a, Charging)' <= SpentIn(a, Charging)
  BY <1>4, SpendStays
<1>6. k \in DOMAIN quotes
  BY <1>1, <1>2 DEF TypeInv, WorkersPlaced, Placed, PastLimits, CheckLimits, CheckoutPc
<1>7. quotes'[k].amount = quotes[k].amount
  BY <1>1, <1>6, QuotesStay
<1>8. quotes[k].amount \in Nat /\ MaxPerSession[a] \in Nat
  BY <1>1, <1>6, QuotesCost, LimitAssumption
<1> HIDE DEF k
<1>9. SpentIn(a, Charging)' + quotes'[k].amount <= MaxPerSession[a]
  BY <1>3, <1>5, <1>7, <1>8
<1> QED
  BY <1>2, <1>9

LEMMA SpendCapStep ==
    ASSUME WholePaise, CapInv, [Next]_vars
    PROVE  SpendCap'
<1> SUFFICES ASSUME NEW a \in Actor
             PROVE  SpentIn(a, Charging)' <= MaxPerSession[a]
  BY DEF SpendCap, Charging
<1>1. SpentIn(a, Charging) <= MaxPerSession[a] /\ MaxPerSession[a] \in Nat
  BY LimitAssumption DEF CapInv, SpendCap, Charging
<1>2. CASE ~\E w \in Worker : InsertOrder(w)
  BY <1>1, <1>2, SpendStays
<1>3. ASSUME NEW w \in Worker, InsertOrder(w)
      PROVE  SpentIn(a, Charging)' <= MaxPerSession[a]
  <2> DEFINE k == req[w].quote
             q == quotes[k]
             row == [actor |-> req[w].actor, hash |-> q.hash, items |-> req[w].items,
                     total |-> CartTotal(req[w].items), quote |-> k,
                     mandate |-> Sign(req[w].actor, q.hash, q.amount, k),
                     status |-> "created", link |-> 0]
  <2>1. orders' = Append(orders, row)
    BY <1>3 DEF InsertOrder
  <2>2. /\ orders \in Seq(OrderRow) /\ orders' \in Seq(OrderRow)
        /\ k \in DOMAIN quotes /\ pc[w] = "insert"
        /\ req[w].items = Items(cart) /\ q.hash = Hash(Items(cart))
    BY <1>3, TypeNext
    DEF InsertOrder, CapInv, VerifyInv, TypeInv, TypeOK, WorkersPlaced, Placed, CheckoutPc,
        AsQuoted, QuotedLabel
  <2>3. row.actor = req[w].actor /\ row.status = "created" /\ row.total = q.amount
    BY <2>2, HashPrices DEF CapInv, VerifyInv
  <2> HIDE DEF row
  <2>4. row \in OrderRow
    <3>1. Len(orders) + 1 \in DOMAIN orders' /\ orders'[Len(orders) + 1] = row
      BY <2>1, <2>2
    <3>2. \A n \in DOMAIN orders' : orders'[n] \in OrderRow
      BY <2>2
    <3> QED
      BY <3>1, <3>2
  <2>5. SpentOf(orders', a, Charging) =
          IF a = row.actor THEN row.total + SpentOf(orders, a, Charging)
          ELSE SpentOf(orders, a, Charging)
    BY <2>1, <2>2, <2>3, <2>4, SpentGrows DEF Charging
  <2>6. /\ SpentIn(a, Charging) = SpentOf(orders, a, Charging)
        /\ SpentIn(a, Charging)' = SpentOf(orders', a, Charging)
        /\ SpentOf(orders, a, Charging) \in Nat
    BY <2>2, SpentIs, SpentBecomes, SpentNatural
  <2>7. a = row.actor => SpentIn(a, Charging) + q.amount <= MaxPerSession[a]
    BY <2>2, <2>3 DEF CapInv, Budgeted, PastLimits
  <2>8. q.amount \in Nat
    <3>1. TypeInv
      BY DEF CapInv, VerifyInv
    <3> QED
      BY <2>2, <3>1, QuotesCost
  <2> HIDE DEF q
  <2> QED
    BY <1>1, <2>3, <2>5, <2>6, <2>7, <2>8
<1> QED
  BY <1>2, <1>3

LEMMA CapInit == Init => CapInv
<1>1. Init => NeverFails /\ FailedByExpiry /\ \A w \in Worker : Budgeted(w)
  BY DEF Init, NeverFails, FailedByExpiry, Budgeted, PastLimits
<1>2. ASSUME Init PROVE SpendCap
  <2> SUFFICES ASSUME NEW a \in Actor
               PROVE  SpentIn(a, Charging) <= MaxPerSession[a]
    BY DEF SpendCap, Charging
  <2>1. orders \in Seq(OrderRow) /\ Counted(orders, a, Charging) = {}
    BY <1>2 DEF Init, Counted
  <2>2. SpentOf(orders, a, Charging) = 0
    BY <2>1, TotalOfNone DEF SpentOf
  <2> QED
    BY <2>1, <2>2, SpentIs, LimitAssumption
<1> QED
  BY <1>1, <1>2, OwnedInit, VerifyInit DEF CapInv

LEMMA CapNext ==
    ASSUME OneAtATime, WholePaise, OnlyIssued, CapInv, [Next]_vars
    PROVE  CapInv'
<1>1. OwnedInv' /\ VerifyInv' /\ NeverFails'
  BY OwnedNext, VerifyNext, NeverFailsStep DEF CapInv, VerifyInv
<1> QED
  BY <1>1, FailedByExpiryStep, BudgetedStep, SpendCapStep DEF CapInv

\* What an actor's orders come to, paid or still payable, never exceeds the
\* actor's session limit, whatever expires, is cancelled, reported twice or
\* dies half-way (_session_spend and agent_checkout in app/main.py).  A refused
\* call of Razorpay breaks it: it marks the order as failed, the next checkout
\* is judged without it, and a retry gives it a link that can be paid.  Prices
\* in whole paise make an order come to what its quote was judged by.
THEOREM SpendIsCapped ==
    ASSUME OneAtATime, WholePaise, OnlyIssued
    PROVE  Spec => []SpendCap
<1>1. CapInv /\ [Next]_vars => CapInv'
  BY CapNext
<1>2. CapInv => SpendCap
  BY DEF CapInv
<1> QED
  BY CapInit, <1>1, <1>2, PTL DEF Spec

=============================================================================
