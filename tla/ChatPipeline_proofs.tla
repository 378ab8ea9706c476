------------------------ MODULE ChatPipeline_proofs ------------------------
(***************************************************************************)
(* What TLAPS proves of the chat beside the agent API: first for any       *)
(* number of workers, then for requests that are served one at a time.     *)
(***************************************************************************)
EXTENDS ChatPipeline, Assistant_proofs, Spending_proofs

-----------------------------------------------------------------------------
(***************************************************************************)
(* Type correctness.  A turn lasts over many steps, between which other    *)
(* requests run, so the invariant says what a turn holds at each of its    *)
(* nodes: the plane is idle unless a tool, a preview or a payment is under *)
(* way, and then it works on what the turn has decided; the quote a turn   *)
(* has read is no older than the preview it started with; and it is only   *)
(* on its way to the payment when its message approves.  n is the number   *)
(* of quotes there are.                                                    *)
(***************************************************************************)
PayPc == {"find", "snapshot", "insert", "razorpay", "record", "fail", "settle"}
Approving(t) == IsAffirmative(t.message) /\ t.shown # 0

TurnPlaced(t, label, r, n) ==
    /\ t.at # "none" => t.actor \in Actor
    /\ t.shown <= n /\ t.now.preview <= n
    /\ t.at = "quote" => t.shown # 0
    /\ t.shown # 0 /\ t.at \notin {"none", "version", "spend", "quote"} =>
         t.shown <= t.quote /\ t.quote <= n
    /\ t.at \notin {"none", "cart", "preview", "pay"} => label = "idle"
    /\ t.at = "tool" /\ t.action \in {"add", "remove", "propose_add"} => t.sku \in Sku
    /\ t.at \in {"check", "pay"} => Approving(t)
    /\ t.at = "cart" /\ label # "idle" => label \in CartPc /\ r.op = "cart"
    /\ t.at = "preview" => label \in {"stamp", "quote"}
    /\ t.at = "check" => r.op = "checkout" /\ r.quote = t.quote /\ r.actor = t.actor
    /\ t.at = "pay" /\ label # "idle" =>
         label \in PayPc /\ r.quote = t.quote /\ r.actor = t.actor

TurnsPlaced == \A w \in Worker : TurnPlaced(turn[w], pc[w], req[w], Len(quotes))

ChatInv ==
    /\ TypeInv
    /\ memory \in Memory /\ memory.preview <= Len(quotes)
    /\ turn \in [Worker -> Turn]
    /\ errors \in Nat
    /\ TurnsPlaced

\* More quotes disturb no turn.
LEMMA MoreQuotes ==
    ASSUME NEW t \in Turn, NEW label, NEW r, NEW n \in Nat, NEW m \in Nat, n <= m,
           TurnPlaced(t, label, r, n)
    PROVE  TurnPlaced(t, label, r, m)
<1>1. t.shown \in Nat /\ t.quote \in Nat /\ t.now.preview \in Nat
  BY DEF Turn, Memory
<1> QED
  BY <1>1 DEF TurnPlaced

LEMMA QuotesGrow ==
    ASSUME TypeInv, TypeInv', DOMAIN quotes \subseteq DOMAIN quotes'
    PROVE  Len(quotes) \in Nat /\ Len(quotes') \in Nat /\ Len(quotes) <= Len(quotes')
<1>1. /\ DOMAIN quotes = 1 .. Len(quotes) /\ Len(quotes) \in Nat
      /\ DOMAIN quotes' = 1 .. Len(quotes') /\ Len(quotes') \in Nat
  BY DEF TypeInv, TypeOK
<1> QED
  BY <1>1

\* The other workers stay where they are.
OthersStay(w) == \A v \in Worker \ {w} : pc'[v] = pc[v] /\ req'[v] = req[v]

\* A step of worker w's turn keeps the invariant when the turn is placed
\* after it.
LEMMA TurnMoves ==
    ASSUME ChatInv, TypeInv', DOMAIN quotes \subseteq DOMAIN quotes',
           NEW w \in Worker, NEW t \in Turn, Put(w, t), OthersStay(w),
           TurnPlaced(t, pc'[w], req'[w], Len(quotes')),
           memory' \in Memory, memory'.preview <= Len(quotes'), errors' \in Nat
    PROVE  ChatInv'
<1>1. Len(quotes) \in Nat /\ Len(quotes') \in Nat /\ Len(quotes) <= Len(quotes')
  BY QuotesGrow DEF ChatInv
<1>2. /\ turn' \in [Worker -> Turn] /\ turn'[w] = t
      /\ \A v \in Worker \ {w} : turn'[v] = turn[v]
  BY DEF ChatInv, Put
<1>3. ASSUME NEW v \in Worker \ {w}
      PROVE  TurnPlaced(turn'[v], pc'[v], req'[v], Len(quotes'))
  <2>1. turn[v] \in Turn /\ TurnPlaced(turn[v], pc[v], req[v], Len(quotes))
    BY DEF ChatInv, TurnsPlaced
  <2> QED
    BY <1>1, <1>2, <2>1, MoreQuotes DEF OthersStay
<1>4. TurnsPlaced'
  BY <1>2, <1>3 DEF TurnsPlaced
<1> QED
  BY <1>2, <1>4 DEF ChatInv

\* So does a step that leaves the plane alone.
LEMMA TurnOnly ==
    ASSUME ChatInv, UNCHANGED <<vars, memory>>, errors' \in Nat,
           NEW w \in Worker, NEW t \in Turn, Put(w, t),
           TurnPlaced(t, pc[w], req[w], Len(quotes))
    PROVE  ChatInv'
<1>1. TypeInv' /\ OthersStay(w) /\ DOMAIN quotes \subseteq DOMAIN quotes'
      /\ Len(quotes') = Len(quotes)
  <2>1. TypeInv'
    BY TypeNext DEF ChatInv
  <2> QED
    BY <2>1 DEF OthersStay, vars
<1>2. TurnPlaced(t, pc'[w], req'[w], Len(quotes'))
  BY DEF vars
<1>3. memory' \in Memory /\ memory'.preview <= Len(quotes')
  BY <1>1 DEF ChatInv
<1> QED
  BY <1>1, <1>2, <1>3, TurnMoves

LEMMA NoTurnType == NoTurn \in Turn
<1>1. NoMessage \in Message
  BY DEF NoMessage, Message
<1>2. NoMemory \in Memory
  BY DEF NoMemory, Memory
<1> QED
  BY <1>1, <1>2 DEF NoTurn, Turn, TurnLabel, Action

\* No turn is under way.
LEMMA NoTurnPlaced ==
    ASSUME NEW label, NEW r, NEW n \in Nat
    PROVE  TurnPlaced(NoTurn, label, r, n)
  BY DEF TurnPlaced, NoTurn, NoMemory

-----------------------------------------------------------------------------
(* The steps of a turn that leave the plane alone. *)

\* What a turn holds, and that its worker is idle.
LEMMA TurnHolds ==
    ASSUME ChatInv, NEW w \in Worker
    PROVE  /\ turn[w] \in Turn /\ turn[w].now \in Memory
           /\ TurnPlaced(turn[w], pc[w], req[w], Len(quotes))
           /\ Len(quotes) \in Nat /\ version \in Nat
           /\ turn[w].now.preview \in Nat /\ turn[w].shown \in Nat
  BY DEF ChatInv, TurnsPlaced, TypeInv, TypeOK, Turn, Memory

LEMMA StartTurnInv ==
    ASSUME ChatInv, NEW w \in Worker, StartTurn(w), UNCHANGED errors
    PROVE  ChatInv'
<1> DEFINE T(a, m) == [NoTurn EXCEPT !.at = "version", !.actor = a, !.message = m,
                                     !.now = Known(a), !.shown = Known(a).preview]
<1>1. PICK a \in Actor : \E m \in Messages[a] : Put(w, T(a, m))
  BY DEF StartTurn
<1>2. PICK m \in Messages[a] : Put(w, T(a, m))
  BY <1>1
<1>3. m \in Message
  BY ChatAssumption
<1>4. /\ Known(a) \in Memory /\ Known(a).preview <= Len(quotes)
      /\ Known(a).preview \in Nat
  <2>1. NoMemory \in Memory /\ NoMemory.preview = 0 /\ Len(quotes) \in Nat
    BY DEF ChatInv, TypeInv, TypeOK, Memory, NoMemory
  <2>2. memory \in Memory /\ memory.preview <= Len(quotes) /\ memory.preview \in Nat
    BY DEF ChatInv, Memory
  <2> QED
    BY <2>1, <2>2 DEF Known
<1>5. UNCHANGED <<vars, memory>> /\ errors' \in Nat
  BY DEF StartTurn, ChatInv
<1>6. T(a, m) \in Turn
  BY <1>3, <1>4, NoTurnType DEF NoTurn, Turn, TurnLabel
<1>7. TurnPlaced(T(a, m), pc[w], req[w], Len(quotes))
  BY <1>4 DEF TurnPlaced, StartTurn, At, NoTurn
<1> HIDE DEF T
<1> QED
  BY <1>2, <1>5, <1>6, <1>7, TurnOnly

LEMMA LoadVersionInv ==
    ASSUME ChatInv, NEW w \in Worker, LoadVersion(w), UNCHANGED errors
    PROVE  ChatInv'
<1> DEFINE t == [turn[w] EXCEPT !.at = "spend", !.version = version]
<1>1. t \in Turn
  BY TurnHolds DEF Turn, TurnLabel
<1>2. TurnPlaced(t, pc[w], req[w], Len(quotes))
  BY TurnHolds DEF TurnPlaced, LoadVersion, At, Turn
<1>3. Put(w, t) /\ UNCHANGED <<vars, memory>> /\ errors' \in Nat
  BY DEF LoadVersion, ChatInv
<1> QED
  BY <1>1, <1>2, <1>3, TurnOnly

LEMMA LoadSpendInv ==
    ASSUME ChatInv, NEW w \in Worker, LoadSpend(w), UNCHANGED errors
    PROVE  ChatInv'
<1> DEFINE spent == SpentIn(turn[w].actor, {"created", "paid"})
           t == [turn[w] EXCEPT !.spent = spent,
                     !.at = IF turn[w].shown = 0 THEN "route" ELSE "quote"]
<1>1. spent \in Nat
  BY SpentType DEF ChatInv, TypeInv
<1>2. Put(w, t) /\ UNCHANGED <<vars, memory>> /\ errors' \in Nat
  BY DEF LoadSpend, ChatInv
<1> HIDE DEF spent
<1>3. t \in Turn
  BY <1>1, TurnHolds DEF Turn, TurnLabel
<1>4. TurnPlaced(t, pc[w], req[w], Len(quotes))
  BY TurnHolds DEF TurnPlaced, LoadSpend, At, Turn
<1> QED
  BY <1>2, <1>3, <1>4, TurnOnly

LEMMA LoadQuoteInv ==
    ASSUME ChatInv, NEW w \in Worker, LoadQuote(w), UNCHANGED errors
    PROVE  ChatInv'
<1> DEFINE n == Len(quotes)
           status == quotes[n].status
           t == [turn[w] EXCEPT !.at = "route", !.quote = n, !.status = status]
<1>1. turn[w].shown # 0 /\ turn[w].shown <= n /\ n \in Nat
  BY TurnHolds DEF TurnPlaced, LoadQuote, At
<1>2. quotes[n] \in QuoteRow
  <2>1. n \in DOMAIN quotes
    BY <1>1, TurnHolds DEF ChatInv, TypeInv, TypeOK
  <2> QED
    BY <2>1 DEF ChatInv, TypeInv, TypeOK
<1>3. status \in {"none", "active", "superseded"}
  BY <1>2 DEF QuoteRow
<1>4. Put(w, t) /\ UNCHANGED <<vars, memory>> /\ errors' \in Nat
  BY DEF LoadQuote, ChatInv
<1> HIDE DEF status
<1>5. t \in Turn
  BY <1>1, <1>3, TurnHolds DEF Turn, TurnLabel
<1>6. TurnPlaced(t, pc[w], req[w], n)
  BY <1>1, TurnHolds DEF TurnPlaced, LoadQuote, At, Turn
<1> QED
  BY <1>4, <1>5, <1>6, TurnOnly

\* What the search leaves.
LEMMA PropositionsType ==
    ASSUME NEW offers \in Seq(Suggestion)
    PROVE  Propositions(offers) \in Sku \cup {0}
<1>1. offers # <<>> => offers[1] \in Suggestion
  BY EmptySeq, ElementOfSeq, LenProperties
<1>2. \A s \in Suggestion : s.sku \in Sku
  BY DEF Suggestion
<1> QED
  BY <1>1, <1>2 DEF Propositions

LEMMA DiscoverInv ==
    ASSUME ChatInv, NEW w \in Worker, Discover(w), UNCHANGED errors
    PROVE  ChatInv'
<1>1. PICK f \in Findings :
        Put(w, [turn[w] EXCEPT !.at = "select",
                    !.now.suggestions = f.suggestions, !.now.candidates = f.candidates,
                    !.now.pending = Propositions(f.suggestions)])
  BY DEF Discover
<1> DEFINE now == [turn[w].now EXCEPT !.suggestions = f.suggestions,
                       !.candidates = f.candidates, !.pending = Propositions(f.suggestions)]
           t == [turn[w] EXCEPT !.at = "select", !.now = now]
<1>2. f.suggestions \in Seq(Suggestion) /\ f.candidates \in Seq(Merchant)
  BY ChatAssumption DEF Finding
<1>3. now \in Memory /\ now.preview = turn[w].now.preview
  BY <1>2, PropositionsType, TurnHolds DEF Memory
<1>4. t = [turn[w] EXCEPT !.at = "select",
               !.now.suggestions = f.suggestions, !.now.candidates = f.candidates,
               !.now.pending = Propositions(f.suggestions)]
  BY TurnHolds DEF Turn, Memory
<1> HIDE DEF now
<1>5. t \in Turn
  BY <1>3, TurnHolds DEF Turn, TurnLabel
<1>6. TurnPlaced(t, pc[w], req[w], Len(quotes))
  BY <1>3, TurnHolds DEF TurnPlaced, Discover, At, Turn
<1>7. Put(w, t) /\ UNCHANGED <<vars, memory>> /\ errors' \in Nat
  BY <1>1, <1>4 DEF Discover, ChatInv
<1> QED
  BY <1>5, <1>6, <1>7, TurnOnly

\* A turn that has nothing more to ask of the plane.
Started == {"none", "version", "spend", "quote"}

LEMMA RestsPlaced ==
    ASSUME NEW t \in Turn, NEW u \in Turn, NEW r, NEW m, NEW label, NEW n,
           TurnPlaced(t, label, r, n), t.at \notin Started,
           u.at \in {"select", "refresh", "stale", "update"},
           u.actor = t.actor, u.shown = t.shown, u.quote = t.quote, u.now.preview <= n
    PROVE  TurnPlaced(u, "idle", m, n)
  BY DEF TurnPlaced, Started

LEMMA RestInv ==
    ASSUME ChatInv, NEW w \in Worker, NEW u \in Turn, Put(w, u), pc[w] = "idle",
           UNCHANGED <<vars, memory, errors>>, turn[w].at \notin Started,
           u.at \in {"select", "refresh", "stale", "update"},
           u.actor = turn[w].actor, u.shown = turn[w].shown, u.quote = turn[w].quote,
           u.now.preview = turn[w].now.preview
    PROVE  ChatInv'
<1>1. u.now.preview <= Len(quotes)
  BY TurnHolds DEF TurnPlaced
<1>2. TurnPlaced(u, pc[w], req[w], Len(quotes))
  BY <1>1, TurnHolds, RestsPlaced
<1>3. UNCHANGED <<vars, memory>> /\ errors' \in Nat
  BY DEF ChatInv
<1> QED
  BY <1>2, <1>3, TurnOnly

LEMMA MoveInv ==
    ASSUME ChatInv, NEW w \in Worker, NEW label \in {"select", "refresh", "stale", "update"},
           Move(w, label), pc[w] = "idle", UNCHANGED <<vars, memory, errors>>,
           turn[w].at \notin Started
    PROVE  ChatInv'
<1> DEFINE u == [turn[w] EXCEPT !.at = label]
<1>1. /\ u \in Turn /\ u.at = label /\ u.actor = turn[w].actor
      /\ u.shown = turn[w].shown /\ u.quote = turn[w].quote /\ u.now = turn[w].now
  BY TurnHolds DEF Turn, TurnLabel
<1>2. Put(w, u)
  BY DEF Move
<1> HIDE DEF u
<1> QED
  BY <1>1, <1>2, RestInv

\* The nodes that only move on, or read a version.
LEMMA RestStepInv ==
    ASSUME ChatInv, NEW w \in Worker, UNCHANGED errors,
           \/ ToolShow(w) \/ RefreshTurn(w) \/ BlockApproval(w) \/ GuardRefuse(w)
           \/ EndPay(w) \/ SaveRead(w)
    PROVE  ChatInv'
<1>1. CASE ToolShow(w) \/ BlockApproval(w) \/ GuardRefuse(w) \/ EndPay(w)
  BY <1>1, MoveInv DEF ToolShow, BlockApproval, GuardRefuse, EndPay, At, Started
<1>2. CASE RefreshTurn(w)
  <2> DEFINE u == [turn[w] EXCEPT !.at = "select", !.version = version]
  <2>1. /\ u \in Turn /\ u.at = "select" /\ u.actor = turn[w].actor
        /\ u.shown = turn[w].shown /\ u.quote = turn[w].quote /\ u.now = turn[w].now
    BY TurnHolds DEF Turn, TurnLabel
  <2>2. /\ Put(w, u) /\ pc[w] = "idle" /\ UNCHANGED <<vars, memory, errors>>
        /\ turn[w].at \notin Started
    BY <1>2 DEF RefreshTurn, At, Started
  <2> HIDE DEF u
  <2> QED
    BY <2>1, <2>2, RestInv
<1>3. CASE SaveRead(w)
  <2> DEFINE u == [turn[w] EXCEPT !.at = "update", !.saved = version]
  <2>1. /\ u \in Turn /\ u.at = "update" /\ u.actor = turn[w].actor
        /\ u.shown = turn[w].shown /\ u.quote = turn[w].quote /\ u.now = turn[w].now
    BY TurnHolds DEF Turn, TurnLabel
  <2>2. /\ Put(w, u) /\ pc[w] = "idle" /\ UNCHANGED <<vars, memory, errors>>
        /\ turn[w].at \notin Started
    BY <1>3 DEF SaveRead, At, Started
  <2> HIDE DEF u
  <2> QED
    BY <2>1, <2>2, RestInv
<1> QED
  BY <1>1, <1>2, <1>3

LEMMA ToolProposeInv ==
    ASSUME ChatInv, NEW w \in Worker, ToolPropose(w), UNCHANGED errors
    PROVE  ChatInv'
<1> DEFINE now == [turn[w].now EXCEPT !.pending = turn[w].sku]
           u == [turn[w] EXCEPT !.at = "refresh", !.now = now]
<1>1. turn[w].sku \in Sku \cup {0} /\ turn[w].now \in Memory
  BY TurnHolds DEF Turn
<1>2. now \in Memory /\ now.preview = turn[w].now.preview
  BY <1>1 DEF Memory
<1>3. u = [turn[w] EXCEPT !.at = "refresh", !.now.pending = turn[w].sku]
  BY TurnHolds DEF Turn, Memory
<1> HIDE DEF now
<1>4. /\ u \in Turn /\ u.at = "refresh" /\ u.actor = turn[w].actor
      /\ u.shown = turn[w].shown /\ u.quote = turn[w].quote /\ u.now = now
  BY <1>2, TurnHolds DEF Turn, TurnLabel
<1>5. /\ Put(w, u) /\ pc[w] = "idle" /\ UNCHANGED <<vars, memory, errors>>
      /\ turn[w].at \notin Started
  BY <1>3 DEF ToolPropose, At, Started
<1> HIDE DEF u
<1> QED
  BY <1>2, <1>4, <1>5, RestInv

LEMMA EndCartInv ==
    ASSUME ChatInv, NEW w \in Worker, EndCart(w), UNCHANGED errors
    PROVE  ChatInv'
<1> DEFINE t == turn[w]
           next == Len(t.now.suggestions) + 1
           offers == IF t.action = "add" /\ t.done /\ next \in DOMAIN ListingSku
                     THEN {<<>>} \cup {<<[sku |-> ListingSku[next], price |-> p]>> : p \in CrossSold}
                     ELSE {<<>>}
<1>1. PICK more \in offers :
        Put(w, [t EXCEPT !.at = "refresh", !.now.suggestions = @ \o more])
  BY DEF EndCart
<1>2. offers \subseteq Seq(Suggestion)
  <2>1. ASSUME NEW p \in CrossSold, next \in DOMAIN ListingSku
        PROVE  [sku |-> ListingSku[next], price |-> p] \in Suggestion
    <3>1. ListingSku[next] \in Reference /\ p \in ListingPrice
      BY <2>1, ChatAssumption
    <3> QED
      BY <3>1 DEF Suggestion, Sku, Money
  <2>2. \A s \in Suggestion : <<s>> \in Seq(Suggestion)
    OBVIOUS
  <2>3. <<>> \in Seq(Suggestion)
    OBVIOUS
  <2>4. ASSUME NEW p \in CrossSold, next \in DOMAIN ListingSku
        PROVE  <<[sku |-> ListingSku[next], price |-> p]>> \in Seq(Suggestion)
    BY <2>1, <2>2, <2>4
  <2> HIDE DEF next
  <2> QED
    BY <2>3, <2>4
<1> DEFINE now == [t.now EXCEPT !.suggestions = t.now.suggestions \o more]
           u == [t EXCEPT !.at = "refresh", !.now = now]
<1>3. more \in Seq(Suggestion) /\ t.now.suggestions \in Seq(Suggestion)
  <2> HIDE DEF offers
  <2> QED
    BY <1>2, TurnHolds DEF Memory
<1>4. t.now.suggestions \o more \in Seq(Suggestion)
  BY <1>3
<1>5. now \in Memory /\ now.preview = t.now.preview
  BY <1>4, TurnHolds DEF Memory
<1>6. u = [t EXCEPT !.at = "refresh", !.now.suggestions = @ \o more]
  BY TurnHolds DEF Turn, Memory
<1> HIDE DEF now, offers
<1>7. /\ u \in Turn /\ u.at = "refresh" /\ u.actor = t.actor
      /\ u.shown = t.shown /\ u.quote = t.quote /\ u.now = now
  BY <1>5, TurnHolds DEF Turn, TurnLabel
<1>8. /\ Put(w, u) /\ pc[w] = "idle" /\ UNCHANGED <<vars, memory, errors>>
      /\ t.at \notin Started
  BY <1>1, <1>6 DEF EndCart, At, Started
<1> HIDE DEF u
<1> QED
  BY <1>5, <1>7, <1>8, RestInv

LEMMA SaveRefusedInv ==
    ASSUME ChatInv, NEW w \in Worker, SaveRefused(w), UNCHANGED errors
    PROVE  ChatInv'
<1>1. Put(w, NoTurn) /\ UNCHANGED <<vars, memory>> /\ errors' \in Nat
  BY DEF SaveRefused, ChatInv
<1>2. TurnPlaced(NoTurn, pc[w], req[w], Len(quotes))
  BY TurnHolds, NoTurnPlaced
<1> QED
  BY <1>1, <1>2, NoTurnType, TurnOnly

\* What is decided on is a context.
LEMMA SkusType ==
    ASSUME NEW offers \in Seq(Suggestion)
    PROVE  Skus(offers) \in Seq(Sku)
<1> DEFINE n == Len(offers)
           skus == Skus(offers)
<1>1. n \in Nat /\ DOMAIN offers = 1 .. n /\ \A i \in 1 .. n : offers[i] \in Suggestion
  BY LenProperties, ElementOfSeq
<1>2. \A s \in Suggestion : s.sku \in Sku
  BY DEF Suggestion
<1>3. skus \in [1 .. n -> Sku]
  BY <1>1, <1>2 DEF Skus
<1> HIDE DEF skus, n
<1>4. skus \in Seq(Sku)
  BY <1>1, <1>3, SeqDef
<1> QED
  BY <1>4 DEF skus

LEMMA SkusEmpty ==
    ASSUME NEW offers \in Seq(Suggestion)
    PROVE  Skus(offers) = <<>> <=> offers = <<>>
<1>1. DOMAIN offers = 1 .. Len(offers) /\ Len(offers) \in Nat /\ Skus(offers) \in Seq(Sku)
  BY SkusType
<1>2. DOMAIN Skus(offers) = DOMAIN offers
  BY DEF Skus
<1>3. Len(Skus(offers)) = Len(offers)
  BY <1>1, <1>2, LenProperties
<1> QED
  BY <1>1, <1>3, EmptySeq

LEMMA ContextType ==
    ASSUME NEW m \in Memory, NEW cached \in BOOLEAN
    PROVE  ContextOf(m, cached) \in Context
<1>1. /\ m.suggestions \in Seq(Suggestion) /\ m.candidates \in Seq(Merchant)
      /\ m.pending \in Sku \cup {0} /\ m.seen \in BOOLEAN
  BY DEF Memory
<1>2. Skus(m.suggestions) \in Seq(Sku)
  BY <1>1, SkusType
<1> QED
  BY <1>1, <1>2 DEF ContextOf, Context

LEMMA DecisionTaken ==
    ASSUME NEW w \in Worker, DecideTurn(w)
    PROVE  \E llm \in LlmAnswers, cached \in BOOLEAN : \E now :
             LET d == Decide(turn[w].message, ContextOf(turn[w].now, cached), llm)
             IN  Put(w, [turn[w] EXCEPT !.at = AfterDecision(d.action), !.action = d.action,
                                        !.sku = d.sku, !.now = now])
<1> DEFINE t == turn[w]
           D(llm, cached) == Decide(t.message, ContextOf(t.now, cached), llm)
           R(d) == IF d.fast THEN [t.now EXCEPT !.candidates = <<>>] ELSE t.now
           O(d) == IF d.seeded
                   THEN {f.suggestions : f \in {g \in Findings : g.candidates = <<>>}}
                   ELSE {t.now.suggestions}
           N(d, offers) == [R(d) EXCEPT !.suggestions = offers,
                                        !.pending = IF d.seeded THEN Propositions(offers) ELSE @]
           T(d, now) == [t EXCEPT !.at = AfterDecision(d.action), !.action = d.action,
                                  !.sku = d.sku, !.now = now]
<1>1. PICK llm \in LlmAnswers, cached \in BOOLEAN :
        \E offers \in O(D(llm, cached)) :
           Put(w, T(D(llm, cached), N(D(llm, cached), offers)))
  BY DEF DecideTurn
<1>2. PICK offers \in O(D(llm, cached)) :
        Put(w, T(D(llm, cached), N(D(llm, cached), offers)))
  BY <1>1
<1> HIDE DEF N
<1>3. \E now : Put(w, T(D(llm, cached), now))
  BY <1>2
<1> QED
  BY <1>3

LEMMA DecideTurnInv ==
    ASSUME ChatInv, NEW w \in Worker, DecideTurn(w), UNCHANGED errors
    PROVE  ChatInv'
<1> DEFINE t == turn[w]
           D(llm, cached) == Decide(t.message, ContextOf(t.now, cached), llm)
           R(d) == IF d.fast THEN [t.now EXCEPT !.candidates = <<>>] ELSE t.now
           O(d) == IF d.seeded
                   THEN {f.suggestions : f \in {g \in Findings : g.candidates = <<>>}}
                   ELSE {t.now.suggestions}
           N(d, offers) == [R(d) EXCEPT !.suggestions = offers,
                                        !.pending = IF d.seeded THEN Propositions(offers) ELSE @]
           T(d, offers) == [t EXCEPT !.at = AfterDecision(d.action), !.action = d.action,
                                     !.sku = d.sku, !.now = N(d, offers)]
<1>1. PICK llm \in LlmAnswers, cached \in BOOLEAN :
        \E offers \in O(D(llm, cached)) : Put(w, T(D(llm, cached), offers))
  BY DEF DecideTurn
<1> DEFINE d == D(llm, cached)
<1>2. PICK offers \in O(d) : Put(w, T(d, offers))
  BY <1>1
<1>3. t \in Turn /\ t.message \in Message /\ t.now \in Memory /\ llm \in LlmAnswer
  BY TurnHolds, ChatAssumption DEF Turn
<1>4. /\ d \in Decision
      /\ d.action \in {"add", "remove", "propose_add"} => d.sku \in Sku
  <2>1. Sound(t.message, ContextOf(t.now, cached), D(llm, cached))
    BY <1>3, ContextType, DecisionsAreSound
  <2> QED
    BY <2>1 DEF Sound
<1> HIDE DEF D, d
<1>5. offers \in Seq(Suggestion)
  <2>1. \A f \in Findings : f.suggestions \in Seq(Suggestion)
    BY ChatAssumption DEF Finding
  <2>2. t.now.suggestions \in Seq(Suggestion)
    BY <1>3 DEF Memory
  <2> QED
    BY <2>1, <2>2
<1>6. R(d) \in Memory /\ R(d).preview = t.now.preview
  <2>1. <<>> \in Seq(Merchant)
    OBVIOUS
  <2> QED
    BY <1>3, <2>1 DEF Memory
<1>7. N(d, offers) \in Memory /\ N(d, offers).preview = t.now.preview
  <2>1. Propositions(offers) \in Sku \cup {0}
    BY <1>5, PropositionsType
  <2> HIDE DEF R
  <2> QED
    BY <1>5, <1>6, <2>1 DEF Memory
<1> HIDE DEF N, O, R
<1>8. d.action \in Action /\ d.sku \in Sku \cup {0}
  BY <1>4 DEF Decision
<1>9. AfterDecision(d.action) \in {"discover", "approval", "select", "tool"}
  BY DEF AfterDecision
<1>10. /\ T(d, offers) \in Turn /\ T(d, offers).at = AfterDecision(d.action)
       /\ T(d, offers).actor = t.actor /\ T(d, offers).shown = t.shown
       /\ T(d, offers).quote = t.quote /\ T(d, offers).action = d.action
       /\ T(d, offers).sku = d.sku /\ T(d, offers).now = N(d, offers)
  BY <1>3, <1>7, <1>8, <1>9 DEF Turn, TurnLabel
<1>11. t.at = "route" /\ pc[w] = "idle" /\ UNCHANGED <<vars, memory>> /\ errors' \in Nat
  BY DEF DecideTurn, At, ChatInv
<1> HIDE DEF T
<1>12. TurnPlaced(T(d, offers), pc[w], req[w], Len(quotes))
  BY <1>4, <1>7, <1>9, <1>10, <1>11, TurnHolds DEF TurnPlaced
<1> QED
  BY <1>2, <1>10, <1>11, <1>12, TurnOnly

-----------------------------------------------------------------------------
(* The steps in which a turn asks something of the plane. *)

LEMMA CartRequestType ==
    ASSUME NEW calls \in Seq(Call), NEW drop \in SUBSET (RowId \X Sku)
    PROVE  /\ [CartRequest(calls) EXCEPT !.drop = drop] \in Request
           /\ [CartRequest(calls) EXCEPT !.drop = drop].op = "cart"
           /\ [CartRequest(calls) EXCEPT !.drop = drop].todo = calls
           /\ [CartRequest(calls) EXCEPT !.drop = drop].drop = drop
           /\ CartRequest(calls) \in Request
           /\ CartRequest(calls).op = "cart" /\ CartRequest(calls).todo = calls
           /\ CartRequest(calls).drop = {}
  BY NoRequestType DEF CartRequest, NoRequest, Request

\* A turn starts a cart operation.
LEMMA CartBegins ==
    ASSUME ChatInv, UNCHANGED <<database, memory, errors>>, NEW w \in Worker,
           NEW r \in Request, r.op = "cart", Resume(w, r),
           NEW u \in Turn, Put(w, u), u.at = "cart", turn[w].at \notin Started,
           u.actor = turn[w].actor, u.shown = turn[w].shown, u.quote = turn[w].quote,
           u.now.preview = turn[w].now.preview
    PROVE  ChatInv'
<1>1. TypeInv /\ TypeOK /\ TablesOK
  BY SameTables DEF ChatInv, TypeInv
<1>2. TypeInv'
  BY <1>1, ResumeStepType
<1>3. /\ \/ pc'[w] = "read" /\ req'[w] = r
         \/ pc'[w] = "idle"
      /\ OthersStay(w)
  BY <1>1, ResumeType DEF OthersStay
<1>4. quotes' = quotes /\ memory' = memory /\ errors' = errors
  BY DEF database
<1>5. TurnPlaced(u, pc'[w], req'[w], Len(quotes))
  BY <1>3, TurnHolds DEF TurnPlaced, Started, CartPc
<1>6. /\ DOMAIN quotes \subseteq DOMAIN quotes' /\ memory' \in Memory
      /\ memory'.preview <= Len(quotes') /\ errors' \in Nat
  BY <1>4 DEF ChatInv
<1> QED
  BY <1>2, <1>3, <1>4, <1>5, <1>6, TurnMoves

\* An addition is a cart call at a price the listing was suggested at.
LEMMA AddCallType ==
    ASSUME NEW t \in Turn, t.sku \in Sku
    PROVE  AddCall(t) \in Call /\ AddCall(t).sku = t.sku
<1> DEFINE offers == t.now.suggestions
           refs == {i \in DOMAIN offers : offers[i].sku = t.sku}
<1>1. offers \in Seq(Suggestion)
  BY DEF Turn, Memory
<1>2. 1 \in 0 .. MaxQty
  BY ChatAssumption, DataAssumption
<1>3. CASE refs # {} /\ t.sku \notin Merchant
  <2>1. refs \in SUBSET Nat
    BY <1>1, LenProperties
  <2>2. Min(refs) \in refs
    BY <1>3, <2>1, MinOfNaturals
  <2> DEFINE i == Min(refs)
  <2> HIDE DEF i
  <2>3. i \in DOMAIN offers /\ offers[i].sku = t.sku
    BY <2>2 DEF i
  <2>4. offers[i] \in Suggestion
    BY <1>1, <2>3
  <2>5. t.sku \in Reference /\ offers[i].price \in ListingPrice
    BY <1>3, <2>3, <2>4 DEF Suggestion, Sku
  <2>6. offers[i].price > 0
    BY <2>5, DataAssumption
  <2>7. AddCall(t) = [kind |-> "addref", sku |-> t.sku, qty |-> 1, price |-> offers[i].price]
    BY <1>3 DEF AddCall, i
  <2> HIDE DEF offers
  <2> QED
    BY <1>2, <2>5, <2>6, <2>7 DEF Call, CallRecord
<1>4. CASE ~(refs # {} /\ t.sku \notin Merchant)
  <2>1. AddCall(t) = [kind |-> "add", sku |-> t.sku, qty |-> 1, price |-> 0]
    BY <1>4 DEF AddCall
  <2> QED
    BY <1>2, <2>1 DEF Call, CallRecord
<1> QED
  BY <1>3, <1>4

LEMMA ToolAddInv ==
    ASSUME ChatInv, NEW w \in Worker, ToolAdd(w), UNCHANGED errors
    PROVE  ChatInv'
<1> DEFINE r == CartRequest(<<AddCall(turn[w])>>)
           now == [turn[w].now EXCEPT !.pending = 0, !.candidates = <<>>]
           u == [turn[w] EXCEPT !.at = "cart", !.now = now]
<1>1. turn[w].sku \in Sku /\ turn[w].at \notin Started
  BY TurnHolds DEF TurnPlaced, ToolAdd, At, Started
<1>2. AddCall(turn[w]) \in Call
  BY <1>1, TurnHolds, AddCallType
<1>3. <<AddCall(turn[w])>> \in Seq(Call) /\ <<AddCall(turn[w])>> # <<>>
  BY <1>2
<1>4. r \in Request /\ r.op = "cart" /\ CallsLeft(r)
  BY <1>3, CartRequestType DEF CallsLeft
<1>5. now \in Memory /\ now.preview = turn[w].now.preview
  <2>1. <<>> \in Seq(Merchant)
    OBVIOUS
  <2> QED
    BY <2>1, TurnHolds DEF Memory
<1>6. u = [turn[w] EXCEPT !.at = "cart", !.now.pending = 0, !.now.candidates = <<>>]
  BY TurnHolds DEF Turn, Memory
<1> HIDE DEF now, r
<1>7. /\ u \in Turn /\ u.at = "cart" /\ u.actor = turn[w].actor
      /\ u.shown = turn[w].shown /\ u.quote = turn[w].quote /\ u.now = now
  BY <1>5, TurnHolds DEF Turn, TurnLabel
<1>8. Put(w, u) /\ Resume(w, r) /\ UNCHANGED <<database, memory, errors>>
  BY <1>4, <1>6 DEF ToolAdd, Plane, Resume, r
<1> HIDE DEF u
<1> QED
  BY <1>1, <1>4, <1>5, <1>7, <1>8, CartBegins

LEMMA ToolRemoveInv ==
    ASSUME ChatInv, NEW w \in Worker, ToolRemove(w) \/ ToolClear(w), UNCHANGED errors
    PROVE  ChatInv'
<1> DEFINE now == [turn[w].now EXCEPT !.pending = 0]
           u == [turn[w] EXCEPT !.at = "cart", !.now = now]
<1>1. turn[w].at \notin Started
  BY DEF ToolRemove, ToolClear, At, Started
<1>2. now \in Memory /\ now.preview = turn[w].now.preview
  BY TurnHolds DEF Memory
<1>3. u = [turn[w] EXCEPT !.at = "cart", !.now.pending = 0]
  BY TurnHolds DEF Turn, Memory
<1> HIDE DEF now
<1>4. /\ u \in Turn /\ u.at = "cart" /\ u.actor = turn[w].actor
      /\ u.shown = turn[w].shown /\ u.quote = turn[w].quote /\ u.now = now
  BY <1>2, TurnHolds DEF Turn, TurnLabel
<1>5. Put(w, u) /\ UNCHANGED <<database, memory, errors>>
  BY <1>3 DEF ToolRemove, ToolClear
<1> HIDE DEF u
<1>6. CASE ToolRemove(w)
  <2> DEFINE call == RemoveCall(turn[w].sku)
             r == CartRequest(<<call>>)
  <2>1. turn[w].sku \in Sku
    BY <1>6, TurnHolds DEF TurnPlaced, ToolRemove, At
  <2>2. call \in Call
    BY <2>1, DataAssumption DEF RemoveCall, Call, CallRecord
  <2> HIDE DEF call
  <2>3. <<call>> \in Seq(Call) /\ <<call>> # <<>>
    BY <2>2
  <2>4. r \in Request /\ r.op = "cart" /\ CallsLeft(r)
    BY <2>3, CartRequestType DEF CallsLeft
  <2>5. Resume(w, r)
    BY <1>6, <2>4 DEF ToolRemove, Plane, Resume, call
  <2> HIDE DEF r
  <2> QED
    BY <1>1, <1>2, <1>4, <1>5, <2>4, <2>5, CartBegins
<1>7. CASE ToolClear(w)
  <2> DEFINE drop == {<<i, cart[i].sku>> : i \in RowsOf(cart)}
             r == [CartRequest(<<>>) EXCEPT !.drop = drop]
  <2>1. drop \in SUBSET (RowId \X Sku)
    <3>1. cart \in Cart
      BY DEF ChatInv, TypeInv, TypeOK
    <3>2. \A i \in RowsOf(cart) : i \in RowId /\ cart[i] \in Row
      BY <3>1 DEF RowsOf, Cart
    <3>3. \A i \in RowsOf(cart) : cart[i].sku \in Sku
      BY <3>2 DEF Row
    <3> QED
      BY <3>2, <3>3
  <2>2. <<>> \in Seq(Call)
    OBVIOUS
  <2>3. Resume(w, r)
    BY <1>7 DEF ToolClear
  <2> HIDE DEF drop
  <2>4. r \in Request /\ r.op = "cart"
    BY <2>1, <2>2, CartRequestType
  <2> HIDE DEF r
  <2> QED
    BY <1>1, <1>2, <1>4, <1>5, <2>3, <2>4, CartBegins
<1> QED
  BY <1>6, <1>7

LEMMA ToolCheckoutInv ==
    ASSUME ChatInv, NEW w \in Worker, ToolCheckout(w), UNCHANGED errors
    PROVE  ChatInv'
<1>1. CASE Items(cart) = <<>>
  BY <1>1, MoveInv DEF ToolCheckout, At, Started, vars, database
<1>2. CASE Items(cart) # <<>>
  <2> DEFINE items == Items(cart)
             r == [NoRequest EXCEPT !.op = "quote", !.actor = turn[w].actor, !.items = items]
             u == [turn[w] EXCEPT !.at = "preview"]
  <2>1. turn[w].actor \in Actor /\ turn[w].at \notin Started
    BY TurnHolds DEF TurnPlaced, ToolCheckout, At, Started
  <2>2. TypeInv /\ TypeOK /\ TablesOK /\ items \in Snapshot
    BY SameTables, ItemsType DEF ToolCheckout, ChatInv, TypeInv
  <2>3. Put(w, u) /\ Goto(w, "stamp") /\ req' = [req EXCEPT ![w] = r] /\ UNCHANGED <<database, memory>>
    BY <1>2 DEF ToolCheckout, Move, Plane
  <2>4. /\ u \in Turn /\ u.at = "preview" /\ u.actor = turn[w].actor
        /\ u.shown = turn[w].shown /\ u.quote = turn[w].quote /\ u.now = turn[w].now
    BY TurnHolds DEF Turn, TurnLabel
  <2> HIDE DEF u, items
  <2>5. r \in Request /\ r.op = "quote" /\ r.actor \in Actor
    BY <2>1, <2>2, NoRequestType DEF NoRequest, Request
  <2> HIDE DEF r
  <2>6. Placed("stamp", r, DOMAIN quotes', DOMAIN orders', DOMAIN links')
    BY <2>5 DEF Placed, CartPc, QuotePc, CheckoutPc
  <2>7. "stamp" \in Label
    BY DEF Label, QuotePc
  <2>8. TypeInv'
    BY <2>2, <2>3, <2>5, <2>6, <2>7, GotoStepType
  <2>9. pc'[w] = "stamp" /\ req'[w] = r /\ OthersStay(w)
    BY <2>2, <2>3, <2>5, <2>7, MoveType DEF OthersStay
  <2>10. quotes' = quotes /\ memory' = memory /\ errors' = errors
    BY <2>3 DEF database
  <2>11. TurnPlaced(u, pc'[w], req'[w], Len(quotes))
    BY <2>1, <2>4, <2>9, TurnHolds DEF TurnPlaced, Started
  <2>12. /\ DOMAIN quotes \subseteq DOMAIN quotes' /\ memory' \in Memory
         /\ memory'.preview <= Len(quotes') /\ errors' \in Nat
    BY <2>10 DEF ChatInv
  <2> QED
    BY <2>3, <2>4, <2>8, <2>9, <2>10, <2>11, <2>12, TurnMoves
<1> QED
  BY <1>1, <1>2

LEMMA ApproveInv ==
    ASSUME ChatInv, NEW w \in Worker, Approve(w), UNCHANGED errors
    PROVE  ChatInv'
<1> DEFINE items == Items(cart)
           r == [NoRequest EXCEPT !.op = "checkout", !.actor = turn[w].actor,
                                  !.quote = turn[w].quote, !.status = turn[w].status,
                                  !.items = items]
           u == [turn[w] EXCEPT !.at = "check"]
<1>1. /\ turn[w].actor \in Actor /\ turn[w].at \notin Started /\ pc[w] = "idle"
      /\ turn[w].shown # 0 /\ IsAffirmative(turn[w].message)
  BY TurnHolds DEF TurnPlaced, Approve, At, Started, ValidateApproval
<1>2. TypeInv /\ TypeOK /\ TablesOK /\ items \in Snapshot
  BY SameTables, ItemsType DEF Approve, ChatInv, TypeInv
<1>3. /\ Put(w, u) /\ req' = [req EXCEPT ![w] = r] /\ UNCHANGED <<database, memory>>
      /\ pc' = pc
  BY DEF Approve, Move
<1>4. /\ u \in Turn /\ u.at = "check" /\ u.actor = turn[w].actor /\ u.message = turn[w].message
      /\ u.shown = turn[w].shown /\ u.quote = turn[w].quote /\ u.now = turn[w].now
  BY TurnHolds DEF Turn, TurnLabel
<1>5. turn[w].quote \in Nat /\ turn[w].status \in {"none", "active", "superseded"}
  BY TurnHolds DEF Turn
<1> HIDE DEF u, items
<1>6. /\ r \in Request /\ r.op = "checkout" /\ r.actor = turn[w].actor
      /\ r.quote = turn[w].quote
  BY <1>1, <1>2, <1>5, NoRequestType DEF NoRequest, Request
<1> HIDE DEF r
<1>7. Placed("idle", r, DOMAIN quotes', DOMAIN orders', DOMAIN links')
  BY <1>1, <1>6 DEF Placed, CartPc, QuotePc, CheckoutPc
<1>8. Goto(w, "idle") /\ "idle" \in Label
  BY <1>1, <1>2, <1>3 DEF Goto, TypeOK, Label
<1>9. TypeInv'
  BY <1>2, <1>3, <1>6, <1>7, <1>8, GotoStepType
<1>10. pc'[w] = "idle" /\ req'[w] = r /\ OthersStay(w)
  BY <1>2, <1>3, <1>6, <1>8, MoveType DEF OthersStay
<1>11. quotes' = quotes /\ memory' = memory /\ errors' = errors
  BY <1>3 DEF database
<1>12. TurnPlaced(u, pc'[w], req'[w], Len(quotes))
  BY <1>1, <1>4, <1>6, <1>10, TurnHolds DEF TurnPlaced, Started, Approving
<1>13. /\ DOMAIN quotes \subseteq DOMAIN quotes' /\ memory' \in Memory
       /\ memory'.preview <= Len(quotes') /\ errors' \in Nat
  BY <1>11 DEF ChatInv
<1> QED
  BY <1>3, <1>4, <1>9, <1>10, <1>11, <1>12, <1>13, TurnMoves

LEMMA GuardAllowInv ==
    ASSUME ChatInv, NEW w \in Worker, GuardAllow(w), UNCHANGED errors
    PROVE  ChatInv'
<1> DEFINE r == [req[w] EXCEPT !.items = <<>>]
           u == [turn[w] EXCEPT !.at = "pay"]
<1>1. TypeInv /\ TypeOK /\ TablesOK
  BY SameTables DEF GuardAllow, ChatInv, TypeInv
<1>2. /\ req[w] \in Request /\ req[w].op = "checkout" /\ req[w].quote = turn[w].quote
      /\ req[w].actor = turn[w].actor /\ turn[w].actor \in Actor
      /\ turn[w].quote \in DOMAIN quotes /\ Approving(turn[w])
      /\ turn[w].at \notin Started
  <2>1. /\ req[w].op = "checkout" /\ req[w].quote = turn[w].quote
        /\ req[w].actor = turn[w].actor /\ turn[w].actor \in Actor
        /\ Approving(turn[w]) /\ turn[w].shown <= turn[w].quote
        /\ turn[w].quote <= Len(quotes) /\ turn[w].at \notin Started
    BY TurnHolds DEF TurnPlaced, GuardAllow, At, Started, Approving
  <2>2. turn[w].shown \in Nat /\ turn[w].shown # 0 /\ turn[w].quote \in Nat
    BY <2>1, TurnHolds DEF Approving, Turn
  <2>3. DOMAIN quotes = 1 .. Len(quotes) /\ Len(quotes) \in Nat /\ req[w] \in Request
    BY <1>1 DEF TypeOK
  <2> QED
    BY <2>1, <2>2, <2>3
<1>3. /\ Put(w, u) /\ req' = [req EXCEPT ![w] = r] /\ Goto(w, "find")
      /\ UNCHANGED <<database, memory>>
  BY <1>1 DEF GuardAllow, Move, TypeOK
<1>4. /\ u \in Turn /\ u.at = "pay" /\ u.actor = turn[w].actor /\ u.message = turn[w].message
      /\ u.shown = turn[w].shown /\ u.quote = turn[w].quote /\ u.now = turn[w].now
  BY TurnHolds DEF Turn, TurnLabel
<1> HIDE DEF u
<1>5. /\ r \in Request /\ r.op = "checkout" /\ r.actor = turn[w].actor
      /\ r.quote = turn[w].quote
  BY <1>2 DEF Request, Snapshot
<1> HIDE DEF r
<1>6. quotes' = quotes /\ memory' = memory /\ errors' = errors
  BY <1>3 DEF database
<1>7. Placed("find", r, DOMAIN quotes', DOMAIN orders', DOMAIN links')
  BY <1>2, <1>5, <1>6 DEF Placed, CartPc, QuotePc, CheckoutPc
<1>8. "find" \in Label
  BY DEF Label, CheckoutPc
<1>9. TypeInv'
  BY <1>1, <1>3, <1>5, <1>7, <1>8, GotoStepType
<1>10. pc'[w] = "find" /\ req'[w] = r /\ OthersStay(w)
  BY <1>1, <1>3, <1>5, <1>8, MoveType DEF OthersStay
<1>11. TurnPlaced(u, pc'[w], req'[w], Len(quotes))
  BY <1>2, <1>4, <1>5, <1>10, TurnHolds DEF TurnPlaced, Started, Approving, PayPc
<1>12. /\ DOMAIN quotes \subseteq DOMAIN quotes' /\ memory' \in Memory
       /\ memory'.preview <= Len(quotes') /\ errors' \in Nat
  BY <1>6 DEF ChatInv
<1> QED
  BY <1>3, <1>4, <1>6, <1>9, <1>10, <1>11, <1>12, TurnMoves

\* A request of the plane is answered, and its turn goes on or ends.
LEMMA AnswerInv ==
    ASSUME ChatInv, TablesOK, NEW w \in Worker, Answer(w), NEW u \in Turn, Put(w, u),
           TurnPlaced(u, "idle", NoRequest, Len(quotes')),
           memory' = memory, errors' \in Nat
    PROVE  ChatInv'
<1>1. TypeInv /\ TypeOK
  BY DEF ChatInv, TypeInv
<1>2. TypeInv'
  BY <1>1, AnswerStepType
<1>3. DOMAIN quotes \subseteq DOMAIN quotes'
  BY DEF TablesOK
<1>4. /\ pc'[w] = "idle" /\ req'[w] = NoRequest
      /\ OthersStay(w)
  BY <1>1, AnswerType DEF OthersStay
<1>5. TurnPlaced(u, pc'[w], req'[w], Len(quotes'))
  BY <1>4
<1>6. Len(quotes) \in Nat /\ Len(quotes') \in Nat /\ Len(quotes) <= Len(quotes')
  BY <1>1, <1>2, <1>3, QuotesGrow
<1>7. memory \in Memory /\ memory.preview <= Len(quotes) /\ memory.preview \in Nat
  BY DEF ChatInv, Memory
<1>8. memory' \in Memory /\ memory'.preview <= Len(quotes')
  BY <1>6, <1>7
<1> QED
  BY <1>2, <1>3, <1>4, <1>5, <1>8, TurnMoves

LEMMA SameLength ==
    ASSUME TypeOK, TablesOK, DOMAIN quotes' = DOMAIN quotes
    PROVE  Len(quotes') = Len(quotes)
<1>1. /\ DOMAIN quotes = 1 .. Len(quotes) /\ Len(quotes) \in Nat
      /\ DOMAIN quotes' = 1 .. Len(quotes') /\ Len(quotes') \in Nat
  BY DEF TypeOK, TablesOK
<1> QED
  BY <1>1

\* The guardrail blocks, or pay_node catches an error: on to respond.
LEMMA BlockedInv ==
    ASSUME ChatInv, NEW w \in Worker, errors' \in Nat,
           GuardLimits(w) \/ GuardStale(w) \/ PayRaises(w)
    PROVE  ChatInv'
<1> DEFINE u == [turn[w] EXCEPT !.at = "select"]
<1>1. Answer(w) /\ Put(w, u) /\ memory' = memory /\ turn[w].at \notin Started
  BY DEF GuardLimits, GuardStale, PayRaises, Move, At, Started
<1>2. TablesOK /\ DOMAIN quotes' = DOMAIN quotes
  <2>1. TypeInv /\ TypeOK
    BY DEF ChatInv, TypeInv
  <2>2. CASE GuardLimits(w) \/ PayRaises(w)
    BY <2>1, <2>2, SameTables DEF GuardLimits, PayRaises, database
  <2>3. CASE GuardStale(w)
    BY <2>1, <2>3, SupersedeType DEF GuardStale, TypeOK, TablesOK
  <2> QED
    BY <2>2, <2>3
<1>3. Len(quotes') = Len(quotes)
  BY <1>2, SameLength DEF ChatInv, TypeInv
<1>4. /\ u \in Turn /\ u.at = "select" /\ u.actor = turn[w].actor
      /\ u.shown = turn[w].shown /\ u.quote = turn[w].quote /\ u.now = turn[w].now
  BY TurnHolds DEF Turn, TurnLabel
<1> HIDE DEF u
<1>5. u.now.preview <= Len(quotes)
  BY <1>4, TurnHolds DEF TurnPlaced
<1>6. TurnPlaced(u, "idle", NoRequest, Len(quotes))
  BY <1>1, <1>4, <1>5, TurnHolds, RestsPlaced
<1> QED
  BY <1>1, <1>2, <1>3, <1>4, <1>6, AnswerInv

\* A turn dies: nothing of it is left.
LEMMA TurnDiesInv ==
    ASSUME ChatInv, NEW w \in Worker, TurnDies(w)
    PROVE  ChatInv'
<1>1. TypeInv /\ TypeOK /\ TablesOK
  BY SameTables DEF ChatInv, TypeInv, TurnDies
<1>2. Answer(w) /\ Put(w, NoTurn) /\ memory' = memory /\ errors' \in Nat /\ quotes' = quotes
  BY DEF TurnDies, ChatInv, database
<1>3. TurnPlaced(NoTurn, "idle", NoRequest, Len(quotes'))
  BY <1>2, TurnHolds, NoTurnPlaced
<1> QED
  BY <1>1, <1>2, <1>3, NoTurnType, AnswerInv

\* respond_node saves the memory and the version of the turn.
LEMMA SaveWriteInv ==
    ASSUME ChatInv, NEW w \in Worker, SaveWrite(w), UNCHANGED errors
    PROVE  ChatInv'
<1> DEFINE now == [turn[w].now EXCEPT !.seen = TRUE]
<1>1. TypeInv /\ TypeOK /\ errors \in Nat
  BY DEF ChatInv, TypeInv
<1>2. turn[w].version \in Nat
  BY TurnHolds DEF Turn
<1>3. version' \in Nat /\ UNCHANGED <<cart, quotes, orders, links, pc, req>>
  BY <1>1, <1>2 DEF SaveWrite, TypeOK
<1>4. TypeInv'
  BY <1>1, <1>3, OutsideType DEF TablesOK, TypeOK
<1>5. now \in Memory /\ now.preview = turn[w].now.preview /\ memory' = now
  BY TurnHolds DEF SaveWrite, Memory
<1> HIDE DEF now
<1>6. memory' \in Memory /\ memory'.preview <= Len(quotes')
  BY <1>3, <1>5, TurnHolds DEF TurnPlaced
<1>7. TurnPlaced(NoTurn, pc'[w], req'[w], Len(quotes'))
  BY <1>3, TurnHolds, NoTurnPlaced
<1>8. OthersStay(w) /\ Put(w, NoTurn) /\ DOMAIN quotes \subseteq DOMAIN quotes' /\ errors' \in Nat
  BY <1>1, <1>3 DEF OthersStay, SaveWrite
<1> QED
  BY <1>4, <1>6, <1>7, <1>8, NoTurnType, TurnMoves

-----------------------------------------------------------------------------
(* The steps of the plane within a turn. *)

\* The turn is at the node that called the plane.
LEMMA WhereInPlane ==
    ASSUME ChatInv, NEW w \in Worker, InTurn(w), pc[w] # "idle"
    PROVE  /\ turn[w].at \in {"cart", "preview", "pay"}
           /\ pc[w] \in CartPc => turn[w].at = "cart" /\ req[w].op = "cart"
           /\ pc[w] \in {"items", "stamp", "quote"} => turn[w].at = "preview"
           /\ pc[w] \in CheckoutPc =>
                /\ turn[w].at = "pay" /\ pc[w] \in PayPc
                /\ req[w].quote = turn[w].quote /\ req[w].actor = turn[w].actor
  BY TurnHolds DEF InTurn, TurnPlaced, CartPc, CheckoutPc, PayPc

\* A cart operation goes on within the turn, whose `done` may be set.
LEMMA InCartInv ==
    ASSUME ChatInv, TypeInv', NEW w \in Worker, turn[w].at = "cart",
           DOMAIN quotes' = DOMAIN quotes, OthersStay(w),
           pc'[w] = "idle" \/ (pc'[w] \in CartPc /\ req'[w].op = "cart"),
           NEW done \in BOOLEAN, Put(w, [turn[w] EXCEPT !.done = done]),
           UNCHANGED <<memory, errors>>
    PROVE  ChatInv'
<1> DEFINE u == [turn[w] EXCEPT !.done = done]
<1>1. Len(quotes') = Len(quotes)
  BY QuotesGrow DEF ChatInv, TypeInv, TypeOK
<1>2. /\ u \in Turn /\ u.at = "cart" /\ u.actor = turn[w].actor
      /\ u.shown = turn[w].shown /\ u.quote = turn[w].quote /\ u.now = turn[w].now
  BY TurnHolds DEF Turn
<1>3. Put(w, u)
  OBVIOUS
<1> HIDE DEF u
<1>4. TurnPlaced(u, pc'[w], req'[w], Len(quotes'))
  BY <1>1, <1>2, TurnHolds DEF TurnPlaced
<1>5. memory' \in Memory /\ memory'.preview <= Len(quotes') /\ errors' \in Nat
  BY <1>1 DEF ChatInv
<1> QED
  BY <1>2, <1>3, <1>4, <1>5, TurnMoves

\* FinishCall within a turn.
LEMMA TurnFinishes ==
    ASSUME ChatInv, NEW w \in Worker, InTurn(w), pc[w] \in CartPc, FinishCall(w)
    PROVE  /\ pc'[w] = "idle" \/ (pc'[w] = "read" /\ req'[w].op = "cart")
           /\ OthersStay(w)
<1>1. TypeInv /\ TypeOK /\ pc[w] # "idle"
  BY DEF ChatInv, TypeInv, CartPc
<1>2. req[w] \in Request /\ CallsLeft(req[w]) /\ req[w].op = "cart"
  BY <1>1, WhereInPlane DEF TypeInv, TypeOK, WorkersPlaced, Placed
<1>3. AfterCall(req[w]) \in Request /\ AfterCall(req[w]).op = "cart"
  <2>1. AfterCall(req[w]).op = req[w].op
    BY <1>2 DEF AfterCall, Request
  <2> QED
    BY <1>2, <2>1, AfterCallType
<1> QED
  BY <1>1, <1>3, ResumeType DEF FinishCall, OthersStay

LEMMA TurnRefusedInv ==
    ASSUME ChatInv, NEW w \in Worker, TurnRefused(w), UNCHANGED errors
    PROVE  ChatInv'
<1>1. RefuseCall(w) /\ InTurn(w) /\ pc[w] \in CartPc /\ pc[w] # "idle" /\ quotes' = quotes
  BY DEF TurnRefused, RefuseCall, CartPc, database
<1>2. TypeInv'
  BY <1>1, CartStepType DEF CartStep, ChatInv
<1>3. turn[w].at = "cart"
  BY <1>1, WhereInPlane
<1>4. /\ pc'[w] = "idle" \/ (pc'[w] \in CartPc /\ req'[w].op = "cart")
      /\ OthersStay(w)
  BY <1>1, TurnFinishes DEF RefuseCall, CartPc
<1> DEFINE done == turn[w].action = "clear_cart"
<1>5. done \in BOOLEAN /\ Put(w, [turn[w] EXCEPT !.done = done]) /\ memory' = memory
  BY DEF TurnRefused
<1> HIDE DEF done
<1> QED
  BY <1>1, <1>2, <1>3, <1>4, <1>5, InCartInv

\* The steps of the cart operations in which the turn stays as it is.
LEMMA TurnCartInv ==
    ASSUME ChatInv, NEW w \in Worker, InTurn(w), UNCHANGED <<memory, turn, errors>>,
           ReadRow(w) \/ WriteRow(w) \/ SupersedeQuotes(w) \/ ReadVersion(w) \/ BumpVersion(w)
    PROVE  ChatInv'
<1>1. pc[w] \in CartPc /\ pc[w] # "idle" /\ TypeInv /\ TypeOK
  BY DEF ReadRow, WriteRow, SupersedeQuotes, ReadVersion, BumpVersion, CartPc, ChatInv, TypeInv
<1>2. TypeInv'
  BY <1>1, CartStepType DEF CartStep
<1>3. turn[w].at = "cart" /\ req[w].op = "cart" /\ req[w] \in Request
  BY <1>1, WhereInPlane DEF TypeOK
<1>4. DOMAIN quotes' = DOMAIN quotes
  BY <1>1, SupersedeType
  DEF ReadRow, WriteRow, SupersedeQuotes, ReadVersion, BumpVersion, database, TypeOK
<1>5. /\ pc'[w] = "idle" \/ (pc'[w] \in CartPc /\ req'[w].op = "cart")
      /\ OthersStay(w)
  <2>1. CASE ReadRow(w)
    BY <1>1, <1>3, <2>1 DEF ReadRow, Goto, TypeOK, Request, OthersStay, CartPc
  <2>2. CASE WriteRow(w)
    BY <1>1, <1>3, <2>2 DEF WriteRow, Goto, TypeOK, OthersStay, CartPc
  <2>3. CASE SupersedeQuotes(w)
    BY <1>1, <1>3, <2>3 DEF SupersedeQuotes, Goto, TypeOK, OthersStay, CartPc
  <2>4. CASE ReadVersion(w)
    BY <1>1, <1>3, <2>4 DEF ReadVersion, Goto, TypeOK, Request, OthersStay, CartPc
  <2>5. CASE BumpVersion(w)
    BY <1>1, <2>5, TurnFinishes DEF BumpVersion, CartPc
  <2> QED
    BY <2>1, <2>2, <2>3, <2>4, <2>5
<1>6. turn[w].done \in BOOLEAN /\ Put(w, [turn[w] EXCEPT !.done = turn[w].done])
  BY TurnHolds DEF Turn, Put, ChatInv
<1> QED
  BY <1>2, <1>3, <1>4, <1>5, <1>6, InCartInv

\* The turn and its node stay, a request goes on.
LEMMA TurnStays ==
    ASSUME ChatInv, TypeInv', DOMAIN quotes \subseteq DOMAIN quotes', NEW w \in Worker,
           OthersStay(w), TurnPlaced(turn[w], pc'[w], req'[w], Len(quotes)),
           UNCHANGED <<memory, turn, errors>>
    PROVE  ChatInv'
<1>1. Len(quotes) \in Nat /\ Len(quotes') \in Nat /\ Len(quotes) <= Len(quotes')
  BY QuotesGrow DEF ChatInv
<1>2. turn[w] \in Turn /\ Put(w, turn[w])
  BY DEF ChatInv, Put
<1>3. TurnPlaced(turn[w], pc'[w], req'[w], Len(quotes'))
  BY <1>1, <1>2, MoreQuotes
<1>4. memory' \in Memory /\ memory'.preview <= Len(quotes') /\ errors' \in Nat
  <2>1. memory \in Memory /\ memory.preview <= Len(quotes) /\ memory.preview \in Nat
    BY DEF ChatInv, Memory
  <2> QED
    BY <1>1, <2>1 DEF ChatInv
<1> QED
  BY <1>2, <1>3, <1>4, TurnMoves

LEMMA TurnStampInv ==
    ASSUME ChatInv, NEW w \in Worker, InTurn(w), UNCHANGED <<memory, turn, errors>>,
           StampVersion(w)
    PROVE  ChatInv'
<1>1. TypeInv /\ TypeOK /\ pc[w] = "stamp"
  BY DEF ChatInv, TypeInv, StampVersion
<1>2. turn[w].at = "preview"
  BY <1>1, WhereInPlane
<1>3. TypeInv'
  BY <1>1, StampVersionType
<1>4. pc'[w] = "quote" /\ OthersStay(w) /\ quotes' = quotes
  BY <1>1 DEF StampVersion, Goto, TypeOK, OthersStay, database
<1>5. TurnPlaced(turn[w], pc'[w], req'[w], Len(quotes))
  BY <1>2, <1>4, TurnHolds DEF TurnPlaced
<1> QED
  BY <1>3, <1>4, <1>5, TurnStays

\* A checkout past its limits stays there, and keeps its quote and its actor.
LEMMA PayGoesOn ==
    ASSUME TypeOK, NEW w \in Worker, CheckoutStep(w), pc[w] \in PayPc
    PROVE  /\ OthersStay(w)
           /\ \/ pc'[w] = "idle"
              \/ /\ pc'[w] \in PayPc
                 /\ req'[w].quote = req[w].quote /\ req'[w].actor = req[w].actor
<1> USE DEF PayPc, OthersStay
<1>1. req[w] \in Request
  BY DEF TypeOK
<1>2. CASE ReuseOrder(w) \/ NeedOrder(w)
  BY <1>1, <1>2 DEF ReuseOrder, NeedOrder, Goto, TypeOK, Request
<1>3. CASE FindCartEmpty(w) \/ RecordFailure(w) \/ Settle(w)
  BY <1>3, AnswerType DEF FindCartEmpty, RecordFailure, Settle
<1>4. CASE SnapshotCart(w)
  BY <1>1, <1>4 DEF SnapshotCart, Goto, TypeOK, Request
<1>5. CASE InsertOrder(w)
  BY <1>1, <1>5 DEF InsertOrder, Goto, TypeOK, Request
<1>6. CASE LinkIssued(w)
  BY <1>1, <1>6 DEF LinkIssued, Goto, TypeOK, Request
<1>7. CASE LinkFails(w)
  BY <1>1, <1>7 DEF LinkFails, Goto, TypeOK, Request
<1>8. CASE RecordLink(w)
  BY <1>1, <1>8 DEF RecordLink, Goto, TypeOK, Request
<1>9. ~(ReadCart(w) \/ ValidateQuote(w) \/ BlockQuote(w) \/ CheckLimits(w) \/ BlockLimits(w))
  BY DEF ReadCart, ValidateQuote, BlockQuote, CheckLimits, BlockLimits
<1> QED
  BY <1>2, <1>3, <1>4, <1>5, <1>6, <1>7, <1>8, <1>9 DEF CheckoutStep

LEMMA CheckoutPlace ==
    ASSUME NEW w \in Worker, CheckoutStep(w)
    PROVE  pc[w] \in CheckoutPc
  BY DEF CheckoutStep, CheckoutPc, ReadCart, ValidateQuote, BlockQuote, CheckLimits,
         BlockLimits, ReuseOrder, NeedOrder, SnapshotCart, FindCartEmpty,
         InsertOrder, LinkIssued, LinkFails, RecordLink, RecordFailure, Settle

\* A step of the plane keeps the rows of the quotes.
LEMMA QuotesStill ==
    ASSUME TypeInv, [Next]_vars
    PROVE  DOMAIN quotes \subseteq DOMAIN quotes'
  BY QuotesKept DEF KeepsQuotes

LEMMA TurnPayInv ==
    ASSUME ChatInv, NEW w \in Worker, InTurn(w), UNCHANGED <<memory, turn, errors>>,
           CheckoutStep(w)
    PROVE  ChatInv'
<1>1. TypeInv /\ TypeOK /\ pc[w] \in CheckoutPc /\ pc[w] # "idle"
  BY CheckoutPlace DEF ChatInv, TypeInv, CheckoutPc
<1>2. /\ turn[w].at = "pay" /\ pc[w] \in PayPc
      /\ req[w].quote = turn[w].quote /\ req[w].actor = turn[w].actor
  BY <1>1, WhereInPlane
<1>3. TypeInv' /\ DOMAIN quotes \subseteq DOMAIN quotes'
  BY <1>1, TypeNext, QuotesStill DEF Next, Step
<1>4. /\ OthersStay(w)
      /\ \/ pc'[w] = "idle"
         \/ /\ pc'[w] \in PayPc
            /\ req'[w].quote = turn[w].quote /\ req'[w].actor = turn[w].actor
  BY <1>1, <1>2, PayGoesOn
<1>5. TurnPlaced(turn[w], pc'[w], req'[w], Len(quotes))
  BY <1>2, <1>4, TurnHolds DEF TurnPlaced
<1> QED
  BY <1>3, <1>4, <1>5, TurnStays

LEMMA PlaneStepInv ==
    ASSUME ChatInv, NEW w \in Worker, PlaneStep(w), UNCHANGED errors
    PROVE  ChatInv'
  BY TurnCartInv, TurnStampInv, TurnPayInv DEF PlaneStep

\* The preview becomes the turn's own.
LEMMA EndPreviewInv ==
    ASSUME ChatInv, NEW w \in Worker, EndPreview(w), UNCHANGED errors
    PROVE  ChatInv'
<1> DEFINE n == Len(quotes)
           now == [turn[w].now EXCEPT !.preview = n + 1]
           u == [turn[w] EXCEPT !.at = "select", !.now = now, !.version = req[w].version]
<1>1. TypeInv /\ TypeOK /\ n \in Nat /\ req[w].version \in Nat
  BY DEF ChatInv, TypeInv, TypeOK, Request
<1>2. TypeInv' /\ Answer(w)
  BY <1>1, CreateQuoteType DEF EndPreview, CreateQuote
<1>3. PICK row : quotes' = Append(quotes, row)
  BY DEF EndPreview, CreateQuote
<1>4. Len(quotes') = n + 1 /\ DOMAIN quotes \subseteq DOMAIN quotes'
  BY <1>1, <1>3 DEF TypeOK
<1>5. now \in Memory /\ now.preview = n + 1
  BY <1>1, TurnHolds DEF Memory
<1>6. Put(w, u) /\ memory' = memory
  <2>1. u = [turn[w] EXCEPT !.at = "select", !.now.preview = Len(quotes) + 1,
                            !.version = req[w].version]
    BY TurnHolds DEF Turn, Memory
  <2> QED
    BY <2>1 DEF EndPreview
<1> HIDE DEF now
<1>7. /\ u \in Turn /\ u.at = "select" /\ u.actor = turn[w].actor
      /\ u.shown = turn[w].shown /\ u.quote = turn[w].quote /\ u.now = now
  BY <1>1, <1>5, TurnHolds DEF Turn, TurnLabel
<1> HIDE DEF u
<1>8. TurnPlaced(turn[w], pc[w], req[w], n + 1)
  BY <1>1, TurnHolds, MoreQuotes
<1>9. pc'[w] = "idle" /\ OthersStay(w)
  BY <1>1, <1>2, AnswerType DEF OthersStay
<1>10. turn[w].at \notin Started
  BY DEF EndPreview, Started
<1>11. TurnPlaced(u, "idle", req'[w], n + 1)
  <2> HIDE DEF n
  <2> QED
    BY <1>1, <1>5, <1>7, <1>8, <1>10, TurnHolds, RestsPlaced
<1>12. memory' \in Memory /\ memory'.preview <= Len(quotes') /\ errors' \in Nat
  <2>1. memory \in Memory /\ memory.preview <= n /\ memory.preview \in Nat
    BY DEF ChatInv, Memory
  <2> QED
    BY <1>1, <1>4, <1>6, <2>1 DEF ChatInv
<1> QED
  BY <1>2, <1>4, <1>6, <1>7, <1>9, <1>11, <1>12, TurnMoves

-----------------------------------------------------------------------------
(* The steps beside the turns. *)

LEMMA ApiStepInv ==
    ASSUME ChatInv, NEW w \in Worker, ApiStep(w), UNCHANGED <<memory, turn, errors>>
    PROVE  ChatInv'
<1>1. StartQuote(w) \/ StartCheckout(w) \/ Step(w)
  BY DEF ApiStep
<1>2. TypeInv /\ TypeOK
  BY DEF ChatInv, TypeInv
<1>3. TypeInv' /\ DOMAIN quotes \subseteq DOMAIN quotes'
  BY <1>1, <1>2, TypeNext, QuotesStill DEF Next
<1>4. OthersStay(w)
  <2>1. CASE CheckoutStep(w)
    BY <1>2, <2>1, CheckoutMoves
    DEF Moves, OthersStay, CheckLimits, NeedOrder, SnapshotCart, LinkIssued, Goto, TypeOK
  <2> QED
    BY <1>1, <1>2, <2>1, StartMoves, CartMoves, QuoteMoves DEF Step, Moves, OthersStay
<1>5. TurnPlaced(turn[w], pc'[w], req'[w], Len(quotes))
  BY TurnHolds DEF ApiStep, InTurn, TurnPlaced
<1> QED
  BY <1>3, <1>4, <1>5, TurnStays

LEMMA AroundInv ==
    ASSUME ChatInv, Around, UNCHANGED <<memory, turn, errors>>
    PROVE  ChatInv'
<1>1. CASE \E w \in Worker : ApiStep(w)
  BY <1>1, ApiStepInv
<1>2. CASE \/ \E k \in DOMAIN quotes : ExpireQuote(k)
           \/ \E l \in DOMAIN links : EndLink(l) \/ Webhook(l)
  <2>1. TypeInv /\ TypeInv' /\ DOMAIN quotes \subseteq DOMAIN quotes' /\ UNCHANGED <<pc, req>>
    BY <1>2, TypeNext, QuotesStill DEF Next, ChatInv, ExpireQuote, EndLink, Webhook
  <2>2. Len(quotes) \in Nat /\ Len(quotes') \in Nat /\ Len(quotes) <= Len(quotes')
    BY <2>1, QuotesGrow
  <2>3. ASSUME NEW w \in Worker
        PROVE  TurnPlaced(turn[w], pc[w], req[w], Len(quotes'))
    BY <2>2, TurnHolds, MoreQuotes
  <2>4. memory.preview <= Len(quotes')
    BY <2>2 DEF ChatInv, Memory
  <2> QED
    BY <2>1, <2>3, <2>4 DEF ChatInv, TurnsPlaced
<1> QED
  BY <1>1, <1>2 DEF Around

LEMMA ChatInvInit == ChatInit => ChatInv
<1> SUFFICES ASSUME ChatInit PROVE ChatInv
  OBVIOUS
<1>1. TypeInv /\ Len(quotes) \in Nat
  BY TypeInit DEF ChatInit, TypeInv, TypeOK
<1>2. memory \in Memory /\ memory.preview <= Len(quotes)
  BY <1>1 DEF ChatInit, Memory, NoMemory
<1>3. turn \in [Worker -> Turn] /\ errors \in Nat
  BY NoTurnType DEF ChatInit
<1>4. TurnsPlaced
  BY <1>1, NoTurnPlaced DEF TurnsPlaced, ChatInit
<1> QED
  BY <1>1, <1>2, <1>3, <1>4 DEF ChatInv

LEMMA TurnStepInv ==
    ASSUME ChatInv, NEW w \in Worker, TurnStep(w), UNCHANGED errors
    PROVE  ChatInv'
<1>1. errors' \in Nat
  BY DEF ChatInv
<1> QED
  BY <1>1, LoadVersionInv, LoadSpendInv, LoadQuoteInv, DecideTurnInv, DiscoverInv,
     ToolAddInv, ToolRemoveInv, EndCartInv, ToolProposeInv, RestStepInv,
     ToolCheckoutInv, EndPreviewInv, ApproveInv, GuardAllowInv, BlockedInv,
     SaveRefusedInv, SaveWriteInv, TurnRefusedInv, PlaneStepInv
  DEF TurnStep

LEMMA ChatInvNext ==
    ASSUME ChatInv, [ChatNext]_chatVars
    PROVE  ChatInv'
<1>1. CASE UNCHANGED chatVars
  <2>1. UNCHANGED <<vars, memory, turn, errors>>
    BY <1>1 DEF chatVars
  <2>2. TypeInv'
    BY <2>1, TypeNext DEF ChatInv
  <2> QED
    BY <2>1, <2>2 DEF ChatInv, TurnsPlaced, vars
<1>2. ASSUME NEW w \in Worker, PayRaises(w)
      PROVE  ChatInv'
  <2>1. errors' \in Nat
    BY <1>2 DEF PayRaises, ChatInv
  <2> QED
    BY <1>2, <2>1, BlockedInv
<1> QED
  BY <1>1, <1>2, StartTurnInv, TurnStepInv, TurnDiesInv, AroundInv DEF ChatNext

\* Whatever is said, answered, added, refused or broken off, on any number of
\* workers, the session's memory, the turns and the plane they call stay
\* well-formed, and each turn is where its worker is: the plane works only for
\* a turn at its cart, preview or payment node, and then on the quote and for
\* the actor of the turn; the previews a turn knows exist, and once it has
\* read the quote, that quote exists and is no older than the preview; and it
\* is past the approval only with an approving message (app/orchestration.py,
\* app/session_state.py).
THEOREM ChatTypeCorrect == ChatSpec => [](ChatTypeOK /\ WorkersPlaced /\ TurnsPlaced)
<1>1. ChatInv => ChatTypeOK /\ WorkersPlaced /\ TurnsPlaced
  BY DEF ChatInv, ChatTypeOK, TypeInv
<1> QED
  BY ChatInvInit, ChatInvNext, <1>1, PTL DEF ChatSpec

\* Only a turn in whose message an affirmative phrase occurs and no negation
\* stands between blanks calls Razorpay; a preview had been shown before it,
\* and the quote it pays is no older than that preview, whatever else is going
\* on (is_explicit_approval and validate_approval in app/guardrail.py,
\* pay_node in app/orchestration.py).  Nothing is proved of a negation that is
\* followed by a comma or stands within a word: the code pays on those.
THEOREM ApprovalPays == ChatSpec => OnlyApprovalPays
<1> DEFINE Charged == \A w \in Worker :
             InTurn(w) /\ pc[w] = "razorpay" => ChargedByApproval(w)
<1>1. ChatInv => Charged
  <2> SUFFICES ASSUME ChatInv, NEW w \in Worker, InTurn(w), pc[w] = "razorpay"
               PROVE  ChargedByApproval(w)
    OBVIOUS
  <2>1. turn[w].at = "pay" /\ req[w].quote = turn[w].quote
    BY WhereInPlane DEF CheckoutPc
  <2>2. Approving(turn[w]) /\ turn[w].shown <= turn[w].quote
    BY <2>1, TurnHolds DEF TurnPlaced, Approving
  <2>3. /\ turn[w].message.says \cap NegationWords = {}
        /\ Has(turn[w].message, AffirmativePatterns)
    BY <2>2 DEF Approving, IsAffirmative
  <2>4. turn[w].shown \in Nat /\ turn[w].quote \in Nat
    BY TurnHolds DEF Turn
  <2> QED
    BY <2>1, <2>2, <2>3, <2>4 DEF ChargedByApproval, Approving
<1>2. Charged => [\A w \in Worker :
          InTurn(w) /\ Len(links') > Len(links) /\ pc[w] = "razorpay" => ChargedByApproval(w)]_chatVars
  OBVIOUS
<1> QED
  BY ChatInvInit, ChatInvNext, <1>1, <1>2, PTL DEF ChatSpec, OnlyApprovalPays

-----------------------------------------------------------------------------
(***************************************************************************)
(* What the chat adds to the plane.  A step of the chat is one of the      *)
(* plane, or it starts or ends a request and leaves the tables alone, or   *)
(* it is one of three: the guardrail lets a payment pass, or supersedes a  *)
(* stale quote, or the turn's version is saved.                            *)
(***************************************************************************)
Begins(w) ==
    /\ UNCHANGED database
    /\ OthersStay(w)
    /\ pc'[w] \in {"idle", "read", "stamp"}

LEMMA BeginsByResume ==
    ASSUME TypeOK, NEW w \in Worker, NEW r, r.op # "quote", Resume(w, r), UNCHANGED database
    PROVE  Begins(w)
<1>1. CASE CallsLeft(r)
  BY <1>1 DEF Resume, Begins, OthersStay, Goto, TypeOK
<1>2. CASE ~CallsLeft(r)
  BY <1>2 DEF Resume, Begins, OthersStay, Answer, TypeOK
<1> QED
  BY <1>1, <1>2

LEMMA TurnSteps ==
    ASSUME TypeOK, NEW w \in Worker, TurnStep(w)
    PROVE  \/ [Next]_vars
           \/ Begins(w) \/ GuardAllow(w) \/ GuardStale(w) \/ SaveWrite(w)
<1>1. CASE \/ LoadVersion(w) \/ LoadSpend(w) \/ LoadQuote(w) \/ DecideTurn(w)
           \/ Discover(w) \/ EndCart(w) \/ ToolPropose(w) \/ ToolShow(w)
           \/ RefreshTurn(w) \/ BlockApproval(w) \/ GuardRefuse(w) \/ EndPay(w)
           \/ SaveRead(w) \/ SaveRefused(w)
  BY <1>1 DEF LoadVersion, LoadSpend, LoadQuote, DecideTurn, Discover, EndCart,
              ToolPropose, ToolShow, RefreshTurn, BlockApproval, GuardRefuse, EndPay,
              SaveRead, SaveRefused
<1>2. CASE ToolAdd(w)
  BY <1>2 DEF ToolAdd, Plane, Begins, OthersStay, Goto, TypeOK
<1>3. CASE ToolRemove(w)
  BY <1>3 DEF ToolRemove, Plane, Begins, OthersStay, Goto, TypeOK
<1>4. CASE ToolClear(w)
  <2> DEFINE drop == {<<i, cart[i].sku>> : i \in RowsOf(cart)}
             r == [CartRequest(<<>>) EXCEPT !.drop = drop]
  <2>1. Resume(w, r) /\ UNCHANGED database
    BY <1>4 DEF ToolClear
  <2>2. r.op # "quote"
    BY DEF CartRequest, NoRequest
  <2> HIDE DEF r
  <2> QED
    BY <2>1, <2>2, BeginsByResume
<1>5. CASE ToolCheckout(w)
  <2>1. UNCHANGED database /\ pc[w] = "idle"
    BY <1>5 DEF ToolCheckout, At
  <2>2. \/ UNCHANGED <<pc, req>>
        \/ pc' = [pc EXCEPT ![w] = "stamp"] /\ \E r : req' = [req EXCEPT ![w] = r]
    BY <1>5 DEF ToolCheckout, Plane, Goto
  <2> QED
    BY <2>1, <2>2 DEF Begins, OthersStay, TypeOK
<1>6. CASE Approve(w)
  <2>1. UNCHANGED database /\ pc[w] = "idle" /\ pc' = pc /\ \E r : req' = [req EXCEPT ![w] = r]
    BY <1>6 DEF Approve, At
  <2> QED
    BY <2>1 DEF Begins, OthersStay, TypeOK
<1>7. CASE GuardLimits(w)
  BY <1>7 DEF GuardLimits, Answer, Begins, OthersStay, TypeOK
<1>8. CASE EndPreview(w) \/ TurnRefused(w) \/ PlaneStep(w)
  BY <1>8 DEF EndPreview, TurnRefused, PlaneStep, Next, Step, CartStep, QuoteStep
<1> QED
  BY <1>1, <1>2, <1>3, <1>4, <1>5, <1>6, <1>7, <1>8 DEF TurnStep

LEMMA ChatSteps ==
    ASSUME TypeOK, [ChatNext]_chatVars
    PROVE  \/ [Next]_vars
           \/ \E w \in Worker : Begins(w) \/ GuardAllow(w) \/ GuardStale(w) \/ SaveWrite(w)
<1>1. ASSUME NEW w \in Worker, StartTurn(w)
      PROVE  [Next]_vars
  BY <1>1 DEF StartTurn
<1>2. ASSUME NEW w \in Worker, TurnDies(w) \/ PayRaises(w)
      PROVE  Begins(w)
  BY <1>2 DEF TurnDies, PayRaises, Answer, Begins, OthersStay, TypeOK
<1>3. CASE Around
  BY <1>3 DEF Around, ApiStep, Next
<1>4. CASE UNCHANGED chatVars
  BY <1>4 DEF chatVars
<1> QED
  BY <1>1, <1>2, <1>3, <1>4, TurnSteps DEF ChatNext

\* The quotes keep all but their status, whatever the chat does.
LEMMA ChatQuotesKept ==
    ASSUME TypeInv, [ChatNext]_chatVars
    PROVE  KeepsQuotes
<1>1. quotes \in Seq(QuoteRow) /\ \A k \in DOMAIN quotes : quotes[k] \in QuoteRow
  BY DEF TypeInv, TypeOK
<1>2. ASSUME UNCHANGED quotes PROVE KeepsQuotes
  BY <1>1, <1>2 DEF KeepsQuotes, QuoteRow
<1>3. ASSUME NEW w \in Worker, Begins(w) \/ GuardAllow(w) \/ SaveWrite(w)
      PROVE  KeepsQuotes
  BY <1>2, <1>3 DEF Begins, GuardAllow, SaveWrite, database
<1>4. ASSUME NEW w \in Worker, GuardStale(w)
      PROVE  KeepsQuotes
  BY <1>1, <1>4, SupersedeType DEF GuardStale, KeepsQuotes, QuoteRow
<1> QED
  BY <1>3, <1>4, ChatSteps, QuotesKept DEF TypeInv

LEMMA ChatQuotesStay ==
    ASSUME TypeInv, [ChatNext]_chatVars
    PROVE  \A k \in DOMAIN quotes : /\ k \in DOMAIN quotes'
                                    /\ quotes'[k].hash = quotes[k].hash
                                    /\ quotes'[k].amount = quotes[k].amount
<1>1. KeepsQuotes /\ \A k \in DOMAIN quotes : quotes[k] \in QuoteRow
  BY ChatQuotesKept DEF TypeInv, TypeOK
<1> QED
  BY <1>1 DEF KeepsQuotes, QuoteRow

\* A step that is not the plane's own adds no order and no link.
LEMMA ChatOrdersStay ==
    ASSUME TypeOK, NEW w \in Worker,
           Begins(w) \/ GuardAllow(w) \/ GuardStale(w) \/ SaveWrite(w)
    PROVE  UNCHANGED <<cart, orders, links>> /\ OthersStay(w)
<1>1. CASE Begins(w) \/ SaveWrite(w)
  BY <1>1 DEF Begins, SaveWrite, database, OthersStay
<1>2. CASE GuardAllow(w) \/ GuardStale(w)
  BY <1>2 DEF GuardAllow, GuardStale, database, Goto, Answer, OthersStay, TypeOK
<1> QED
  BY <1>1, <1>2

\* The payment the guardrail lets pass is at its check.
LEMMA AtCheck ==
    ASSUME ChatInv, NEW w \in Worker, turn[w].at = "check"
    PROVE  /\ pc[w] = "idle" /\ req[w] \in Request /\ turn[w].quote \in DOMAIN quotes
           /\ req[w].quote = turn[w].quote /\ req[w].actor = turn[w].actor
           /\ turn[w].actor \in Actor
<1>1. /\ pc[w] = "idle" /\ req[w].quote = turn[w].quote
      /\ req[w].actor = turn[w].actor /\ turn[w].actor \in Actor
      /\ Approving(turn[w]) /\ turn[w].shown <= turn[w].quote
      /\ turn[w].quote <= Len(quotes)
  BY TurnHolds DEF TurnPlaced, Approving
<1>2. turn[w].shown \in Nat /\ turn[w].shown # 0 /\ turn[w].quote \in Nat
  BY <1>1, TurnHolds DEF Approving, Turn
<1>3. DOMAIN quotes = 1 .. Len(quotes) /\ Len(quotes) \in Nat /\ req[w] \in Request
  BY DEF ChatInv, TypeInv, TypeOK
<1> QED
  BY <1>1, <1>2, <1>3

LEMMA ChatCleared ==
    ASSUME ChatInv, AuthInv, [ChatNext]_chatVars
    PROVE  Cleared'
<1>1. CASE [Next]_vars
  BY <1>1, ClearedStep
<1>2. ASSUME NEW w \in Worker, Begins(w) \/ GuardAllow(w) \/ GuardStale(w) \/ SaveWrite(w)
      PROVE  Cleared'
  <2> SUFFICES ASSUME NEW v \in Worker, PastLimits(v)'
               PROVE  quotes'[req'[v].quote].amount <= MaxPerTransaction[req'[v].actor]
    BY DEF Cleared
  <2>1. (PastLimits(v) /\ req'[v] = req[v]) \/ (v = w /\ GuardAllow(w))
    <3>1. CASE v # w
      BY <1>2, <3>1, ChatOrdersStay DEF OthersStay, PastLimits, AuthInv, TypeInv
    <3>2. CASE v = w /\ Begins(w)
      BY <3>2 DEF Begins, PastLimits
    <3>3. CASE v = w /\ GuardStale(w)
      BY <3>3 DEF GuardStale, Answer, PastLimits, AuthInv, TypeInv, TypeOK
    <3>4. CASE v = w /\ SaveWrite(w)
      BY <3>4 DEF SaveWrite, PastLimits
    <3> QED
      BY <1>2, <3>1, <3>2, <3>3, <3>4
  <2>2. CASE PastLimits(v) /\ req'[v] = req[v]
    <3>1. /\ req[v].quote \in DOMAIN quotes
          /\ quotes[req[v].quote].amount <= MaxPerTransaction[req[v].actor]
      BY <2>2 DEF AuthInv, Cleared, TypeInv, WorkersPlaced, Placed, PastLimits, CheckoutPc
    <3> QED
      BY <2>2, <3>1, ChatQuotesStay DEF AuthInv
  <2>3. CASE v = w /\ GuardAllow(w)
    <3>1. turn[w].at = "check"
      BY <2>3 DEF GuardAllow, At
    <3>2. /\ req[w].quote \in DOMAIN quotes /\ req[w] \in Request
          /\ req[w].actor = turn[w].actor
      BY <3>1, AtCheck
    <3>3. quotes[req[w].quote].amount <= MaxPerTransaction[req[w].actor]
      BY <2>3, <3>2 DEF GuardAllow, PolicyAllows, WithinLimits
    <3>4. req'[w].quote = req[w].quote /\ req'[w].actor = req[w].actor
      BY <2>3, <3>2 DEF GuardAllow, ChatInv, TypeInv, TypeOK, Request
    <3> QED
      BY <2>3, <3>2, <3>3, <3>4, ChatQuotesStay DEF AuthInv
  <2> QED
    BY <2>1, <2>2, <2>3
<1> QED
  BY <1>1, <1>2, ChatSteps DEF AuthInv, TypeInv

LEMMA ChatAuthorised ==
    ASSUME AuthInv, [ChatNext]_chatVars
    PROVE  OrderAuthorised'
<1>1. CASE [Next]_vars
  BY <1>1, AuthorisedStep
<1>2. ASSUME NEW w \in Worker, Begins(w) \/ GuardAllow(w) \/ GuardStale(w) \/ SaveWrite(w)
      PROVE  OrderAuthorised'
  BY <1>2, ChatOrdersStay, ChatQuotesStay DEF AuthInv, TypeInv, OrderAuthorised
<1> QED
  BY <1>1, <1>2, ChatSteps DEF AuthInv, TypeInv

\* Beside the chat too, every order names a quote of the session and carries
\* that quote's hash, a mandate over its amount, and an amount within the
\* actor's limit of one charge, for any number of turns and requests at once:
\* pay_node is reached through guardrail_node only (app/orchestration.py).
THEOREM ChatOrdersAuthorised == ChatSpec => []OrderAuthorised
<1>1. ChatInit => ChatInv /\ AuthInv
  <2>1. Init => OrderAuthorised /\ Cleared
    BY DEF Init, OrderAuthorised, Cleared, PastLimits
  <2> QED
    BY <2>1, TypeInit, ChatInvInit DEF AuthInv, ChatInit
<1>2. ChatInv /\ AuthInv /\ [ChatNext]_chatVars => ChatInv' /\ AuthInv'
  <2> SUFFICES ASSUME ChatInv, AuthInv, [ChatNext]_chatVars
               PROVE  ChatInv' /\ AuthInv'
    OBVIOUS
  <2>1. ChatInv'
    BY ChatInvNext
  <2> QED
    BY <2>1, ChatAuthorised, ChatCleared DEF ChatInv, AuthInv
<1>3. AuthInv => OrderAuthorised
  BY DEF AuthInv
<1> QED
  BY <1>1, <1>2, <1>3, PTL DEF ChatSpec

-----------------------------------------------------------------------------
(***************************************************************************)
(* One request at a time.  A turn and a request of the agent API then      *)
(* never overlap, and what a node has read still holds when the next one   *)
(* runs: this is what the rest of the module rests on.                     *)
(***************************************************************************)
LEMMA SerialChat ==
    ASSUME OneAtATime, NEW w \in Worker, [ChatNext]_chatVars
    PROVE  \/ (StartTurn(w) \/ TurnStep(w)) /\ UNCHANGED errors
           \/ TurnDies(w) \/ PayRaises(w)
           \/ /\ ~InTurn(w) /\ UNCHANGED <<memory, turn, errors>>
              /\ StartQuote(w) \/ StartCheckout(w) \/ Step(w)
           \/ UNCHANGED <<cart, version, pc, req, memory, turn, errors>>
<1>1. \A v \in Worker : v = w
  BY DEF OneAtATime
<1>2. CASE Around /\ UNCHANGED <<memory, turn, errors>>
  <2>1. ASSUME NEW k \in DOMAIN quotes, ExpireQuote(k)
        PROVE  UNCHANGED <<cart, version, pc, req>>
    BY <2>1 DEF ExpireQuote
  <2>2. ASSUME NEW l \in DOMAIN links, EndLink(l) \/ Webhook(l)
        PROVE  UNCHANGED <<cart, version, pc, req>>
    BY <2>2 DEF EndLink, Webhook
  <2> QED
    BY <1>1, <1>2, <2>1, <2>2 DEF Around, ApiStep
<1>3. CASE UNCHANGED chatVars
  BY <1>3 DEF chatVars, vars
<1> QED
  BY <1>1, <1>2, <1>3 DEF ChatNext

(***************************************************************************)
(* What a turn charges is what was checked.  The guardrail compares the    *)
(* quote with the cart it has listed; nothing changes the cart before the  *)
(* order is made of its rows.                                              *)
(***************************************************************************)
CheckedCart(w) == turn[w].at = "check" => req[w].items = Items(cart)

ChatVerifyInv == ChatInv /\ VerifyInv /\ \A w \in Worker : CheckedCart(w)

LEMMA CheckReached ==
    ASSUME ChatInv, NEW w \in Worker, turn'[w].at = "check",
           StartTurn(w) \/ TurnStep(w) \/ TurnDies(w) \/ PayRaises(w)
    PROVE  Approve(w)
<1>1. turn \in [Worker -> Turn] /\ turn[w] \in Turn /\ turn[w].now \in Memory
  BY TurnHolds DEF ChatInv
<1>2. /\ ~StartTurn(w) /\ ~TurnDies(w) /\ ~SaveRefused(w) /\ ~SaveWrite(w)
      /\ ~PayRaises(w)
  <2>1. ~Put(w, NoTurn)
    BY <1>1 DEF Put, NoTurn
  <2>2. ~StartTurn(w)
    <3>1. ASSUME NEW a, NEW m, NEW now, NEW shown
          PROVE  ~Put(w, [NoTurn EXCEPT !.at = "version", !.actor = a, !.message = m,
                                        !.now = now, !.shown = shown])
      BY <1>1 DEF Put, NoTurn
    <3> QED
      BY <3>1 DEF StartTurn
  <2>3. ~PayRaises(w)
    BY <1>1 DEF PayRaises, Put, Move, Turn
  <2> QED
    BY <2>1, <2>2, <2>3 DEF TurnDies, SaveRefused, SaveWrite
<1>3. ~LoadVersion(w) /\ ~LoadSpend(w) /\ ~LoadQuote(w)
  <2>1. ~LoadVersion(w)
    BY <1>1 DEF LoadVersion, Put, Turn
  <2>2. ~LoadSpend(w)
    <3>1. ASSUME NEW spent, NEW label \in {"route", "quote"}
          PROVE  ~Put(w, [turn[w] EXCEPT !.spent = spent, !.at = label])
      BY <1>1 DEF Put, Turn
    <3> QED
      BY <3>1 DEF LoadSpend
  <2>3. ~LoadQuote(w)
    BY <1>1 DEF LoadQuote, Put, Turn
  <2> QED
    BY <2>1, <2>2, <2>3
<1>4. ~Discover(w) /\ ~EndCart(w) /\ ~ToolPropose(w) /\ ~EndPreview(w)
  <2>1. ASSUME NEW f
        PROVE  ~Put(w, [turn[w] EXCEPT !.at = "select",
                     !.now.suggestions = f.suggestions, !.now.candidates = f.candidates,
                     !.now.pending = Propositions(f.suggestions)])
    BY <1>1 DEF Put, Turn
  <2>2. ASSUME NEW more
        PROVE  ~Put(w, [turn[w] EXCEPT !.at = "refresh", !.now.suggestions = @ \o more])
    BY <1>1 DEF Put, Turn
  <2>3. ~ToolPropose(w)
    BY <1>1 DEF ToolPropose, Put, Turn
  <2>4. ~EndPreview(w)
    BY <1>1 DEF EndPreview, Put, Turn
  <2> QED
    BY <2>1, <2>2, <2>3, <2>4 DEF Discover, EndCart
<1>5. ~ToolAdd(w) /\ ~ToolRemove(w) /\ ~ToolClear(w)
  <2>1. ~ToolAdd(w)
    BY <1>1 DEF ToolAdd, Put, Turn
  <2>2. ~Put(w, [turn[w] EXCEPT !.at = "cart", !.now.pending = 0])
    BY <1>1 DEF Put, Turn
  <2> QED
    BY <2>1, <2>2 DEF ToolRemove, ToolClear
<1>6. ~ToolShow(w) /\ ~RefreshTurn(w) /\ ~ToolCheckout(w) /\ ~BlockApproval(w)
      /\ ~GuardRefuse(w) /\ ~GuardAllow(w) /\ ~GuardLimits(w) /\ ~GuardStale(w) /\ ~EndPay(w) /\ ~SaveRead(w)
  BY <1>1 DEF ToolShow, RefreshTurn, ToolCheckout, BlockApproval, GuardRefuse,
              GuardAllow, GuardLimits, GuardStale, EndPay, SaveRead, Put, Move, Turn
<1>7. ~DecideTurn(w)
  <2>1. ASSUME NEW action, NEW sku, NEW now
        PROVE  ~Put(w, [turn[w] EXCEPT !.at = AfterDecision(action), !.action = action,
                                       !.sku = sku, !.now = now])
    <3> DEFINE label == AfterDecision(action)
    <3>1. label # "check"
      BY DEF AfterDecision
    <3> HIDE DEF label
    <3>2. ~Put(w, [turn[w] EXCEPT !.at = label, !.action = action, !.sku = sku, !.now = now])
      BY <1>1, <3>1 DEF Put, Turn
    <3> QED
      BY <3>2 DEF label
  <2> QED
    BY <2>1, DecisionTaken
<1>8. ~PlaneStep(w)
  <2>1. PlaneStep(w) => pc[w] # "idle" /\ turn' = turn
    BY CheckoutPlace
    DEF PlaneStep, ReadRow, WriteRow, SupersedeQuotes, ReadVersion, BumpVersion,
        StampVersion, CheckoutPc
  <2> QED
    BY <2>1, AtCheck
<1>9. ~TurnRefused(w)
  <2>1. TurnRefused(w) => pc[w] # "idle" /\ turn'[w].at = turn[w].at
    BY <1>1 DEF TurnRefused, RefuseCall, Put, Turn
  <2> QED
    BY <2>1, AtCheck
<1> QED
  BY <1>2, <1>3, <1>4, <1>5, <1>6, <1>7, <1>8, <1>9 DEF TurnStep

LEMMA CheckedCartStep ==
    ASSUME OneAtATime, ChatInv, [ChatNext]_chatVars, NEW w \in Worker, CheckedCart(w)
    PROVE  CheckedCart(w)'
<1> SUFFICES ASSUME turn'[w].at = "check" PROVE req'[w].items = Items(cart')
  BY DEF CheckedCart
<1>1. CASE Approve(w)
  BY <1>1, NoRequestType
  DEF Approve, database, NoRequest, Request, ChatInv, TypeInv, TypeOK
<1>2. CASE UNCHANGED <<cart, version, pc, req, memory, turn, errors>>
  BY <1>2 DEF CheckedCart
<1>3. ~(~InTurn(w) /\ UNCHANGED <<memory, turn, errors>>)
  BY DEF InTurn
<1> QED
  BY <1>1, <1>2, <1>3, SerialChat, CheckReached

LEMMA ChatVerifyNext ==
    ASSUME OneAtATime, WholePaise, ChatVerifyInv, [ChatNext]_chatVars
    PROVE  ChatVerifyInv'
<1>1. ChatInv /\ VerifyInv /\ TypeInv /\ TypeOK
  BY DEF ChatVerifyInv, ChatInv, TypeInv
<1>2. ChatInv'
  BY <1>1, ChatInvNext
<1>3. \A w \in Worker : CheckedCart(w)'
  BY <1>1, CheckedCartStep DEF ChatVerifyInv
<1>4. ASSUME NEW w \in Worker, Begins(w) \/ GuardAllow(w) \/ GuardStale(w) \/ SaveWrite(w)
      PROVE  VerifyInv'
  <2>1. UNCHANGED <<cart, orders, links>> /\ OthersStay(w)
    BY <1>1, <1>4, ChatOrdersStay
  <2>2. QuotesPriced'
    <3>1. DOMAIN quotes' = DOMAIN quotes
      BY <1>4 DEF Begins, GuardAllow, GuardStale, SaveWrite, Supersede, database
    <3> QED
      BY <1>1, <3>1, ChatQuotesStay DEF VerifyInv, QuotesPriced
  <2>3. AsQuoted(w)'
    <3>1. CASE Begins(w)
      BY <3>1 DEF Begins, AsQuoted, QuotedLabel
    <3>2. CASE GuardStale(w)
      BY <1>1, <3>2, AnswerType DEF GuardStale, AsQuoted, QuotedLabel
    <3>3. CASE SaveWrite(w)
      BY <1>1, <3>3 DEF SaveWrite, VerifyInv, AsQuoted
    <3>4. CASE GuardAllow(w)
      <4>1. quotes[req[w].quote].hash = Hash(Items(cart))
        BY <3>4 DEF GuardAllow, At, SnapshotHolds, QuoteMatchesCart, ChatVerifyInv, CheckedCart
      <4>2. req[w] \in Request
        BY <1>1 DEF TypeOK
      <4>3. pc'[w] = "find" /\ req'[w].quote = req[w].quote /\ quotes' = quotes
        BY <1>1, <3>4, <4>2 DEF GuardAllow, Goto, TypeOK, Request, database
      <4> QED
        BY <2>1, <4>1, <4>3 DEF AsQuoted
    <3> QED
      BY <1>4, <3>1, <3>2, <3>3, <3>4
  <2>4. \A v \in Worker : AsQuoted(v)'
    BY <2>3 DEF OneAtATime
  <2>5. OrdersVerify'
    BY <1>1, <2>1 DEF VerifyInv, OrdersVerify
  <2> QED
    BY <1>2, <2>2, <2>4, <2>5 DEF VerifyInv, ChatInv
<1>5. VerifyInv'
  BY <1>1, <1>4, ChatSteps, VerifyNext
<1> QED
  BY <1>2, <1>3, <1>5 DEF ChatVerifyInv

LEMMA ChatVerifyInit == ChatInit => ChatVerifyInv
<1>1. ChatInit => \A w \in Worker : CheckedCart(w)
  BY DEF ChatInit, CheckedCart, NoTurn
<1> QED
  BY <1>1, ChatInvInit, VerifyInit DEF ChatVerifyInv, ChatInit

\* Every order's mandate verifies over the order's own actor, hash, total and
\* quote, whether a turn or the agent API has made it (pay_node and
\* agent_checkout share create_payment_order, app/commerce.py).
THEOREM ChatMandatesVerify ==
    ASSUME OneAtATime, WholePaise
    PROVE  ChatSpec => []OrdersVerify
<1>1. ChatVerifyInv /\ [ChatNext]_chatVars => ChatVerifyInv'
  BY ChatVerifyNext
<1>2. ChatVerifyInv => OrdersVerify
  BY DEF ChatVerifyInv, VerifyInv
<1> QED
  BY ChatVerifyInit, <1>1, <1>2, PTL DEF ChatSpec

-----------------------------------------------------------------------------
(***************************************************************************)
(* The version never goes back.  A turn writes back the version it has     *)
(* seen, so it must have seen every change of the version: it reads it     *)
(* when it starts, when its tool is done and with its preview, and from    *)
(* one of these to the next only a cart operation of its own changes it.   *)
(***************************************************************************)
Unread == {"none", "version", "cart", "refresh"}

TurnSees(w) ==
    /\ turn[w].at \notin Unread => turn[w].version = version
    /\ turn[w].at = "update" => turn[w].saved = version
RequestSees(w) == pc[w] \in {"bump", "quote"} => req[w].version = version

VersionInv == ChatInv /\ \A w \in Worker : TurnSees(w) /\ RequestSees(w)

\* The version a request has read stays the current one until it is used.
LEMMA VersionHeld ==
    ASSUME OneAtATime, TypeInv, [ChatNext]_chatVars, NEW w \in Worker,
           TurnSees(w), RequestSees(w)
    PROVE  RequestSees(w)'
<1> SUFFICES ASSUME pc'[w] \in {"bump", "quote"} PROVE req'[w].version = version'
  BY DEF RequestSees
<1>1. pc \in [Worker -> Label] /\ req \in [Worker -> Request] /\ TypeOK
  BY DEF TypeInv, TypeOK
<1>2. CASE [Next]_vars
  <2>1. CASE ReadVersion(w) \/ StampVersion(w)
    BY <1>1, <2>1 DEF ReadVersion, StampVersion, Goto, Request, database
  <2>2. CASE ReadRow(w) \/ WriteRow(w) \/ SupersedeQuotes(w) \/ ReadItems(w)
    BY <1>1, <2>2 DEF ReadRow, WriteRow, SupersedeQuotes, ReadItems, Goto
  <2>3. CASE RejectItem(w) \/ WriteFails(w) \/ CreateQuote(w) \/ Abort(w)
    BY <1>1, <2>3 DEF RejectItem, WriteFails, CreateQuote, Abort, Answer
  <2>4. CASE RefuseCall(w) \/ BumpVersion(w)
    <3>1. Moves(w, {"read", "items"})
      BY <1>1, <2>4, ResumeMoves DEF RefuseCall, BumpVersion, FinishCall
    <3> QED
      BY <3>1 DEF Moves
  <2>5. CASE StartCart(w) \/ StartQuote(w) \/ StartCheckout(w)
    BY <1>1, <2>5, StartMoves DEF Moves
  <2>6. CASE CheckoutStep(w)
    <3>1. CASE CheckLimits(w) \/ NeedOrder(w) \/ SnapshotCart(w) \/ LinkIssued(w)
      BY <1>1, <3>1 DEF CheckLimits, NeedOrder, SnapshotCart, LinkIssued, Goto
    <3> QED
      BY <1>1, <2>6, <3>1, CheckoutMoves DEF Moves, CheckoutPc
  <2>7. CASE UNCHANGED <<cart, version, pc, req>>
    BY <2>7 DEF RequestSees
  <2> QED
    BY <1>2, <2>1, <2>2, <2>3, <2>4, <2>5, <2>6, <2>7, SerialStep DEF CartStep, QuoteStep
<1>3. CASE Begins(w)
  BY <1>3 DEF Begins
<1>4. CASE GuardAllow(w) \/ GuardStale(w)
  BY <1>1, <1>4 DEF GuardAllow, GuardStale, Goto, Answer
<1>5. CASE SaveWrite(w)
  <2>1. turn[w].at = "update"
    BY <1>5 DEF SaveWrite, At
  <2>2. turn[w].version = version /\ turn[w].saved = version
    BY <2>1 DEF TurnSees, Unread
  <2> QED
    BY <1>5, <2>2 DEF SaveWrite, RequestSees
<1> QED
  BY <1>1, <1>2, <1>3, <1>4, <1>5, ChatSteps DEF OneAtATime

\* The steps of a turn after which it has seen the version, one group at a
\* time: it reads it ...
LEMMA TurnReadsVersion ==
    ASSUME ChatInv, NEW w \in Worker, TurnSees(w), RequestSees(w),
           LoadVersion(w) \/ RefreshTurn(w) \/ SaveRead(w) \/ EndPreview(w)
    PROVE  TurnSees(w)'
<1>1. turn \in [Worker -> Turn] /\ turn[w] \in Turn
  BY DEF ChatInv
<1>2. CASE LoadVersion(w)
  BY <1>1, <1>2 DEF LoadVersion, Put, Turn, TurnSees, Unread, vars
<1>3. CASE RefreshTurn(w)
  BY <1>1, <1>3 DEF RefreshTurn, Put, Turn, TurnSees, Unread, vars
<1>4. CASE SaveRead(w)
  BY <1>1, <1>4 DEF SaveRead, Put, Turn, TurnSees, Unread, vars, At
<1>5. CASE EndPreview(w)
  <2>1. pc[w] = "quote" /\ version' = version
    BY <1>5 DEF EndPreview, CreateQuote
  <2>2. req[w].version = version
    BY <2>1 DEF RequestSees
  <2>3. turn'[w].at = "select" /\ turn'[w].version = req[w].version
    BY <1>1, <1>5 DEF EndPreview, Put, Turn
  <2> QED
    BY <2>1, <2>2, <2>3 DEF TurnSees
<1> QED
  BY <1>2, <1>3, <1>4, <1>5

\* ... it starts, or ends ...
LEMMA TurnEndsVersion ==
    ASSUME ChatInv, NEW w \in Worker,
           StartTurn(w) \/ TurnDies(w) \/ SaveRefused(w) \/ SaveWrite(w)
    PROVE  TurnSees(w)'
<1>1. turn \in [Worker -> Turn]
  BY DEF ChatInv
<1>2. CASE StartTurn(w)
  <2>1. ASSUME NEW a, NEW m, NEW now, NEW shown,
               Put(w, [NoTurn EXCEPT !.at = "version", !.actor = a, !.message = m,
                                     !.now = now, !.shown = shown])
        PROVE  turn'[w].at = "version"
    BY <1>1, <2>1 DEF Put, NoTurn
  <2> QED
    BY <1>2, <2>1 DEF StartTurn, TurnSees, Unread
<1>3. CASE TurnDies(w) \/ SaveRefused(w) \/ SaveWrite(w)
  BY <1>1, <1>3 DEF TurnDies, SaveRefused, SaveWrite, Put, NoTurn, TurnSees, Unread
<1> QED
  BY <1>2, <1>3

\* ... its tool is about to touch the cart, or has done so ...
LEMMA TurnToolVersion ==
    ASSUME ChatInv, NEW w \in Worker,
           \/ ToolAdd(w) \/ ToolRemove(w) \/ ToolClear(w) \/ EndCart(w)
           \/ ToolPropose(w) \/ ToolShow(w) \/ TurnRefused(w)
    PROVE  TurnSees(w)'
<1>1. turn \in [Worker -> Turn] /\ turn[w] \in Turn
  BY DEF ChatInv
<1> SUFFICES turn'[w].at \in {"cart", "refresh"}
  BY DEF TurnSees, Unread
<1>2. CASE ToolAdd(w)
  BY <1>1, <1>2 DEF ToolAdd, Put, Turn
<1>3. CASE ToolRemove(w)
  BY <1>1, <1>3 DEF ToolRemove, Put, Turn
<1>4. CASE ToolClear(w)
  BY <1>1, <1>4 DEF ToolClear, Put, Turn
<1>5. CASE EndCart(w)
  <2>1. ASSUME NEW more, Put(w, [turn[w] EXCEPT !.at = "refresh", !.now.suggestions = @ \o more])
        PROVE  turn'[w].at = "refresh"
    BY <1>1, <2>1 DEF Put, Turn
  <2> QED
    BY <1>5, <2>1 DEF EndCart
<1>6. CASE ToolPropose(w)
  BY <1>1, <1>6 DEF ToolPropose, Put, Turn
<1>7. CASE ToolShow(w)
  BY <1>1, <1>7 DEF ToolShow, Move, Put, Turn
<1>8. CASE TurnRefused(w)
  <2>1. turn[w].at = "cart"
    BY <1>8, WhereInPlane DEF TurnRefused, RefuseCall, CartPc
  <2> QED
    BY <1>1, <1>8, <2>1 DEF TurnRefused, Put, Turn
<1> QED
  BY <1>2, <1>3, <1>4, <1>5, <1>6, <1>7, <1>8

\* ... it goes on with the version it has, which nothing has changed ...
LEMMA TurnKeepsVersion ==
    ASSUME ChatInv, NEW w \in Worker, TurnSees(w),
           version' = version, turn[w].at \notin Unread,
           turn'[w].version = turn[w].version, turn'[w].at # "update"
    PROVE  TurnSees(w)'
  BY DEF TurnSees

LEMMA TurnGoesOnVersion ==
    ASSUME ChatInv, NEW w \in Worker, TurnSees(w),
           \/ LoadSpend(w) \/ LoadQuote(w) \/ DecideTurn(w) \/ Discover(w)
           \/ ToolCheckout(w) \/ Approve(w) \/ BlockApproval(w) \/ GuardAllow(w)
           \/ GuardRefuse(w)
           \/ GuardLimits(w) \/ GuardStale(w) \/ EndPay(w) \/ PayRaises(w)
    PROVE  TurnSees(w)'
<1>1. turn \in [Worker -> Turn] /\ turn[w] \in Turn
  BY DEF ChatInv
<1>2. version' = version
  BY DEF LoadSpend, LoadQuote, DecideTurn, Discover, ToolCheckout, Approve,
         BlockApproval, GuardAllow, GuardLimits, GuardRefuse, GuardStale, EndPay, PayRaises,
         database, vars
<1>3. turn[w].at \notin Unread
  BY DEF LoadSpend, LoadQuote, DecideTurn, Discover, ToolCheckout, Approve,
         BlockApproval, GuardAllow, GuardLimits, GuardRefuse, GuardStale, EndPay, PayRaises,
         At, Unread
<1>4. turn'[w].version = turn[w].version /\ turn'[w].at # "update"
  <2>1. CASE LoadSpend(w)
    <3>1. ASSUME NEW spent, NEW label \in {"route", "quote"},
                 Put(w, [turn[w] EXCEPT !.spent = spent, !.at = label])
          PROVE  turn'[w].version = turn[w].version /\ turn'[w].at # "update"
      BY <1>1, <3>1 DEF Put, Turn
    <3> QED
      BY <2>1, <3>1 DEF LoadSpend
  <2>2. CASE LoadQuote(w)
    BY <1>1, <2>2 DEF LoadQuote, Put, Turn
  <2>3. CASE DecideTurn(w)
    <3>1. ASSUME NEW action, NEW sku, NEW now,
                 Put(w, [turn[w] EXCEPT !.at = AfterDecision(action), !.action = action,
                                        !.sku = sku, !.now = now])
          PROVE  turn'[w].version = turn[w].version /\ turn'[w].at # "update"
      <4> DEFINE label == AfterDecision(action)
      <4>1. label # "update"
        BY DEF AfterDecision
      <4>2. Put(w, [turn[w] EXCEPT !.at = label, !.action = action, !.sku = sku, !.now = now])
        BY <3>1
      <4> HIDE DEF label
      <4> QED
        BY <1>1, <4>1, <4>2 DEF Put, Turn
    <3> QED
      BY <2>3, <3>1, DecisionTaken
  <2>4. CASE Discover(w)
    <3>1. ASSUME NEW f,
                 Put(w, [turn[w] EXCEPT !.at = "select",
                     !.now.suggestions = f.suggestions, !.now.candidates = f.candidates,
                     !.now.pending = Propositions(f.suggestions)])
          PROVE  turn'[w].version = turn[w].version /\ turn'[w].at # "update"
      BY <1>1, <3>1 DEF Put, Turn
    <3> QED
      BY <2>4, <3>1 DEF Discover
  <2>5. CASE ToolCheckout(w)
    BY <1>1, <2>5 DEF ToolCheckout, Move, Put, Turn
  <2>6. CASE \/ Approve(w) \/ BlockApproval(w) \/ GuardAllow(w) \/ GuardLimits(w)
             \/ GuardRefuse(w) \/ GuardStale(w) \/ EndPay(w) \/ PayRaises(w)
    BY <1>1, <2>6
    DEF Approve, BlockApproval, GuardAllow, GuardLimits, GuardRefuse, GuardStale, EndPay,
        PayRaises, Move, Put, Turn
  <2> QED
    BY <2>1, <2>2, <2>3, <2>4, <2>5, <2>6
<1> QED
  BY <1>2, <1>3, <1>4, TurnKeepsVersion

\* ... or a cart operation, a preview or a payment goes on within it.
LEMMA TurnPlaneVersion ==
    ASSUME ChatInv, NEW w \in Worker, TurnSees(w), PlaneStep(w)
    PROVE  TurnSees(w)'
<1>1. CASE ReadRow(w) \/ WriteRow(w) \/ SupersedeQuotes(w) \/ ReadVersion(w) \/ BumpVersion(w)
  <2>1. pc[w] \in CartPc /\ pc[w] # "idle"
    BY <1>1 DEF ReadRow, WriteRow, SupersedeQuotes, ReadVersion, BumpVersion, CartPc
  <2>2. turn[w].at = "cart" /\ turn' = turn
    BY <2>1, WhereInPlane DEF PlaneStep
  <2> QED
    BY <2>2 DEF TurnSees, Unread
<1>2. CASE StampVersion(w) \/ CheckoutStep(w)
  <2>1. version' = version /\ turn' = turn
    BY <1>2
    DEF PlaneStep, StampVersion, database, CheckoutStep, ReadCart, ValidateQuote, BlockQuote,
        CheckLimits, BlockLimits, ReuseOrder, NeedOrder, SnapshotCart, FindCartEmpty,
        InsertOrder, LinkIssued, LinkFails, RecordLink, RecordFailure, Settle
  <2> QED
    BY <2>1 DEF TurnSees
<1> QED
  BY <1>1, <1>2 DEF PlaneStep

LEMMA TurnSeesStep ==
    ASSUME OneAtATime, ChatInv, [ChatNext]_chatVars, NEW w \in Worker,
           TurnSees(w), RequestSees(w)
    PROVE  TurnSees(w)'
<1>1. CASE TurnStep(w)
  BY <1>1, TurnReadsVersion, TurnEndsVersion, TurnToolVersion, TurnGoesOnVersion,
     TurnPlaneVersion DEF TurnStep
<1>2. CASE StartTurn(w) \/ TurnDies(w) \/ PayRaises(w)
  BY <1>2, TurnEndsVersion, TurnGoesOnVersion
<1>3. CASE ~InTurn(w) /\ UNCHANGED turn
  BY <1>3 DEF InTurn, TurnSees, Unread
<1>4. CASE UNCHANGED <<version, turn>>
  BY <1>4 DEF TurnSees
<1> QED
  BY <1>1, <1>2, <1>3, <1>4, SerialChat

LEMMA VersionInvInit == ChatInit => VersionInv
<1>1. ChatInit => \A w \in Worker : TurnSees(w) /\ RequestSees(w)
  BY DEF ChatInit, Init, NoTurn, TurnSees, RequestSees, Unread
<1> QED
  BY <1>1, ChatInvInit DEF VersionInv

LEMMA VersionInvNext ==
    ASSUME OneAtATime, VersionInv, [ChatNext]_chatVars
    PROVE  VersionInv'
<1>1. ChatInv /\ TypeInv
  BY DEF VersionInv, ChatInv
<1> QED
  BY <1>1, ChatInvNext, TurnSeesStep, VersionHeld DEF VersionInv

\* Only a cart operation moves the version, and a turn that saves another.
LEMMA VersionMoves ==
    ASSUME TypeOK, [ChatNext]_chatVars
    PROVE  version' = version \/ \E w \in Worker : BumpVersion(w) \/ SaveWrite(w)
<1>1. ASSUME [Next]_vars
      PROVE  version' = version \/ \E w \in Worker : BumpVersion(w)
  <2>1. ASSUME NEW w \in Worker, CartStep(w) \/ QuoteStep(w) \/ CheckoutStep(w)
        PROVE  version' = version \/ BumpVersion(w)
    BY <2>1
    DEF CartStep, ReadRow, RefuseCall, RejectItem, WriteRow, WriteFails, SupersedeQuotes,
        ReadVersion, QuoteStep, ReadItems, StampVersion, CreateQuote, database,
        CheckoutStep, ReadCart, ValidateQuote, BlockQuote,
        CheckLimits, BlockLimits, ReuseOrder, NeedOrder, SnapshotCart, FindCartEmpty,
        InsertOrder, LinkIssued, LinkFails, RecordLink, RecordFailure, Settle
  <2>2. ASSUME NEW w \in Worker,
               \/ StartCart(w) \/ StartQuote(w) \/ StartCheckout(w) \/ RefuseCheckout(w)
               \/ Abort(w)
        PROVE  version' = version
    BY <2>2 DEF StartCart, StartQuote, StartCheckout, RefuseCheckout, Abort, database, vars
  <2>3. ASSUME NEW k, ExpireQuote(k) PROVE version' = version
    BY <2>3 DEF ExpireQuote
  <2>4. ASSUME NEW l, EndLink(l) \/ Webhook(l) PROVE version' = version
    BY <2>4 DEF EndLink, Webhook
  <2> QED
    BY <1>1, <2>1, <2>2, <2>3, <2>4 DEF Next, Step, vars
<1>2. ASSUME NEW w \in Worker, Begins(w) \/ GuardAllow(w) \/ GuardStale(w)
      PROVE  version' = version
  BY <1>2 DEF Begins, GuardAllow, GuardStale, database
<1> QED
  BY <1>1, <1>2, ChatSteps

\* The version of the session's cart never goes back, although each turn
\* writes back the one it has read (save_state in app/session_state.py and
\* bump_cart_version in app/quote.py).
THEOREM VersionNeverGoesBack ==
    ASSUME OneAtATime
    PROVE  ChatSpec => VersionGrows
<1>1. VersionInv /\ [ChatNext]_chatVars => VersionInv'
  BY VersionInvNext
<1>2. VersionInv /\ [ChatNext]_chatVars => [version' >= version]_chatVars
  <2> SUFFICES ASSUME VersionInv, [ChatNext]_chatVars
               PROVE  version' >= version
    OBVIOUS
  <2>1. TypeOK /\ version \in Nat
    BY DEF VersionInv, ChatInv, TypeInv, TypeOK
  <2>2. ASSUME NEW w \in Worker, BumpVersion(w)
        PROVE  version' = version + 1
    BY <2>2 DEF BumpVersion, VersionInv, RequestSees
  <2>3. ASSUME NEW w \in Worker, SaveWrite(w)
        PROVE  version' = version
    BY <2>3 DEF SaveWrite, At, VersionInv, TurnSees, Unread
  <2> QED
    BY <2>1, <2>2, <2>3, VersionMoves
<1> QED
  BY VersionInvInit, <1>1, <1>2, PTL DEF ChatSpec, VersionGrows

-----------------------------------------------------------------------------
(***************************************************************************)
(* What a turn adds was asked for.  Up to its decision a turn works on the *)
(* memory it has loaded, which stays the saved one until the turn itself   *)
(* saves; the decision is sound; and the calls the tool makes of it only   *)
(* drop rows or add what was decided.                                      *)
(***************************************************************************)
BeforeDecision == {"version", "spend", "quote", "route"}

Remembers(w) == turn[w].at \in BeforeDecision => turn[w].now = Known(turn[w].actor)
ToolAsked(w) == turn[w].at = "tool" /\ turn[w].action = "add" =>
    turn[w].sku \in Asked(turn[w])
CallsAsked(calls, t) ==
    \A i \in DOMAIN calls : calls[i].kind = "remove" \/ calls[i].sku \in Asked(t)
CallAsked(w) == turn[w].at = "cart" /\ pc[w] # "idle" => CallsAsked(req[w].todo, turn[w])

AskedInv ==
    /\ ChatInv /\ RowsInv
    /\ \A w \in Worker : Remembers(w) /\ ToolAsked(w) /\ CallAsked(w)

\* What is asked for depends on the message, the actor and the memory.
LEMMA AskedStays ==
    ASSUME NEW w \in Worker, turn'[w].message = turn[w].message,
           turn'[w].actor = turn[w].actor, memory' = memory
    PROVE  Asked(turn[w])' = Asked(turn[w])
  BY DEF Asked, Known

\* The chat itself touches no row.
LEMMA ChatRowsNext ==
    ASSUME OneAtATime, RowsInv, TypeInv', [ChatNext]_chatVars
    PROVE  RowsInv'
<1>1. TypeOK
  BY DEF RowsInv, TypeInv
<1>2. ASSUME NEW w \in Worker, Begins(w) \/ GuardAllow(w) \/ GuardStale(w) \/ SaveWrite(w)
      PROVE  RowsInv'
  <2>1. UNCHANGED cart
    BY <1>1, <1>2, ChatOrdersStay
  <2>2. OneRowPerSku' /\ WithinStock'
    BY <2>1 DEF RowsInv, OneRowPerSku, WithinStock, RowsOf
  <2>3. LoadedNow(w)'
    <3>1. CASE Begins(w)
      BY <3>1 DEF Begins, LoadedNow
    <3>2. CASE GuardAllow(w) \/ GuardStale(w)
      BY <1>1, <3>2 DEF GuardAllow, GuardStale, Goto, Answer, TypeOK, LoadedNow
    <3>3. CASE SaveWrite(w)
      BY <3>3 DEF SaveWrite, RowsInv, LoadedNow
    <3> QED
      BY <1>2, <3>1, <3>2, <3>3
  <2> QED
    BY <2>2, <2>3 DEF RowsInv, OneAtATime
<1> QED
  BY <1>1, <1>2, ChatSteps, RowsNext

\* Where a turn goes: nowhere back, and from its decision on it keeps its
\* message until it ends.
Onward == {"none", "select", "cart", "refresh", "preview", "check", "stale", "pay",
           "update"}

LEMMA TurnGoes ==
    ASSUME ChatInv, NEW w \in Worker, TurnStep(w) \/ TurnDies(w) \/ PayRaises(w)
    PROVE  \/ LoadVersion(w) \/ LoadSpend(w) \/ LoadQuote(w) \/ DecideTurn(w)
           \/ PlaneStep(w)
           \/ /\ turn'[w].at \in Onward
              /\ turn'[w].at # "none" => turn'[w].message = turn[w].message
              /\ turn'[w].at = "cart" =>
                   ToolAdd(w) \/ ToolRemove(w) \/ ToolClear(w) \/ TurnRefused(w)
<1>1. turn \in [Worker -> Turn] /\ turn[w] \in Turn /\ turn[w].now \in Memory
  BY TurnHolds DEF ChatInv
<1> USE DEF Onward
<1>2. CASE TurnDies(w) \/ SaveRefused(w) \/ SaveWrite(w)
  BY <1>1, <1>2 DEF TurnDies, SaveRefused, SaveWrite, Put, NoTurn
<1>3. CASE Discover(w)
  <2>1. ASSUME NEW f,
               Put(w, [turn[w] EXCEPT !.at = "select",
                   !.now.suggestions = f.suggestions, !.now.candidates = f.candidates,
                   !.now.pending = Propositions(f.suggestions)])
        PROVE  turn'[w].at = "select" /\ turn'[w].message = turn[w].message
    BY <1>1, <2>1 DEF Put, Turn
  <2> QED
    BY <1>3, <2>1 DEF Discover
<1>4. CASE EndCart(w)
  <2>1. ASSUME NEW more, Put(w, [turn[w] EXCEPT !.at = "refresh", !.now.suggestions = @ \o more])
        PROVE  turn'[w].at = "refresh" /\ turn'[w].message = turn[w].message
    BY <1>1, <2>1 DEF Put, Turn
  <2> QED
    BY <1>4, <2>1 DEF EndCart
<1>5. CASE ToolAdd(w) \/ ToolPropose(w)
  BY <1>1, <1>5 DEF ToolAdd, ToolPropose, Put, Turn
<1>6. CASE ToolRemove(w) \/ ToolClear(w)
  <2>1. Put(w, [turn[w] EXCEPT !.at = "cart", !.now.pending = 0])
    BY <1>6 DEF ToolRemove, ToolClear
  <2> QED
    BY <1>1, <1>6, <2>1 DEF Put, Turn
<1>7. CASE EndPreview(w)
  BY <1>1, <1>7 DEF EndPreview, Put, Turn
<1>8. CASE \/ ToolShow(w) \/ RefreshTurn(w) \/ ToolCheckout(w) \/ Approve(w)
           \/ BlockApproval(w) \/ GuardAllow(w) \/ GuardLimits(w) \/ GuardRefuse(w)
           \/ GuardStale(w) \/ EndPay(w) \/ PayRaises(w) \/ SaveRead(w)
  <2>1. turn'[w].at \in Onward \ {"cart"} /\ turn'[w].message = turn[w].message
    <3>1. CASE RefreshTurn(w) \/ SaveRead(w)
      BY <1>1, <3>1 DEF RefreshTurn, SaveRead, Put, Turn
    <3>2. ASSUME NEW label \in Onward \ {"cart"}, Move(w, label)
          PROVE  turn'[w].at \in Onward \ {"cart"} /\ turn'[w].message = turn[w].message
      BY <1>1, <3>2 DEF Move, Put, Turn
    <3> QED
      BY <1>8, <3>1, <3>2
      DEF ToolShow, ToolCheckout, Approve, BlockApproval, GuardAllow, GuardLimits,
          GuardRefuse, GuardStale, EndPay, PayRaises
  <2> QED
    BY <2>1
<1>9. CASE TurnRefused(w)
  <2>1. turn[w].at = "cart"
    BY <1>9, WhereInPlane DEF TurnRefused, RefuseCall, CartPc
  <2> QED
    BY <1>1, <1>9, <2>1 DEF TurnRefused, Put, Turn
<1> QED
  BY <1>2, <1>3, <1>4, <1>5, <1>6, <1>7, <1>8, <1>9 DEF TurnStep

\* The memory is only replaced when a turn ends.
LEMMA MemoryStays ==
    ASSUME ChatInv, NEW w \in Worker, turn'[w].at # "none",
           StartTurn(w) \/ TurnStep(w) \/ TurnDies(w) \/ PayRaises(w)
    PROVE  memory' = memory
<1>1. CASE SaveWrite(w)
  BY <1>1 DEF SaveWrite, Put, NoTurn, ChatInv
<1>2. CASE StartTurn(w) \/ TurnDies(w) \/ PayRaises(w)
  BY <1>2 DEF StartTurn, TurnDies, PayRaises
<1>3. CASE TurnStep(w) /\ ~SaveWrite(w)
  BY <1>3
  DEF TurnStep, LoadVersion, LoadSpend, LoadQuote, DecideTurn, Discover, ToolAdd,
      ToolRemove, ToolClear, EndCart, ToolPropose, ToolShow, RefreshTurn, ToolCheckout,
      EndPreview, Approve, BlockApproval, GuardAllow, GuardLimits, GuardRefuse, GuardStale,
      EndPay, SaveRead, SaveRefused, TurnRefused, PlaneStep
<1> QED
  BY <1>1, <1>2, <1>3

\* A turn still works on the memory it has loaded.
LEMMA RemembersStep ==
    ASSUME OneAtATime, ChatInv, [ChatNext]_chatVars, NEW w \in Worker, Remembers(w)
    PROVE  Remembers(w)'
<1> SUFFICES ASSUME turn'[w].at \in BeforeDecision
             PROVE  turn'[w].now = Known(turn[w].actor)'
  BY DEF Remembers
<1>1. turn \in [Worker -> Turn] /\ turn[w] \in Turn /\ turn[w].at \in TurnLabel
  BY DEF ChatInv, Turn
<1>2. CASE StartTurn(w)
  <2>1. PICK a, m : Put(w, [NoTurn EXCEPT !.at = "version", !.actor = a,
                                !.message = m, !.now = Known(a), !.shown = Known(a).preview])
    BY <1>2 DEF StartTurn
  <2> DEFINE known == Known(a)
             shown == known.preview
  <2>2. Put(w, [NoTurn EXCEPT !.at = "version", !.actor = a, !.message = m,
                              !.now = known, !.shown = shown])
    BY <2>1
  <2> HIDE DEF known, shown
  <2>3. turn'[w].now = known /\ turn'[w].actor = a
    BY <1>1, <2>2 DEF Put, NoTurn
  <2>4. memory' = memory
    BY <1>2 DEF StartTurn
  <2> QED
    BY <2>3, <2>4 DEF known, Known
<1>3. CASE LoadVersion(w) \/ LoadSpend(w) \/ LoadQuote(w)
  <2>1. turn[w].at \in BeforeDecision /\ memory' = memory
    BY <1>3 DEF LoadVersion, LoadSpend, LoadQuote, At, BeforeDecision
  <2>2. turn'[w].now = turn[w].now /\ turn'[w].actor = turn[w].actor
    <3>1. CASE LoadSpend(w)
      <4>1. ASSUME NEW spent, NEW label,
                   Put(w, [turn[w] EXCEPT !.spent = spent, !.at = label])
            PROVE  turn'[w].now = turn[w].now /\ turn'[w].actor = turn[w].actor
        BY <1>1, <4>1 DEF Put, Turn
      <4> QED
        BY <3>1, <4>1 DEF LoadSpend
    <3> QED
      BY <1>1, <1>3, <3>1 DEF LoadVersion, LoadQuote, Put, Turn
  <2> QED
    BY <2>1, <2>2 DEF Remembers, Known
<1>4. ~DecideTurn(w)
  <2>1. ASSUME NEW action, NEW sku, NEW now
        PROVE  ~Put(w, [turn[w] EXCEPT !.at = AfterDecision(action), !.action = action,
                                       !.sku = sku, !.now = now])
    <3> DEFINE label == AfterDecision(action)
    <3>1. label \notin BeforeDecision
      BY DEF AfterDecision, BeforeDecision
    <3> HIDE DEF label
    <3>2. ~Put(w, [turn[w] EXCEPT !.at = label, !.action = action, !.sku = sku, !.now = now])
      BY <1>1, <3>1 DEF Put, Turn
    <3> QED
      BY <3>2 DEF label
  <2> QED
    BY <2>1, DecisionTaken
<1>5. CASE PlaneStep(w)
  <2>1. turn' = turn /\ memory' = memory
    BY <1>5 DEF PlaneStep
  <2> QED
    BY <2>1 DEF Remembers, Known
<1>6. CASE UNCHANGED <<memory, turn>>
  BY <1>6 DEF Remembers, Known
<1> QED
  BY <1>2, <1>3, <1>4, <1>5, <1>6, SerialChat, TurnGoes DEF BeforeDecision, Onward

\* What the turn has decided to add was asked for.
LEMMA DecidesAsked ==
    ASSUME ChatInv, NEW w \in Worker, Remembers(w), DecideTurn(w)
    PROVE  ToolAsked(w)'
<1> DEFINE t == turn[w]
           D(llm, cached) == Decide(t.message, ContextOf(t.now, cached), llm)
<1>1. PICK llm \in LlmAnswers, cached \in BOOLEAN : \E now :
        Put(w, [t EXCEPT !.at = AfterDecision(D(llm, cached).action),
                         !.action = D(llm, cached).action, !.sku = D(llm, cached).sku,
                         !.now = now])
  BY DecisionTaken
<1> DEFINE d == D(llm, cached)
<1>2. t \in Turn /\ t.message \in Message /\ t.now \in Memory /\ llm \in LlmAnswer
  BY TurnHolds, ChatAssumption DEF Turn
<1>3. t.now = Known(t.actor)
  BY DEF DecideTurn, At, Remembers, BeforeDecision
<1>4. Sound(t.message, ContextOf(t.now, cached), d)
  BY <1>2, ContextType, DecisionsAreSound
<1>5. d.action = "add" => d.sku \in Asked(t)
  <2> SUFFICES ASSUME d.action = "add" PROVE d.sku \in Asked(t)
    OBVIOUS
  <2> DEFINE sku == d.sku
  <2>1. sku \in Sku /\ AskedFor(t.message, ContextOf(t.now, cached), sku)
    BY <1>4 DEF Sound
  <2> HIDE DEF sku, D
  <2>2. sku # 0
    BY <2>1, DataAssumption DEF Sku
  <2> DEFINE listed == IF t.now.suggestions # <<>> THEN Skus(t.now.suggestions)
                       ELSE t.now.candidates
  <2>3. \/ sku \in {t.message.token, t.message.named}
        \/ sku = t.now.pending /\ Confirms(t.message)
        \/ \E i \in DOMAIN listed \cap Mentioned(t.message) : sku = listed[i]
    <3>1. /\ t.now.suggestions \in Seq(Suggestion) /\ t.now.candidates \in Seq(Merchant)
          /\ DOMAIN Skus(t.now.suggestions) = DOMAIN t.now.suggestions
      BY <1>2 DEF Memory, Skus
    <3>2. t.now.suggestions # <<>> <=> Skus(t.now.suggestions) # <<>>
      BY <3>1, SkusEmpty
    <3> QED
      BY <2>1, <3>1, <3>2 DEF AskedFor, ContextOf
  <2>6. sku \in Asked(t)
    BY <1>3, <2>3 DEF Asked
  <2> QED
    BY <2>6 DEF sku
<1> DEFINE label == AfterDecision(d.action)
           action == d.action
           sku == d.sku
<1>6. \E now : Put(w, [t EXCEPT !.at = label, !.action = action, !.sku = sku, !.now = now])
  BY <1>1
<1>7. action = "add" => sku \in Asked(t)
  BY <1>5
<1> HIDE DEF label, action, sku, d, D
<1>8. PICK now : Put(w, [t EXCEPT !.at = label, !.action = action, !.sku = sku, !.now = now])
  BY <1>6
<1>9. /\ turn'[w].action = action /\ turn'[w].sku = sku
      /\ turn'[w].message = t.message /\ turn'[w].actor = t.actor /\ memory' = memory
  BY <1>2, <1>8 DEF DecideTurn, Put, Turn, ChatInv
<1>10. Asked(turn[w])' = Asked(turn[w])
  BY <1>9, AskedStays
<1> QED
  BY <1>7, <1>9, <1>10 DEF ToolAsked

LEMMA ToolAskedStep ==
    ASSUME OneAtATime, ChatInv, [ChatNext]_chatVars, NEW w \in Worker,
           Remembers(w), ToolAsked(w)
    PROVE  ToolAsked(w)'
<1>1. turn \in [Worker -> Turn] /\ turn[w] \in Turn
  BY DEF ChatInv
<1>2. CASE DecideTurn(w)
  BY <1>2, DecidesAsked
<1>3. CASE StartTurn(w) \/ LoadVersion(w) \/ LoadSpend(w) \/ LoadQuote(w)
  <2> SUFFICES turn'[w].at # "tool"
    BY DEF ToolAsked
  <2>1. CASE StartTurn(w)
    <3>1. ASSUME NEW a, NEW m, NEW now, NEW shown,
                 Put(w, [NoTurn EXCEPT !.at = "version", !.actor = a, !.message = m,
                                       !.now = now, !.shown = shown])
          PROVE  turn'[w].at = "version"
      BY <1>1, <3>1 DEF Put, NoTurn
    <3> QED
      BY <2>1, <3>1 DEF StartTurn
  <2>2. CASE LoadSpend(w)
    <3>1. ASSUME NEW spent, NEW label \in {"route", "quote"},
                 Put(w, [turn[w] EXCEPT !.spent = spent, !.at = label])
          PROVE  turn'[w].at = label
      BY <1>1, <3>1 DEF Put, Turn
    <3> QED
      BY <2>2, <3>1 DEF LoadSpend
  <2> QED
    BY <1>1, <1>3, <2>1, <2>2 DEF LoadVersion, LoadQuote, Put, Turn
<1>4. CASE PlaneStep(w)
  <2>1. turn' = turn /\ memory' = memory
    BY <1>4 DEF PlaneStep
  <2> QED
    BY <2>1, AskedStays DEF ToolAsked
<1>5. CASE UNCHANGED <<memory, turn>>
  BY <1>5, AskedStays DEF ToolAsked
<1>6. CASE turn'[w].at \in Onward
  BY <1>6 DEF ToolAsked, Onward
<1> QED
  BY <1>2, <1>3, <1>4, <1>5, <1>6, SerialChat, TurnGoes

\* Moving past a call leaves calls that were asked for.
LEMMA AfterAsked ==
    ASSUME NEW r \in Request, CallsLeft(r), NEW t, CallsAsked(r.todo, t)
    PROVE  CallsAsked(AfterCall(r).todo, t)
<1>1. CASE r.drop # {}
  BY <1>1 DEF AfterCall, Request
<1>2. CASE r.drop = {}
  <2>1. r.todo \in Seq(Call) /\ r.todo # <<>>
    BY <1>2 DEF Request, CallsLeft
  <2>2. AfterCall(r).todo = Tail(r.todo)
    BY <1>2 DEF AfterCall, Request
  <2>3. \A i \in DOMAIN Tail(r.todo) :
          i + 1 \in DOMAIN r.todo /\ Tail(r.todo)[i] = r.todo[i + 1]
    BY <2>1
  <2> QED
    BY <2>2, <2>3 DEF CallsAsked
<1> QED
  BY <1>1, <1>2

LEMMA FinishAsked ==
    ASSUME ChatInv, NEW w \in Worker, NEW t, pc[w] \in CartPc, FinishCall(w),
           CallsAsked(req[w].todo, t), pc'[w] # "idle"
    PROVE  CallsAsked(req'[w].todo, t)
<1>1. TypeInv /\ TypeOK /\ req[w] \in Request
  BY DEF ChatInv, TypeInv, TypeOK
<1>2. CallsLeft(req[w])
  BY <1>1 DEF TypeInv, WorkersPlaced, Placed
<1>3. AfterCall(req[w]) \in Request
  BY <1>1, <1>2, AfterCallType
<1>4. req'[w] = AfterCall(req[w])
  BY <1>1, <1>3, ResumeType DEF FinishCall
<1> QED
  BY <1>1, <1>2, <1>4, AfterAsked

\* The tools ask the plane only for what was asked for.
LEMMA ToolsCallAsked ==
    ASSUME ChatInv, NEW w \in Worker, ToolAsked(w),
           ToolAdd(w) \/ ToolRemove(w) \/ ToolClear(w)
    PROVE  CallAsked(w)'
<1>1. /\ turn \in [Worker -> Turn] /\ turn[w] \in Turn /\ req \in [Worker -> Request]
      /\ pc \in [Worker -> Label]
  BY DEF ChatInv, TypeInv, TypeOK
<1>2. CASE ToolAdd(w)
  <2>1. /\ turn[w].action = "add" /\ turn[w].at = "tool"
        /\ req' = [req EXCEPT ![w] = CartRequest(<<AddCall(turn[w])>>)]
        /\ turn'[w].message = turn[w].message /\ turn'[w].actor = turn[w].actor
        /\ memory' = memory
    BY <1>1, <1>2 DEF ToolAdd, At, Plane, Put, Turn
  <2>2. turn[w].sku \in Sku /\ turn[w].sku \in Asked(turn[w])
    BY <2>1, TurnHolds DEF ToolAsked, TurnPlaced
  <2>3. AddCall(turn[w]) \in Call /\ AddCall(turn[w]).sku = turn[w].sku
    BY <1>1, <2>2, AddCallType
  <2> DEFINE call == AddCall(turn[w])
  <2> HIDE DEF call
  <2>4. CallsAsked(<<call>>, turn[w])
    BY <2>2, <2>3 DEF CallsAsked, call
  <2>5. Asked(turn[w])' = Asked(turn[w])
    BY <2>1, AskedStays
  <2>6. req'[w].todo = <<call>>
    BY <1>1, <2>1 DEF CartRequest, NoRequest, call
  <2> QED
    BY <2>4, <2>5, <2>6 DEF CallAsked, CallsAsked
<1>3. CASE ToolRemove(w)
  <2>1. req' = [req EXCEPT ![w] = CartRequest(<<RemoveCall(turn[w].sku)>>)]
    BY <1>3 DEF ToolRemove, Plane
  <2>2. req'[w].todo = <<RemoveCall(turn[w].sku)>>
    BY <1>1, <2>1 DEF CartRequest, NoRequest
  <2>3. \A i \in DOMAIN req'[w].todo : req'[w].todo[i].kind = "remove"
    BY <2>2 DEF RemoveCall
  <2> QED
    BY <2>3 DEF CallAsked, CallsAsked
<1>4. CASE ToolClear(w)
  <2> DEFINE drop == {<<i, cart[i].sku>> : i \in RowsOf(cart)}
             r == [CartRequest(<<>>) EXCEPT !.drop = drop]
  <2>1. Resume(w, r)
    BY <1>4 DEF ToolClear
  <2>2. r.op = "cart" /\ r.todo = <<>>
    BY DEF CartRequest, NoRequest
  <2> HIDE DEF r
  <2>3. pc'[w] = "idle" \/ req'[w] = r
    BY <1>1, <2>1, <2>2 DEF Resume, Answer
  <2> QED
    BY <2>2, <2>3 DEF CallAsked, CallsAsked
<1> QED
  BY <1>2, <1>3, <1>4

\* Within a cart operation the calls left stay asked for.
LEMMA PlaneAsked ==
    ASSUME ChatInv, NEW w \in Worker, CallAsked(w), turn[w].at = "cart",
           PlaneStep(w), pc'[w] # "idle"
    PROVE  CallsAsked(req'[w].todo, turn[w])
<1>1. TypeOK /\ req[w] \in Request
  BY DEF ChatInv, TypeInv, TypeOK
<1>2. pc[w] # "idle"
  BY CheckoutPlace
  DEF PlaneStep, ReadRow, WriteRow, SupersedeQuotes, ReadVersion, BumpVersion,
      StampVersion, CheckoutPc
<1>3. pc[w] \in CartPc /\ CallsAsked(req[w].todo, turn[w])
  BY <1>2, TurnHolds DEF CallAsked, TurnPlaced
<1>4. CASE BumpVersion(w)
  BY <1>3, <1>4, FinishAsked DEF BumpVersion
<1>5. CASE ReadRow(w) \/ ReadVersion(w)
  <2>1. req'[w].todo = req[w].todo
    BY <1>1, <1>5 DEF ReadRow, ReadVersion, TypeOK, Request
  <2> QED
    BY <1>3, <2>1
<1>6. CASE WriteRow(w) \/ SupersedeQuotes(w)
  BY <1>3, <1>6 DEF WriteRow, SupersedeQuotes
<1>7. ~StampVersion(w) /\ ~CheckoutStep(w)
  BY <1>3, CheckoutPlace DEF StampVersion, CartPc, CheckoutPc
<1> QED
  BY <1>4, <1>5, <1>6, <1>7 DEF PlaneStep

LEMMA CallAskedStep ==
    ASSUME OneAtATime, ChatInv, [ChatNext]_chatVars, NEW w \in Worker,
           ToolAsked(w), CallAsked(w)
    PROVE  CallAsked(w)'
<1> SUFFICES ASSUME turn'[w].at = "cart", pc'[w] # "idle"
             PROVE  CallsAsked(req[w].todo, turn[w])'
  BY DEF CallAsked
<1>1. turn \in [Worker -> Turn] /\ turn[w] \in Turn
  BY DEF ChatInv
<1>2. CASE ToolAdd(w) \/ ToolRemove(w) \/ ToolClear(w)
  BY <1>2, ToolsCallAsked DEF CallAsked
<1>3. CASE TurnRefused(w)
  <2>1. /\ turn[w].at = "cart" /\ pc[w] \in CartPc /\ pc[w] # "idle" /\ FinishCall(w)
        /\ memory' = memory
    BY <1>3, WhereInPlane DEF TurnRefused, RefuseCall, CartPc
  <2>2. turn'[w].message = turn[w].message /\ turn'[w].actor = turn[w].actor
    BY <1>1, <1>3 DEF TurnRefused, Put, Turn
  <2>3. CallsAsked(req'[w].todo, turn[w])
    BY <2>1, FinishAsked DEF CallAsked
  <2>4. Asked(turn[w])' = Asked(turn[w])
    BY <2>1, <2>2, AskedStays
  <2> QED
    BY <2>3, <2>4 DEF CallsAsked
<1>4. CASE PlaneStep(w)
  <2>1. turn' = turn /\ memory' = memory
    BY <1>4 DEF PlaneStep
  <2>2. CallsAsked(req'[w].todo, turn[w])
    BY <1>4, <2>1, PlaneAsked
  <2>3. Asked(turn[w])' = Asked(turn[w])
    BY <2>1, AskedStays
  <2> QED
    BY <2>2, <2>3 DEF CallsAsked
<1>5. CASE UNCHANGED <<cart, version, pc, req, memory, turn, errors>>
  BY <1>5, AskedStays DEF CallAsked, CallsAsked
<1>6. ~(~InTurn(w) /\ UNCHANGED turn)
  BY DEF InTurn
<1>7. ~StartTurn(w) /\ ~LoadVersion(w) /\ ~LoadSpend(w) /\ ~LoadQuote(w) /\ ~DecideTurn(w)
  <2>1. ~StartTurn(w)
    <3>1. ASSUME NEW a, NEW m, NEW now, NEW shown
          PROVE  ~Put(w, [NoTurn EXCEPT !.at = "version", !.actor = a, !.message = m,
                                        !.now = now, !.shown = shown])
      BY <1>1 DEF Put, NoTurn
    <3> QED
      BY <3>1 DEF StartTurn
  <2>2. ~LoadVersion(w) /\ ~LoadQuote(w)
    BY <1>1 DEF LoadVersion, LoadQuote, Put, Turn
  <2>3. ~LoadSpend(w)
    <3>1. ASSUME NEW spent, NEW label \in {"route", "quote"}
          PROVE  ~Put(w, [turn[w] EXCEPT !.spent = spent, !.at = label])
      BY <1>1 DEF Put, Turn
    <3> QED
      BY <3>1 DEF LoadSpend
  <2>4. ~DecideTurn(w)
    <3>1. ASSUME NEW action, NEW sku, NEW now
          PROVE  ~Put(w, [turn[w] EXCEPT !.at = AfterDecision(action), !.action = action,
                                         !.sku = sku, !.now = now])
      <4> DEFINE label == AfterDecision(action)
      <4>1. label # "cart"
        BY DEF AfterDecision
      <4> HIDE DEF label
      <4>2. ~Put(w, [turn[w] EXCEPT !.at = label, !.action = action, !.sku = sku, !.now = now])
        BY <1>1, <4>1 DEF Put, Turn
      <4> QED
        BY <4>2 DEF label
    <3> QED
      BY <3>1, DecisionTaken
  <2> QED
    BY <2>1, <2>2, <2>3, <2>4
<1> QED
  BY <1>2, <1>3, <1>4, <1>5, <1>6, <1>7, SerialChat, TurnGoes

LEMMA AskedInvInit == ChatInit => AskedInv
<1>1. ChatInit => \A w \in Worker : Remembers(w) /\ ToolAsked(w) /\ CallAsked(w)
  BY DEF ChatInit, NoTurn, Remembers, ToolAsked, CallAsked, BeforeDecision
<1> QED
  BY <1>1, ChatInvInit, RowsInit DEF AskedInv, ChatInit

LEMMA AskedInvNext ==
    ASSUME OneAtATime, AskedInv, [ChatNext]_chatVars
    PROVE  AskedInv'
<1>1. ChatInv /\ RowsInv /\ \A w \in Worker : Remembers(w) /\ ToolAsked(w) /\ CallAsked(w)
  BY DEF AskedInv
<1>2. ChatInv' /\ TypeInv'
  BY <1>1, ChatInvNext DEF ChatInv
<1>3. RowsInv'
  BY <1>1, <1>2, ChatRowsNext
<1>4. \A w \in Worker : Remembers(w)' /\ ToolAsked(w)' /\ CallAsked(w)'
  BY <1>1, RemembersStep, ToolAskedStep, CallAskedStep
<1> QED
  BY <1>2, <1>3, <1>4 DEF AskedInv

\* The rows a step adds units to.
AsksForUnits == \A w \in Worker : InTurn(w) /\ pc[w] = "write" =>
    \A i \in RowId : cart'[i].qty > cart[i].qty => cart'[i].sku \in Asked(turn[w])

LEMMA AsksStep ==
    ASSUME OneAtATime, AskedInv, [ChatNext]_chatVars
    PROVE  AsksForUnits
<1> SUFFICES ASSUME NEW w \in Worker, InTurn(w), pc[w] = "write",
                    NEW i \in RowId, cart'[i].qty > cart[i].qty
             PROVE  cart'[i].sku \in Asked(turn[w])
  BY DEF AsksForUnits
<1>1. ChatInv /\ RowsInv /\ TypeInv /\ TypeOK /\ cart \in Cart /\ req[w] \in Request
  BY DEF AskedInv, ChatInv, TypeInv, TypeOK
<1>2. cart[i].qty \in Nat
  <2>1. cart[i] \in Row \cup {NoRow}
    BY <1>1 DEF Cart
  <2> QED
    BY <2>1, DataAssumption DEF Row, NoRow
<1>3. cart'[i] # cart[i] /\ cart'[i] # NoRow
  BY <1>2 DEF NoRow
<1>4. cart' # cart
  BY <1>3
<1>5. [Next]_vars
  BY <1>1, <1>4, ChatSteps, ChatOrdersStay
<1>6. WriteRow(w)
  BY <1>4, <1>5, CartTouched DEF OneAtATime
<1> DEFINE call == CurrentCall(req[w])
           l == req[w].loaded
<1>7. /\ call \in Call /\ call.kind # "unknown" /\ ~Refuses(call, l)
      /\ l \in Loads(cart, call.sku) /\ CallsLeft(req[w])
  BY <1>1, <1>6, CurrentCallType
  DEF WriteRow, RowsInv, LoadedNow, TypeInv, TypeOK, WorkersPlaced, Placed, CartPc
<1>8. cart' = Flush(cart, l, Wanted(call, l)) /\ Wanted(call, l).qty <= MaxQty
  BY <1>6 DEF WriteRow
<1>9. cart'[i].sku = call.sku
  <2> HIDE DEF call, l
  <2> QED
    BY <1>1, <1>3, <1>7, <1>8, FlushNow
<1>10. call.kind # "remove"
  <2>1. ASSUME call.kind = "remove" PROVE cart'[i] \in {NoRow, cart[i]}
    BY <1>8, <2>1 DEF Wanted, Flush
  <2> QED
    BY <1>3, <2>1
<1>11. req[w].drop = {} /\ call = Head(req[w].todo) /\ req[w].todo # <<>>
  BY <1>7, <1>10 DEF CurrentCall, RemoveCall, CallsLeft
<1>12. turn[w].at = "cart"
  BY <1>1, WhereInPlane DEF CartPc
<1>13. CallsAsked(req[w].todo, turn[w])
  BY <1>12 DEF AskedInv, CallAsked
<1>14. 1 \in DOMAIN req[w].todo /\ call = req[w].todo[1]
  BY <1>1, <1>11 DEF Request
<1> QED
  BY <1>9, <1>10, <1>13, <1>14 DEF CallsAsked

\* A turn only puts more units of a product in the cart that its message
\* names by SKU or full name, that the chat had proposed when the message has
\* a confirming phrase, or that stands at a number the message mentions in
\* what the chat had offered: a catalogue word alone adds nothing, and nor
\* does a proposal the message says nothing of (route_node, agent_node and
\* tool_node of app/orchestration.py).  The phrases and numbers are looked for
\* the way the code does, as Confirms and Mentioned say.
THEOREM TurnsAddWhatWasAsked ==
    ASSUME OneAtATime
    PROVE  ChatSpec => OnlyAskedAdded
<1>1. AskedInv /\ [ChatNext]_chatVars => AskedInv'
  BY AskedInvNext
<1>2. AskedInv /\ [ChatNext]_chatVars => [AsksForUnits]_chatVars
  BY AsksStep
<1> QED
  BY AskedInvInit, <1>1, <1>2, PTL DEF ChatSpec, OnlyAskedAdded, AsksForUnits

-----------------------------------------------------------------------------
(***************************************************************************)
(* The session limit, while every call of Razorpay answers with a link.    *)
(* The guardrail judges a turn by the spend read when the turn began; no   *)
(* order is inserted between that and the guardrail, so the spend can only *)
(* have fallen since.                                                      *)
(***************************************************************************)
Judged == {"quote", "route", "approval", "check"}

SpendSeen(w) == turn[w].at \in Judged =>
    \A a \in Actor : a = turn[w].actor => SpentIn(a, Charging) <= turn[w].spent

ChatCapInv == ChatVerifyInv /\ CapInv /\ \A w \in Worker : SpendSeen(w)

\* The facts about links that the limit rests on outlast the chat's own steps.
LEMMA ChatOwned ==
    ASSUME TypeInv', OwnedInv, NEW w \in Worker,
           Begins(w) \/ GuardAllow(w) \/ GuardStale(w) \/ SaveWrite(w)
    PROVE  OwnedInv'
<1>1. TypeOK
  BY DEF OwnedInv, PaidInv, TypeInv
<1>2. UNCHANGED <<orders, links>> /\ OthersStay(w)
  BY <1>1, ChatOrdersStay
<1>3. LinkAtHand(w)'
  <2>1. CASE Begins(w)
    BY <2>1 DEF Begins, LinkAtHand
  <2>2. CASE GuardAllow(w) \/ GuardStale(w)
    BY <1>1, <2>2 DEF GuardAllow, GuardStale, Goto, Answer, TypeOK, LinkAtHand
  <2>3. CASE SaveWrite(w)
    BY <2>3 DEF SaveWrite, OwnedInv, LinkAtHand
  <2> QED
    BY <2>1, <2>2, <2>3
<1>4. ASSUME NEW v \in Worker PROVE LinkAtHand(v)'
  BY <1>2, <1>3 DEF OthersStay, OwnedInv, LinkAtHand
<1>5. LinksNameOrders' /\ KnownLinksOwned' /\ PaidByItsLink' /\ PaidMeansPaid'
  BY <1>2 DEF OwnedInv, PaidInv, LinksNameOrders, KnownLinksOwned, PaidByItsLink,
              PaidMeansPaid
<1>6. ASSUME NEW v \in Worker, pc'[v] = "record"
      PROVE  pc[v] = "record" /\ req'[v] = req[v]
  <2>1. CASE v # w
    BY <1>2, <1>6, <2>1 DEF OthersStay
  <2>2. CASE v = w
    BY <1>1, <1>6, <2>2 DEF Begins, GuardAllow, GuardStale, SaveWrite, Goto, Answer, TypeOK
  <2> QED
    BY <2>1, <2>2
<1>7. LinksBelong'
  BY <1>2, <1>6 DEF OwnedInv, PaidInv, LinksBelong
<1> QED
  BY <1>4, <1>5, <1>7 DEF OwnedInv, PaidInv

\* Without new orders the spend stays or falls.
LEMMA SameSpend ==
    ASSUME TypeOK, UNCHANGED orders, NEW a, NEW states
    PROVE  SpentIn(a, states)' = SpentIn(a, states)
  BY SpentIs, SpentBecomes DEF TypeOK

LEMMA SpendFalls ==
    ASSUME CapInv, [ChatNext]_chatVars, ~\E w \in Worker : InsertOrder(w), NEW a
    PROVE  /\ SpentIn(a, Charging) \in Nat /\ SpentIn(a, Charging)' \in Nat
           /\ SpentIn(a, Charging)' <= SpentIn(a, Charging)
<1>1. TypeOK /\ SpentIn(a, Charging) \in Nat
  BY SpentType DEF CapInv, VerifyInv, TypeInv
<1>2. CASE [Next]_vars
  BY <1>2, SpendStays
<1>3. ASSUME NEW w \in Worker, Begins(w) \/ GuardAllow(w) \/ GuardStale(w) \/ SaveWrite(w)
      PROVE  SpentIn(a, Charging)' = SpentIn(a, Charging)
  <2>1. UNCHANGED orders
    BY <1>1, <1>3, ChatOrdersStay
  <2> QED
    BY <1>1, <2>1, SameSpend
<1> QED
  BY <1>1, <1>2, <1>3, ChatSteps

\* A turn reaches the nodes between the reading of the spend and the payment
\* with the spend and the actor it had.
LEMMA JudgedFrom ==
    ASSUME ChatInv, NEW w \in Worker, turn'[w].at \in Judged,
           StartTurn(w) \/ TurnStep(w) \/ TurnDies(w) \/ PayRaises(w)
    PROVE  \/ LoadSpend(w)
           \/ /\ turn[w].at \in Judged
              /\ turn'[w].actor = turn[w].actor /\ turn'[w].spent = turn[w].spent
<1>1. turn \in [Worker -> Turn] /\ turn[w] \in Turn
  BY DEF ChatInv
<1>2. ~StartTurn(w) /\ ~LoadVersion(w)
  <2>1. ASSUME NEW a, NEW m, NEW now, NEW shown
        PROVE  ~Put(w, [NoTurn EXCEPT !.at = "version", !.actor = a, !.message = m,
                                      !.now = now, !.shown = shown])
    BY <1>1 DEF Put, NoTurn, Judged
  <2>2. ~StartTurn(w)
    BY <2>1 DEF StartTurn
  <2>3. LoadVersion(w) => turn'[w].at = "spend"
    BY <1>1 DEF LoadVersion, Put, Turn
  <2> QED
    BY <2>2, <2>3 DEF Judged
<1>3. CASE LoadQuote(w)
  BY <1>1, <1>3 DEF LoadQuote, At, Put, Turn, Judged
<1>4. CASE DecideTurn(w)
  <2>1. ASSUME NEW action, NEW sku, NEW now,
               Put(w, [turn[w] EXCEPT !.at = AfterDecision(action), !.action = action,
                                      !.sku = sku, !.now = now])
        PROVE  turn'[w].actor = turn[w].actor /\ turn'[w].spent = turn[w].spent
    BY <1>1, <2>1 DEF Put, Turn
  <2>2. turn[w].at \in Judged
    BY <1>4 DEF DecideTurn, At, Judged
  <2> QED
    BY <1>4, <2>1, <2>2, DecisionTaken
<1>5. CASE PlaneStep(w)
  BY <1>5 DEF PlaneStep
<1>6. CASE turn'[w].at \in Onward
  <2>1. turn'[w].at = "check"
    BY <1>6 DEF Judged, Onward
  <2>2. Approve(w)
    BY <2>1, CheckReached
  <2> QED
    BY <1>1, <2>2 DEF Approve, At, Move, Put, Turn, Judged
<1> QED
  BY <1>2, <1>3, <1>4, <1>5, <1>6, TurnGoes

LEMMA SpendSeenStep ==
    ASSUME OneAtATime, ChatCapInv, [ChatNext]_chatVars, NEW w \in Worker
    PROVE  SpendSeen(w)'
<1> SUFFICES ASSUME turn'[w].at \in Judged, NEW a \in Actor, a = turn'[w].actor
             PROVE  SpentIn(a, Charging)' <= turn'[w].spent
  BY DEF SpendSeen
<1>1. ChatInv /\ CapInv /\ TypeOK /\ turn \in [Worker -> Turn] /\ turn[w] \in Turn
  BY DEF ChatCapInv, ChatVerifyInv, ChatInv, TypeInv
<1>2. CASE LoadSpend(w)
  <2>1. \E label : Put(w, [turn[w] EXCEPT !.spent = SpentIn(turn[w].actor, Charging),
                                          !.at = label])
    BY <1>2 DEF LoadSpend, Charging
  <2>2. PICK label : Put(w, [turn[w] EXCEPT !.spent = SpentIn(turn[w].actor, Charging),
                                            !.at = label])
    BY <2>1
  <2>3. turn[w].actor = a
    BY <1>1, <2>2 DEF Put, Turn
  <2>4. turn'[w].spent = SpentIn(a, Charging)
    BY <1>1, <2>2, <2>3 DEF Put, Turn
  <2>5. UNCHANGED orders
    BY <1>2 DEF LoadSpend, vars
  <2>6. SpentIn(a, Charging) \in Nat /\ SpentIn(a, Charging)' = SpentIn(a, Charging)
    BY <1>1, <2>5, SpentType, SameSpend
  <2> QED
    BY <2>4, <2>6
<1>3. ASSUME turn[w].at \in Judged, turn'[w].actor = turn[w].actor,
             turn'[w].spent = turn[w].spent
      PROVE  SpentIn(a, Charging)' <= turn'[w].spent
  <2>1. pc[w] = "idle"
    BY <1>1, <1>3, TurnHolds DEF TurnPlaced, Judged
  <2>2. ~\E v \in Worker : InsertOrder(v)
    BY <2>1 DEF OneAtATime, InsertOrder
  <2>3. /\ SpentIn(a, Charging) \in Nat /\ SpentIn(a, Charging)' \in Nat
        /\ SpentIn(a, Charging)' <= SpentIn(a, Charging)
    BY <1>1, <2>2, SpendFalls
  <2>4. SpentIn(a, Charging) <= turn[w].spent /\ turn[w].spent \in Nat
    BY <1>1, <1>3 DEF ChatCapInv, SpendSeen, Turn
  <2> QED
    BY <1>3, <2>3, <2>4
<1>4. CASE UNCHANGED turn
  BY <1>3, <1>4
<1> QED
  BY <1>1, <1>2, <1>3, <1>4, SerialChat, JudgedFrom

\* A payment the guardrail lets pass fits into what is left of the limit, and
\* the chat's other steps let none pass.
LEMMA ChatBudgeted ==
    ASSUME OneAtATime, ChatCapInv, NEW w \in Worker, [ChatNext]_chatVars,
           Begins(w) \/ GuardAllow(w) \/ GuardStale(w) \/ SaveWrite(w)
    PROVE  Budgeted(w)'
<1>1. ChatInv /\ CapInv /\ TypeInv /\ TypeOK
  BY DEF ChatCapInv, ChatVerifyInv, ChatInv, TypeInv
<1>2. UNCHANGED orders
  BY <1>1, ChatOrdersStay
<1>3. ASSUME NEW a
      PROVE  SpentIn(a, Charging) \in Nat /\ SpentIn(a, Charging)' = SpentIn(a, Charging)
  BY <1>1, <1>2, SpentType, SameSpend
<1>4. CASE Begins(w)
  BY <1>4 DEF Begins, Budgeted, PastLimits
<1>5. CASE GuardStale(w)
  BY <1>1, <1>5 DEF GuardStale, Answer, TypeOK, Budgeted, PastLimits
<1>6. CASE SaveWrite(w)
  <2>1. UNCHANGED <<quotes, pc, req>>
    BY <1>6 DEF SaveWrite
  <2>2. Budgeted(w)
    BY DEF ChatCapInv, CapInv
  <2> QED
    BY <1>3, <2>1, <2>2 DEF Budgeted, PastLimits
<1>7. CASE GuardAllow(w)
  <2> SUFFICES ASSUME NEW a \in Actor, a = req'[w].actor
               PROVE  SpentIn(a, Charging)' + quotes'[req'[w].quote].amount
                        <= MaxPerSession[a]
    BY DEF Budgeted
  <2>1. turn[w].at = "check" /\ turn[w] \in Turn
    BY <1>1, <1>7, TurnHolds DEF GuardAllow, At
  <2>2. /\ req[w].quote \in DOMAIN quotes /\ req[w] \in Request
        /\ req[w].actor = turn[w].actor
    BY <1>1, <2>1, AtCheck
  <2> DEFINE cost == quotes[req[w].quote].amount
  <2>3. cost \in Nat
    BY <1>1, <2>2, QuotesCost
  <2>4. req'[w].quote = req[w].quote /\ req'[w].actor = req[w].actor /\ quotes' = quotes
    BY <1>1, <1>7, <2>2 DEF GuardAllow, TypeOK, Request, database
  <2>5. SpentIn(a, Charging) <= turn[w].spent /\ turn[w].spent \in Nat
    BY <2>1, <2>2, <2>4 DEF ChatCapInv, SpendSeen, Judged, Turn
  <2>6. turn[w].spent + cost <= MaxPerSession[a] /\ MaxPerSession[a] \in Nat
    BY <1>7, <2>2, <2>4, LimitAssumption DEF GuardAllow, PolicyAllows, WithinLimits
  <2>7. SpentIn(a, Charging)' + cost <= MaxPerSession[a]
    <3> HIDE DEF cost
    <3> QED
      BY <1>3, <2>3, <2>5, <2>6
  <2> QED
    BY <2>4, <2>7
<1> QED
  BY <1>4, <1>5, <1>6, <1>7

LEMMA ChatCapStep ==
    ASSUME OneAtATime, ChatCapInv, ChatVerifyInv', NEW w \in Worker, [ChatNext]_chatVars,
           Begins(w) \/ GuardAllow(w) \/ GuardStale(w) \/ SaveWrite(w)
    PROVE  CapInv'
<1>1. ChatInv /\ CapInv /\ TypeOK /\ TypeInv' /\ VerifyInv'
  BY DEF ChatCapInv, ChatVerifyInv, ChatInv, TypeInv
<1>2. OwnedInv'
  BY <1>1, ChatOwned DEF CapInv
<1>3. UNCHANGED <<orders, links>> /\ OthersStay(w)
  BY <1>1, ChatOrdersStay
<1>4. NeverFails'
  <2>1. pc'[w] # "fail"
    BY <1>1 DEF Begins, GuardAllow, GuardStale, SaveWrite, Goto, Answer, TypeOK,
                CapInv, NeverFails
  <2> QED
    BY <1>1, <1>3, <2>1 DEF OthersStay, CapInv, NeverFails
<1>5. FailedByExpiry'
  BY <1>1, <1>3 DEF CapInv, FailedByExpiry
<1>6. \A v \in Worker : Budgeted(v)'
  BY ChatBudgeted DEF OneAtATime
<1>7. SpendCap'
  <2> SUFFICES ASSUME NEW a \in Actor
               PROVE  SpentIn(a, Charging)' <= MaxPerSession[a]
    BY DEF SpendCap, Charging
  <2> QED
    BY <1>1, <1>3, SameSpend DEF CapInv, SpendCap, Charging
<1> QED
  BY <1>1, <1>2, <1>4, <1>5, <1>6, <1>7 DEF CapInv

LEMMA ChatCapInit == ChatInit => ChatCapInv
<1>1. ChatInit => \A w \in Worker : SpendSeen(w)
  BY DEF ChatInit, NoTurn, SpendSeen, Judged
<1> QED
  BY <1>1, ChatVerifyInit, CapInit DEF ChatCapInv, ChatInit

LEMMA ChatCapNext ==
    ASSUME OneAtATime, WholePaise, OnlyIssued, ChatCapInv, [ChatNext]_chatVars
    PROVE  ChatCapInv'
<1>1. ChatVerifyInv' /\ \A w \in Worker : SpendSeen(w)'
  BY ChatVerifyNext, SpendSeenStep DEF ChatCapInv
<1>2. TypeOK /\ CapInv
  BY DEF ChatCapInv, CapInv, VerifyInv, TypeInv
<1>3. CapInv'
  BY <1>1, <1>2, ChatSteps, ChatCapStep, CapNext
<1> QED
  BY <1>1, <1>3 DEF ChatCapInv

\* With the chat too, what an actor's orders come to never exceeds the
\* actor's session limit, although the guardrail judges by the spend read at
\* the start of the turn (run_turn and guardrail_node of app/orchestration.py).
THEOREM ChatSpendIsCapped ==
    ASSUME OneAtATime, WholePaise, OnlyIssued
    PROVE  ChatSpec => []SpendCap
<1>1. ChatCapInv /\ [ChatNext]_chatVars => ChatCapInv'
  BY ChatCapNext
<1>2. ChatCapInv => SpendCap
  BY DEF ChatCapInv, CapInv
<1> QED
  BY ChatCapInit, <1>1, <1>2, PTL DEF ChatSpec

-----------------------------------------------------------------------------
(***************************************************************************)
(* The recovery of a cart of one line, which recover_cart computes by an   *)
(* integer division and the contract describes as a maximum.               *)
(***************************************************************************)
LEMMA Quotient ==
    ASSUME NEW limit \in Nat, NEW price \in Nat, price > 0
    PROVE  /\ limit \div price \in Nat
           /\ (limit \div price) * price <= limit
           /\ limit < (limit \div price) * price + price
  BY Z3

LEMMA MoreCosts ==
    ASSUME NEW n \in Nat, NEW m \in Nat, NEW price \in Nat, n <= m
    PROVE  n * price <= m * price /\ n * price \in Nat /\ m * price \in Nat
<1>1. m - n \in Nat /\ m = n + (m - n)
  OBVIOUS
<1>2. PICK k \in Nat : m = n + k
  BY <1>1
<1>3. (n + k) * price = n * price + k * price
  OBVIOUS
<1>4. k * price \in Nat /\ n * price \in Nat
  OBVIOUS
<1> QED
  BY <1>2, <1>3, <1>4

\* A quantity fits into the limit when it is at most the quotient.
LEMMA FitsByQuotient ==
    ASSUME NEW limit \in Nat, NEW price \in Nat, price > 0, NEW n \in Nat
    PROVE  n * price <= limit <=> n <= limit \div price
<1> DEFINE d == limit \div price
<1>1. d \in Nat /\ d * price <= limit /\ limit < d * price + price
  BY Quotient
<1> HIDE DEF d
<1>2. ASSUME n <= d PROVE n * price <= limit
  BY <1>1, <1>2, MoreCosts
<1>3. ASSUME d + 1 <= n PROVE ~(n * price <= limit)
  <2>1. (d + 1) * price <= n * price /\ (d + 1) * price \in Nat /\ n * price \in Nat
    BY <1>1, <1>3, MoreCosts
  <2>2. (d + 1) * price = d * price + price
    BY <1>1
  <2> QED
    BY <1>1, <2>1, <2>2
<1>4. n <= d \/ d + 1 <= n
  BY <1>1
<1> QED
  BY <1>2, <1>3, <1>4 DEF d

\* Units at a whole number of paise cost a whole number of paise.
LEMMA WholeCosts ==
    ASSUME NEW n \in Nat, NEW p \in Nat
    PROVE  /\ n * p \in Nat /\ n * (10 * p) = 10 * (n * p)
           /\ TwoPlaces(n * (10 * p)) = n * p
<1>1. n * p \in Nat
  BY MoreCosts
<1>2. n * (10 * p) = 10 * (n * p)
  OBVIOUS
<1>3. \A k \in Nat : (10 * k + 5) \div 10 = k
  OBVIOUS
<1> QED
  BY <1>1, <1>2, <1>3 DEF TwoPlaces

LEMMA OneLineCosts ==
    ASSUME WholePaise, NEW items \in Seq(Row), Len(items) = 1
    PROVE  /\ items[1] \in Row /\ items[1].qty \in Nat /\ items[1].qty > 0
           /\ \E p \in Nat : /\ items[1].price = 10 * p
                             /\ CartTotal(items) = items[1].qty * p
<1> DEFINE r == items[1]
<1>1. DOMAIN items = {1} /\ r \in Row
  <2>1. DOMAIN items = 1 .. 1 /\ 1 \in DOMAIN items
    BY LenProperties
  <2>2. 1 .. 1 = {1}
    OBVIOUS
  <2> QED
    BY <2>1, <2>2
<1> DEFINE p == TwoPlaces(r.price)
<1>2. /\ r.qty \in Nat /\ r.qty > 0 /\ r.price \in Nat
      /\ p \in Nat /\ r.price = 10 * p
  <2>1. r.qty \in 1 .. MaxQty /\ r.price \in Money
    BY <1>1 DEF Row
  <2>2. r.price \in Nat /\ r.price % 10 = 0
    BY <2>1, PricesNatural DEF WholePaise
  <2>3. r.qty \in Nat /\ r.qty > 0
    BY <2>1, DataAssumption
  <2>4. p \in Nat /\ 10 * p = r.price
    BY <2>2, Rounded
  <2> QED
    BY <2>2, <2>3, <2>4
<1>3. r.qty * r.price \in Nat
  BY <1>2, MoreCosts
<1>4. Costs(items) = [n \in {1} |-> items[n].qty * items[n].price]
  BY <1>1 DEF Costs
<1>5. Costs(items)[1] = r.qty * r.price
  BY <1>4
<1>6. Total(Costs(items), {} \cup {1}) = Costs(items)[1] + Total(Costs(items), {})
  BY <1>3, <1>5, FS_EmptySet, TotalAdds
<1>7. LineSum(items) = Total(Costs(items), {1})
  <2>1. IsFiniteSet(DOMAIN items)
    BY <1>1, FS_Singleton
  <2>2. LineSum(items) = Total(Costs(items), DOMAIN items)
    BY <2>1, SumIsTotal
  <2> QED
    BY <1>1, <2>2
<1>8. {} \cup {1} = {1} /\ Total(Costs(items), {}) = 0
  BY TotalOfNone
<1>9. LineSum(items) = r.qty * r.price
  BY <1>3, <1>5, <1>6, <1>7, <1>8
<1> HIDE DEF p
<1>10. CartTotal(items) = r.qty * p
  BY <1>2, <1>9, WholeCosts DEF CartTotal
<1> QED
  BY <1>1, <1>2, <1>10

\* The contract: the largest quantity that fits, unless nothing needs to fit.
LEMMA LargestIs ==
    ASSUME NEW a \in Actor, NEW p \in Nat, NEW r, r.qty \in Nat, r.qty > 0,
           r.price = 10 * p, NEW most \in 0 .. r.qty,
           most * p <= MaxPerTransaction[a],
           most < r.qty => ~((most + 1) * p <= MaxPerTransaction[a])
    PROVE  LargestThatFits(a, r) =
             IF most = r.qty \/ most * p < MinRecovery THEN 0 ELSE most
<1> DEFINE limit == MaxPerTransaction[a]
           fitting == {n \in 1 .. r.qty : TwoPlaces(n * r.price) <= limit}
<1>0. \A n \in Nat : TwoPlaces(n * r.price) = n * p
  BY WholeCosts
<1>1. limit \in Nat /\ most \in Nat
  BY LimitAssumption
<1>2. ASSUME NEW n \in fitting PROVE n <= most
  <2>1. n \in 1 .. r.qty /\ n * p <= limit
    BY <1>0
  <2> SUFFICES ASSUME most < n PROVE FALSE
    BY <1>1, <2>1
  <2>2. (most + 1) * p <= n * p
    BY <1>1, <2>1, MoreCosts
  <2>3. most < r.qty /\ (most + 1) * p \in Nat /\ n * p \in Nat
    BY <1>1, <2>1, MoreCosts
  <2> QED
    BY <1>1, <2>1, <2>2, <2>3
<1>3. most \in {0} \cup fitting
  BY <1>0, <1>1
<1>4. \A n \in {0} \cup fitting : n <= most /\ n \in Nat
  BY <1>1, <1>2
<1>5. Max({0} \cup fitting) = most
  <2> HIDE DEF fitting
  <2>1. \A x \in {0} \cup fitting :
          (\A y \in {0} \cup fitting : x >= y) => x = most
    BY <1>1, <1>3, <1>4
  <2>2. \A y \in {0} \cup fitting : most >= y
    BY <1>1, <1>4
  <2> QED
    BY <1>3, <2>1, <2>2 DEF Max
<1> QED
  BY <1>0, <1>1, <1>5 DEF LargestThatFits

LEMMA SmallerOf ==
    ASSUME NEW n \in Nat, NEW m \in Nat, m <= n
    PROVE  Min({n, m}) = m
<1>1. {n, m} \in SUBSET Nat /\ {n, m} # {}
  OBVIOUS
<1>2. Min({n, m}) \in {n, m} /\ Min({n, m}) <= m
  BY <1>1, MinOfNaturals
<1> QED
  BY <1>2

LEMMA OneLineDominates ==
    ASSUME NEW items, DOMAIN items = {1}, items[1].price * items[1].qty \in Nat,
           items[1].price * items[1].qty > 0
    PROVE  Dominant(items) = items[1]
<1> DEFINE lines == {i \in DOMAIN items : LineTotal(items[i]) > 0}
           top == {i \in lines : \A j \in lines : LineTotal(items[i]) >= LineTotal(items[j])}
<1>1. lines = {1}
  BY DEF LineTotal
<1>2. top = {1}
  BY <1>1 DEF LineTotal
<1>3. Min({1}) = 1
  BY MinOfNaturals
<1>4. Dominant(items) = items[Min(top)]
  BY DEF Dominant
<1> QED
  BY <1>2, <1>3, <1>4

LEMMA RecoverOne ==
    ASSUME WholePaise, NEW a \in Actor, NEW items \in Seq(Row), Len(items) = 1
    PROVE  Recover(a, items) = LargestThatFits(a, items[1])
<1> DEFINE limit == MaxPerTransaction[a]
           r == items[1]
           q == r.qty
           d == (10 * limit) \div r.price
<1>0. PICK p \in Nat : r.price = 10 * p /\ CartTotal(items) = q * p
  BY OneLineCosts
<1>1. /\ q \in Nat /\ q > 0 /\ p \in Nat /\ r.price = 10 * p
      /\ CartTotal(items) = q * p /\ q * p \in Nat /\ limit \in Nat
      /\ MinRecovery \in Nat
  BY <1>0, OneLineCosts, WholeCosts, LimitAssumption, RecoveryAssumption
<1>2. CASE q * p <= limit
  <2>1. Recover(a, items) = 0
    BY <1>1, <1>2 DEF Recover
  <2>2. LargestThatFits(a, r) = IF q = q \/ q * p < MinRecovery THEN 0 ELSE q
    <3>1. q \in 0 .. q
      BY <1>1
    <3> QED
      BY <1>1, <1>2, <3>1, LargestIs
  <2> QED
    BY <2>1, <2>2
<1>3. CASE ~(q * p <= limit)
  <2>1. p > 0
    <3> SUFFICES ASSUME p = 0 PROVE FALSE
      BY <1>1
    <3>1. q * p = 0
      BY <1>1
    <3> QED
      BY <1>1, <1>3, <3>1
  <2>2. d \in Nat
    <3>1. 10 * limit \in Nat /\ r.price \in Nat /\ r.price > 0
      BY <1>1, <2>1
    <3> QED
      BY <3>1, Quotient
  <2>3. ASSUME NEW n \in Nat PROVE n * p <= limit <=> n <= d
    <3>1. 10 * limit \in Nat /\ 10 * p \in Nat /\ 10 * p > 0
      BY <1>1, <2>1
    <3>2. n * (10 * p) <= 10 * limit <=> n <= d
      BY <1>1, <3>1, FitsByQuotient
    <3>3. n * p \in Nat /\ n * (10 * p) = 10 * (n * p)
      BY <1>1, WholeCosts
    <3> DEFINE k == n * p
    <3>4. k \in Nat /\ (10 * k <= 10 * limit <=> n <= d)
      BY <3>2, <3>3
    <3> HIDE DEF k, d
    <3>5. k <= limit <=> n <= d
      BY <1>1, <3>4
    <3> QED
      BY <3>5 DEF k
  <2> HIDE DEF d
  <2>4. /\ d < q /\ d \in 0 .. q
        /\ d * p <= limit
        /\ ~((d + 1) * p <= limit)
    <3>1. q * p <= limit <=> q <= d
      BY <1>1, <2>3
    <3>2. d * p <= limit <=> d <= d
      BY <2>2, <2>3
    <3>3. (d + 1) * p <= limit <=> d + 1 <= d
      <4>1. d + 1 \in Nat
        BY <2>2
      <4> QED
        BY <2>3, <4>1
    <3>4. d < q /\ d \in 0 .. q
      BY <1>1, <1>3, <2>2, <3>1
    <3>5. d <= d /\ ~(d + 1 <= d)
      BY <2>2
    <3> QED
      BY <3>2, <3>3, <3>4, <3>5
  <2>5. LargestThatFits(a, r) = IF d = q \/ d * p < MinRecovery THEN 0 ELSE d
    BY <1>1, <2>4, LargestIs
  <2>6. CASE limit = 0
    <3>1. d = 0
      <4>1. 1 * p <= limit <=> 1 <= d
        BY <2>3
      <4> QED
        BY <1>1, <2>1, <2>2, <2>6, <4>1
    <3> QED
      BY <2>5, <2>6, <3>1 DEF Recover
  <2>7. CASE limit > 0
    <3>1. Dominant(items) = r
      <4>1. r.price * q \in Nat /\ r.price * q > 0
        <5>1. q * (10 * p) = 10 * (q * p)
          BY <1>1, WholeCosts
        <5>2. r.price * q = 10 * (q * p)
          BY <1>1, <5>1
        <5>3. q * p > 0
          BY <1>1, <1>3, <2>7
        <5> DEFINE k == q * p
        <5>4. k \in Nat /\ k > 0 /\ r.price * q = 10 * k
          BY <1>1, <5>2, <5>3
        <5> HIDE DEF k
        <5> QED
          BY <5>4
      <4>2. DOMAIN items = {1}
        <5>1. DOMAIN items = 1 .. 1
          BY LenProperties
        <5> QED
          BY <5>1
      <4>3. items[1].price * items[1].qty \in Nat /\ items[1].price * items[1].qty > 0
        BY <4>1
      <4> QED
        BY <4>2, <4>3, OneLineDominates, Zenon
    <3>2. Proposed(r, limit) = d
      <4>1. Proposed(r, limit) = Min({q, d})
        BY DEF Proposed, d
      <4>2. d <= q
        BY <1>1, <2>2, <2>4
      <4> QED
        BY <1>1, <2>2, <4>1, <4>2, SmallerOf
    <3>3. d * p \in Nat /\ TwoPlaces(d * r.price) = d * p
      BY <1>1, <2>2, WholeCosts
    <3>4. Recover(a, items) =
            IF d < 1 \/ d >= q \/ d * p < MinRecovery THEN 0 ELSE d
      BY <1>1, <1>3, <2>7, <3>1, <3>2, <3>3 DEF Recover
    <3> QED
      BY <1>1, <2>2, <2>4, <2>5, <3>3, <3>4
  <2> QED
    BY <1>1, <2>6, <2>7
<1> QED
  BY <1>2, <1>3

\* For every listing of one line, every price of whole paise, every limit and
\* every smallest worthwhile charge, the quantity the recovery proposes is
\* exactly the largest one that a single charge allows; an empty cart gets no
\* proposal (recover_cart in app/growth_agent.py).
THEOREM RecoveryProposesTheLargest ==
    ASSUME WholePaise
    PROVE  ChatSpec => []RecoveryFits
<1>1. ChatInv => RecoveryFits
  <2> SUFFICES ASSUME ChatInv, NEW a \in Actor
               PROVE  /\ Items(cart) = <<>> => Recover(a, Items(cart)) = 0
                      /\ Len(Items(cart)) = 1 =>
                           Recover(a, Items(cart)) = LargestThatFits(a, Items(cart)[1])
    BY DEF RecoveryFits
  <2>1. Items(cart) \in Seq(Row)
    <3>1. cart \in Cart
      BY DEF ChatInv, TypeInv, TypeOK
    <3> QED
      BY <3>1, ItemsAre
  <2>2. CartTotal(<<>>) = 0
    <3>1. DOMAIN <<>> = {} /\ IsFiniteSet({})
      BY FS_EmptySet
    <3>2. LineSum(<<>>) = Total(Costs(<<>>), {})
      BY <3>1, SumIsTotal
    <3>3. LineSum(<<>>) = 0
      BY <3>2, TotalOfNone
    <3> QED
      BY <3>3 DEF CartTotal, TwoPlaces
  <2>3. Items(cart) = <<>> => Recover(a, Items(cart)) = 0
    BY <2>2 DEF Recover
  <2> QED
    BY <2>1, <2>3, RecoverOne
<1> QED
  BY ChatInvInit, ChatInvNext, <1>1, PTL DEF ChatSpec

=============================================================================
