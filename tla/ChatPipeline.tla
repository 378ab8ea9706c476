---------------------------- MODULE ChatPipeline ----------------------------
(***************************************************************************)
(* The chat of one shopping session: POST /chat runs a turn through the    *)
(* graph route, agent, discover, tool, approval, guardrail, pay, respond   *)
(* of app/orchestration.py, with the memory app/session_state.py keeps     *)
(* between turns.  The cart operations, the quotes and the payment a turn  *)
(* asks for are those of PaymentPlane, step by step; the other requests of *)
(* PaymentPlane (the agent API, the webhook) go on beside the chat.        *)
(***************************************************************************)
EXTENDS PaymentPlane, Assistant, Recovery

CONSTANTS
    Owner,      \* the actor on the session's row: whoever had it made first, or
                \* "unknown" when a cart operation did (bump_cart_version)
    ApiActors,  \* the actors that use the agent API beside the chat
    Messages,   \* what each actor may say
    LlmAnswers, \* what the language model may answer
    Findings,   \* what a search may leave to choose from
    ListingSku, \* EXT-001, EXT-002, ...; bound: the suggestions there can be
    CrossSold,  \* prices of the listings a cross-sell may offer
    MaxErrors   \* bound: errors that strike a turn between two steps

(***************************************************************************)
(* A suggestion is a SKU with the price it is offered at; a listing's SKU  *)
(* is only its place in the list.  A search leaves suggestions (none, for  *)
(* instance when all are too dear) and the catalogue products it captured. *)
(***************************************************************************)
Suggestion == {s \in [sku : Sku, price : Money] :
                 s.sku \in Reference => s.price \in ListingPrice}
Finding == [suggestions : Seq(Suggestion), candidates : Seq(Merchant)]

ASSUME ChatAssumption ==
    /\ Owner \in Actor \cup {"unknown"}
    /\ ApiActors \subseteq Actor
    /\ Messages \in [Actor -> SUBSET Message]
    /\ LlmAnswers \subseteq LlmAnswer
    /\ Findings \subseteq Finding
    /\ ListingSku \in Seq(Reference)
    /\ CrossSold \subseteq ListingPrice
    /\ MaxErrors \in Nat
    /\ MaxQty > 0

VARIABLES
    memory,  \* the session row's state_json
    turn,    \* each worker's chat turn
    errors   \* the errors that have struck a turn

chatVars == <<vars, memory, turn, errors>>

\* What is kept between turns: the quote of the last preview, the proposed
\* SKU, the suggestions and candidates, and whether a turn has been saved.
Memory == [preview : Nat, pending : Sku \cup {0}, suggestions : Seq(Suggestion),
           candidates : Seq(Merchant), seen : BOOLEAN]
NoMemory == [preview |-> 0, pending |-> 0, suggestions |-> <<>>,
             candidates |-> <<>>, seen |-> FALSE]

\* The state that flows through the graph: `now` starts as the memory loaded
\* and is saved at the end; `shown` is the preview the turn started with,
\* `saved` the version of the row save_state has read.
TurnLabel == {"none", "version", "spend", "quote", "route", "discover", "tool",
              "cart", "refresh", "preview", "approval", "check", "stale", "pay",
              "select", "update"}
NoMessage == [says |-> {}, within |-> {}, whole |-> "", token |-> 0, named |-> 0,
              items |-> {}, digit |-> 0, finds |-> {}, classified |-> {},
              words |-> 0, tokens |-> 0]
Turn == [at : TurnLabel, actor : Actor \cup {"none"}, message : Message,
         now : Memory, shown : Nat, version : Nat, spent : Nat,
         quote : Nat, status : {"none", "active", "superseded"},
         action : Action, sku : Sku \cup {0}, done : BOOLEAN, saved : Nat]
NoTurn == [at |-> "none", actor |-> "none", message |-> NoMessage,
           now |-> NoMemory, shown |-> 0, version |-> 0, spent |-> 0,
           quote |-> 0, status |-> "none", action |-> "idle", sku |-> 0, done |-> TRUE, saved |-> 0]

ChatTypeOK ==
    /\ TypeOK
    /\ memory \in Memory
    /\ turn \in [Worker -> Turn]
    /\ errors \in Nat

ChatInit ==
    /\ Init
    /\ memory = NoMemory
    /\ turn = [w \in Worker |-> NoTurn]
    /\ errors = 0

-----------------------------------------------------------------------------
(* Helpers. *)

InTurn(w) == turn[w].at # "none"
At(w, label) == turn[w].at = label /\ pc[w] = "idle"
Put(w, t) == turn' = [turn EXCEPT ![w] = t]
Move(w, label) == Put(w, [turn[w] EXCEPT !.at = label])

Skus(offers) == [i \in DOMAIN offers |-> offers[i].sku]
ContextOf(m, cached) ==
    [preview |-> m.preview # 0, pending |-> m.pending,
     suggestions |-> Skus(m.suggestions), candidates |-> m.candidates,
     first |-> ~m.seen, cached |-> cached]

\* The bounds: a turn only decides for what its outcome fits in.
Others(w) == Cardinality({v \in Worker \ {w} : InTurn(v)})
Fits(w, action) ==
    CASE action = "add" -> version + Others(w) < MaxVersion /\ TopId(cart) + Others(w) < MaxRows
      [] action \in {"remove", "clear_cart"} ->
             version + Others(w) + Cardinality(RowsOf(cart)) <= MaxVersion
      [] action = "checkout" -> Len(quotes) + Others(w) + Cardinality(Busy("quote")) < MaxQuotes
      [] action = "approve_checkout" ->
             /\ Len(orders) + Others(w) + Cardinality(Busy("checkout")) < MaxOrders
             /\ Len(links) + Others(w) + Cardinality(Busy("checkout")) < MaxLinks
      [] OTHER -> TRUE

-----------------------------------------------------------------------------
(* The start of a turn: chat_reply, run_turn. *)

\* load_state: the row is looked up by session and actor.  Another actor than
\* the row's finds none and cannot insert one either (the session is unique),
\* so the turn starts from a blank memory.
Known(actor) == IF actor = Owner THEN memory ELSE NoMemory

StartTurn(w) ==
    /\ At(w, "none")
    /\ \E a \in Actor : \E m \in Messages[a] :
         Put(w, [NoTurn EXCEPT !.at = "version", !.actor = a, !.message = m,
                               !.now = Known(a), !.shown = Known(a).preview])
    /\ UNCHANGED <<vars, memory>>

LoadVersion(w) ==
    /\ At(w, "version")
    /\ Put(w, [turn[w] EXCEPT !.at = "spend", !.version = version])
    /\ UNCHANGED <<vars, memory>>

\* Mutant: only paid orders count as spent.
LoadPaid(w) ==
    /\ At(w, "spend")
    /\ Put(w, [turn[w] EXCEPT !.spent = SpentIn(turn[w].actor, {"paid"}),
                              !.at = IF turn[w].shown = 0 THEN "route" ELSE "quote"])
    /\ UNCHANGED <<vars, memory>>

\* _session_spend; with a preview in the memory the quote is read as well.
LoadSpend(w) ==
    /\ At(w, "spend")
    /\ Put(w, [turn[w] EXCEPT !.spent = SpentIn(turn[w].actor, {"created", "paid"}),
                              !.at = IF turn[w].shown = 0 THEN "route" ELSE "quote"])
    /\ UNCHANGED <<vars, memory>>

\* current_quote: the newest quote of the session, whoever made it and
\* whatever became of it.
LoadQuote(w) ==
    /\ At(w, "quote")
    /\ Put(w, [turn[w] EXCEPT !.at = "route", !.quote = Len(quotes),
                              !.status = quotes[Len(quotes)].status])
    /\ UNCHANGED <<vars, memory>>

-----------------------------------------------------------------------------
(* route_node, agent_node and discover_node. *)

Propositions(offers) == IF offers = <<>> THEN 0 ELSE offers[1].sku

\* The node after the decision; gather and a ready reply go to respond.
AfterDecision(action) ==
    CASE action = "discover" -> "discover"
      [] action = "approve_checkout" -> "approval"
      [] action \in {"idle", "gather"} -> "select"
      [] OTHER -> "tool"

\* A fast path forgets the captured products; a cached answer brings its
\* listings as suggestions.
DecideTurn(w) ==
    /\ At(w, "route")
    /\ \E llm \in LlmAnswers, cached \in BOOLEAN :
         LET t == turn[w]
             d == Decide(t.message, ContextOf(t.now, cached), llm)
             remembered == IF d.fast THEN [t.now EXCEPT !.candidates = <<>>] ELSE t.now
             offered == IF d.seeded
                        THEN {f.suggestions : f \in {g \in Findings : g.candidates = <<>>}}
                        ELSE {t.now.suggestions}
         IN  /\ Fits(w, d.action)
             /\ \E offers \in offered :
                  Put(w, [t EXCEPT
                      !.at = AfterDecision(d.action), !.action = d.action, !.sku = d.sku,
                      !.now = [remembered EXCEPT
                          !.suggestions = offers,
                          !.pending = IF d.seeded THEN Propositions(offers) ELSE @]])
    /\ UNCHANGED <<vars, memory>>

\* discover_node: the suggestions and the captured products of this search
\* replace the last ones; the first suggestion may be confirmed with "yes".
Discover(w) ==
    /\ At(w, "discover")
    /\ \E f \in Findings :
         Put(w, [turn[w] EXCEPT !.at = "select",
                     !.now.suggestions = f.suggestions, !.now.candidates = f.candidates,
                     !.now.pending = Propositions(f.suggestions)])
    /\ UNCHANGED <<vars, memory>>

-----------------------------------------------------------------------------
(* tool_node. *)

Plane(w, label, r) == Goto(w, label) /\ req' = [req EXCEPT ![w] = r]

\* Mutant: the price of the listing is left out.
AddFree(t) ==
    [kind |-> IF t.sku \in Merchant THEN "add" ELSE "addref",
     sku |-> t.sku, qty |-> 1, price |-> 0]

\* A listing is added at the price it is suggested at.
AddCall(t) ==
    LET refs == {i \in DOMAIN t.now.suggestions : t.now.suggestions[i].sku = t.sku}
    IN  IF refs # {} /\ t.sku \notin Merchant
        THEN [kind |-> "addref", sku |-> t.sku, qty |-> 1,
              price |-> t.now.suggestions[Min(refs)].price]
        ELSE [kind |-> "add", sku |-> t.sku, qty |-> 1, price |-> 0]

CartRequest(calls) == [NoRequest EXCEPT !.op = "cart", !.todo = calls]

ToolAdd(w) ==
    /\ At(w, "tool") /\ turn[w].action = "add"
    /\ Plane(w, "read", CartRequest(<<AddCall(turn[w])>>))
    /\ Put(w, [turn[w] EXCEPT !.at = "cart", !.now.pending = 0, !.now.candidates = <<>>])
    /\ UNCHANGED <<database, memory>>

ToolRemove(w) ==
    /\ At(w, "tool") /\ turn[w].action = "remove"
    /\ Plane(w, "read", CartRequest(<<RemoveCall(turn[w].sku)>>))
    /\ Put(w, [turn[w] EXCEPT !.at = "cart", !.now.pending = 0])
    /\ UNCHANGED <<database, memory>>

\* clear_cart removes row by row, as /agent/quote does.
ToolClear(w) ==
    /\ At(w, "tool") /\ turn[w].action = "clear_cart"
    /\ Resume(w, [CartRequest(<<>>) EXCEPT
                     !.drop = {<<i, cart[i].sku>> : i \in RowsOf(cart)}])
    /\ Put(w, [turn[w] EXCEPT !.at = "cart", !.now.pending = 0])
    /\ UNCHANGED <<database, memory>>

\* The cart operation has returned.  After an addition a cross-sell may
\* append a listing to the suggestions, under the next free number.
EndCart(w) ==
    LET t == turn[w]
        next == Len(t.now.suggestions) + 1
        offers == IF t.action = "add" /\ t.done /\ next \in DOMAIN ListingSku
                  THEN {<<>>} \cup {<<[sku |-> ListingSku[next], price |-> p]>> : p \in CrossSold}
                  ELSE {<<>>}
    IN  /\ At(w, "cart")
        /\ \E more \in offers :
             Put(w, [t EXCEPT !.at = "refresh", !.now.suggestions = @ \o more])
        /\ UNCHANGED <<vars, memory>>

ToolPropose(w) ==
    /\ At(w, "tool") /\ turn[w].action = "propose_add"
    /\ Put(w, [turn[w] EXCEPT !.at = "refresh", !.now.pending = turn[w].sku])
    /\ UNCHANGED <<vars, memory>>

ToolShow(w) ==
    /\ At(w, "tool") /\ turn[w].action \in {"cart_show", "cart_total"}
    /\ Move(w, "refresh")
    /\ UNCHANGED <<vars, memory>>

\* Mutant: the turn keeps the version it has started with.
RefreshNothing(w) ==
    /\ At(w, "refresh")
    /\ Move(w, "select")
    /\ UNCHANGED <<vars, memory>>

RefreshTurn(w) ==
    /\ At(w, "refresh")
    /\ Put(w, [turn[w] EXCEPT !.at = "select", !.version = version])
    /\ UNCHANGED <<vars, memory>>

\* A checkout previews: it lists the cart, and unless that is empty stamps
\* the version and creates a quote.
ToolCheckout(w) ==
    /\ At(w, "tool") /\ turn[w].action = "checkout"
    /\ IF Items(cart) = <<>>
       THEN Move(w, "select") /\ UNCHANGED <<pc, req>>
       ELSE /\ Move(w, "preview")
            /\ Plane(w, "stamp", [NoRequest EXCEPT !.op = "quote", !.actor = turn[w].actor,
                                                   !.items = Items(cart)])
    /\ UNCHANGED <<database, memory>>

EndPreview(w) ==
    /\ turn[w].at = "preview"
    /\ CreateQuote(w)
    /\ Put(w, [turn[w] EXCEPT !.at = "select", !.now.preview = Len(quotes) + 1,
                              !.version = req[w].version])
    /\ UNCHANGED memory

-----------------------------------------------------------------------------
(* approval_node, guardrail_node and pay_node. *)

\* validate_approval: a preview was shown, the quote read at the start of the
\* turn was open then and has not expired yet, and the message approves.
ValidateApproval(t) ==
    /\ t.shown # 0
    /\ t.status = "active" /\ ~quotes[t.quote].expired
    /\ IsAffirmative(t.message)

\* guardrail_node lists the cart ...
Approve(w) ==
    /\ At(w, "approval")
    /\ ValidateApproval(turn[w])
    /\ req' = [req EXCEPT ![w] =
         [NoRequest EXCEPT !.op = "checkout", !.actor = turn[w].actor,
                           !.quote = turn[w].quote, !.status = turn[w].status,
                           !.items = Items(cart)]]
    /\ Move(w, "check")
    /\ UNCHANGED <<database, pc, memory>>

BlockApproval(w) ==
    /\ At(w, "approval")
    /\ ~ValidateApproval(turn[w])
    /\ Move(w, "select")
    /\ UNCHANGED <<vars, memory>>

\* Mutant: the quote need only be open.
SnapshotOpen(w) ==
    QuoteStillOpen(quotes[req[w].quote], req[w].status, req[w].items, version)

\* ... and compares it, with the version as it is now, to the quote.
SnapshotHolds(w) ==
    QuoteMatchesCart(quotes[req[w].quote], req[w].status, req[w].items, version)

\* Mutant: the policy has the session limit only.
PolicyForgetsCharge(w) ==
    WithinSessionLimit(turn[w].actor, quotes[req[w].quote].amount, turn[w].spent)

\* check_transaction, with the spend read at the start of the turn.
PolicyAllows(w) ==
    WithinLimits(turn[w].actor, quotes[req[w].quote].amount, turn[w].spent)

GuardAllow(w) ==
    /\ At(w, "check") /\ SnapshotHolds(w) /\ PolicyAllows(w)
    /\ req' = [req EXCEPT ![w].items = <<>>]
    /\ Goto(w, "find")
    /\ Move(w, "pay")
    /\ UNCHANGED <<database, memory>>

GuardLimits(w) ==
    /\ At(w, "check") /\ SnapshotHolds(w) /\ ~PolicyAllows(w)
    /\ Answer(w)
    /\ Move(w, "select")
    /\ UNCHANGED <<database, memory>>

\* A stale quote is found ...
GuardRefuse(w) ==
    /\ At(w, "check") /\ ~SnapshotHolds(w)
    /\ Move(w, "stale")
    /\ UNCHANGED <<vars, memory>>

\* ... and superseded, with every other open one.
GuardStale(w) ==
    /\ At(w, "stale")
    /\ Supersede
    /\ Answer(w)
    /\ Move(w, "select")
    /\ UNCHANGED <<cart, version, orders, links, memory>>

\* execute_payment has returned, with a link or with an error.
EndPay(w) ==
    /\ At(w, "pay")
    /\ Move(w, "select")
    /\ UNCHANGED <<vars, memory>>

-----------------------------------------------------------------------------
(* respond_node: save_state. *)

\* The row is read again ...
SaveRead(w) ==
    /\ At(w, "select") /\ turn[w].actor = Owner
    /\ Put(w, [turn[w] EXCEPT !.at = "update", !.saved = version])
    /\ UNCHANGED <<vars, memory>>

\* ... or not found and not insertable: the turn fails, nothing is saved.
SaveRefused(w) ==
    /\ At(w, "select") /\ turn[w].actor # Owner
    /\ Put(w, NoTurn)
    /\ UNCHANGED <<vars, memory>>

\* The memory replaces the row's, and so does the turn's version when it
\* differs from the one just read.
SaveWrite(w) ==
    /\ At(w, "update")
    /\ memory' = [turn[w].now EXCEPT !.seen = TRUE]
    /\ version' = IF turn[w].version = turn[w].saved THEN version ELSE turn[w].version
    /\ Put(w, NoTurn)
    /\ UNCHANGED <<cart, quotes, orders, links, pc, req>>

-----------------------------------------------------------------------------
(* The steps of the plane that a turn goes through. *)

TurnRefused(w) ==
    /\ InTurn(w)
    /\ RefuseCall(w)
    /\ Put(w, [turn[w] EXCEPT !.done = turn[w].action = "clear_cart"])
    /\ UNCHANGED memory

PlaneStep(w) ==
    /\ \/ ReadRow(w) \/ WriteRow(w) \/ SupersedeQuotes(w) \/ ReadVersion(w)
       \/ BumpVersion(w) \/ StampVersion(w) \/ CheckoutStep(w)
    /\ InTurn(w)
    /\ UNCHANGED <<memory, turn>>

\* The turn dies between two steps: the row it writes has gone, an error of
\* the database, a restart.  Nothing of its state is saved.
RowVanished(w) ==
    /\ pc[w] = "write"
    /\ Vanished(cart, req[w].loaded, Wanted(CurrentCall(req[w]), req[w].loaded))
TurnDies(w) ==
    /\ InTurn(w)
    /\ errors < MaxErrors \/ RowVanished(w)
    /\ errors' = errors + 1
    /\ Answer(w)
    /\ Put(w, NoTurn)
    /\ UNCHANGED <<database, memory>>

\* pay_node catches an error in the middle of execute_payment and goes on.
PayRaises(w) ==
    /\ turn[w].at = "pay" /\ pc[w] # "idle"
    /\ errors < MaxErrors
    /\ errors' = errors + 1
    /\ Answer(w)
    /\ Move(w, "select")
    /\ UNCHANGED <<database, memory>>

TurnStep(w) ==
    \/ LoadVersion(w) \/ LoadSpend(w) \/ LoadQuote(w) \/ DecideTurn(w) \/ Discover(w)
    \/ ToolAdd(w) \/ ToolRemove(w) \/ ToolClear(w) \/ EndCart(w) \/ ToolPropose(w)
    \/ ToolShow(w) \/ RefreshTurn(w) \/ ToolCheckout(w) \/ EndPreview(w)
    \/ Approve(w) \/ BlockApproval(w) \/ GuardAllow(w) \/ GuardLimits(w)
    \/ GuardRefuse(w) \/ GuardStale(w) \/ EndPay(w) \/ SaveRead(w) \/ SaveRefused(w) \/ SaveWrite(w)
    \/ TurnRefused(w) \/ PlaneStep(w)

\* The requests of the agent API, on a worker that runs no turn.
ApiStep(w) ==
    /\ ~InTurn(w)
    /\ StartQuote(w) \/ StartCheckout(w) \/ Step(w)
    /\ req'[w].actor \in ApiActors \cup {"none"}

Around ==
    \/ \E w \in Worker : ApiStep(w)
    \/ \E k \in DOMAIN quotes : ExpireQuote(k)
    \/ \E l \in DOMAIN links : EndLink(l) \/ Webhook(l)

ChatNext ==
    \/ \E w \in Worker : (StartTurn(w) \/ TurnStep(w)) /\ UNCHANGED errors
    \/ \E w \in Worker : TurnDies(w) \/ PayRaises(w)
    \/ Around /\ UNCHANGED <<memory, turn, errors>>

ChatSpec == ChatInit /\ [][ChatNext]_chatVars

-----------------------------------------------------------------------------
(* Safety. *)

\* The version of the session's cart never goes back, although every turn
\* writes back the one it has seen (one turn at a time).
VersionGrows == [][version' >= version]_chatVars

\* A turn charges only when an affirmative phrase occurs in its message and no
\* negation stands between blanks there, when a preview had been shown before
\* it, and for a quote no older than that preview (is_explicit_approval and
\* validate_approval of guardrail.py).  That is what the code takes for an
\* approval, and less than its comments ask for: "no, do it later" and "broken"
\* meet it too.
ChargedByApproval(w) ==
    /\ Has(turn[w].message, AffirmativePatterns)
    /\ turn[w].message.says \cap NegationWords = {}
    /\ turn[w].shown # 0
    /\ req[w].quote >= turn[w].shown
OnlyApprovalPays ==
    [][\A w \in Worker :
          InTurn(w) /\ Len(links') > Len(links) /\ pc[w] = "razorpay" => ChargedByApproval(w)]_chatVars

\* Catalogue words never put anything in the cart: what a turn adds was named
\* by its SKU or full name, or is the proposal the chat had made when the
\* message has a confirming phrase, or stands at a number the message mentions
\* in what the chat had offered.  The phrases are those the code looks for, in
\* its way: "not sure" confirms, and "third one" mentions one as well.
Asked(t) ==
    LET known == Known(t.actor)
        listed == IF known.suggestions # <<>> THEN Skus(known.suggestions)
                  ELSE known.candidates
    IN  {t.message.token, t.message.named}
            \cup {sku \in {known.pending} : Confirms(t.message)}
            \cup {listed[i] : i \in DOMAIN listed \cap Mentioned(t.message)}
OnlyAskedAdded ==
    [][\A w \in Worker : InTurn(w) /\ pc[w] = "write" =>
          \A i \in RowId : cart'[i].qty > cart[i].qty => cart'[i].sku \in Asked(turn[w])]_chatVars

\* For a cart of one line the recovery agent proposes exactly the largest
\* quantity that passes the limit of one charge, and nothing when the cart
\* needs no recovery or none is worth a charge (growth_agent.py).
RecoveryFits ==
    \A a \in Actor :
        LET items == Items(cart)
        IN  /\ items = <<>> => Recover(a, items) = 0
            /\ Len(items) = 1 => Recover(a, items) = LargestThatFits(a, items[1])

-----------------------------------------------------------------------------
(* What the repository's comments and documents say, which does not always *)
(* hold of the code.                                                       *)

\* An approval is for the quote whose preview was shown.
ApprovesWhatWasShown ==
    [][\A w \in Worker : turn[w].at = "check" /\ turn'[w].at = "pay" =>
          turn[w].quote = turn[w].shown]_chatVars

\* Adding a listing again bumps the quantity of the same listing: a row's
\* price is the one its units were suggested at.
RepeatsBumpQuantity ==
    [][\A i \in RowId :
          cart[i].sku \in Reference /\ cart'[i].sku = cart[i].sku =>
              cart'[i].price = cart[i].price]_chatVars

=============================================================================
