----------------------------- MODULE Assistant -----------------------------
(***************************************************************************)
(* What one message of a chat makes the assistant do: the cascade router   *)
(* (app/cascade_router.py), the agent's tasking rules (app/orchestration.py*)
(* _task_turn) and the test for an approval (app/guardrail.py).  All of it *)
(* is a decision list: the first rule that applies decides.                *)
(*                                                                         *)
(* The code looks for phrases in a message in two ways.  `_has` and its    *)
(* like test for a substring, so "ok" is found in "book"; the negations of *)
(* an approval must stand between blanks, so "no," is not one.  A message  *)
(* therefore has the phrases it `says` between blanks and those that occur *)
(* `within` longer words or next to punctuation.                           *)
(***************************************************************************)
EXTENDS CommerceData

CONSTANT CascadeEnabled   \* CASCADE_ENABLED

ASSUME AssistantAssumption ==
    /\ CascadeEnabled \in BOOLEAN
    /\ IsFiniteSet(Merchant)   \* the catalogue is a file

\* The texts that mean something as a whole: small talk, and a bare "add".
Chitchat ==
    {"hi", "hello", "hey", "yo", "howdy", "hi there", "hello there", "hey there",
     "good morning", "good afternoon", "good evening", "namaste", "thanks",
     "thank you", "thank you very much", "thx", "ty", "cheers", "bye", "goodbye",
     "good night", "see you", "see you later", "take care", "browse"}
BareAdd == {"go on", "add"}

\* What a message is about: its phrases, the text when it is one of the fixed
\* phrases, a SKU-shaped token (0: none), the product whose full name it
\* holds, the products its catalogue words occur in, the first digit 1 to 3
\* that stands alone (0: none), what the extractors find in it, what of that
\* the classification carries (a message that reads as a command is not
\* searched for requirements), how many words it has between blanks, and how
\* many tokens when it is split at everything but letters and digits.
Message == [says : SUBSET STRING, within : SUBSET STRING,
            whole : Chitchat \cup BareAdd \cup {""},
            token : Nat, named : Merchant \cup {0}, items : SUBSET Merchant,
            digit : 0 .. 3, finds : SUBSET {"category", "features", "budget"},
            classified : SUBSET {"category", "features"}, words : Nat, tokens : Nat]

\* What the chat remembers that decisions depend on: whether a preview is
\* shown, the proposed SKU, the suggested and the captured SKUs, whether this
\* is the first turn; and whether a cached answer fits and no product does.
Context == [preview : BOOLEAN, pending : Sku \cup {0},
            suggestions : Seq(Sku), candidates : Seq(Merchant),
            first : BOOLEAN, cached : BOOLEAN]

\* An answer of the language model: whether it named requirements at all, the
\* intent, whether it named a product, and the products its words occur in.
LlmAnswer == [requirements : BOOLEAN, intent : STRING, product : BOOLEAN,
              items : SUBSET Merchant]

Has(m, needles) == needles \cap (m.says \cup m.within) # {}

-----------------------------------------------------------------------------
(* Approval: is_explicit_approval. *)

AffirmativePatterns ==
    {"yes", "yep", "yeah", "ya", "go ahead", "proceed", "confirm", "confirmed",
     "approved", "looks good", "sure", "ok", "okay", "yes please", "do it",
     "that works", "sounds good"}
NegationWords ==
    {"no", "nope", "not", "never", "don't", "dont", "do not", "not now", "wait",
     "hold on", "maybe", "perhaps"}

\* Mutant: a negation does not take the approval back.
IsAffirmativeAnyhow(m) == Has(m, AffirmativePatterns)

IsAffirmative(m) == m.says \cap NegationWords = {} /\ Has(m, AffirmativePatterns)

-----------------------------------------------------------------------------
(* Decisions. *)

Do(action, sku) == [action |-> action, sku |-> sku, fast |-> FALSE, seeded |-> FALSE]
Fast(action, sku) == [Do(action, sku) EXCEPT !.fast = TRUE]
Only(skus) == Max({0} \cup skus)

Rule(when, then) == [when |-> when, then |-> then]
Otherwise(then) == Rule(TRUE, then)
FirstOf(rules) == rules[Min({i \in DOMAIN rules : rules[i].when})].then

Action == {"agent", "approve_checkout", "add", "remove", "propose_add", "clear_cart",
           "cart_show", "cart_total", "checkout", "discover", "gather", "idle"}

\* Mutant: what a catalogue word means is added at once.
ProposeUnasked(m) == Do("add", Only(m.items))

\* A catalogue word that means one product: ask before adding it.
Propose(m) == Do("propose_add", Only(m.items))

-----------------------------------------------------------------------------
(* The cascade: Tier 0 affordances, Tier 2 cached answers, else the agent. *)

PaymentNeedles ==
    {"pay now", "pay", "approve", "confirm", "proceed", "charge",
     "complete the purchase", "complete my order", "complete the order",
     "buy now", "settle", "authorize", "authenticate", "make the payment",
     "payment", "card"}
PreviewApprovals ==
    {"yes", "yes please", "ok", "okay", "sure", "go ahead", "yep", "yeah", "yup",
     "that works", "sounds good", "do it", "looks good", "affirmative"}
PreviewNegations ==
    {"no", "nope", "nah", "not now", "cancel", "decline", "forget it", "stop",
     "wait", "hold on"}

CartWords == {"cart", "basket", "bag"}
AddWords == {"add", "put", "grab", "get me", "get", "buy", "want", "need", "wish",
             "include", "throw in", "cart"}
TotalWords == {"total", "subtotal", "balance", "how much", "amount", "value"}
TotalPhrases == {"my total", "cart total", "total bill", "subtotal", "balance",
                 "amount due", "how much"}

PaymentAdjacent(m, preview) ==
    \/ Has(m, PaymentNeedles)
    \/ preview /\ Has(m, PreviewApprovals \cup PreviewNegations)

\* A question about a product's price is not one about the cart's total.
Productish(m) == "category" \in m.finds \/ m.items # {}
AsksTotal(m) ==
    \/ Has(m, CartWords) /\ Has(m, TotalWords)
    \/ Has(m, TotalPhrases) /\ ~Productish(m)

ToAgent == Do("agent", 0)

Affordances(m, c) ==
    LET sku == IF m.token \in Merchant THEN m.token ELSE 0
    IN  <<Rule(m.words = 0 \/ PaymentAdjacent(m, c.preview) \/ ~CascadeEnabled, ToAgent),
          Rule(m.whole \in Chitchat, Fast("idle", 0)),
          Rule(/\ Has(m, {"clear", "empty", "wipe", "flush", "remove everything", "remove all"})
               /\ Has(m, CartWords \cup {"everything", "all items", "all the items"}),
               Fast("clear_cart", 0)),
          Rule(sku # 0 /\ Has(m, {"remove", "delete", "drop", "clear", "take out"}),
               Fast("remove", sku)),
          Rule(/\ sku # 0
               /\ Has(m, {"show", "view", "display", "open"} \cup CartWords)
               /\ ~Has(m, {"add", "include", "put", "buy", "purchase"}),
               Fast("cart_show", 0)),
          Rule(sku # 0, Fast("add", sku)),
          Rule(Cardinality(m.items) = 1 /\ Has(m, AddWords),
               [Propose(m) EXCEPT !.fast = TRUE]),
          Rule(m.items # {} /\ Has(m, AddWords), ToAgent),
          Rule(AsksTotal(m), Fast("cart_total", 0)),
          Rule(/\ Has(m, {"show", "view", "display", "open", "what", "my cart",
                          "my basket", "my bag"})
               /\ Has(m, CartWords),
               Fast("cart_show", 0)),
          Rule(Has(m, {"checkout", "check out"}) /\ ~Productish(m) /\ m.words <= 4,
               Fast("checkout", 0)),
          Rule(~c.first /\ (m.finds # {} \/ m.items # {}) /\ c.cached,
               [Fast("idle", 0) EXCEPT !.seeded = TRUE]),
          Otherwise(ToAgent)>>

Route(m, c) == FirstOf(Affordances(m, c))

-----------------------------------------------------------------------------
(* The agent's tasking rules, for the turns the cascade passes on. *)

\* A SKU the message names: a token that is in the catalogue or suggested, or
\* else a product's full name.
FindSku(m, c) ==
    IF m.token \in Merchant \/ m.token \in Range(c.suggestions) THEN m.token
    ELSE m.named

\* The numbers a message says in words, and all that it mentions.
NumberWords == <<{"one", "first", "1st"}, {"two", "second", "2nd"}, {"three", "third", "3rd"}>>
SpokenNumbers(m) == {n \in 1 .. 3 : m.says \cap NumberWords[n] # {}}
Mentioned(m) == SpokenNumbers(m) \cup {m.digit}

\* A pick from the suggestions, or from the captured products when there are
\* none.  The words are tried in the order one, two, three, so "third one"
\* picks the first option; a digit counts when no word does.
SelectionPick(m, c) ==
    LET offered == IF c.suggestions # <<>> THEN c.suggestions ELSE c.candidates
        spoken  == SpokenNumbers(m) \cap DOMAIN offered
    IN  IF spoken # {} THEN offered[Min(spoken)]
        ELSE IF m.digit \in DOMAIN offered THEN offered[m.digit]
        ELSE 0

Confirms(m) ==
    \/ Has(m, {"yes", "yeah", "yep", "sure", "ok", "okay", "go ahead", "add it",
               "add this", "put it", "that works", "ld like"})
    \/ m.whole \in BareAdd

\* The language model is asked only about a message the rules do not
\* understand; it may search, show, preview, empty or remove.
LlmRules(m, llm) ==
    <<Rule(m.tokens < 3, Do("gather", 0)),
      Rule(llm.intent \in {"add_to_cart", "search"} /\ llm.product, Do("discover", 0)),
      Rule(llm.intent = "show_cart", Do("cart_show", 0)),
      Rule(llm.intent = "show_total", Do("cart_total", 0)),
      Rule(llm.intent = "checkout", Do("checkout", 0)),
      Rule(llm.intent = "clear_cart", Do("clear_cart", 0)),
      Rule(llm.intent = "remove" /\ Cardinality(llm.items) = 1,
           Do("remove", Only(llm.items))),
      Otherwise(Do("gather", 0))>>

LlmIntent(m, llm) == FirstOf(LlmRules(m, llm))

\* _structured_requirements: there is something to search for, found by the
\* extractors or else by the language model.
Searchable(m, llm) == m.classified # {} \/ m.items # {} \/ llm.requirements

TaskRules(m, c, llm) ==
    LET sku  == FindSku(m, c)
        pick == SelectionPick(m, c)
    IN  <<Rule(c.preview /\ IsAffirmative(m), Do("approve_checkout", 0)),
          Rule(sku # 0 /\ Has(m, {"remove", "delete", "drop", "clear"}), Do("remove", sku)),
          Rule(/\ sku # 0
               /\ Has(m, {"show", "view", "cart"})
               /\ ~Has(m, {"add", "include", "put", "buy"}),
               Do("cart_show", 0)),
          Rule(sku # 0, Do("add", sku)),
          Rule(Cardinality(m.items) = 1 /\ Has(m, AddWords), Propose(m)),
          Rule(m.items # {} /\ Has(m, AddWords), Do("idle", 0)),
          Rule(c.pending # 0 /\ Confirms(m), Do("add", c.pending)),
          Rule(pick # 0, Do("add", pick)),
          Rule(Has(m, {"add", "include", "put", "pick up", "throw in"}), Do("idle", 0)),
          Rule(Has(m, CartWords) /\ Has(m, {"show", "view", "what", "open"}),
               Do("cart_show", 0)),
          Rule(AsksTotal(m), Do("cart_total", 0)),
          Rule(Has(m, {"checkout", "check out", "bill", "ready to pay", "proceed to payment"}),
               Do("checkout", 0)),
          Rule(Has(m, CartWords), Do("cart_show", 0)),
          Rule(Has(m, {"pay", "pay now", "approve", "confirm", "proceed"}), Do("checkout", 0)),
          Rule(Searchable(m, llm), Do("discover", 0)),
          Otherwise(LlmIntent(m, llm))>>

TaskTurn(m, c, llm) == FirstOf(TaskRules(m, c, llm))

\* The node the graph goes on with, and what it will do.
Decide(m, c, llm) ==
    LET routed == Route(m, c)
    IN  IF routed.action = "agent" THEN TaskTurn(m, c, llm) ELSE routed

=============================================================================
