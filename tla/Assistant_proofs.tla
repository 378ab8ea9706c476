-------------------------- MODULE Assistant_proofs --------------------------
(***************************************************************************)
(* What TLAPS proves of a chat's decisions, for every message, memory,     *)
(* answer of the language model and catalogue.                             *)
(***************************************************************************)
EXTENDS Assistant, Sums_proofs

-----------------------------------------------------------------------------
(* Decision lists. *)

\* A decision list that ends in a rule that applies decides by one that does.
LEMMA FirstApplies ==
    ASSUME NEW n \in Nat, NEW rules, DOMAIN rules = 1 .. n,
           \E i \in 1 .. n : rules[i].when
    PROVE  \E i \in 1 .. n : rules[i].when /\ FirstOf(rules) = rules[i].then
<1> DEFINE applying == {i \in DOMAIN rules : rules[i].when}
<1>1. applying \in SUBSET Nat /\ applying # {}
  OBVIOUS
<1>2. Min(applying) \in applying
  BY <1>1, MinOfNaturals
<1> QED
  BY <1>2 DEF FirstOf

\* The one product of a set.
LEMMA OnlyOne ==
    ASSUME NEW skus \in SUBSET Merchant, Cardinality(skus) = 1
    PROVE  Only(skus) \in Merchant
<1>1. PICK s : skus = {s}
  BY AssistantAssumption, FS_Subset, FS_Singleton
<1>2. s \in Nat /\ s # 0 /\ s \in Merchant
  BY <1>1, DataAssumption DEF Sku
<1>3. Max({0} \cup skus) = s
  BY <1>1, <1>2 DEF Max
<1> QED
  BY <1>2, <1>3 DEF Only

-----------------------------------------------------------------------------
(***************************************************************************)
(* What a decision may be: an action on a product only names a product     *)
(* there is, and what it adds was named by its SKU or its full name, is    *)
(* the proposal when the message has a confirming phrase, or stands at a   *)
(* number the message mentions.                                            *)
(***************************************************************************)
Decision == [action : Action, sku : Sku \cup {0}, fast : BOOLEAN, seeded : BOOLEAN]

AskedFor(m, c, sku) ==
    \/ sku \in {m.token, m.named}
    \/ sku = c.pending /\ Confirms(m)
    \/ \E i \in Mentioned(m) :
         \/ i \in DOMAIN c.suggestions /\ sku = c.suggestions[i]
         \/ i \in DOMAIN c.candidates /\ c.suggestions = <<>> /\ sku = c.candidates[i]

Sound(m, c, d) ==
    /\ d \in Decision
    /\ d.action \in {"add", "remove", "propose_add"} => d.sku \in Sku
    /\ d.action = "add" => AskedFor(m, c, d.sku)
    /\ d.action = "approve_checkout" => c.preview /\ IsAffirmative(m)

LEMMA DoSound ==
    ASSUME NEW m, NEW c, NEW action \in Action, NEW sku \in Sku \cup {0},
           action \in {"add", "remove", "propose_add"} => sku \in Sku,
           action = "add" => AskedFor(m, c, sku),
           action = "approve_checkout" => c.preview /\ IsAffirmative(m)
    PROVE  Sound(m, c, Do(action, sku)) /\ Sound(m, c, Fast(action, sku))
  BY DEF Sound, Do, Fast, Decision, Action

LEMMA ProposeSound ==
    ASSUME NEW m \in Message, NEW c, Cardinality(m.items) = 1
    PROVE  /\ Sound(m, c, Propose(m))
           /\ Sound(m, c, [Propose(m) EXCEPT !.fast = TRUE])
<1>1. Only(m.items) \in Sku
  BY OnlyOne DEF Message, Sku
<1> QED
  BY <1>1 DEF Propose, Do, Sound, Decision, Action

\* A list all of whose rules are sound where they apply is sound.
LEMMA ListSound ==
    ASSUME NEW m, NEW c, NEW n \in Nat, NEW rules, DOMAIN rules = 1 .. n,
           \E i \in 1 .. n : rules[i].when,
           \A i \in 1 .. n : rules[i].when => Sound(m, c, rules[i].then)
    PROVE  Sound(m, c, FirstOf(rules))
  BY FirstApplies

\* An action on no product in particular.
LEMMA PlainSound ==
    ASSUME NEW m, NEW c,
           NEW action \in Action \ {"add", "remove", "propose_add", "approve_checkout"}
    PROVE  Sound(m, c, Do(action, 0)) /\ Sound(m, c, Fast(action, 0))
  BY DoSound

LEMMA LlmSound ==
    ASSUME NEW m \in Message, NEW c, NEW llm \in LlmAnswer
    PROVE  Sound(m, c, LlmIntent(m, llm))
<1> DEFINE rules == LlmRules(m, llm)
<1>1. DOMAIN rules = 1 .. 8 /\ rules[8].when
  BY DEF LlmRules, Rule, Otherwise
<1>2. /\ rules[1].then = Do("gather", 0) /\ rules[2].then = Do("discover", 0)
      /\ rules[3].then = Do("cart_show", 0) /\ rules[4].then = Do("cart_total", 0)
      /\ rules[5].then = Do("checkout", 0) /\ rules[6].then = Do("clear_cart", 0)
      /\ rules[7].then = Do("remove", Only(llm.items))
      /\ rules[7].when => Cardinality(llm.items) = 1
      /\ rules[8].then = Do("gather", 0)
  BY DEF LlmRules, Rule, Otherwise
<1>3. \A a \in {"gather", "discover", "cart_show", "cart_total", "checkout", "clear_cart"} :
        Sound(m, c, Do(a, 0))
  BY PlainSound DEF Action
<1>4. rules[7].when => Sound(m, c, rules[7].then)
  <2>1. Cardinality(llm.items) = 1 => Only(llm.items) \in Sku
    BY OnlyOne DEF LlmAnswer, Sku
  <2> QED
    BY <1>2, <2>1, DoSound DEF Action
<1> HIDE DEF rules
<1>5. ASSUME NEW i \in 1 .. 8, rules[i].when
      PROVE  Sound(m, c, rules[i].then)
  <2>1. i \in {1, 2, 3, 4, 5, 6, 7, 8}
    OBVIOUS
  <2> QED
    BY <1>2, <1>3, <1>4, <1>5, <2>1
<1>6. \E i \in 1 .. 8 : rules[i].when
  BY <1>1
<1>7. Sound(m, c, FirstOf(rules))
  BY <1>1, <1>5, <1>6, ListSound
<1> QED
  BY <1>7 DEF LlmIntent, rules

\* What the cascade decides by itself, or passes on.
LEMMA RouteSound ==
    ASSUME NEW m \in Message, NEW c \in Context
    PROVE  Sound(m, c, Route(m, c))
<1> DEFINE rules == Affordances(m, c)
           sku == IF m.token \in Merchant THEN m.token ELSE 0
<1>1. DOMAIN rules = 1 .. 13 /\ rules[13].when
  BY DEF Affordances, Rule, Otherwise
<1>2. /\ rules[1].then = Do("agent", 0) /\ rules[2].then = Fast("idle", 0)
      /\ rules[3].then = Fast("clear_cart", 0)
      /\ rules[4].when => sku # 0
      /\ rules[4].then = Fast("remove", sku)
      /\ rules[5].then = Fast("cart_show", 0)
      /\ rules[6].when => sku # 0
      /\ rules[6].then = Fast("add", sku)
      /\ rules[7].when => Cardinality(m.items) = 1
      /\ rules[7].then = [Propose(m) EXCEPT !.fast = TRUE]
  BY DEF Affordances, Rule, ToAgent
<1>3. /\ rules[8].then = Do("agent", 0) /\ rules[9].then = Fast("cart_total", 0)
      /\ rules[10].then = Fast("cart_show", 0) /\ rules[11].then = Fast("checkout", 0)
      /\ rules[12].then = [Fast("idle", 0) EXCEPT !.seeded = TRUE]
      /\ rules[13].then = Do("agent", 0)
  BY DEF Affordances, Rule, Otherwise, ToAgent
<1> HIDE DEF rules
<1>4. sku # 0 => /\ Sound(m, c, Fast("remove", sku))
                 /\ Sound(m, c, Fast("add", sku))
  <2>1. m.token \in Merchant => m.token \in Sku /\ AskedFor(m, c, m.token)
    BY DEF Sku, AskedFor
  <2> QED
    BY <2>1, DoSound DEF Action
<1>5. Sound(m, c, [Fast("idle", 0) EXCEPT !.seeded = TRUE])
  BY DEF Fast, Do, Sound, Decision, Action
<1>6. /\ Sound(m, c, Do("agent", 0))
      /\ \A a \in {"idle", "clear_cart", "cart_show", "cart_total", "checkout"} :
           Sound(m, c, Fast(a, 0))
  BY PlainSound DEF Action
<1>7. ASSUME NEW i \in 1 .. 13, rules[i].when
      PROVE  Sound(m, c, rules[i].then)
  <2>1. CASE i \in {1, 2, 3, 5, 8, 9, 10, 11, 12, 13}
    BY <1>2, <1>3, <1>5, <1>6, <2>1
  <2>2. CASE i \in {4, 6, 7}
    BY <1>2, <1>4, <1>7, <2>2, ProposeSound
  <2>3. i \in {1, 2, 3, 5, 8, 9, 10, 11, 12, 13} \/ i \in {4, 6, 7}
    OBVIOUS
  <2> QED
    BY <2>1, <2>2, <2>3
<1>8. \E i \in 1 .. 13 : rules[i].when
  BY <1>1
<1>9. Sound(m, c, FirstOf(rules))
  BY <1>1, <1>7, <1>8, ListSound
<1> QED
  BY <1>9 DEF Route, rules

\* A pick is one of the suggestions, or else of the captured products, and
\* stands at a number the message mentions.
LEMMA PickSound ==
    ASSUME NEW m \in Message, NEW c \in Context, SelectionPick(m, c) # 0
    PROVE  SelectionPick(m, c) \in Sku /\ AskedFor(m, c, SelectionPick(m, c))
<1>1. /\ \A i \in DOMAIN c.suggestions : c.suggestions[i] \in Sku
      /\ \A i \in DOMAIN c.candidates : c.candidates[i] \in Sku
  BY DEF Context, Sku
<1> DEFINE offered == IF c.suggestions # <<>> THEN c.suggestions ELSE c.candidates
           spoken  == SpokenNumbers(m) \cap DOMAIN offered
<1>2. spoken # {} => Min(spoken) \in spoken
  <2>1. spoken \in SUBSET Nat
    BY DEF SpokenNumbers
  <2> HIDE DEF spoken
  <2> QED
    BY <2>1, MinOfNaturals
<1>3. \E i \in Mentioned(m) : i \in DOMAIN offered /\ SelectionPick(m, c) = offered[i]
  BY <1>2 DEF SelectionPick, Mentioned
<1>4. PICK i \in Mentioned(m) : i \in DOMAIN offered /\ SelectionPick(m, c) = offered[i]
  BY <1>3
<1>5. CASE c.suggestions # <<>>
  BY <1>1, <1>4, <1>5 DEF AskedFor
<1>6. CASE c.suggestions = <<>>
  BY <1>1, <1>4, <1>6 DEF AskedFor
<1> QED
  BY <1>5, <1>6

\* A product the message names is one there is.
LEMMA NamedSound ==
    ASSUME NEW m \in Message, NEW c \in Context, FindSku(m, c) # 0
    PROVE  FindSku(m, c) \in Sku /\ AskedFor(m, c, FindSku(m, c))
<1>1. Range(c.suggestions) \subseteq Sku
  BY DEF Context, Range
<1> QED
  BY <1>1 DEF FindSku, AskedFor, Message, Sku

\* What the agent's rules make of the messages the cascade passes on.
LEMMA TaskSound ==
    ASSUME NEW m \in Message, NEW c \in Context, NEW llm \in LlmAnswer
    PROVE  Sound(m, c, TaskTurn(m, c, llm))
<1> DEFINE rules == TaskRules(m, c, llm)
           sku == FindSku(m, c)
           pick == SelectionPick(m, c)
<1>1. DOMAIN rules = 1 .. 16 /\ rules[16].when
  BY DEF TaskRules, Rule, Otherwise
<1>2. /\ rules[1].when => c.preview /\ IsAffirmative(m)
      /\ rules[1].then = Do("approve_checkout", 0)
      /\ rules[2].when => sku # 0
      /\ rules[2].then = Do("remove", sku)
      /\ rules[3].then = Do("cart_show", 0)
      /\ rules[4].when => sku # 0
      /\ rules[4].then = Do("add", sku)
      /\ rules[5].when => Cardinality(m.items) = 1
      /\ rules[5].then = Propose(m)
      /\ rules[6].then = Do("idle", 0)
      /\ rules[7].when => c.pending # 0 /\ Confirms(m)
      /\ rules[7].then = Do("add", c.pending)
      /\ rules[8].when => pick # 0
      /\ rules[8].then = Do("add", pick)
  BY DEF TaskRules, Rule
<1>3. /\ rules[9].then = Do("idle", 0) /\ rules[10].then = Do("cart_show", 0)
      /\ rules[11].then = Do("cart_total", 0) /\ rules[12].then = Do("checkout", 0)
      /\ rules[13].then = Do("cart_show", 0) /\ rules[14].then = Do("checkout", 0)
      /\ rules[15].then = Do("discover", 0) /\ rules[16].then = LlmIntent(m, llm)
  BY DEF TaskRules, Rule, Otherwise
<1> HIDE DEF rules
<1>4. c.preview /\ IsAffirmative(m) => Sound(m, c, Do("approve_checkout", 0))
  BY DoSound DEF Action
<1>5. sku # 0 => Sound(m, c, Do("remove", sku)) /\ Sound(m, c, Do("add", sku))
  BY NamedSound, DoSound DEF Action
<1>6. c.pending # 0 /\ Confirms(m) => Sound(m, c, Do("add", c.pending))
  <2>1. c.pending # 0 /\ Confirms(m) => c.pending \in Sku /\ AskedFor(m, c, c.pending)
    BY DEF Context, AskedFor
  <2> QED
    BY <2>1, DoSound DEF Action
<1>7. pick # 0 => Sound(m, c, Do("add", pick))
  BY PickSound, DoSound DEF Action
<1>8. \A a \in {"cart_show", "cart_total", "checkout", "discover", "idle"} :
        Sound(m, c, Do(a, 0))
  BY PlainSound DEF Action
<1> HIDE DEF sku, pick
<1>9. ASSUME NEW i \in 1 .. 16, rules[i].when
      PROVE  Sound(m, c, rules[i].then)
  <2>1. CASE i \in {1, 2, 4, 5, 7, 8}
    BY <1>2, <1>4, <1>5, <1>6, <1>7, <1>9, <2>1, ProposeSound
  <2>2. CASE i \in {3, 6, 9, 10, 11, 12, 13, 14, 15, 16}
    BY <1>2, <1>3, <1>8, <2>2, LlmSound
  <2>3. i \in {1, 2, 4, 5, 7, 8} \/ i \in {3, 6, 9, 10, 11, 12, 13, 14, 15, 16}
    OBVIOUS
  <2> QED
    BY <2>1, <2>2, <2>3
<1>10. \E i \in 1 .. 16 : rules[i].when
  BY <1>1
<1>11. Sound(m, c, FirstOf(rules))
  BY <1>1, <1>9, <1>10, ListSound
<1> QED
  BY <1>11 DEF TaskTurn, rules

\* Whatever is said, remembered or answered by the language model: a turn
\* only adds what the message names by its SKU or full name, the proposal when
\* the message has one of the confirming phrases, or what stands at a number
\* the message mentions; it acts on products there are, and goes to the
\* approval only when a preview is shown, the message has an affirmative and
\* no negation between blanks.  The phrases are looked for the way the code
\* does: "not sure" confirms a proposal, and "third one" mentions one and
\* three (route_node and agent_node of app/orchestration.py, _route_inner of
\* app/cascade_router.py).
THEOREM DecisionsAreSound ==
    ASSUME NEW m \in Message, NEW c \in Context, NEW llm \in LlmAnswer
    PROVE  Sound(m, c, Decide(m, c, llm))
  BY RouteSound, TaskSound DEF Decide

=============================================================================
