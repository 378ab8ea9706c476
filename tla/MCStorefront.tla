---------------------------- MODULE MCStorefront ----------------------------
(***************************************************************************)
(* Values of the constants of Storefront for model checking: product 1 is  *)
(* a shoe, product 2 a cheap complement of it.                             *)
(***************************************************************************)
EXTENDS Storefront

CONSTANTS w1

MCWorker == {w1}
MCProduct == {1, 2}
MCCatalogues ==
    <<<<>>,
      <<[price |-> 10, stock |-> 5], [price |-> 2, stock |-> 1]>>,
      <<[price |-> 12, stock |-> 0], [price |-> 2, stock |-> 0]>>>>
MCNamed == [s \in MCProduct |-> IF s = 1 THEN {"shoe"} ELSE {"polish"}]
MCComplements == [s \in MCProduct |-> IF s = 1 THEN <<2>> ELSE <<>>]

AnyShoes == [NoQuery EXCEPT !.category = "footwear", !.items = {"shoe"}]
CheapShoes == [AnyShoes EXCEPT !.budget = 9]
Boots == [AnyShoes EXCEPT !.items = {"boot"}]
Light == [NoQuery EXCEPT !.features = {"light"}]
Polish == [NoQuery EXCEPT !.category = "polish"]
Typed(q) == [q EXCEPT !.type = q.category]

\* "something light", "shoes under 9", and "buy shoes under 9", which is no
\* search to the router: the pipeline's reading is the model's, that misses the
\* budget.
MCReadings ==
    {[cascade |-> Light, pipeline |-> Light],
     [cascade |-> Typed(CheapShoes), pipeline |-> CheapShoes],
     [cascade |-> Typed(CheapShoes), pipeline |-> AnyShoes]}
MCAgentQuery == {Typed(Boots)}
MCQuery ==
    MCAgentQuery \cup {Polish} \cup UNION {{r.cascade, r.pipeline} : r \in MCReadings}

MCFit == [sq \in MCProduct \X MCQuery |->
    IF sq[1] = 2 THEN 100 ELSE IF sq[2].type = "" THEN 500 ELSE 550]
MCSimilarity ==
    [qr \in MCQuery \X MCQuery |->
        IF SameWords(qr[1], qr[2]) THEN 100
        ELSE IF "" \in {qr[1].category, qr[2].category} \/ Polish \in {qr[1], qr[2]} THEN 10
        ELSE IF qr[1].items = qr[2].items THEN 85 ELSE 70]

Found(key, price, rating) ==
    [key |-> key, price |-> price, rating |-> rating, availability |-> "in_stock",
     covers |-> {"light"}, relevance |-> 300, found |-> 0]
Runner == Found("runner", 8, 4)
Pricey == [Found("runner", 11, 5) EXCEPT !.relevance = 400]
Walker == Found("walker", 9, 4)
Trainer == [Found("trainer", 6, 2) EXCEPT !.availability = "unknown"]
Sandal == Found("sandal", 0, 3)          \* its price could not be read
Clog == [Found("clog", 7, 4) EXCEPT !.covers = {}]
SoldOut == [Found("sold", 3, 5) EXCEPT !.availability = "out_of_stock"]
MCMarketAnswers ==
    [q \in MCQuery |-> IF q = Polish THEN {<<>>, <<Found("polish", 1, 3)>>}
                       ELSE {<<SoldOut>>,
                             <<Runner, Sandal, Runner, Pricey, SoldOut, Trainer, Walker,
                               Clog>>}]
MCMarketComplement == [s \in MCProduct |-> IF s = 1 THEN <<Polish>> ELSE <<>>]
MCCarts == {{}, {2}}

=============================================================================
