------------------------------- MODULE MCChat -------------------------------
(***************************************************************************)
(* Values of the constants of ChatPipeline for model checking.  SKU 1 is   *)
(* in the catalogue, SKU 9 is EXT-001 and SKU 8 is EXT-002.                *)
(***************************************************************************)
EXTENDS ChatPipeline

CONSTANTS w1

MCWorker == {w1}
MCMerchant == {1}
MCReference == {9}
MCStock == [s \in MCMerchant |-> 2]
MCPrice == [s \in MCMerchant |-> 30]
MCListingPrice == {20, 30}
MCListingSku == <<9>>
HumanOnly == {"human"}
AgentOnly == {"buyer_agent"}
BothActors == {"human", "buyer_agent"}
TransactionLimits == [a \in Actor |-> IF a = "human" THEN 5 ELSE 3]
SessionLimits == [a \in Actor |-> IF a = "human" THEN 7 ELSE 5]

AddOne == [kind |-> "add", sku |-> 1, qty |-> 1, price |-> 0]
AgentCarts == {<<AddOne>>}
OtherCarts == {<<AddOne>>, <<[AddOne EXCEPT !.kind = "addref", !.sku = 9, !.price = 20]>>}
NoCalls == {}
NoCarts == {}

Says(phrases, n) == [NoMessage EXCEPT !.says = phrases, !.words = n, !.tokens = n]

AddSku == [Says({"add"}, 2) EXCEPT !.token = 1]             \* add APP-001
GetMug == [Says({"get"}, 4) EXCEPT !.items = {1}, !.within = {"ok"}]  \* get a broken mug
Find == [Says({}, 1) EXCEPT !.finds = {"category"}, !.classified = {"category"}] \* shoes
Pick == [Says({}, 1) EXCEPT !.digit = 1]                    \* 1
ThirdOne == Says({"third", "one"}, 2)                       \* third one
CheckOut == Says({"checkout"}, 1)
Yes == Says({"yes"}, 1)
NotSure == [Says({"not", "sure"}, 2) EXCEPT !.within = {"no"}]
DoItLater == [Says({"do it"}, 4) EXCEPT !.within = {"no"}]  \* no, do it later
TakeOff == Says({"everything"}, 6)       \* kindly take everything off my list

AllMessages ==
    [a \in Actor |-> IF a = "human"
                     THEN {AddSku, GetMug, ThirdOne, CheckOut, Yes, NotSure, DoItLater,
                           TakeOff}
                     ELSE {AddSku}]
ShoppingMessages == [a \in Actor |-> {Find, Pick}]
PayingMessages == [a \in Actor |-> {AddSku, CheckOut, Yes}]

NoAnswer == [requirements |-> FALSE, intent |-> "other", product |-> FALSE, items |-> {}]
SomeAnswers ==
    {NoAnswer, [NoAnswer EXCEPT !.requirements = TRUE],
     [NoAnswer EXCEPT !.intent = "remove", !.items = {1}]}
        \cup {[NoAnswer EXCEPT !.intent = i] : i \in {"clear_cart", "show_cart"}}
SilentModel == {NoAnswer}

\* A captured product that is too dear to suggest; a market listing.
TooDear == [suggestions |-> <<>>, candidates |-> <<1>>]
Market(price) == [suggestions |-> <<[sku |-> 9, price |-> price]>>, candidates |-> <<>>]
CapturedOnly == {TooDear}
MarketFindings == {Market(20), Market(30)}

=============================================================================
