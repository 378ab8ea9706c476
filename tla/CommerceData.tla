--------------------------- MODULE CommerceData ---------------------------
(***************************************************************************)
(* The data of the commerce engine (app/commerce.py, app/quote.py): cart   *)
(* rows, the canonical listing a quote is hashed over, and the total.      *)
(*                                                                         *)
(* A SKU is a number, so that listings can be sorted; merchant SKUs come   *)
(* from the catalogue, reference SKUs are the EXT-xxx listings a search    *)
(* found.  A price is any float the client or the catalogue came with: the *)
(* model counts prices in tenths of a paisa.  What is quoted and charged   *)
(* has two decimals: amounts and limits are in paise.                      *)
(***************************************************************************)
EXTENDS Integers, Sequences, FiniteSets, SequencesExt

CONSTANTS
    Merchant,       \* SKUs of the products table
    Reference,      \* EXT-xxx listings, payable at the price they came with
    Stock,          \* units of each merchant SKU in the catalogue
    Price,          \* catalogue price of each merchant SKU
    ListingPrice,   \* prices a reference listing may be offered at
    MaxQty,         \* bound: largest quantity of one row
    MaxRows         \* bound: largest primary key of cart_items

Sku == Merchant \cup Reference
RowId == 1 .. MaxRows
Money == {Price[s] : s \in Merchant} \cup ListingPrice

ASSUME DataAssumption ==
    /\ Sku \subseteq Nat \ {0}
    /\ Merchant \cap Reference = {}
    /\ Stock \in [Merchant -> Nat]
    /\ Price \in [Merchant -> Nat]
    /\ ListingPrice \subseteq Nat \ {0}
    /\ MaxQty \in Nat
    /\ MaxRows \in Nat

(***************************************************************************)
(* The session's rows of the cart_items table, by primary key.  The table  *)
(* has no unique constraint on (session, SKU), so two rows may hold the    *)
(* same SKU.  NoRow marks a key with no row.                               *)
(***************************************************************************)
Row == [sku : Sku, qty : 1 .. MaxQty, price : Money]
NoRow == [sku |-> 0, qty |-> 0, price |-> 0]
Cart == [RowId -> Row \cup {NoRow}]
EmptyCart == [i \in RowId |-> NoRow]

\* The keys that hold a row, and the largest of them (0 in an empty table).
RowsOf(c) == {i \in RowId : c[i] # NoRow}
TopId(c) == Max({0} \cup RowsOf(c))

\* A row stands after the rows of smaller SKUs, and of its own with smaller keys.
Place(c, i) ==
    1 + Cardinality({j \in RowsOf(c) : \/ c[j].sku < c[i].sku
                                       \/ c[j].sku = c[i].sku /\ j < i})

(***************************************************************************)
(* list_cart_items: the rows in SKU order.                                 *)
(***************************************************************************)
Items(c) == [n \in 1 .. Cardinality(RowsOf(c)) |->
                c[CHOOSE i \in RowsOf(c) : Place(c, i) = n]]
Snapshot == {Items(c) : c \in Cart} \cup {<<>>}

\* _two_places: tenths of a paisa in paise, half a paisa rounded up.
TwoPlaces(price) == (price + 5) \div 10

\* compute_cart_hash: SHA-256 over the JSON of the listing with each unit price
\* rounded.  The model keeps what is hashed, that is, it takes SHA-256 to be
\* collision-free; two listings whose prices round alike have one hash.
Hash(items) == [n \in DOMAIN items |-> [items[n] EXCEPT !.price = TwoPlaces(@)]]
Hashed == {Hash(items) : items \in Snapshot}

\* cart_total: what a listing costs; only the sum is rounded.
LineSum(items) == FoldSeq(LAMBDA r, sum : r.qty * r.price + sum, 0, items)
CartTotal(items) == TwoPlaces(LineSum(items))
Amount == {CartTotal(items) : items \in Snapshot}

\* Every price is a whole number of paise.  The code does not see to it; with
\* other prices two listings of one hash may cost different amounts.
WholePaise == \A price \in Money : price % 10 = 0

(***************************************************************************)
(* One call of a cart operation: add, set_quantity, remove, add_reference. *)
(* The request schemas and max(1, ...) keep an added quantity positive.    *)
(* `unknown` is an item of an /agent/quote request that is neither in the  *)
(* catalogue nor a priced EXT-xxx listing.                                 *)
(***************************************************************************)
CallRecord == [kind : {"add", "set", "remove", "addref", "unknown"},
               sku : Sku, qty : 0 .. MaxQty, price : ListingPrice \cup {0}]
Call == {call \in CallRecord :
            /\ call.kind \in {"add", "addref"} => call.qty > 0
            /\ call.kind = "addref" => call.sku \in Reference /\ call.price > 0}
RemoveCall(s) == [kind |-> "remove", sku |-> s, qty |-> 0, price |-> 0]

\* A row as it was read, with its key; or that there was none.
NothingLoaded == [id |-> 0, row |-> NoRow]
Loaded == [id : RowId, row : Row] \cup {NothingLoaded}

\* Mutant: the query forgets item_type "reference".
LoadsMerchantOnly(c, s) ==
    LET ids == {i \in RowsOf(c) : c[i].sku = s /\ s \in Merchant}
    IN  IF ids = {} THEN {NothingLoaded}
        ELSE {[id |-> i, row |-> c[i]] : i \in ids}

\* What `.first()` may load: some row with the SKU, or nothing.  The query
\* has no ORDER BY.
Loads(c, s) ==
    LET ids == {i \in RowsOf(c) : c[i].sku = s}
    IN  IF ids = {} THEN {NothingLoaded}
        ELSE {[id |-> i, row |-> c[i]] : i \in ids}

\* Mutant: compares the units asked for, not the units the row will have.
RefusesByUnits(call, l) ==
    \/ call.kind = "add" /\ (call.sku \in Merchant => call.qty > Stock[call.sku])
    \/ call.kind = "set" /\ call.qty > 0 /\ l.id = 0
    \/ call.kind = "remove" /\ l.id = 0

\* Whether the operation answers {"error": ...} and changes nothing: a SKU to
\* add is not in the catalogue or out of stock, one to change not in the cart.
Refuses(call, l) ==
    \/ /\ call.kind = "add"
       /\ (call.sku \in Merchant => l.row.qty + call.qty > Stock[call.sku])
    \/ /\ call.kind = "set" /\ call.qty > 0
       /\ (l.id = 0 \/ (call.sku \in Merchant /\ call.qty > Stock[call.sku]))
    \/ call.kind = "remove" /\ l.id = 0

\* The row the operation wants to leave behind (NoRow: delete it).
Wanted(call, l) ==
    LET price == IF call.kind = "addref" THEN call.price
                 ELSE IF call.sku \in Merchant THEN Price[call.sku]
                 ELSE l.row.price
        qty   == IF call.kind = "set" THEN call.qty ELSE l.row.qty + call.qty
    IN  IF call.kind = "remove" \/ (call.kind = "set" /\ call.qty = 0)
        THEN NoRow
        ELSE [sku |-> call.sku, qty |-> qty, price |-> price]

(***************************************************************************)
(* The ORM flushes a changed object as an UPDATE by primary key of the     *)
(* columns that differ from what was loaded.  When the row has gone in the *)
(* meantime the UPDATE matches nothing and the commit raises; a DELETE of  *)
(* a row that has gone is a no-op.  SQLite reuses the key of a deleted     *)
(* last row, so the key may by now hold another row.                       *)
(***************************************************************************)
\* Mutant: a lost row is not noticed.
NeverVanished(c, l, r) == FALSE

Vanished(c, l, r) == l.id # 0 /\ r \notin {NoRow, l.row} /\ c[l.id] = NoRow
Flush(c, l, r) ==
    IF r = NoRow
    THEN [i \in RowId |-> IF i = l.id THEN NoRow ELSE c[i]]
    ELSE IF l.id = 0
    THEN [c EXCEPT ![TopId(c) + 1] = r]
    ELSE [c EXCEPT ![l.id] =
            [sku   |-> @.sku,
             qty   |-> IF r.qty # l.row.qty THEN r.qty ELSE @.qty,
             price |-> IF r.price # l.row.price THEN r.price ELSE @.price]]

=============================================================================
