------------------------ MODULE CommerceData_proofs ------------------------
(***************************************************************************)
(* What TLAPS proves of the cart's data, for every cart: what it lists,    *)
(* and what a listing costs.                                               *)
(***************************************************************************)
EXTENDS CommerceData, Sums_proofs, SequenceTheorems

-----------------------------------------------------------------------------
(***************************************************************************)
(* Listings.  The rows of a cart are strictly ordered by SKU and key, so   *)
(* the number of rows before it gives each row a place of its own, and as  *)
(* there are as many places as rows, every place is taken.                 *)
(***************************************************************************)
Before(c, i, j) == c[i].sku < c[j].sku \/ (c[i].sku = c[j].sku /\ i < j)
RowsBefore(c, i) == {j \in RowsOf(c) : Before(c, j, i)}

LEMMA RowsFinite ==
    ASSUME NEW c \in Cart
    PROVE  /\ IsFiniteSet(RowsOf(c)) /\ Cardinality(RowsOf(c)) \in Nat
           /\ \A i \in RowsOf(c) : c[i] \in Row /\ c[i].sku \in Nat /\ i \in Nat
<1>1. IsFiniteSet(RowId) /\ RowsOf(c) \in SUBSET RowId
  BY FS_Interval, DataAssumption DEF RowId, RowsOf
<1>2. IsFiniteSet(RowsOf(c)) /\ Cardinality(RowsOf(c)) \in Nat
  BY <1>1, FS_Subset, FS_CardinalityType
<1>3. \A i \in RowsOf(c) : c[i] \in Row
  BY DEF RowsOf, Cart
<1>4. \A i \in RowsOf(c) : c[i].sku \in Sku
  BY <1>3 DEF Row
<1>5. \A s \in Sku : s \in Nat
  BY DataAssumption
<1>6. \A i \in RowsOf(c) : i \in Nat
  <2>1. \A i \in RowId : i \in Nat
    BY DataAssumption DEF RowId
  <2> QED
    BY <1>1, <2>1
<1> QED
  BY <1>2, <1>3, <1>4, <1>5, <1>6

LEMMA PlaceOf ==
    ASSUME NEW c \in Cart, NEW i \in RowsOf(c)
    PROVE  /\ Place(c, i) = 1 + Cardinality(RowsBefore(c, i))
           /\ IsFiniteSet(RowsBefore(c, i)) /\ Cardinality(RowsBefore(c, i)) \in Nat
           /\ Place(c, i) \in 1 .. Cardinality(RowsOf(c))
<1>1. Place(c, i) = 1 + Cardinality(RowsBefore(c, i))
  BY DEF Place, RowsBefore, Before
<1>2. RowsBefore(c, i) \in SUBSET RowsOf(c) /\ i \notin RowsBefore(c, i)
  BY RowsFinite DEF RowsBefore, Before
<1>3. /\ IsFiniteSet(RowsBefore(c, i)) /\ Cardinality(RowsBefore(c, i)) \in Nat
      /\ Cardinality(RowsBefore(c, i)) <= Cardinality(RowsOf(c))
      /\ Cardinality(RowsBefore(c, i)) # Cardinality(RowsOf(c))
  BY <1>2, RowsFinite, FS_Subset, FS_CardinalityType
<1> QED
  BY <1>1, <1>3, RowsFinite

\* The rows are listed by SKU, those of one SKU by key.
LEMMA PlacesOrdered ==
    ASSUME NEW c \in Cart, NEW i \in RowsOf(c), NEW j \in RowsOf(c), Before(c, i, j)
    PROVE  Place(c, i) < Place(c, j)
<1>1. RowsBefore(c, i) \in SUBSET RowsBefore(c, j)
  BY RowsFinite DEF RowsBefore, Before
<1>2. i \in RowsBefore(c, j) /\ i \notin RowsBefore(c, i)
  BY RowsFinite DEF RowsBefore, Before
<1>3. /\ Cardinality(RowsBefore(c, i)) <= Cardinality(RowsBefore(c, j))
      /\ Cardinality(RowsBefore(c, i)) # Cardinality(RowsBefore(c, j))
  BY <1>1, <1>2, PlaceOf, FS_Subset
<1> QED
  BY <1>3, PlaceOf

LEMMA PlacesTaken ==
    ASSUME NEW c \in Cart, NEW n \in 1 .. Cardinality(RowsOf(c))
    PROVE  \E i \in RowsOf(c) : Place(c, i) = n
<1> DEFINE places == 1 .. Cardinality(RowsOf(c))
           place == [i \in RowsOf(c) |-> Place(c, i)]
<1>1. place \in [RowsOf(c) -> places]
  BY PlaceOf
<1>2. ASSUME NEW i \in RowsOf(c), NEW j \in RowsOf(c), place[i] = place[j]
      PROVE  i = j
  <2>1. i = j \/ Before(c, i, j) \/ Before(c, j, i)
    BY RowsFinite DEF Before
  <2>2. Place(c, i) = Place(c, j) /\ Place(c, i) \in Int /\ Place(c, j) \in Int
    BY <1>2, PlaceOf
  <2>3. ~Before(c, i, j) /\ ~Before(c, j, i)
    BY <2>2, PlacesOrdered
  <2> QED
    BY <2>1, <2>3
<1>3. place \in Injection(RowsOf(c), places)
  BY <1>1, <1>2 DEF Injection, IsInjective
<1>4. IsFiniteSet(places) /\ Cardinality(places) = Cardinality(RowsOf(c))
  BY RowsFinite, FS_Interval
<1> HIDE DEF place, places
<1>5. place \in Surjection(RowsOf(c), places)
  BY <1>3, <1>4, FS_Injection
<1> QED
  BY <1>5 DEF Surjection, place, places

\* A listing has the cart's rows, each once, in order.
LEMMA ItemsAre ==
    ASSUME NEW c \in Cart
    PROVE  /\ Items(c) \in Seq(Row)
           /\ Len(Items(c)) = Cardinality(RowsOf(c))
           /\ \A i \in RowsOf(c) : Place(c, i) \in DOMAIN Items(c) /\ Items(c)[Place(c, i)] = c[i]
           /\ \A n \in DOMAIN Items(c) : \E i \in RowsOf(c) : n = Place(c, i)
<1> DEFINE N == Cardinality(RowsOf(c))
           row(n) == CHOOSE i \in RowsOf(c) : Place(c, i) = n
<1>1. \A n \in 1 .. N : row(n) \in RowsOf(c) /\ Place(c, row(n)) = n
  BY PlacesTaken
<1>2. \A n \in 1 .. N : c[row(n)] \in Row
  BY <1>1, RowsFinite
<1>3. N \in Nat /\ Items(c) = [n \in 1 .. N |-> c[row(n)]]
  BY RowsFinite DEF Items
<1> HIDE DEF N, row
<1>4. Items(c) \in Seq(Row) /\ Len(Items(c)) = N
  <2> DEFINE items == Items(c)
  <2>1. items \in [1 .. N -> Row]
    BY <1>2, <1>3
  <2> HIDE DEF items
  <2>2. N \in Nat /\ DOMAIN items = 1 .. N
    BY <1>3, <2>1
  <2>3. items \in Seq(Row)
    BY <2>1, <2>2, SeqDef
  <2>4. Len(items) = N
    BY <2>2, <2>3, LenProperties
  <2> QED
    BY <2>3, <2>4 DEF items
<1> USE DEF N, row
<1>5. DOMAIN Items(c) = 1 .. N /\ \A n \in 1 .. N : Items(c)[n] = c[row(n)]
  BY <1>3
<1>6. ASSUME NEW i \in RowsOf(c)
      PROVE  Place(c, i) \in 1 .. N /\ row(Place(c, i)) = i
  <2> DEFINE j == row(Place(c, i))
  <2>1. Place(c, i) \in 1 .. N
    BY PlaceOf
  <2>2. j \in RowsOf(c) /\ Place(c, j) = Place(c, i)
    BY <1>1, <2>1
  <2> HIDE DEF j
  <2>3. j = i \/ Before(c, i, j) \/ Before(c, j, i)
    BY <2>2, RowsFinite DEF Before
  <2>4. ~Before(c, i, j) /\ ~Before(c, j, i)
    BY <2>1, <2>2, PlacesOrdered
  <2> QED
    BY <2>1, <2>3, <2>4 DEF j
<1> QED
  BY <1>1, <1>4, <1>5, <1>6

-----------------------------------------------------------------------------
(* What a listing costs. *)

Costs(items) == [n \in DOMAIN items |-> items[n].qty * items[n].price]

LEMMA SumIsTotal ==
    ASSUME NEW items, IsFiniteSet(DOMAIN items)
    PROVE  LineSum(items) = Total(Costs(items), DOMAIN items)
<1> DEFINE S == DOMAIN items
           f == Costs(items)
           iter == CHOOSE g : g = [s \in SUBSET S |-> IF s = {} THEN 0
                                ELSE LET x == CHOOSE x \in s : TRUE
                                     IN  items[x].qty * items[x].price + g[s \ {x}]]
<1>1. PICK g : Sums(g, f, S)
  BY SumsExist
<1>2. \A s \in SUBSET S : s # {} => f[Chosen(s)] = items[Chosen(s)].qty * items[Chosen(s)].price
  BY DEF Costs, Chosen
<1>3. g = [s \in SUBSET S |-> IF s = {} THEN 0
             ELSE LET x == CHOOSE x \in s : TRUE
                  IN  items[x].qty * items[x].price + g[s \ {x}]]
  BY <1>1, <1>2 DEF Sums, Chosen
<1>4. iter = [s \in SUBSET S |-> IF s = {} THEN 0
             ELSE LET x == CHOOSE x \in s : TRUE
                  IN  items[x].qty * items[x].price + iter[s \ {x}]]
  BY <1>3
<1>5. LineSum(items) = iter[S]
  BY DEF LineSum, FoldSeq, FoldFunction, FoldFunctionOnSet, MapThenFoldSet
<1> HIDE DEF iter
<1>6. Sums(iter, f, S)
  BY <1>2, <1>4 DEF Sums, Chosen
<1>7. PICK h : Sums(h, f, S) /\ Total(f, S) = h[S]
  BY TotalIsSum
<1>8. \A s \in SUBSET (S \cap S) : (\A x \in s : f[x] = f[x]) => iter[s] = h[s]
  <2> HIDE DEF f, S
  <2> QED
    BY <1>6, <1>7, SumsAgree DEF S
<1> QED
  BY <1>5, <1>7, <1>8

\* Rounding a price gives a natural number of paise; a whole number of paise
\* is what it says.
LEMMA Rounded ==
    ASSUME NEW price \in Nat
    PROVE  TwoPlaces(price) \in Nat /\ (price % 10 = 0 => 10 * TwoPlaces(price) = price)
  BY DEF TwoPlaces

LEMMA PricesNatural == \A p \in Money : p \in Nat
<1>1. \A p \in ListingPrice : p \in Nat
  BY DataAssumption
<1>2. \A m \in Merchant : Price[m] \in Nat
  BY DataAssumption
<1> QED
  BY <1>1, <1>2 DEF Money

\* A listing costs a natural number of paise.
LEMMA ListingCosts ==
    ASSUME NEW items \in Seq(Row)
    PROVE  LineSum(items) \in Nat /\ CartTotal(items) \in Nat
<1>1. IsFiniteSet(DOMAIN items)
  BY FS_Interval, LenProperties
<1>2. ASSUME NEW n \in DOMAIN items
      PROVE  Costs(items)[n] \in Nat
  <2>1. items[n] \in Row
    BY LenProperties
  <2>2. items[n].qty \in 1 .. MaxQty /\ items[n].price \in Money
    BY <2>1 DEF Row
  <2>3. items[n].qty \in Nat /\ items[n].price \in Nat
    BY <2>2, PricesNatural, DataAssumption
  <2> QED
    BY <2>3 DEF Costs
<1>3. LineSum(items) \in Nat
  BY <1>1, <1>2, SumIsTotal, TotalNatural
<1> QED
  BY <1>3, Rounded DEF CartTotal

LEMMA SnapshotsAre == Snapshot \subseteq Seq(Row) /\ Amount \subseteq Nat
<1>1. Snapshot \subseteq Seq(Row)
  BY ItemsAre, EmptySeq DEF Snapshot
<1> QED
  BY <1>1, ListingCosts DEF Amount

-----------------------------------------------------------------------------
(* What a hash tells. *)

\* When every price is a whole number of paise, listings of one hash are one.
LEMMA HashTells ==
    ASSUME WholePaise, NEW a \in Seq(Row), NEW b \in Seq(Row), Hash(a) = Hash(b)
    PROVE  a = b
<1>1. /\ DOMAIN a = DOMAIN Hash(a) /\ DOMAIN b = DOMAIN Hash(b)
      /\ \A n \in DOMAIN a : Hash(a)[n] = [a[n] EXCEPT !.price = TwoPlaces(@)]
      /\ \A n \in DOMAIN b : Hash(b)[n] = [b[n] EXCEPT !.price = TwoPlaces(@)]
  BY DEF Hash
<1>2. DOMAIN a = DOMAIN b
  BY <1>1
<1>3. ASSUME NEW n \in DOMAIN a
      PROVE  a[n] = b[n]
  <2>1. PICK r, s : r = a[n] /\ s = b[n]
    OBVIOUS
  <2>2. r \in Row /\ s \in Row
    BY <1>2, <2>1, LenProperties
  <2>3. [r EXCEPT !.price = TwoPlaces(@)] = [s EXCEPT !.price = TwoPlaces(@)]
    BY <1>1, <1>2, <2>1
  <2>4. r.sku = s.sku /\ r.qty = s.qty /\ TwoPlaces(r.price) = TwoPlaces(s.price)
    BY <2>2, <2>3 DEF Row
  <2>5. r.price \in Money /\ s.price \in Money
    BY <2>2 DEF Row
  <2>6. r.price = 10 * TwoPlaces(r.price) /\ s.price = 10 * TwoPlaces(s.price)
    BY <2>5, PricesNatural, Rounded DEF WholePaise
  <2>7. r.price = s.price
    BY <2>4, <2>6
  <2> QED
    BY <2>1, <2>2, <2>4, <2>7 DEF Row
<1> QED
  BY <1>2, <1>3, SeqEqual, LenProperties

=============================================================================
