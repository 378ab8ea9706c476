---------------------------- MODULE Sums_proofs ----------------------------
(***************************************************************************)
(* Sums over finite sets.  The community modules fold a set by a function  *)
(* that recurses over its subsets, each time on the element CHOOSE takes.  *)
(* What such a function computes for every set is shown by the set of      *)
(* least size for which it would fail.                                     *)
(***************************************************************************)
EXTENDS Integers, FiniteSets, FiniteSetsExt, FiniteSetTheorems,
        WellFoundedInduction, TLAPS

\* A set of naturals that is not empty has a least member.
LEMMA MinOfNaturals ==
    ASSUME NEW S \in SUBSET Nat, S # {}
    PROVE  Min(S) \in S /\ \A x \in S : Min(S) <= x
<1> DEFINE R == {ss \in Nat \X Nat : ss[1] < ss[2]}
<1>1. IsWellFoundedOn(R, Nat)
  BY NatLessThanWellFounded DEF OpToRel
<1> HIDE DEF R
<1>2. PICK x \in S : \A y \in S : ~(<<y, x>> \in R)
  BY <1>1, WFMin
<1>3. ASSUME NEW y \in S
      PROVE  x <= y
  <2>1. <<y, x>> \in R <=> y < x
    BY DEF R
  <2> QED
    BY <1>2, <2>1
<1> QED
  BY <1>3 DEF Min

\* A set of finite sets that is not empty has a member of least size.
LEMMA SmallestSet ==
    ASSUME NEW SS, SS # {}, \A s \in SS : IsFiniteSet(s)
    PROVE  \E s \in SS : \A t \in SS : Cardinality(s) <= Cardinality(t)
<1> DEFINE sizes == {Cardinality(s) : s \in SS}
<1>1. sizes \in SUBSET Nat /\ sizes # {}
  BY FS_CardinalityType
<1>2. Min(sizes) \in sizes /\ \A n \in sizes : Min(sizes) <= n
  BY <1>1, MinOfNaturals
<1>3. PICK s \in SS : Cardinality(s) = Min(sizes)
  BY <1>2
<1> QED
  BY <1>2, <1>3

-----------------------------------------------------------------------------
(* The function that sums f over the subsets of S. *)

Chosen(s) == CHOOSE x \in s : TRUE

Sums(g, f, S) ==
    g = [s \in SUBSET S |-> IF s = {} THEN 0
                            ELSE f[Chosen(s)] + g[s \ {Chosen(s)}]]

\* What has been said of g on the subsets of at most n elements.
SumsUpTo(g, f, S, n) ==
    /\ DOMAIN g = SUBSET S
    /\ \A s \in SUBSET S : Cardinality(s) <= n =>
         g[s] = IF s = {} THEN 0 ELSE f[Chosen(s)] + g[s \ {Chosen(s)}]

LEMMA SmallerSet ==
    ASSUME NEW S, IsFiniteSet(S), NEW s \in SUBSET S, s # {}
    PROVE  /\ Chosen(s) \in s /\ s \ {Chosen(s)} \in SUBSET S
           /\ IsFiniteSet(s) /\ Cardinality(s) \in Nat
           /\ Cardinality(s \ {Chosen(s)}) = Cardinality(s) - 1
<1>1. IsFiniteSet(s) /\ Cardinality(s) \in Nat
  BY FS_Subset, FS_CardinalityType
<1>2. Chosen(s) \in s
  BY DEF Chosen
<1> QED
  BY <1>1, <1>2, FS_RemoveElement

LEMMA SumsGoOn ==
    ASSUME NEW S, IsFiniteSet(S), NEW f, NEW n \in Nat, NEW g, SumsUpTo(g, f, S, n)
    PROVE  \E h : SumsUpTo(h, f, S, n + 1)
<1> DEFINE h == [s \in SUBSET S |-> IF Cardinality(s) <= n THEN g[s]
                                    ELSE f[Chosen(s)] + g[s \ {Chosen(s)}]]
<1>1. \A s \in SUBSET S : Cardinality(s) <= n => h[s] = g[s]
  OBVIOUS
<1>2. ASSUME NEW s \in SUBSET S, Cardinality(s) <= n + 1
      PROVE  h[s] = IF s = {} THEN 0 ELSE f[Chosen(s)] + h[s \ {Chosen(s)}]
  <2>1. CASE s = {}
    <3>1. Cardinality(s) = 0
      BY <2>1, FS_EmptySet
    <3>2. g[s] = 0
      BY <2>1, <3>1 DEF SumsUpTo
    <3> QED
      BY <1>1, <2>1, <3>1, <3>2
  <2>2. CASE s # {}
    <3> DEFINE t == s \ {Chosen(s)}
    <3>1. t \in SUBSET S /\ Cardinality(t) <= n /\ Cardinality(s) \in Nat
      BY <1>2, <2>2, SmallerSet
    <3>2. h[t] = g[t]
      BY <1>1, <3>1
    <3>3. CASE Cardinality(s) <= n
      <4>1. g[s] = f[Chosen(s)] + g[t]
        BY <2>2, <3>3 DEF SumsUpTo
      <4> QED
        BY <1>1, <2>2, <3>2, <3>3, <4>1
    <3>4. CASE ~(Cardinality(s) <= n)
      <4>1. h[s] = f[Chosen(s)] + g[t]
        BY <3>4
      <4> QED
        BY <2>2, <3>2, <4>1
    <3> QED
      BY <3>3, <3>4
  <2> QED
    BY <2>1, <2>2
<1>3. DOMAIN h = SUBSET S
  OBVIOUS
<1> HIDE DEF h
<1>4. SumsUpTo(h, f, S, n + 1)
  BY <1>2, <1>3 DEF SumsUpTo
<1> QED
  BY <1>4

LEMMA SumsReach ==
    ASSUME NEW S, IsFiniteSet(S), NEW f, NEW m \in Nat
    PROVE  \E g : SumsUpTo(g, f, S, m)
<1> DEFINE fails == {n \in Nat : ~\E g : SumsUpTo(g, f, S, n)}
<1> SUFFICES ASSUME fails # {} PROVE FALSE
  OBVIOUS
<1>1. PICK n \in fails : \A k \in fails : n <= k
  BY MinOfNaturals
<1>2. n \in Nat /\ ~\E g : SumsUpTo(g, f, S, n)
  BY <1>1
<1>3. n # 0
  <2> DEFINE g == [s \in SUBSET S |-> 0]
  <2>1. ASSUME NEW s \in SUBSET S, Cardinality(s) <= 0
        PROVE  s = {}
    <3>1. IsFiniteSet(s) /\ Cardinality(s) \in Nat
      BY FS_Subset, FS_CardinalityType
    <3> QED
      BY <2>1, <3>1, FS_EmptySet
  <2>2. SumsUpTo(g, f, S, 0)
    BY <2>1 DEF SumsUpTo
  <2> QED
    BY <1>2, <2>2
<1>4. n - 1 \in Nat /\ n - 1 \notin fails
  <2>1. n - 1 \in Nat /\ ~(n <= n - 1)
    BY <1>2, <1>3
  <2> HIDE DEF fails
  <2> QED
    BY <1>1, <2>1
<1>5. PICK g : SumsUpTo(g, f, S, n - 1)
  BY <1>4
<1>6. \E h : SumsUpTo(h, f, S, (n - 1) + 1)
  BY <1>4, <1>5, SumsGoOn
<1>7. (n - 1) + 1 = n
  BY <1>2
<1> QED
  BY <1>2, <1>6, <1>7

\* There is a function that sums f.
LEMMA SumsExist ==
    ASSUME NEW S, IsFiniteSet(S), NEW f
    PROVE  \E g : Sums(g, f, S)
<1>1. Cardinality(S) \in Nat
  BY FS_CardinalityType
<1>2. PICK g : SumsUpTo(g, f, S, Cardinality(S))
  BY <1>1, SumsReach
<1>3. \A s \in SUBSET S : Cardinality(s) <= Cardinality(S)
  BY FS_Subset
<1> DEFINE h == [s \in SUBSET S |-> g[s]]
<1>4. \A s \in SUBSET S : g[s] = IF s = {} THEN 0 ELSE f[Chosen(s)] + g[s \ {Chosen(s)}]
  BY <1>2, <1>3 DEF SumsUpTo
<1>5. \A s \in SUBSET S : h[s] = IF s = {} THEN 0 ELSE f[Chosen(s)] + h[s \ {Chosen(s)}]
  BY <1>4
<1>6. Sums(h, f, S)
  BY <1>5 DEF Sums
<1> QED
  BY <1>6

-----------------------------------------------------------------------------
(* What sums are. *)

LEMMA SumsOf ==
    ASSUME NEW S, NEW f, NEW g, Sums(g, f, S)
    PROVE  /\ g[{}] = 0
           /\ \A s \in SUBSET S : s # {} => g[s] = f[Chosen(s)] + g[s \ {Chosen(s)}]
<1>1. \A s \in SUBSET S : g[s] = IF s = {} THEN 0
                                 ELSE f[Chosen(s)] + g[s \ {Chosen(s)}]
  BY DEF Sums
<1> QED
  BY <1>1

\* They depend on the summands only.
LEMMA SumsAgree ==
    ASSUME NEW S, IsFiniteSet(S), NEW f, NEW g, Sums(g, f, S),
           NEW T, IsFiniteSet(T), NEW e, NEW h, Sums(h, e, T)
    PROVE  \A s \in SUBSET (S \cap T) : (\A x \in s : f[x] = e[x]) => g[s] = h[s]
<1> DEFINE differ == {s \in SUBSET (S \cap T) : (\A x \in s : f[x] = e[x]) /\ g[s] # h[s]}
<1> SUFFICES ASSUME differ # {} PROVE FALSE
  OBVIOUS
<1>1. \A s \in differ : IsFiniteSet(s)
  BY FS_Subset
<1>2. PICK s \in differ : \A t \in differ : Cardinality(s) <= Cardinality(t)
  BY <1>1, SmallestSet
<1>3. s # {}
  BY <1>2, SumsOf
<1> DEFINE t == s \ {Chosen(s)}
<1>4. s \in SUBSET S /\ s \in SUBSET T
  OBVIOUS
<1>5. /\ Chosen(s) \in s /\ Cardinality(s) \in Nat
      /\ Cardinality(t) = Cardinality(s) - 1
  BY <1>3, <1>4, SmallerSet
<1>6. t \notin differ
  <2>1. ~(Cardinality(s) <= Cardinality(t))
    BY <1>5
  <2> HIDE DEF differ
  <2> QED
    BY <1>2, <2>1
<1>7. g[t] = h[t] /\ f[Chosen(s)] = e[Chosen(s)]
  BY <1>5, <1>6
<1>8. /\ g[s] = f[Chosen(s)] + g[t]
      /\ h[s] = e[Chosen(s)] + h[t]
  BY <1>3, <1>4, SumsOf
<1>9. g[s] # h[s]
  OBVIOUS
<1> QED
  BY <1>7, <1>8, <1>9

\* Naturals sum up to a natural.
LEMMA SumsNatural ==
    ASSUME NEW S, IsFiniteSet(S), NEW f, NEW g, Sums(g, f, S),
           \A x \in S : f[x] \in Nat
    PROVE  \A s \in SUBSET S : g[s] \in Nat
<1> DEFINE odd == {s \in SUBSET S : g[s] \notin Nat}
<1> SUFFICES ASSUME odd # {} PROVE FALSE
  OBVIOUS
<1>1. \A s \in odd : IsFiniteSet(s)
  BY FS_Subset
<1>2. PICK s \in odd : \A t \in odd : Cardinality(s) <= Cardinality(t)
  BY <1>1, SmallestSet
<1>3. s # {}
  BY <1>2, SumsOf
<1> DEFINE t == s \ {Chosen(s)}
<1>4. /\ Chosen(s) \in s /\ Cardinality(s) \in Nat /\ t \in SUBSET S
      /\ Cardinality(t) = Cardinality(s) - 1
  BY <1>3, SmallerSet
<1>5. t \notin odd
  <2>1. ~(Cardinality(s) <= Cardinality(t))
    BY <1>4
  <2> HIDE DEF odd
  <2> QED
    BY <1>2, <2>1
<1>6. g[t] \in Nat /\ f[Chosen(s)] \in Nat
  BY <1>4, <1>5
<1>7. g[s] = f[Chosen(s)] + g[t]
  <2>1. s \in SUBSET S
    OBVIOUS
  <2>2. \A r \in SUBSET S : r # {} => g[r] = f[Chosen(r)] + g[r \ {Chosen(r)}]
    BY SumsOf
  <2> QED
    BY <1>3, <2>1, <2>2
<1>8. g[s] \notin Nat
  OBVIOUS
<1> QED
  BY <1>6, <1>7, <1>8

\* Any element may be taken out first.
LEMMA SumsTakeOut ==
    ASSUME NEW S, IsFiniteSet(S), NEW f, NEW g, Sums(g, f, S),
           \A x \in S : f[x] \in Nat
    PROVE  \A s \in SUBSET S : \A x \in s : g[s] = f[x] + g[s \ {x}]
<1> DEFINE odd == {s \in SUBSET S : \E x \in s : g[s] # f[x] + g[s \ {x}]}
<1> SUFFICES ASSUME odd # {} PROVE FALSE
  OBVIOUS
<1>1. \A s \in odd : IsFiniteSet(s)
  BY FS_Subset
<1>2. PICK s \in odd : \A t \in odd : Cardinality(s) <= Cardinality(t)
  BY <1>1, SmallestSet
<1>3. PICK x \in s : g[s] # f[x] + g[s \ {x}]
  BY <1>2
<1> DEFINE y == Chosen(s)
           t == s \ {y}
           u == s \ {x}
           v == s \ {x, y}
<1>4. /\ y \in s /\ Cardinality(s) \in Nat /\ t \in SUBSET S
      /\ Cardinality(t) = Cardinality(s) - 1
  BY <1>3, SmallerSet
<1>5. g[s] = f[y] + g[t]
  BY <1>3, SumsOf
<1>6. x # y
  BY <1>3, <1>5
<1>7. /\ u \in SUBSET S /\ Cardinality(u) = Cardinality(s) - 1
  <2>1. IsFiniteSet(s)
    BY FS_Subset
  <2> QED
    BY <2>1, FS_RemoveElement
<1>8. t \notin odd /\ u \notin odd
  <2>1. ~(Cardinality(s) <= Cardinality(t)) /\ ~(Cardinality(s) <= Cardinality(u))
    BY <1>4, <1>7
  <2> HIDE DEF odd
  <2> QED
    BY <1>2, <2>1
<1>9. g[t] = f[x] + g[t \ {x}]
  BY <1>4, <1>6, <1>8
<1>10. g[u] = f[y] + g[u \ {y}]
  BY <1>4, <1>6, <1>7, <1>8
<1>11. t \ {x} = v /\ u \ {y} = v
  OBVIOUS
<1>12. f[x] \in Nat /\ f[y] \in Nat /\ g[v] \in Nat
  <2>1. v \in SUBSET S
    OBVIOUS
  <2> QED
    BY <1>4, <2>1, SumsNatural
<1>13. g[s] = f[y] + (f[x] + g[v]) /\ g[u] = f[y] + g[v]
  BY <1>5, <1>9, <1>10, <1>11
<1>14. g[s] = f[x] + g[u]
  <2> HIDE DEF y, u, v
  <2> QED
    BY <1>12, <1>13
<1> QED
  BY <1>3, <1>14

\* Fewer elements sum up to no more.
LEMMA SumsMonotone ==
    ASSUME NEW S, IsFiniteSet(S), NEW f, NEW g, Sums(g, f, S),
           \A x \in S : f[x] \in Nat
    PROVE  \A s \in SUBSET S : \A t \in SUBSET s : g[t] <= g[s]
<1> DEFINE odd == {s \in SUBSET S : \E t \in SUBSET s : ~(g[t] <= g[s])}
<1> SUFFICES ASSUME odd # {} PROVE FALSE
  OBVIOUS
<1>1. \A s \in odd : IsFiniteSet(s)
  BY FS_Subset
<1>2. PICK s \in odd : \A t \in odd : Cardinality(s) <= Cardinality(t)
  BY <1>1, SmallestSet
<1>3. PICK t \in SUBSET s : ~(g[t] <= g[s])
  BY <1>2
<1>4. g[s] \in Nat /\ g[t] \in Nat
  BY SumsNatural
<1>5. PICK x \in s : x \notin t
  BY <1>3, <1>4
<1> DEFINE u == s \ {x}
<1>6. u \in SUBSET S /\ Cardinality(u) = Cardinality(s) - 1 /\ Cardinality(s) \in Nat
  <2>1. IsFiniteSet(s)
    BY FS_Subset
  <2> QED
    BY <2>1, FS_RemoveElement, FS_CardinalityType
<1>7. u \notin odd
  <2>1. ~(Cardinality(s) <= Cardinality(u))
    BY <1>6
  <2> HIDE DEF odd
  <2> QED
    BY <1>2, <2>1
<1>8. g[t] <= g[u]
  BY <1>5, <1>6, <1>7
<1>9. g[s] = f[x] + g[u] /\ f[x] \in Nat /\ g[u] \in Nat
  BY <1>6, SumsTakeOut, SumsNatural
<1> QED
  BY <1>3, <1>4, <1>8, <1>9

-----------------------------------------------------------------------------
(* The sums the models take. *)

Total(f, S) == MapThenSumSet(LAMBDA x : f[x], S)

LEMMA TotalIsSum ==
    ASSUME NEW S, IsFiniteSet(S), NEW f
    PROVE  \E g : Sums(g, f, S) /\ Total(f, S) = g[S]
<1> DEFINE iter == CHOOSE g : g = [s \in SUBSET S |-> IF s = {} THEN 0
                                 ELSE LET x == CHOOSE x \in s : TRUE IN f[x] + g[s \ {x}]]
<1>1. PICK g : Sums(g, f, S)
  BY SumsExist
<1>2. g = [s \in SUBSET S |-> IF s = {} THEN 0
             ELSE LET x == CHOOSE x \in s : TRUE IN f[x] + g[s \ {x}]]
  BY <1>1 DEF Sums, Chosen
<1>3. iter = [s \in SUBSET S |-> IF s = {} THEN 0
             ELSE LET x == CHOOSE x \in s : TRUE IN f[x] + iter[s \ {x}]]
  BY <1>2
<1>4. Total(f, S) = iter[S]
  BY DEF Total, MapThenSumSet, MapThenFoldSet
<1> HIDE DEF iter
<1>5. Sums(iter, f, S)
  BY <1>3 DEF Sums, Chosen
<1> QED
  BY <1>4, <1>5

LEMMA TotalNatural ==
    ASSUME NEW S, IsFiniteSet(S), NEW f, \A x \in S : f[x] \in Nat
    PROVE  Total(f, S) \in Nat
<1>1. PICK g : Sums(g, f, S) /\ Total(f, S) = g[S]
  BY TotalIsSum
<1>2. \A s \in SUBSET S : g[s] \in Nat
  BY <1>1, SumsNatural
<1> QED
  BY <1>1, <1>2

LEMMA TotalAgrees ==
    ASSUME NEW S, IsFiniteSet(S), NEW f, NEW e, \A x \in S : f[x] = e[x]
    PROVE  Total(f, S) = Total(e, S)
<1>1. PICK g : Sums(g, f, S) /\ Total(f, S) = g[S]
  BY TotalIsSum
<1>2. PICK h : Sums(h, e, S) /\ Total(e, S) = h[S]
  BY TotalIsSum
<1>3. \A s \in SUBSET (S \cap S) : (\A x \in s : f[x] = e[x]) => g[s] = h[s]
  BY <1>1, <1>2, SumsAgree
<1> QED
  BY <1>1, <1>2, <1>3

LEMMA TotalMonotone ==
    ASSUME NEW S, IsFiniteSet(S), NEW T \in SUBSET S, NEW f, \A x \in S : f[x] \in Nat
    PROVE  Total(f, T) <= Total(f, S)
<1>1. IsFiniteSet(T)
  BY FS_Subset
<1>2. PICK g : Sums(g, f, S) /\ Total(f, S) = g[S]
  BY TotalIsSum
<1>3. PICK h : Sums(h, f, T) /\ Total(f, T) = h[T]
  BY <1>1, TotalIsSum
<1>4. \A s \in SUBSET (S \cap T) : (\A x \in s : f[x] = f[x]) => g[s] = h[s]
  BY <1>1, <1>2, <1>3, SumsAgree
<1>5. \A s \in SUBSET S : \A t \in SUBSET s : g[t] <= g[s]
  BY <1>2, SumsMonotone
<1>6. g[T] = h[T] /\ g[T] <= g[S]
  BY <1>4, <1>5
<1> QED
  BY <1>2, <1>3, <1>6

LEMMA TotalAdds ==
    ASSUME NEW S, IsFiniteSet(S), NEW x, x \notin S, NEW f,
           \A y \in S \cup {x} : f[y] \in Nat
    PROVE  Total(f, S \cup {x}) = f[x] + Total(f, S)
<1> DEFINE T == S \cup {x}
<1>1. IsFiniteSet(T) /\ T \ {x} = S
  BY FS_AddElement
<1>2. PICK g : Sums(g, f, S) /\ Total(f, S) = g[S]
  BY TotalIsSum
<1>3. PICK h : Sums(h, f, T) /\ Total(f, T) = h[T]
  BY <1>1, TotalIsSum
<1>4. \A s \in SUBSET (S \cap T) : (\A y \in s : f[y] = f[y]) => g[s] = h[s]
  BY <1>1, <1>2, <1>3, SumsAgree
<1>5. /\ IsFiniteSet(T) /\ Sums(h, f, T) /\ T \in SUBSET T /\ x \in T
      /\ \A y \in T : f[y] \in Nat
  BY <1>1, <1>3
<1>6. g[S] = h[S]
  BY <1>4
<1>7. h[T] = f[x] + h[T \ {x}]
  <2> HIDE DEF T
  <2> QED
    BY <1>5, SumsTakeOut
<1> QED
  BY <1>1, <1>2, <1>3, <1>6, <1>7

LEMMA TotalOfNone ==
    ASSUME NEW f
    PROVE  Total(f, {}) = 0
<1>1. IsFiniteSet({})
  BY FS_EmptySet
<1>2. PICK g : Sums(g, f, {}) /\ Total(f, {}) = g[{}]
  BY <1>1, TotalIsSum
<1> QED
  BY <1>2, SumsOf

=============================================================================
