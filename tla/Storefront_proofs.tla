-------------------------- MODULE Storefront_proofs --------------------------
(***************************************************************************)
(* What TLAPS proves of the storefront, for every catalogue, market,       *)
(* query, threshold and bound, and for any number of threads unless a      *)
(* theorem says otherwise.                                                 *)
(***************************************************************************)
EXTENDS Storefront, Sums_proofs, SequenceTheorems

-----------------------------------------------------------------------------
(***************************************************************************)
(* Sorting.  Under a strict total order the number of members before it    *)
(* gives each member a place of its own, and as there are as many places   *)
(* as members, every place is taken.                                       *)
(***************************************************************************)
Orders(S, R) ==
    /\ \A x \in S : <<x, x>> \notin R
    /\ \A x, y, z \in S : <<x, y>> \in R /\ <<y, z>> \in R => <<x, z>> \in R
    /\ \A x, y \in S : x = y \/ <<x, y>> \in R \/ <<y, x>> \in R

Ahead(S, R, x) == {y \in S : <<y, x>> \in R}

LEMMA AheadOf ==
    ASSUME NEW S, IsFiniteSet(S), NEW R, Orders(S, R), NEW x \in S
    PROVE  /\ IsFiniteSet(Ahead(S, R, x))
           /\ Cardinality(Ahead(S, R, x)) \in 0 .. Cardinality(S) - 1
           /\ Cardinality(S) \in Nat
<1>1. Ahead(S, R, x) \subseteq S \ {x}
  BY DEF Ahead, Orders
<1>2. IsFiniteSet(S \ {x}) /\ Cardinality(S \ {x}) = Cardinality(S) - 1
  BY FS_RemoveElement
<1>3. /\ IsFiniteSet(Ahead(S, R, x))
      /\ Cardinality(Ahead(S, R, x)) <= Cardinality(S \ {x})
  BY <1>1, <1>2, FS_Subset
<1>4. Cardinality(Ahead(S, R, x)) \in Nat /\ Cardinality(S) \in Nat
  BY <1>3, FS_CardinalityType
<1> QED
  BY <1>2, <1>3, <1>4

LEMMA AheadGrows ==
    ASSUME NEW S, IsFiniteSet(S), NEW R, Orders(S, R),
           NEW x \in S, NEW y \in S, <<x, y>> \in R
    PROVE  Cardinality(Ahead(S, R, x)) < Cardinality(Ahead(S, R, y))
<1>1. Ahead(S, R, x) \subseteq Ahead(S, R, y)
  BY DEF Ahead, Orders
<1>2. x \in Ahead(S, R, y) /\ x \notin Ahead(S, R, x)
  BY DEF Ahead, Orders
<1>3. /\ Cardinality(Ahead(S, R, x)) <= Cardinality(Ahead(S, R, y))
      /\ Cardinality(Ahead(S, R, x)) # Cardinality(Ahead(S, R, y))
  BY <1>1, <1>2, AheadOf, FS_Subset
<1>4. /\ Cardinality(Ahead(S, R, x)) \in Nat
      /\ Cardinality(Ahead(S, R, y)) \in Nat
  BY AheadOf, FS_CardinalityType
<1> QED
  BY <1>3, <1>4

LEMMA PlacesTaken ==
    ASSUME NEW S, IsFiniteSet(S), NEW R, Orders(S, R), NEW n \in 1 .. Cardinality(S)
    PROVE  \E x \in S : Cardinality(Ahead(S, R, x)) = n - 1
<1> DEFINE places == 0 .. Cardinality(S) - 1
           place == [x \in S |-> Cardinality(Ahead(S, R, x))]
<1>1. place \in [S -> places]
  BY AheadOf
<1>2. ASSUME NEW x \in S, NEW y \in S, place[x] = place[y]
      PROVE  x = y
  <2>1. x = y \/ <<x, y>> \in R \/ <<y, x>> \in R
    BY DEF Orders
  <2>2. /\ Cardinality(Ahead(S, R, x)) = Cardinality(Ahead(S, R, y))
        /\ Cardinality(Ahead(S, R, x)) \in Int
    BY <1>2, AheadOf
  <2>3. <<x, y>> \notin R /\ <<y, x>> \notin R
    BY <2>2, AheadGrows
  <2> QED
    BY <2>1, <2>3
<1>3. place \in Injection(S, places)
  BY <1>1, <1>2 DEF Injection, IsInjective
<1>4. Cardinality(S) \in Nat
  BY FS_CardinalityType
<1>5. IsFiniteSet(places) /\ Cardinality(places) = Cardinality(S)
  <2>1. 0 \in Int /\ Cardinality(S) - 1 \in Int
    BY <1>4
  <2>2. /\ IsFiniteSet(places)
        /\ Cardinality(places) = IF 0 > Cardinality(S) - 1 THEN 0 ELSE Cardinality(S) - 1 - 0 + 1
    BY <2>1, FS_Interval, Zenon
  <2> QED
    BY <1>4, <2>2
<1>6. n - 1 \in places
  BY <1>4
<1> HIDE DEF place, places
<1>7. place \in Surjection(S, places)
  BY <1>3, <1>5, FS_Injection
<1>8. PICK x \in S : place[x] = n - 1
  BY <1>6, <1>7 DEF Surjection
<1> QED
  BY <1>8 DEF place

\* InOrder lists each member once, and in order.
LEMMA InOrderIs ==
    ASSUME NEW S, IsFiniteSet(S), NEW R, Orders(S, R)
    PROVE  /\ InOrder(S, R) \in Seq(S)
           /\ Len(InOrder(S, R)) = Cardinality(S)
           /\ \A n, m \in DOMAIN InOrder(S, R) :
                n < m => <<InOrder(S, R)[n], InOrder(S, R)[m]>> \in R
           /\ \A x \in S : \E n \in DOMAIN InOrder(S, R) : InOrder(S, R)[n] = x
<1> DEFINE N == Cardinality(S)
           at(n) == CHOOSE x \in S : Cardinality(Ahead(S, R, x)) = n - 1
           order == InOrder(S, R)
<1>1. \A n \in 1 .. N : at(n) \in S /\ Cardinality(Ahead(S, R, at(n))) = n - 1
  BY PlacesTaken
<1>2. N \in Nat /\ order = [n \in 1 .. N |-> at(n)]
  BY FS_CardinalityType DEF InOrder, Ahead
<1> HIDE DEF N, at
<1>3. DOMAIN order = 1 .. N /\ \A n \in 1 .. N : order[n] = at(n)
  BY <1>2
<1>4. order \in [1 .. N -> S]
  BY <1>1, <1>2
<1>5. order \in Seq(S)
  BY <1>2, <1>4, SeqDef
<1>6. Len(order) = N
  BY <1>2, <1>3, <1>5, LenProperties
<1>7. ASSUME NEW n \in 1 .. N, NEW m \in 1 .. N, n < m
      PROVE  <<order[n], order[m]>> \in R
  <2> DEFINE x == order[n]
             y == order[m]
  <2>1. /\ x \in S /\ Cardinality(Ahead(S, R, x)) = n - 1
        /\ y \in S /\ Cardinality(Ahead(S, R, y)) = m - 1
    BY <1>1, <1>3
  <2> HIDE DEF x, y
  <2>2. x = y \/ <<x, y>> \in R \/ <<y, x>> \in R
    BY <2>1 DEF Orders
  <2>3. x # y
    BY <1>7, <1>2, <2>1
  <2>4. <<y, x>> \notin R
    <3> SUFFICES ASSUME <<y, x>> \in R PROVE FALSE
      OBVIOUS
    <3>1. Cardinality(Ahead(S, R, y)) < Cardinality(Ahead(S, R, x))
      BY <2>1, AheadGrows
    <3> QED
      BY <1>2, <1>7, <2>1, <3>1
  <2> QED
    BY <2>2, <2>3, <2>4 DEF x, y
<1>8. ASSUME NEW x \in S
      PROVE  \E n \in 1 .. N : order[n] = x
  <2> DEFINE n == Cardinality(Ahead(S, R, x)) + 1
             y == at(n)
  <2>1. n \in 1 .. N
    BY AheadOf DEF N
  <2>2. n - 1 = Cardinality(Ahead(S, R, x)) /\ Cardinality(Ahead(S, R, x)) \in Int
    BY AheadOf
  <2> HIDE DEF n
  <2>3. y \in S /\ Cardinality(Ahead(S, R, y)) = Cardinality(Ahead(S, R, x))
    BY <1>1, <2>1, <2>2
  <2> HIDE DEF y
  <2>4. x = y \/ <<x, y>> \in R \/ <<y, x>> \in R
    BY <2>3 DEF Orders
  <2>5. <<x, y>> \notin R /\ <<y, x>> \notin R
    BY <2>2, <2>3, AheadGrows
  <2>6. order[n] = y
    BY <1>3, <2>1 DEF y
  <2> QED
    BY <2>1, <2>4, <2>5, <2>6
<1> QED
  BY <1>3, <1>5, <1>6, <1>7, <1>8 DEF N

\* Picked keeps the entries at the given places, in their order.
LEMMA PickedIs ==
    ASSUME NEW T, NEW s \in Seq(T), NEW I \in SUBSET (DOMAIN s)
    PROVE  /\ Picked(s, I) \in Seq(T)
           /\ \A k \in DOMAIN Picked(s, I) : \E i \in I : Picked(s, I)[k] = s[i]
           /\ \A i \in I : \E k \in DOMAIN Picked(s, I) : Picked(s, I)[k] = s[i]
           /\ Picked(s, I) = <<>> <=> I = {}
           /\ \A k, m \in DOMAIN Picked(s, I) : k < m =>
                \E i, j \in I : i < j /\ Picked(s, I)[k] = s[i] /\ Picked(s, I)[m] = s[j]
<1> DEFINE R == {ij \in I \X I : ij[1] < ij[2]}
           places == InOrder(I, R)
<1>1. DOMAIN s = 1 .. Len(s) /\ Len(s) \in Nat
  BY LenProperties
<1>2. IsFiniteSet(I)
  <2>1. IsFiniteSet(1 .. Len(s))
    BY <1>1, FS_Interval
  <2> QED
    BY <1>1, <2>1, FS_Subset
<1>3. ASSUME NEW i \in I, NEW j \in I
      PROVE  i \in Int /\ j \in Int /\ (<<i, j>> \in R <=> i < j)
  <2>1. i \in Int /\ j \in Int
    BY <1>1
  <2>2. <<i, j>> \in R <=> <<i, j>>[1] < <<i, j>>[2]
    OBVIOUS
  <2> QED
    BY <2>1, <2>2
<1>4. Orders(I, R)
  <2> HIDE DEF R
  <2> QED
    BY <1>3 DEF Orders
<1> HIDE DEF R
<1>5. /\ places \in Seq(I)
      /\ \A i \in I : \E k \in DOMAIN places : places[k] = i
      /\ \A k, m \in DOMAIN places : k < m => <<places[k], places[m]>> \in R
  BY <1>2, <1>4, InOrderIs
<1>6. Picked(s, I) = [k \in DOMAIN places |-> s[places[k]]]
  BY DEF Picked, R
<1> HIDE DEF places
<1>7. DOMAIN places = 1 .. Len(places) /\ Len(places) \in Nat
  BY <1>5, LenProperties
<1>8. \A k \in 1 .. Len(places) : places[k] \in I
  BY <1>5, <1>7, LenProperties
<1>9. \A i \in I : s[i] \in T
  BY LenProperties
<1>10. Picked(s, I) \in [1 .. Len(places) -> T]
  BY <1>6, <1>7, <1>8, <1>9
<1>11. Picked(s, I) \in Seq(T)
  BY <1>7, <1>10, SeqDef
<1>12. DOMAIN Picked(s, I) = 1 .. Len(places)
  BY <1>6, <1>7
<1>13. Picked(s, I) = <<>> <=> I = {}
  <2>1. ASSUME I = {} PROVE DOMAIN Picked(s, I) = {}
    BY <1>8, <1>7, <1>12, <2>1
  <2>2. ASSUME NEW i \in I PROVE DOMAIN Picked(s, I) # {}
    BY <1>5, <1>6
  <2> QED
    BY <1>11, <2>1, <2>2, EmptySeq
<1>14. ASSUME NEW k \in DOMAIN Picked(s, I), NEW m \in DOMAIN Picked(s, I), k < m
       PROVE  \E i, j \in I : i < j /\ Picked(s, I)[k] = s[i] /\ Picked(s, I)[m] = s[j]
  <2>1. places[k] \in I /\ places[m] \in I
    BY <1>8, <1>12
  <2>2. <<places[k], places[m]>> \in R
    BY <1>5, <1>7, <1>12, <1>14
  <2>3. places[k] < places[m]
    BY <1>3, <2>1, <2>2
  <2>4. Picked(s, I)[k] = s[places[k]] /\ Picked(s, I)[m] = s[places[m]]
    BY <1>6, <1>7, <1>12
  <2> QED
    BY <2>1, <2>3, <2>4
<1> QED
  BY <1>5, <1>6, <1>7, <1>8, <1>11, <1>12, <1>13, <1>14

-----------------------------------------------------------------------------
(***************************************************************************)
(* The index and its feed.                                                 *)
(***************************************************************************)
IndexMove ==
    \/ \E w \in Worker : Boot(w) \/ IndexStep(w) \/ ReadRows(w)
    \/ EditProducts \/ StopServer

\* Searches leave the index alone.
LEMMA IndexMoves ==
    ASSUME [StoreNext]_storeVars
    PROVE  IndexMove \/ UNCHANGED indexVars
<1>1. ASSUME NEW w \in Worker, StartChatSearch(w) \/ StartAgentSearch(w) \/ SearchStep(w)
      PROVE  UNCHANGED indexVars
  BY <1>1
  DEF StartChatSearch, StartAgentSearch, SearchStep, TierTwo, TierTwoAnswers,
      TierTwoPasses, Match, MakeOffer, RecordOffer, Suggest, LookUp, SearchMarket, FindBest,
      Shortlist, CrossSell, Reply
<1>2. CASE UNCHANGED storeVars
  BY <1>2 DEF storeVars
<1>3. CASE Tick
  BY <1>3 DEF Tick
<1>4. CASE StoreNext /\ ~Tick
  BY <1>1, <1>4 DEF StoreNext, IndexMove
<1> QED
  BY <1>2, <1>3, <1>4

LEMMA VersionsAre ==
    /\ Len(Catalogues) \in Nat \ {0}
    /\ Version = 1 .. Len(Catalogues)
    /\ \A v \in Version : v \in Nat /\ v > 0
  BY CatalogAssumption DEF Version

(***************************************************************************)
(* A build has read a version, which is not older than the table the       *)
(* server found when it started, and puts only such versions into the file *)
(* and the memory.  Until the server is up only its warm-up runs, so that  *)
(* what the warm-up has checked or built is still there when it ends.      *)
(***************************************************************************)
Building == {"compare", "write", "install", "set"}

BuildsVersion(w) ==
    job[w].at \in Building => job[w].version \in Version /\ job[w].version >= server.since

WarmingUp(w) ==
    /\ job[w].at = "idle" <=> job[w].to = "none"
    /\ job[w].to = "startup" => ~server.up
    /\ job[w].to = "feed" => server.up
    /\ job[w].at \in {"check", "backfill"} => job[w].to = "startup"
    /\ job[w].at = "serve" => job[w].to = "feed"
    /\ job[w].at = "backfill" => Loaded >= server.since

StartAlone ==
    ~server.up =>
        /\ ~server.clean
        /\ \A v, w \in Worker : job[v].at # "idle" /\ job[w].at # "idle" => v = w
        /\ memory # 0 => \E w \in Worker : job[w].at = "backfill"

IndexInv ==
    /\ IndexTypeOK
    /\ file # Torn
    /\ products >= server.since
    /\ \A w \in Worker : BuildsVersion(w) /\ WarmingUp(w)
    /\ StartAlone
    /\ StartedFresh

LEMMA IndexInitInv ==
    ASSUME IndexInit
    PROVE  IndexInv
<1>1. 1 \in Version
  BY VersionsAre
<1>2. IndexTypeOK
  BY <1>1, CatalogAssumption DEF IndexInit, IndexTypeOK, IdleJob, Label
<1>3. \A w \in Worker : job[w] = IdleJob
  BY DEF IndexInit
<1>4. \A w \in Worker : BuildsVersion(w) /\ WarmingUp(w)
  BY <1>3 DEF BuildsVersion, WarmingUp, IdleJob, Building
<1>5. StartAlone /\ StartedFresh
  BY <1>3 DEF StartAlone, StartedFresh, IndexInit, IdleJob
<1> QED
  BY <1>2, <1>4, <1>5 DEF IndexInv, IndexInit, Torn

Job == [at : Label, to : {"none", "startup", "feed"}, version : Version \cup {0}]

\* A thread that is already at work goes on to another label.
LEMMA IndexGoesOn ==
    ASSUME IndexInv, NEW w \in Worker, NEW j \in Job, job' = [job EXCEPT ![w] = j],
           UNCHANGED <<products, server, fed, faults>>,
           file' \in Version \cup {0}, memory' \in Version \cup {0},
           job[w].at \notin {"idle", "backfill"}, j.at \notin {"idle", "check"},
           j.to = job[w].to,
           j.at \in Building => j.version \in Version /\ j.version >= server.since,
           j.at = "backfill" => j.to = "startup" /\ Loaded' >= server.since,
           j.at = "serve" => j.to = "feed",
           memory' = memory \/ (memory' >= server.since /\ j.at \in {"backfill", "serve"})
    PROVE  IndexInv'
<1>1. job \in [Worker -> Job] /\ job'[w] = j /\ job' \in [Worker -> Job]
  BY DEF IndexInv, IndexTypeOK, Job
<1>2. \A v \in Worker : v # w => job'[v] = job[v]
  BY <1>1
<1>3. IndexTypeOK' /\ file' # Torn
  <2>1. Torn \notin Version \cup {0}
    BY VersionsAre DEF Torn
  <2> QED
    BY <1>1, <2>1 DEF IndexInv, IndexTypeOK, Job, Version
<1>4. ASSUME ~server.up, NEW v \in Worker, job[v].at # "idle"
      PROVE  v = w
  BY <1>4 DEF IndexInv, StartAlone
<1>5. /\ job[w].at = "idle" <=> job[w].to = "none"
      /\ job[w].to = "startup" => ~server.up
      /\ job[w].to = "feed" => server.up
  BY DEF IndexInv, WarmingUp
<1>6. BuildsVersion(w)' /\ WarmingUp(w)'
  <2>1. BuildsVersion(w)'
    BY <1>1 DEF BuildsVersion, Version
  <2>2. WarmingUp(w)'
    BY <1>1, <1>5 DEF WarmingUp
  <2> QED
    BY <2>1, <2>2
<1>7. ASSUME NEW v \in Worker, v # w
      PROVE  BuildsVersion(v)' /\ WarmingUp(v)'
  <2>1. BuildsVersion(v) /\ WarmingUp(v)
    BY DEF IndexInv
  <2>2. BuildsVersion(v)'
    BY <1>2, <1>7, <2>1 DEF BuildsVersion, Version
  <2>3. job[v].at # "backfill"
    BY <1>4, <1>7, <2>1 DEF WarmingUp
  <2> QED
    BY <1>2, <1>7, <2>1, <2>2, <2>3 DEF WarmingUp
<1>8. StartAlone'
  <2> SUFFICES ASSUME ~server.up
               PROVE  /\ ~server.clean
                      /\ \A v, u \in Worker : job'[v].at # "idle" /\ job'[u].at # "idle" => v = u
                      /\ memory' # 0 => \E v \in Worker : job'[v].at = "backfill"
    BY DEF StartAlone
  <2>1. \A v \in Worker : job'[v].at # "idle" => v = w
    BY <1>2, <1>4
  <2>2. ~server.clean
    BY DEF IndexInv, StartAlone
  <2>3. ASSUME memory' # 0 PROVE job'[w].at = "backfill"
    <3>1. memory = 0
      BY <1>4 DEF IndexInv, StartAlone
    <3>2. j.at \in {"backfill", "serve"}
      BY <2>3, <3>1
    <3> QED
      BY <1>1, <1>5, <3>2
  <2> QED
    BY <2>1, <2>2, <2>3
<1>9. StartedFresh'
  BY DEF StartedFresh, IndexInv
<1> QED
  BY <1>3, <1>6, <1>7, <1>8, <1>9 DEF IndexInv

\* The steps of a build, and the check before it.
LEMMA BuildsOn ==
    ASSUME IndexInv, NEW w \in Worker,
           \/ ReadProducts(w) \/ SameHash(w) \/ OtherHash(w) \/ WriteTemporary(w)
           \/ Install(w) \/ SetMemory(w) \/ CheckCurrent(w)
    PROVE  IndexInv'
<1>1. job \in [Worker -> Job] /\ job[w] \in Job /\ job[w].version \in Version \cup {0}
  BY DEF IndexInv, IndexTypeOK, Job
<1>2. /\ products \in Version /\ products >= server.since
      /\ file \in Version \cup {0} /\ memory \in Version \cup {0}
      /\ BuildsVersion(w) /\ WarmingUp(w)
      /\ server.since \in Version
  BY DEF IndexInv, IndexTypeOK
<1>3. \A v \in Version : v \in Nat /\ v > 0
  BY VersionsAre
<1>4. ASSUME NEW label \in Label, job' = [job EXCEPT ![w].at = label]
      PROVE  /\ [job[w] EXCEPT !.at = label] \in Job
             /\ job' = [job EXCEPT ![w] = [job[w] EXCEPT !.at = label]]
             /\ [job[w] EXCEPT !.at = label].at = label
             /\ [job[w] EXCEPT !.at = label].to = job[w].to
             /\ [job[w] EXCEPT !.at = label].version = job[w].version
  BY <1>1, <1>4 DEF Job
<1>5. CASE ReadProducts(w)
  <2> DEFINE j == [job[w] EXCEPT !.at = "compare", !.version = products]
  <2>1. /\ j \in Job /\ job' = [job EXCEPT ![w] = j]
        /\ j.at = "compare" /\ j.version = products /\ j.to = job[w].to
    BY <1>1, <1>2, <1>5 DEF ReadProducts, Job, Label
  <2>2. job[w].at = "build" /\ UNCHANGED <<products, file, memory, server, fed, faults>>
    BY <1>5 DEF ReadProducts
  <2> HIDE DEF j
  <2> QED
    BY <1>2, <2>1, <2>2, IndexGoesOn
<1>6. ASSUME NEW label \in {"write", "install"}, job[w].at \in {"compare", "write"},
             Enter(w, label), UNCHANGED <<products, file, memory, server, fed, faults>>
      PROVE  IndexInv'
  <2> DEFINE j == [job[w] EXCEPT !.at = label]
  <2>1. label \in Label /\ label \in Building
    BY DEF Label, Building
  <2>2. /\ j \in Job /\ job' = [job EXCEPT ![w] = j]
        /\ j.at = label /\ j.version = job[w].version /\ j.to = job[w].to
    BY <1>4, <1>6, <2>1 DEF Enter
  <2>3. job[w].at \in Building
    BY <1>6 DEF Building
  <2> HIDE DEF j
  <2> QED
    BY <1>2, <1>6, <2>1, <2>2, <2>3, IndexGoesOn DEF BuildsVersion
<1>7. CASE Install(w)
  <2> DEFINE j == [job[w] EXCEPT !.at = "set"]
  <2>1. /\ job[w].at = "install" /\ file' = job[w].version /\ Enter(w, "set")
        /\ UNCHANGED <<products, memory, server, fed, faults>>
    BY <1>7 DEF Install
  <2>2. /\ j \in Job /\ job' = [job EXCEPT ![w] = j]
        /\ j.at = "set" /\ j.version = job[w].version /\ j.to = job[w].to
    BY <1>4, <2>1 DEF Enter, Label
  <2>3. job[w].at \in Building
    BY <2>1 DEF Building
  <2> HIDE DEF j
  <2> QED
    BY <1>1, <1>2, <2>1, <2>2, <2>3, IndexGoesOn DEF BuildsVersion
<1>8. ASSUME Built(w), job[w].at \in Building, memory' = job[w].version,
             UNCHANGED <<products, file, server, fed, faults>>
      PROVE  IndexInv'
  <2> DEFINE label == IF job[w].to = "startup" THEN "backfill" ELSE "serve"
             j == [job[w] EXCEPT !.at = label]
  <2>1. label \in Label /\ label \notin Building
    BY DEF Label, Building
  <2>2. job' = [job EXCEPT ![w].at = label]
    BY <1>8 DEF Built, Enter
  <2>3. job[w].version \in Version /\ job[w].version >= server.since
    BY <1>2, <1>8 DEF BuildsVersion
  <2>4. Loaded' = job[w].version
    BY <1>3, <1>8, <2>3 DEF Loaded
  <2>5. job[w].at \notin {"idle", "backfill"} /\ job[w].to \in {"startup", "feed"}
    BY <1>1, <1>2, <1>8 DEF Building, WarmingUp, Job
  <2>6. /\ label = "backfill" => job[w].to = "startup"
        /\ label = "serve" => job[w].to = "feed"
        /\ label \in {"backfill", "serve"}
    BY <2>5
  <2> HIDE DEF label
  <2>7. /\ j \in Job /\ job' = [job EXCEPT ![w] = j]
        /\ j.at = label /\ j.to = job[w].to
    BY <1>4, <2>1, <2>2
  <2> HIDE DEF j
  <2> QED
    BY <1>8, <1>2, <2>1, <2>3, <2>4, <2>5, <2>6, <2>7, IndexGoesOn
<1>9. CASE CheckCurrent(w)
  <2> DEFINE label == IF Readable = products THEN "backfill" ELSE "build"
             j == [job[w] EXCEPT !.at = label]
  <2>1. /\ job[w].at = "check" /\ job' = [job EXCEPT ![w].at = label]
        /\ UNCHANGED <<products, file, memory, server, fed, faults>>
    BY <1>9 DEF CheckCurrent, Enter
  <2>2. job[w].to = "startup"
    BY <1>2, <2>1 DEF WarmingUp
  <2>3. label \in Label /\ label \notin Building /\ label \in {"backfill", "build"}
    BY DEF Label, Building
  <2>4. label = "backfill" => Loaded' >= server.since
    <3> SUFFICES ASSUME Readable = products PROVE Loaded' >= server.since
      OBVIOUS
    <3>1. ~server.up
      BY <1>2, <2>2 DEF WarmingUp
    <3>2. memory = 0
      BY <2>1, <3>1 DEF IndexInv, StartAlone
    <3>3. Loaded = products /\ Loaded' = Loaded
      BY <2>1, <3>2 DEF Loaded, Readable, Empty
    <3> QED
      BY <1>2, <3>3
  <2> HIDE DEF label
  <2>5. /\ j \in Job /\ job' = [job EXCEPT ![w] = j]
        /\ j.at = label /\ j.to = job[w].to
    BY <1>4, <2>1, <2>3
  <2> HIDE DEF j
  <2> QED
    BY <1>2, <2>1, <2>2, <2>3, <2>4, <2>5, IndexGoesOn
<1>10. CASE OtherHash(w) \/ WriteTemporary(w)
  BY <1>6, <1>10 DEF OtherHash, WriteTemporary
<1>11. CASE SameHash(w) \/ SetMemory(w)
  BY <1>8, <1>11 DEF SameHash, SetMemory, Building
<1> QED
  BY <1>5, <1>7, <1>9, <1>10, <1>11

\* A thread ends its job: as the warm-up with the server up, or in the feed.
LEMMA JobEnds ==
    ASSUME IndexInv, NEW w \in Worker, WriteFails(w) \/ Backfill(w) \/ ServeFeed(w)
    PROVE  IndexInv'
<1>1. /\ job \in [Worker -> Job] /\ job[w] \in Job
      /\ server \in [up : BOOLEAN, clean : BOOLEAN, since : Version]
  BY DEF IndexInv, IndexTypeOK, Job
<1>2. WarmingUp(w) /\ \A v \in Worker : BuildsVersion(v) /\ WarmingUp(v)
  BY DEF IndexInv
<1>3. /\ job' = [job EXCEPT ![w] = IdleJob] /\ UNCHANGED <<products, file>>
      /\ job[w].at # "idle" /\ job[w].to \in {"startup", "feed"}
  BY <1>1, <1>2 DEF WriteFails, Backfill, ServeFeed, Leave, WarmingUp, Job
<1>4. /\ server'.since = server.since
      /\ server'.up = (server.up \/ job[w].to = "startup")
      /\ server' \in [up : BOOLEAN, clean : BOOLEAN, since : Version]
  <2>1. CASE WriteFails(w)
    BY <1>1, <1>2, <1>3, <2>1 DEF WriteFails, WarmingUp
  <2>2. CASE Backfill(w)
    BY <1>1, <1>2, <1>3, <2>2 DEF Backfill, WarmingUp
  <2>3. CASE ServeFeed(w)
    BY <1>1, <1>2, <1>3, <2>3 DEF ServeFeed, WarmingUp
  <2> QED
    BY <2>1, <2>2, <2>3
<1>5. server'.up
  BY <1>2, <1>3, <1>4 DEF WarmingUp
<1>6. /\ IdleJob \in Job /\ IdleJob.at = "idle" /\ IdleJob.to = "none"
      /\ IdleJob.at \notin Building
  BY DEF IdleJob, Job, Label, Building
<1>7. job' \in [Worker -> Job] /\ job'[w] = IdleJob /\ \A v \in Worker : v # w => job'[v] = job[v]
  BY <1>1, <1>3, <1>6
<1>8. memory \in Version \cup {0} /\ file \in Version \cup {0} /\ fed \in Version \cup {0}
  BY DEF IndexInv, IndexTypeOK
<1>9. Readable \in Version \cup {0} /\ Loaded \in Version \cup {0}
  BY <1>8 DEF Readable, Loaded
<1>10. memory' \in Version \cup {0} /\ fed' \in Version \cup {0} /\ faults' \in 0 .. MaxFaults
  <2>1. CASE WriteFails(w)
    <3>1. faults \in 0 .. MaxFaults /\ MaxFaults \in Nat
      BY CatalogAssumption DEF IndexInv, IndexTypeOK
    <3> QED
      BY <1>8, <2>1, <3>1 DEF WriteFails
  <2>2. CASE Backfill(w)
    BY <1>8, <1>9, <2>2 DEF Backfill, IndexInv, IndexTypeOK
  <2>3. CASE ServeFeed(w)
    BY <1>8, <2>3 DEF ServeFeed, IndexInv, IndexTypeOK
  <2> QED
    BY <2>1, <2>2, <2>3
<1>11. IndexTypeOK' /\ file' # Torn /\ products' >= server'.since
  BY <1>3, <1>4, <1>7, <1>8, <1>10 DEF IndexInv, IndexTypeOK, Job, Version
<1>12. ASSUME NEW v \in Worker
       PROVE  BuildsVersion(v)' /\ WarmingUp(v)'
  <2>1. CASE v = w
    BY <1>6, <1>7, <2>1 DEF BuildsVersion, WarmingUp, Building
  <2>2. CASE v # w
    <3>1. BuildsVersion(v)'
      BY <1>2, <1>4, <1>7, <2>2 DEF BuildsVersion, Version
    <3>2. job[v].to = "startup" => FALSE
      <4>1. job[v].to = "startup" => ~server.up /\ job[v].at # "idle"
        BY <1>2 DEF WarmingUp
      <4> QED
        BY <1>3, <2>2, <4>1 DEF IndexInv, StartAlone
    <3> QED
      BY <1>2, <1>5, <1>7, <2>2, <3>1, <3>2 DEF WarmingUp
  <2> QED
    BY <2>1, <2>2
<1>13. StartedFresh'
  <2> SUFFICES ASSUME server'.clean PROVE memory' >= server.since
    BY <1>4 DEF StartedFresh
  <2>1. CASE WriteFails(w)
    <3>1. memory' = memory /\ server.clean
      BY <1>1, <2>1 DEF WriteFails
    <3>2. server.up
      BY <3>1 DEF IndexInv, StartAlone
    <3> QED
      BY <3>1, <3>2 DEF IndexInv, StartedFresh
  <2>2. CASE Backfill(w)
    BY <1>2, <2>2 DEF Backfill, WarmingUp
  <2>3. CASE ServeFeed(w)
    <3>1. memory' = memory /\ server' = server
      BY <2>3 DEF ServeFeed
    <3> QED
      BY <1>5, <3>1 DEF IndexInv, StartedFresh
  <2> QED
    BY <2>1, <2>2, <2>3
<1> QED
  BY <1>5, <1>11, <1>12, <1>13 DEF IndexInv, StartAlone

\* A server starts its warm-up over whatever is in the table by then.
LEMMA BootInv ==
    ASSUME IndexInv, NEW w \in Worker, Boot(w)
    PROVE  IndexInv'
<1> DEFINE j == [job[w] EXCEPT !.at = "check", !.to = "startup"]
<1>1. /\ job \in [Worker -> Job] /\ job[w] \in Job
      /\ server \in [up : BOOLEAN, clean : BOOLEAN, since : Version]
      /\ products \in Version
  BY DEF IndexInv, IndexTypeOK, Job
<1>2. /\ ~server.up /\ \A v \in Worker : job[v].at = "idle"
      /\ server' = [server EXCEPT !.since = products] /\ job' = [job EXCEPT ![w] = j]
      /\ UNCHANGED <<products, file, memory, fed, faults>>
  BY <1>1 DEF Boot
<1>3. j \in Job /\ j.at = "check" /\ j.to = "startup" /\ j.at \notin Building
  BY <1>1 DEF Job, Label, Building
<1> HIDE DEF j
<1>4. /\ job' \in [Worker -> Job] /\ job'[w] = j
      /\ \A v \in Worker : v # w => job'[v].at = "idle" /\ job'[v].to = "none"
  <2>1. \A v \in Worker : job[v].to = "none"
    BY <1>2 DEF IndexInv, WarmingUp
  <2> QED
    BY <1>1, <1>2, <1>3, <2>1
<1>5. /\ server' \in [up : BOOLEAN, clean : BOOLEAN, since : Version]
      /\ server'.since = products /\ ~server'.up /\ server'.clean = server.clean
  BY <1>1, <1>2
<1>6. IndexTypeOK' /\ file' # Torn /\ products' >= server'.since
  <2>1. products >= products
    BY <1>1, VersionsAre
  <2> QED
    BY <1>1, <1>2, <1>4, <1>5, <2>1 DEF IndexInv, IndexTypeOK, Job, Version
<1>7. ASSUME NEW v \in Worker
      PROVE  BuildsVersion(v)' /\ WarmingUp(v)'
  <2>1. CASE v = w
    BY <1>3, <1>4, <1>5, <2>1 DEF BuildsVersion, WarmingUp
  <2>2. CASE v # w
    BY <1>4, <2>2 DEF BuildsVersion, WarmingUp, Building
  <2> QED
    BY <2>1, <2>2
<1>8. StartAlone'
  <2>1. memory = 0 /\ ~server.clean
    BY <1>2 DEF IndexInv, StartAlone
  <2> QED
    BY <1>2, <1>4, <1>5, <2>1 DEF StartAlone
<1> QED
  BY <1>5, <1>6, <1>7, <1>8 DEF IndexInv, StartedFresh

\* A request for the feed begins: it only takes what is in memory or on disk.
LEMMA ReadRowsInv ==
    ASSUME IndexInv, NEW w \in Worker, ReadRows(w)
    PROVE  IndexInv'
<1> DEFINE label == IF Empty(Loaded) THEN "build" ELSE "serve"
           j == [job[w] EXCEPT !.at = label, !.to = "feed"]
<1>1. job \in [Worker -> Job] /\ job[w] \in Job /\ server.since \in Version
  BY DEF IndexInv, IndexTypeOK, Job
<1>2. /\ server.up /\ job[w].at = "idle" /\ memory' = Loaded
      /\ job' = [job EXCEPT ![w] = j]
      /\ UNCHANGED <<products, file, server, fed, faults>>
  BY <1>1 DEF ReadRows
<1>3. label \in {"build", "serve"} /\ label \in Label /\ label \notin Building
  BY DEF Label, Building
<1> HIDE DEF label
<1>4. j \in Job /\ j.at = label /\ j.to = "feed"
  BY <1>1, <1>3 DEF Job
<1> HIDE DEF j
<1>5. /\ job' \in [Worker -> Job] /\ job'[w] = j
      /\ \A v \in Worker : v # w => job'[v] = job[v]
  BY <1>1, <1>2, <1>4
<1>6. memory \in Version \cup {0} /\ file \in Version \cup {0}
  BY DEF IndexInv, IndexTypeOK
<1>7. Loaded \in Version \cup {0}
  BY <1>6 DEF Readable, Loaded
<1>8. IndexTypeOK' /\ file' # Torn /\ products' >= server'.since
  BY <1>2, <1>5, <1>7 DEF IndexInv, IndexTypeOK, Job, Version
<1>9. ASSUME NEW v \in Worker
      PROVE  BuildsVersion(v)' /\ WarmingUp(v)'
  <2>1. CASE v = w
    BY <1>2, <1>3, <1>4, <1>5, <2>1 DEF BuildsVersion, WarmingUp
  <2>2. CASE v # w
    <3>1. BuildsVersion(v) /\ WarmingUp(v)
      BY DEF IndexInv
    <3>2. job[v].at # "backfill"
      BY <1>2, <3>1 DEF WarmingUp
    <3>3. BuildsVersion(v)'
      BY <1>2, <1>5, <2>2, <3>1 DEF BuildsVersion, Version
    <3> QED
      BY <1>2, <1>5, <2>2, <3>1, <3>2, <3>3 DEF WarmingUp
  <2> QED
    BY <2>1, <2>2
<1>10. StartedFresh'
  <2> SUFFICES ASSUME server.clean PROVE memory' >= server.since
    BY <1>2 DEF StartedFresh
  <2>1. memory >= server.since /\ server.since > 0 /\ server.since \in Nat
    BY <1>1, <1>2, VersionsAre DEF IndexInv, StartedFresh
  <2> QED
    BY <1>2, <2>1 DEF Loaded
<1> QED
  BY <1>2, <1>8, <1>9, <1>10 DEF IndexInv, StartAlone

\* The merchant's edit makes the table newer; a kill forgets the memory.
LEMMA AroundIndexInv ==
    ASSUME IndexInv, EditProducts \/ StopServer
    PROVE  IndexInv'
<1>1. /\ products \in Version /\ server.since \in Version
      /\ server \in [up : BOOLEAN, clean : BOOLEAN, since : Version]
      /\ products >= server.since
  BY DEF IndexInv, IndexTypeOK
<1>2. CASE EditProducts
  <2>1. /\ products' = products + 1 /\ products < Len(Catalogues)
        /\ UNCHANGED <<file, memory, server, job, fed, faults>>
    BY <1>2 DEF EditProducts
  <2>2. products' \in Version /\ products' >= server.since
    BY <1>1, <2>1, VersionsAre
  <2>3. IndexTypeOK'
    BY <2>1, <2>2 DEF IndexInv, IndexTypeOK, Version
  <2>4. Loaded' = Loaded
    BY <2>1 DEF Loaded, Readable, Empty
  <2>5. \A w \in Worker : BuildsVersion(w)' /\ WarmingUp(w)'
    BY <2>1, <2>4 DEF IndexInv, BuildsVersion, WarmingUp, Version
  <2> QED
    BY <2>1, <2>2, <2>3, <2>5 DEF IndexInv, StartAlone, StartedFresh
<1>3. CASE StopServer
  <2>1. /\ ~server'.up /\ ~server'.clean /\ server'.since = server.since
        /\ server' \in [up : BOOLEAN, clean : BOOLEAN, since : Version]
        /\ memory' = 0 /\ job' = [w \in Worker |-> IdleJob]
        /\ faults < MaxFaults /\ faults' = faults + 1
        /\ UNCHANGED <<products, file, fed>>
    BY <1>1, <1>3 DEF StopServer
  <2>2. IdleJob \in Job /\ \A w \in Worker : job'[w] = IdleJob
    BY <2>1 DEF IdleJob, Job, Label
  <2>3. IndexTypeOK'
    <3>1. faults' \in 0 .. MaxFaults
      BY <2>1, CatalogAssumption DEF IndexInv, IndexTypeOK
    <3> QED
      BY <2>1, <2>2, <3>1 DEF IndexInv, IndexTypeOK, Job, Version
  <2>4. \A w \in Worker : BuildsVersion(w)' /\ WarmingUp(w)'
    BY <2>2 DEF BuildsVersion, WarmingUp, IdleJob, Building
  <2>5. StartAlone' /\ StartedFresh'
    BY <2>1, <2>2 DEF StartAlone, StartedFresh, IdleJob
  <2> QED
    BY <1>1, <2>1, <2>3, <2>4, <2>5 DEF IndexInv
<1> QED
  BY <1>2, <1>3

LEMMA IndexInvNext ==
    ASSUME IndexInv, [StoreNext]_storeVars
    PROVE  IndexInv'
<1>1. CASE UNCHANGED indexVars
  BY <1>1
  DEF indexVars, IndexInv, IndexTypeOK, BuildsVersion, WarmingUp, StartAlone, StartedFresh,
      Loaded, Readable, Empty, Version
<1>2. ASSUME NEW w \in Worker, Boot(w) \/ IndexStep(w) \/ ReadRows(w)
      PROVE  IndexInv'
  BY <1>2, BuildsOn, JobEnds, BootInv, ReadRowsInv DEF IndexStep
<1> QED
  BY <1>1, <1>2, IndexMoves, AroundIndexInv DEF IndexMove

LEMMA IndexAlways == StoreSpec => []IndexInv
<1>1. StoreInit => IndexInv
  BY IndexInitInv DEF StoreInit
<1>2. IndexInv /\ [StoreNext]_storeVars => IndexInv'
  BY IndexInvNext
<1> QED
  BY <1>1, <1>2, PTL DEF StoreSpec

\* A server whose warm-up went through serves no catalogue older than the one
\* it found in the database when it started, for any number of threads that
\* serve the feed and whatever writes fail (_startup in app/main.py,
\* is_current and build in app/catalog_index.py).
THEOREM StartsAreFresh == StoreSpec => []StartedFresh
<1>1. IndexInv => StartedFresh
  BY DEF IndexInv
<1> QED
  BY IndexAlways, <1>1, PTL

\* Once there is an index on disk to start from, every later state has a whole
\* one: no failed write and no kill leaves the file torn or missing, whichever
\* threads build at the same time (_atomic_write in app/catalog_index.py).
THEOREM IndexIsKept == StoreSpec => IndexKept
<1>1. ASSUME IndexInv, [StoreNext]_storeVars
      PROVE  [Readable # 0 => file' \notin {0, Torn}]_indexVars
  <2> SUFFICES ASSUME Readable # 0
               PROVE  file' \notin {0, Torn} \/ UNCHANGED indexVars
    OBVIOUS
  <2>1. file \in Version /\ file \notin {0, Torn}
    <3>1. file \in Version \cup {0} /\ file # Torn
      BY <1>1 DEF IndexInv, IndexTypeOK
    <3>2. file # 0
      BY DEF Readable
    <3> QED
      BY <3>1, <3>2
  <2>2. ASSUME NEW w \in Worker, Install(w)
        PROVE  file' \notin {0, Torn}
    <3>1. job[w].at = "install" /\ file' = job[w].version
      BY <2>2 DEF Install
    <3>2. BuildsVersion(w)
      BY <1>1 DEF IndexInv
    <3>3. file' \in Version
      BY <3>1, <3>2 DEF BuildsVersion, Building
    <3> QED
      BY <3>3, VersionsAre DEF Torn
  <2>3. ASSUME NEW w \in Worker, Boot(w) \/ (IndexStep(w) /\ ~Install(w)) \/ ReadRows(w)
        PROVE  file' = file
    BY <2>3
    DEF Boot, IndexStep, ReadRows, ReadProducts, SameHash, OtherHash, WriteTemporary,
        SetMemory, WriteFails, CheckCurrent, Backfill, ServeFeed
  <2>4. EditProducts \/ StopServer => file' = file
    BY DEF EditProducts, StopServer
  <2> QED
    BY <1>1, <2>1, <2>2, <2>3, <2>4, IndexMoves DEF IndexMove
<1> QED
  BY IndexAlways, <1>1, PTL DEF StoreSpec, IndexKept

-----------------------------------------------------------------------------
(***************************************************************************)
(* The feed.  With two threads a slow build installs an older catalogue    *)
(* over a newer one, so this is for one.  The file is never older than     *)
(* what has been answered, nor is the memory once there is one, and a      *)
(* build has read a version that is no older than the file.                *)
(***************************************************************************)
OneAtATime == \E w \in Worker : Worker = {w}

BuildsNewer(w) ==
    /\ job[w].at \in Building => file <= job[w].version /\ job[w].version <= products
    /\ job[w].at = "set" => file = job[w].version

FeedInv ==
    /\ IndexInv
    /\ file <= products /\ memory <= file /\ fed <= file
    /\ memory # 0 => fed <= memory
    /\ \A w \in Worker : BuildsNewer(w)

LEMMA FeedInvNext ==
    ASSUME OneAtATime, FeedInv, [StoreNext]_storeVars
    PROVE  FeedInv' /\ fed' >= fed
<1>1. IndexInv' /\ IndexInv
  BY IndexInvNext DEF FeedInv
<1>2. /\ products \in Nat /\ file \in Nat /\ memory \in Nat /\ fed \in Nat
      /\ job \in [Worker -> Job]
  <2>1. /\ products \in Version /\ file \in Version \cup {0}
        /\ memory \in Version \cup {0} /\ fed \in Version \cup {0}
    BY <1>1 DEF IndexInv, IndexTypeOK
  <2> QED
    BY <1>1, <2>1, VersionsAre DEF IndexInv, IndexTypeOK, Job
<1>3. /\ file <= products /\ memory <= file /\ fed <= file
      /\ memory # 0 => fed <= memory
      /\ \A w \in Worker : BuildsNewer(w)
  BY DEF FeedInv
<1> DEFINE After ==
      /\ file' <= products' /\ memory' <= file' /\ fed' <= file'
      /\ memory' # 0 => fed' <= memory'
      /\ \A w \in Worker : BuildsNewer(w)'
      /\ fed' >= fed
<1> SUFFICES After
  BY <1>1 DEF FeedInv
<1>4. CASE UNCHANGED indexVars
  BY <1>2, <1>3, <1>4 DEF indexVars, BuildsNewer
<1>5. CASE EditProducts
  <2>1. \A w \in Worker : job[w].version \in Int
    <3>1. \A w \in Worker : job[w].version \in Version \cup {0}
      BY <1>2 DEF Job
    <3> QED
      BY <3>1, VersionsAre
  <2>2. /\ products' = products + 1 /\ file' = file /\ memory' = memory /\ fed' = fed
        /\ job' = job
    BY <1>5 DEF EditProducts
  <2>3. \A w \in Worker : BuildsNewer(w)'
    BY <1>2, <1>3, <2>1, <2>2 DEF BuildsNewer
  <2> QED
    BY <1>2, <1>3, <2>2, <2>3
<1>6. CASE StopServer
  <2>1. /\ products' = products /\ file' = file /\ memory' = 0 /\ fed' = fed
        /\ job' = [w \in Worker |-> IdleJob]
    BY <1>6 DEF StopServer
  <2>2. \A w \in Worker : BuildsNewer(w)'
    BY <2>1 DEF BuildsNewer, IdleJob, Building
  <2> QED
    BY <1>2, <1>3, <2>1, <2>2
<1>7. ASSUME NEW w \in Worker, Boot(w) \/ IndexStep(w) \/ ReadRows(w)
      PROVE  After
  <2>1. \A v \in Worker : v = w
    BY <1>7 DEF OneAtATime
  <2>2. BuildsNewer(w) /\ BuildsVersion(w) /\ job[w] \in Job
    BY <1>1, <1>2, <1>3 DEF IndexInv
  <2>3. job[w].version \in Nat
    BY <2>2, VersionsAre DEF Job
  <2> SUFFICES /\ file' <= products' /\ memory' <= file' /\ fed' <= file'
               /\ memory' # 0 => fed' <= memory'
               /\ BuildsNewer(w)'
               /\ fed' >= fed
    BY <2>1
  <2>4. Readable \in {0, file} /\ Loaded \in {memory, Readable}
    BY DEF Readable, Loaded
  <2>5. ASSUME NEW label, job' = [job EXCEPT ![w].at = label],
               UNCHANGED <<products, file, memory, fed>>,
               label \in Building => job[w].at \in Building /\ label # "set"
        PROVE  After
    <3>1. job'[w].at = label /\ job'[w].version = job[w].version
      BY <1>2, <2>2, <2>5 DEF Job
    <3>2. BuildsNewer(w)'
      BY <2>2, <2>5, <3>1 DEF BuildsNewer, Building
    <3> QED
      BY <1>2, <1>3, <2>1, <2>5, <3>2
  <2>6. CASE ReadProducts(w)
    <3>1. /\ job'[w].at = "compare" /\ job'[w].version = products
          /\ UNCHANGED <<products, file, memory, fed>>
      BY <1>2, <2>2, <2>6 DEF ReadProducts, Job
    <3>2. BuildsNewer(w)'
      BY <1>2, <1>3, <3>1 DEF BuildsNewer, Building
    <3> QED
      BY <1>2, <1>3, <3>1, <3>2
  <2>7. CASE OtherHash(w) \/ WriteTemporary(w)
    BY <2>5, <2>7 DEF OtherHash, WriteTemporary, Enter, Building
  <2>8. CASE CheckCurrent(w)
    <3> DEFINE label == IF Readable = products THEN "backfill" ELSE "build"
    <3>1. job' = [job EXCEPT ![w].at = label] /\ UNCHANGED <<products, file, memory, fed>>
      BY <2>8 DEF CheckCurrent, Enter
    <3>2. label \notin Building
      BY DEF Building
    <3> QED
      BY <2>5, <3>1, <3>2
  <2>9. CASE SameHash(w) \/ SetMemory(w)
    <3> DEFINE label == IF job[w].to = "startup" THEN "backfill" ELSE "serve"
    <3>1. /\ job' = [job EXCEPT ![w].at = label] /\ UNCHANGED <<products, file, fed>>
          /\ memory' = job[w].version /\ job[w].at \in Building
      BY <2>9 DEF SameHash, SetMemory, Built, Enter, Building
    <3>2. label \notin Building /\ job'[w].at = label
      BY <1>2, <2>2, <3>1 DEF Building, Job
    <3>3. job[w].version \in Version
      BY <2>2, <3>1 DEF BuildsVersion
    <3>4. file = job[w].version
      <4>1. CASE SetMemory(w)
        BY <2>2, <4>1 DEF SetMemory, BuildsNewer
      <4>2. CASE SameHash(w)
        BY <2>4, <3>3, <4>2, VersionsAre DEF SameHash
      <4> QED
        BY <2>9, <4>1, <4>2
    <3>5. BuildsNewer(w)'
      BY <3>2 DEF BuildsNewer, Building
    <3> QED
      BY <1>2, <1>3, <3>1, <3>4, <3>5
  <2>10. CASE Install(w)
    <3>1. /\ job[w].at = "install" /\ file' = job[w].version
          /\ job'[w].at = "set" /\ job'[w].version = job[w].version
          /\ UNCHANGED <<products, memory, fed>>
      BY <1>2, <2>2, <2>10 DEF Install, Enter, Job
    <3>2. file <= job[w].version /\ job[w].version <= products
      BY <2>2, <3>1 DEF BuildsNewer, Building
    <3>3. BuildsNewer(w)'
      BY <2>3, <3>1, <3>2 DEF BuildsNewer
    <3> QED
      BY <1>2, <1>3, <2>3, <3>1, <3>2, <3>3
  <2>11. ASSUME job'[w].at \notin Building, UNCHANGED <<products, file, fed>>,
                memory' \in {memory, Loaded}
         PROVE  After
    <3>1. BuildsNewer(w)'
      BY <2>11 DEF BuildsNewer, Building
    <3> QED
      BY <1>2, <1>3, <2>1, <2>4, <2>11, <3>1
  <2>12. IdleJob.at \notin Building
    BY DEF IdleJob, Building
  <2>13. CASE WriteFails(w) \/ Backfill(w)
    BY <1>2, <2>11, <2>12, <2>13 DEF WriteFails, Backfill, Leave
  <2>14. CASE Boot(w)
    <3>1. job'[w].at = "check" /\ UNCHANGED <<products, file, memory, fed>>
      BY <1>2, <2>2, <2>14 DEF Boot, Job
    <3> QED
      BY <2>11, <3>1 DEF Building
  <2>15. CASE ReadRows(w)
    <3> DEFINE label == IF Empty(Loaded) THEN "build" ELSE "serve"
    <3>1. label \notin Building
      BY DEF Building
    <3> HIDE DEF label
    <3>2. job'[w].at = label /\ memory' = Loaded /\ UNCHANGED <<products, file, fed>>
      BY <1>2, <2>2, <2>15 DEF ReadRows, Job, label
    <3> QED
      BY <2>11, <3>1, <3>2
  <2>16. CASE ServeFeed(w)
    <3>1. /\ job'[w] = IdleJob /\ UNCHANGED <<products, file, memory>>
          /\ fed' \in {fed, memory} /\ (fed' = memory => memory # 0 \/ fed' = fed)
      BY <1>2, <2>16 DEF ServeFeed, Leave, Empty
    <3>2. BuildsNewer(w)'
      BY <2>12, <3>1 DEF BuildsNewer, Building
    <3> QED
      BY <1>2, <1>3, <3>1, <3>2
  <2> QED
    BY <1>7, <2>6, <2>7, <2>8, <2>9, <2>10, <2>13, <2>14, <2>15, <2>16 DEF IndexStep
<1> QED
  BY <1>4, <1>5, <1>6, <1>7, IndexMoves DEF IndexMove

\* What the feed answers never goes back to an older catalogue, although
\* writes fail, warm-ups are given up and the server is killed: memory is set
\* only after the file, so the next start finds at least what has been served
\* (build in app/catalog_index.py, catalog_feed in app/agent_feed.py).
THEOREM FeedGoesForward ==
    ASSUME OneAtATime
    PROVE  StoreSpec => FeedNeverGoesBack
<1>1. StoreInit => FeedInv
  <2> SUFFICES ASSUME StoreInit PROVE FeedInv
    OBVIOUS
  <2>1. \A w \in Worker : BuildsNewer(w)
    BY DEF StoreInit, IndexInit, IdleJob, BuildsNewer, Building
  <2> QED
    BY <2>1, IndexInitInv DEF StoreInit, IndexInit, FeedInv
<1>2. FeedInv /\ [StoreNext]_storeVars => FeedInv' /\ [fed' >= fed]_indexVars
  BY FeedInvNext
<1> QED
  BY <1>1, <1>2, PTL DEF StoreSpec, FeedNeverGoesBack

-----------------------------------------------------------------------------
(***************************************************************************)
(* The listings of the market.                                             *)
(***************************************************************************)
LEMMA MaxOfTwo ==
    ASSUME NEW a \in Int, NEW b \in Int
    PROVE  Max({a, b}) \in {a, b} /\ Max({a, b}) >= a /\ Max({a, b}) >= b
<1>1. PICK m \in {a, b} : \A x \in {a, b} : m >= x
  <2>1. CASE a >= b
    BY <2>1
  <2>2. CASE ~(a >= b)
    BY <2>2
  <2> QED
    BY <2>1, <2>2
<1>2. Max({a, b}) \in {a, b} /\ \A x \in {a, b} : Max({a, b}) >= x
  BY <1>1 DEF Max
<1> QED
  BY <1>2

LEMMA MinOfTwo ==
    ASSUME NEW a \in Nat, NEW b \in Nat
    PROVE  /\ Min({a, b}) \in Nat /\ Min({a, b}) <= a /\ Min({a, b}) <= b
           /\ Min({a, b}) = a \/ Min({a, b}) = b
<1>1. {a, b} \in SUBSET Nat /\ {a, b} # {}
  OBVIOUS
<1>2. Min({a, b}) \in {a, b} /\ \A x \in {a, b} : Min({a, b}) <= x
  BY <1>1, MinOfNaturals
<1> QED
  BY <1>2

LEMMA MaxOfMany ==
    ASSUME NEW n \in Nat, NEW S \in SUBSET (0 .. n), S # {}
    PROVE  Max(S) \in S /\ \A x \in S : x <= Max(S)
<1> DEFINE T == {n - x : x \in S}
<1>1. T \in SUBSET Nat /\ T # {}
  <2>1. ASSUME NEW x \in S PROVE n - x \in Nat
    <3>1. x \in 0 .. n
      OBVIOUS
    <3> QED
      BY <3>1
  <2>2. T \subseteq Nat
    BY <2>1, Zenon
  <2>3. PICK x \in S : TRUE
    OBVIOUS
  <2>4. n - x \in T
    BY <2>3, Zenon
  <2> QED
    BY <2>2, <2>4
<1>2. Min(T) \in T /\ \A t \in T : Min(T) <= t
  BY <1>1, MinOfNaturals
<1>3. PICK m \in S : Min(T) = n - m
  BY <1>2
<1>4. ASSUME NEW x \in S PROVE m >= x
  <2>1. n - m <= n - x
    BY <1>2, <1>3
  <2> QED
    BY <2>1
<1>5. Max(S) \in S /\ \A x \in S : Max(S) >= x
  BY <1>4 DEF Max
<1>6. \A x, y \in S : x \in Int /\ y \in Int /\ (y >= x => x <= y)
  OBVIOUS
<1> QED
  BY <1>5, <1>6

LEMMA FirstThreeIs ==
    ASSUME NEW T, NEW s \in Seq(T)
    PROVE  /\ FirstThree(s) \in Seq(T)
           /\ Len(FirstThree(s)) <= 3
           /\ DOMAIN FirstThree(s) \subseteq DOMAIN s
           /\ \A i \in DOMAIN FirstThree(s) : FirstThree(s)[i] = s[i] /\ i \in 1 .. 3
           /\ Len(s) <= 3 => FirstThree(s) = s
           /\ FirstThree(s) = <<>> <=> s = <<>>
<1> DEFINE n == Min({3, Len(s)})
           t == FirstThree(s)
<1>1. Len(s) \in Nat /\ 3 \in Nat
  BY LenProperties
<1>2. n \in Nat /\ n <= 3 /\ n <= Len(s) /\ (n = 3 \/ n = Len(s))
  BY <1>1, MinOfTwo
<1> HIDE DEF n
<1>3. DOMAIN s = 1 .. Len(s) /\ \A i \in 1 .. Len(s) : s[i] \in T
  BY LenProperties
<1>4. /\ t \in Seq(T) /\ Len(t) = n
      /\ \A i \in 1 .. n : t[i] = s[i]
  <2>1. t = SubSeq(s, 1, n)
    BY DEF FirstThree, n
  <2>2. \A i \in 1 .. n : s[i] \in T
    <3>1. \A i \in 1 .. n : i \in 1 .. Len(s)
      BY <1>1, <1>2
    <3>2. \A i \in 1 .. Len(s) : s[i] \in T
      BY <1>3
    <3> QED
      BY <3>1, <3>2
  <2>3. /\ SubSeq(s, 1, n) \in Seq(T)
        /\ Len(SubSeq(s, 1, n)) = IF 1 <= n THEN n - 1 + 1 ELSE 0
        /\ \A i \in 1 .. n - 1 + 1 : SubSeq(s, 1, n)[i] = s[1 + i - 1]
    <3>1. 1 \in Int /\ n \in Int
      BY <1>2
    <3> QED
      BY <2>2, <3>1, SubSeqProperties
  <2>4. n - 1 + 1 = n /\ (~(1 <= n) => n = 0) /\ \A i \in 1 .. n : 1 + i - 1 = i
    BY <1>2
  <2> HIDE DEF t
  <2> QED
    BY <2>1, <2>3, <2>4
<1> HIDE DEF t
<1>5. DOMAIN t = 1 .. n
  BY <1>4, LenProperties
<1>6. Len(s) <= 3 => t = s
  <2> SUFFICES ASSUME Len(s) <= 3 PROVE t = s
    OBVIOUS
  <2>1. n = Len(s)
    BY <1>1, <1>2
  <2>2. Len(t) = Len(s) /\ \A i \in 1 .. Len(t) : t[i] = s[i]
    BY <1>4, <2>1
  <2> QED
    BY <1>4, <2>2, SeqEqual
<1>7. t = <<>> <=> s = <<>>
  <2>1. t = <<>> <=> Len(t) = 0
    BY <1>4, EmptySeq
  <2>2. s = <<>> <=> Len(s) = 0
    BY EmptySeq
  <2>3. n = 0 <=> Len(s) = 0
    BY <1>1, <1>2
  <2> QED
    BY <1>4, <2>1, <2>2, <2>3
<1>8. \A i \in 1 .. n : i \in 1 .. Len(s) /\ i \in 1 .. 3
  BY <1>1, <1>2
<1>9. DOMAIN t \subseteq DOMAIN s /\ \A i \in DOMAIN t : t[i] = s[i] /\ i \in 1 .. 3
  BY <1>3, <1>4, <1>5, <1>8
<1> QED
  BY <1>2, <1>4, <1>6, <1>7, <1>9 DEF t

LEMMA QueriesAre ==
    ASSUME NEW q \in Query
    PROVE  /\ q.category \in STRING /\ q.items \in SUBSET STRING
           /\ q.features \in SUBSET STRING /\ q.budget \in Nat
  BY MarketAssumption DEF Requirements

LEMMA RankScoreType ==
    ASSUME NEW l \in Listing, NEW q \in Query
    PROVE  RankScore(l, q) \in Int
<1>1. l.price \in Nat /\ l.relevance \in Int /\ q.budget \in Nat
  BY QueriesAre DEF Listing
<1>2. Closeness(l, q) \in Int
  <2>1. CASE q.budget = 0
    BY <2>1 DEF Closeness
  <2>2. CASE q.budget # 0
    <3> DEFINE off == Max({l.price - q.budget, q.budget - l.price})
               part == (300 * off) \div q.budget
    <3>1. off \in Int
      <4>1. l.price - q.budget \in Int /\ q.budget - l.price \in Int
        BY <1>1
      <4> QED
        BY <4>1, MaxOfTwo
    <3> HIDE DEF off
    <3>2. part \in Int
      BY <1>1, <2>2, <3>1
    <3> HIDE DEF part
    <3>3. 300 - part \in Int
      BY <3>2
    <3>4. Max({0, 300 - part}) \in Int
      <4>1. 0 \in Int
        OBVIOUS
      <4>2. Max({0, 300 - part}) \in {0, 300 - part}
        BY <3>3, <4>1, MaxOfTwo
      <4> QED
        BY <3>3, <4>1, <4>2
    <3> QED
      BY <2>2, <3>4 DEF Closeness, part, off
  <2> QED
    BY <2>1, <2>2
<1> QED
  BY <1>1, <1>2 DEF RankScore

\* Two listings that stay are of different products.
LEMMA KeptDiffer ==
    ASSUME NEW found \in Seq(Listing), NEW q \in Query,
           NEW i \in Kept(found, q), NEW j \in Kept(found, q), i # j
    PROVE  found[i].key # found[j].key
<1>1. /\ i \in DOMAIN found /\ j \in DOMAIN found /\ Winner(found, i) /\ Winner(found, j)
  BY DEF Kept
<1>2. /\ found[i].rating \in Int /\ found[i].price \in Int /\ i \in Int
      /\ found[j].rating \in Int /\ found[j].price \in Int /\ j \in Int
  <2>1. /\ DOMAIN found = 1 .. Len(found) /\ Len(found) \in Nat
        /\ found[i] \in Listing /\ found[j] \in Listing
    BY <1>1, LenProperties
  <2> QED
    BY <1>1, <2>1 DEF Listing
<1> SUFFICES ASSUME found[i].key = found[j].key PROVE FALSE
  OBVIOUS
<1>3. Better(found[i], found[j]) \/ (~Better(found[j], found[i]) /\ i < j)
  BY <1>1 DEF Winner
<1>4. Better(found[j], found[i]) \/ (~Better(found[i], found[j]) /\ j < i)
  BY <1>1 DEF Winner
<1> QED
  BY <1>2, <1>3, <1>4 DEF Better

LEMMA FirstSeenIs ==
    ASSUME NEW found \in Seq(Listing), NEW i \in DOMAIN found
    PROVE  /\ FirstSeen(found, i) \in DOMAIN found
           /\ found[FirstSeen(found, i)].key = found[i].key
           /\ FirstSeen(found, i) \in Int
<1> DEFINE S == {j \in DOMAIN found : found[j].key = found[i].key}
<1>1. S \in SUBSET Nat /\ S # {}
  BY LenProperties
<1>2. Min(S) \in S
  BY <1>1, MinOfNaturals
<1> QED
  BY <1>1, <1>2 DEF FirstSeen

\* What discover ranks: the listings that stay, better ones first.
LEMMA RankedIs ==
    ASSUME NEW found \in Seq(Listing), NEW q \in Query
    PROVE  /\ Ranked(found, q) \in Seq(Listing)
           /\ \A k \in DOMAIN Ranked(found, q) :
                \E i \in Kept(found, q) : Ranked(found, q)[k] = found[i]
           /\ \A k, m \in DOMAIN Ranked(found, q) : k < m =>
                /\ Ranked(found, q)[k].key # Ranked(found, q)[m].key
                /\ RankScore(Ranked(found, q)[k], q) >= RankScore(Ranked(found, q)[m], q)
<1> DEFINE kept == Kept(found, q)
           R == {ij \in kept \X kept : FitsBetter(found, q, ij[1], ij[2])}
           order == InOrder(kept, R)
           r == Ranked(found, q)
<1>1. /\ DOMAIN found = 1 .. Len(found) /\ Len(found) \in Nat
      /\ \A i \in DOMAIN found : found[i] \in Listing
  BY LenProperties
<1>2. kept \subseteq DOMAIN found
  BY DEF Kept
<1>3. IsFiniteSet(kept)
  <2>1. IsFiniteSet(1 .. Len(found))
    BY <1>1, FS_Interval
  <2> QED
    BY <1>1, <1>2, <2>1, FS_Subset
<1>4. ASSUME NEW i \in kept, NEW j \in kept
      PROVE  <<i, j>> \in R <=> FitsBetter(found, q, i, j)
  OBVIOUS
<1>5. ASSUME NEW i \in kept
      PROVE  /\ RankScore(found[i], q) \in Int /\ FirstSeen(found, i) \in Int
             /\ found[i] \in Listing
  BY <1>1, <1>2, RankScoreType, FirstSeenIs
<1>6. ASSUME NEW i \in kept, NEW j \in kept, i # j
      PROVE  FirstSeen(found, i) # FirstSeen(found, j)
  BY <1>2, <1>6, KeptDiffer, FirstSeenIs
<1> HIDE DEF R, kept
<1>7. Orders(kept, R)
  <2>1. ASSUME NEW i \in kept PROVE <<i, i>> \notin R
    BY <1>4, <1>5 DEF FitsBetter
  <2>2. ASSUME NEW i \in kept, NEW j \in kept, NEW k \in kept,
               <<i, j>> \in R, <<j, k>> \in R
        PROVE  <<i, k>> \in R
    <3>1. FitsBetter(found, q, i, j) /\ FitsBetter(found, q, j, k)
      BY <1>4, <2>2
    <3>2. FitsBetter(found, q, i, k)
      BY <1>5, <3>1 DEF FitsBetter
    <3> QED
      BY <1>4, <3>2
  <2>3. ASSUME NEW i \in kept, NEW j \in kept, i # j
        PROVE  <<i, j>> \in R \/ <<j, i>> \in R
    <3>1. FitsBetter(found, q, i, j) \/ FitsBetter(found, q, j, i)
      BY <1>5, <1>6, <2>3 DEF FitsBetter
    <3> QED
      BY <1>4, <3>1
  <2> QED
    BY <2>1, <2>2, <2>3 DEF Orders
<1>8. /\ order \in Seq(kept)
      /\ \A k, m \in DOMAIN order : k < m => <<order[k], order[m]>> \in R
  BY <1>3, <1>7, InOrderIs
<1>9. r = [k \in DOMAIN order |-> found[order[k]]]
  BY DEF Ranked, R, kept
<1> HIDE DEF order, r
<1>10. /\ DOMAIN order = 1 .. Len(order) /\ Len(order) \in Nat
       /\ \A k \in DOMAIN order : order[k] \in kept
  BY <1>8, LenProperties
<1>11. DOMAIN r = DOMAIN order /\ \A k \in DOMAIN order : r[k] = found[order[k]]
  BY <1>9
<1>12. r \in Seq(Listing)
  <2>1. r \in [1 .. Len(order) -> Listing]
    BY <1>5, <1>9, <1>10
  <2> QED
    BY <1>10, <2>1, SeqDef
<1>13. ASSUME NEW k \in DOMAIN r, NEW m \in DOMAIN r, k < m
       PROVE  r[k].key # r[m].key /\ RankScore(r[k], q) >= RankScore(r[m], q)
  <2>1. <<order[k], order[m]>> \in R /\ order[k] \in kept /\ order[m] \in kept
    BY <1>8, <1>10, <1>11, <1>13
  <2>2. FitsBetter(found, q, order[k], order[m])
    BY <1>4, <2>1
  <2>3. order[k] # order[m]
    BY <1>5, <2>1, <2>2 DEF FitsBetter
  <2>4. found[order[k]].key # found[order[m]].key
    BY <2>1, <2>3, KeptDiffer DEF kept
  <2>5. RankScore(found[order[k]], q) >= RankScore(found[order[m]], q)
    BY <1>5, <2>1, <2>2 DEF FitsBetter
  <2> QED
    BY <1>11, <2>4, <2>5
<1> QED
  BY <1>10, <1>11, <1>12, <1>13 DEF r, kept

\* What is recommended: at most three of the listings found, that fit the
\* query, each of a product of its own, the better fit first.
FitsQuery(recs, q) ==
    \A i \in DOMAIN recs :
        /\ recs[i].availability # "out_of_stock"
        /\ q.budget # 0 => recs[i].price <= q.budget
        /\ \A j \in 1 .. i - 1 :
             /\ recs[j].key # recs[i].key
             /\ RankScore(recs[j], q) >= RankScore(recs[i], q)

LEMMA RecommendationsAre ==
    ASSUME NEW found \in Seq(Listing), NEW q \in Query
    PROVE  /\ Recommendations(found, q) \in Seq(Listing)
           /\ Len(Recommendations(found, q)) <= 3
           /\ FitsQuery(Recommendations(found, q), q)
           /\ \A k \in DOMAIN Recommendations(found, q) :
                \E i \in DOMAIN found : Recommendations(found, q)[k] = found[i]
<1> DEFINE all == Ranked(found, q)
           r == FirstThree(all)
<1>1. /\ all \in Seq(Listing)
      /\ \A k \in DOMAIN all : \E i \in Kept(found, q) : all[k] = found[i]
      /\ \A k, m \in DOMAIN all : k < m =>
           /\ all[k].key # all[m].key
           /\ RankScore(all[k], q) >= RankScore(all[m], q)
  BY RankedIs
<1> HIDE DEF all
<1>2. /\ r \in Seq(Listing) /\ Len(r) <= 3 /\ DOMAIN r \subseteq DOMAIN all
      /\ \A k \in DOMAIN r : r[k] = all[k]
  BY <1>1, FirstThreeIs
<1> HIDE DEF r
<1>3. DOMAIN r = 1 .. Len(r) /\ Len(r) \in Nat
  BY <1>2, LenProperties
<1>4. ASSUME NEW k \in DOMAIN r
      PROVE  \E i \in DOMAIN found : r[k] = found[i] /\ MeetsHardConstraints(found[i], q)
  BY <1>1, <1>2 DEF Kept
<1>5. ASSUME NEW k \in DOMAIN r, NEW j \in 1 .. k - 1
      PROVE  r[j].key # r[k].key /\ RankScore(r[j], q) >= RankScore(r[k], q)
  <2>1. j \in DOMAIN r /\ j < k
    BY <1>3
  <2> QED
    BY <1>1, <1>2, <2>1
<1>6. FitsQuery(r, q)
  <2>1. ASSUME NEW k \in DOMAIN r
        PROVE  /\ r[k].availability # "out_of_stock"
               /\ q.budget # 0 => r[k].price <= q.budget
    BY <1>4 DEF MeetsHardConstraints
  <2> QED
    BY <1>5, <2>1 DEF FitsQuery
<1> QED
  BY <1>2, <1>4, <1>6 DEF Recommendations, r, all

-----------------------------------------------------------------------------
(***************************************************************************)
(* The cache of market answers.                                            *)
(***************************************************************************)
Row == [query : Query, results : Seq(Listing), expires : Nat]

\* A row answers something, and expires with the listings it holds.
Honest(row) ==
    /\ row.results # <<>> /\ Len(row.results) <= 3
    /\ \A i \in DOMAIN row.results : row.expires <= row.results[i].found + CacheTTL

Closest(rows, q, now, threshold) ==
    {i \in UsableRows(rows, q, now, threshold) :
        \A j \in UsableRows(rows, q, now, threshold) :
            Similarity[<<q, rows[i].query>>] >= Similarity[<<q, rows[j].query>>]}

LEMMA SimilarityIs ==
    ASSUME NEW rows \in Seq(Row), NEW q \in Query, NEW i \in DOMAIN rows
    PROVE  /\ rows[i] \in Row /\ i \in Nat \ {0} /\ i <= Len(rows)
           /\ Similarity[<<q, rows[i].query>>] \in 0 .. 100
           /\ Similarity[<<q, rows[i].query>>] \in Int
<1>1. DOMAIN rows = 1 .. Len(rows) /\ Len(rows) \in Nat /\ rows[i] \in Row
  BY LenProperties
<1> DEFINE pair == <<q, rows[i].query>>
<1>2. pair \in Query \X Query
  BY <1>1 DEF Row
<1> HIDE DEF pair
<1>3. \A n \in 0 .. 100 : n \in Int
  OBVIOUS
<1>4. Similarity[pair] \in 0 .. 100
  BY <1>2, MarketAssumption
<1>5. Similarity[pair] \in Int
  BY <1>3, <1>4
<1> QED
  BY <1>1, <1>4, <1>5 DEF pair

LEMMA ClosestExist ==
    ASSUME NEW rows \in Seq(Row), NEW q \in Query, NEW now, NEW threshold,
           UsableRows(rows, q, now, threshold) # {}
    PROVE  /\ Closest(rows, q, now, threshold) \in SUBSET (1 .. Len(rows))
           /\ Closest(rows, q, now, threshold) # {}
<1> DEFINE usable == UsableRows(rows, q, now, threshold)
           likeness == {Similarity[<<q, rows[i].query>>] : i \in usable}
<1>1. usable \subseteq DOMAIN rows
  BY DEF UsableRows
<1>2. likeness \in SUBSET (0 .. 100) /\ likeness # {} /\ 100 \in Nat
  BY <1>1, SimilarityIs
<1>3. Max(likeness) \in likeness /\ \A x \in likeness : x <= Max(likeness)
  <2> HIDE DEF likeness
  <2> QED
    BY <1>2, MaxOfMany
<1>4. PICK i \in usable : Max(likeness) = Similarity[<<q, rows[i].query>>]
  BY <1>3
<1>5. ASSUME NEW j \in usable
      PROVE  Similarity[<<q, rows[i].query>>] >= Similarity[<<q, rows[j].query>>]
  <2>1. Similarity[<<q, rows[j].query>>] <= Similarity[<<q, rows[i].query>>]
    BY <1>3, <1>4
  <2>2. ASSUME NEW k \in usable PROVE Similarity[<<q, rows[k].query>>] \in Int
    BY <1>1, SimilarityIs
  <2> QED
    BY <2>1, <2>2
<1>6. i \in Closest(rows, q, now, threshold)
  BY <1>5 DEF Closest
<1> QED
  BY <1>1, <1>6, LenProperties DEF Closest

LEMMA LookupIs ==
    ASSUME NEW rows \in Seq(Row), NEW q \in Query, NEW now, NEW threshold,
           Lookup(rows, q, now, threshold) # 0
    PROVE  /\ Lookup(rows, q, now, threshold) \in DOMAIN rows
           /\ rows[Lookup(rows, q, now, threshold)].expires > now
<1> DEFINE best == Closest(rows, q, now, threshold)
           row == Lookup(rows, q, now, threshold)
<1>1. UsableRows(rows, q, now, threshold) # {} /\ row = Max(best)
  BY DEF Lookup, Closest
<1>2. best \in SUBSET (1 .. Len(rows)) /\ best # {}
  BY <1>1, ClosestExist
<1>3. best \subseteq UsableRows(rows, q, now, threshold)
  BY DEF Closest
<1> HIDE DEF best, row
<1>4. Len(rows) \in Nat /\ best \in SUBSET (0 .. Len(rows))
  BY <1>2, LenProperties
<1>5. row \in best
  BY <1>1, <1>2, <1>4, MaxOfMany
<1> QED
  BY <1>3, <1>5 DEF row, UsableRows

\* A stricter threshold finds the same row or none.
LEMMA StricterLookup ==
    ASSUME NEW rows \in Seq(Row), NEW q \in Query, NEW now,
           NEW low \in 0 .. 100, NEW high \in 0 .. 100, low <= high,
           Lookup(rows, q, now, high) # 0
    PROVE  Lookup(rows, q, now, low) = Lookup(rows, q, now, high)
<1> DEFINE few == UsableRows(rows, q, now, high)
           many == UsableRows(rows, q, now, low)
           like(i) == Similarity[<<q, rows[i].query>>]
<1>1. few # {} /\ Meaningful(q)
  BY DEF Lookup
<1>2. \A i \in DOMAIN rows : like(i) \in Int
  BY SimilarityIs
<1>3. PICK l \in Int : l = Max({low, 1}) /\ l <= Max({high, 1})
  <2>1. /\ low \in Int /\ high \in Int /\ 1 \in Int /\ low <= high
    OBVIOUS
  <2>2. /\ Max({low, 1}) \in {low, 1}
        /\ Max({high, 1}) >= high /\ Max({high, 1}) >= 1 /\ Max({high, 1}) \in {high, 1}
    BY <2>1, MaxOfTwo
  <2>3. Max({low, 1}) \in Int /\ Max({low, 1}) <= Max({high, 1})
    BY <2>1, <2>2
  <2> QED
    BY <2>3
<1>4. PICK h \in Int : h = Max({high, 1})
  <2>1. high \in Int /\ 1 \in Int
    OBVIOUS
  <2>2. Max({high, 1}) \in {high, 1}
    BY <2>1, MaxOfTwo
  <2> QED
    BY <2>1, <2>2
<1>5. l <= h
  BY <1>3, <1>4
<1>6. /\ few \subseteq DOMAIN rows /\ many \subseteq DOMAIN rows
      /\ \A i \in DOMAIN rows : i \in few <=> i \in many /\ like(i) >= h
  <2>1. ASSUME NEW i \in DOMAIN rows PROVE i \in few <=> i \in many /\ like(i) >= h
    <3>1. like(i) >= h => like(i) >= l
      BY <1>2, <1>5
    <3> HIDE DEF like
    <3>2. i \in few <=>
             /\ i > Len(rows) - CacheWindow /\ rows[i].expires > now
             /\ ~OtherItems(q, rows[i].query) /\ like(i) >= h
      BY <1>4 DEF UsableRows, like
    <3>3. i \in many <=>
             /\ i > Len(rows) - CacheWindow /\ rows[i].expires > now
             /\ ~OtherItems(q, rows[i].query) /\ like(i) >= l
      BY <1>3 DEF UsableRows, like
    <3> QED
      BY <3>1, <3>2, <3>3
  <2> QED
    BY <2>1 DEF UsableRows
<1> DEFINE top == {i \in few : \A j \in few : like(i) >= like(j)}
           all == {i \in many : \A j \in many : like(i) >= like(j)}
<1>7. top # {}
  BY <1>1, ClosestExist DEF Closest
<1> HIDE DEF few, many, like
<1>8. ASSUME NEW i \in top, NEW j \in many PROVE like(i) >= like(j)
  <2>1. CASE j \in few
    BY <2>1
  <2>2. CASE j \notin few
    <3>1. ~(like(j) >= h) /\ like(i) >= h
      BY <1>6, <2>2
    <3> QED
      BY <1>2, <1>6, <3>1
  <2> QED
    BY <2>1, <2>2
<1>9. ASSUME NEW i \in all PROVE i \in top
  <2>1. PICK b \in top : TRUE
    BY <1>7
  <2>2. like(i) >= like(b) /\ like(b) >= h
    BY <1>6, <2>1
  <2>3. like(i) >= h
    BY <1>2, <1>6, <2>1, <2>2
  <2>4. i \in few
    BY <1>6, <2>3
  <2> QED
    BY <1>6, <2>4
<1>10. top = all
  BY <1>6, <1>8, <1>9
<1>11. few # {} /\ many # {}
  BY <1>1, <1>6
<1> QED
  BY <1>1, <1>10, <1>11 DEF Lookup, few, many, like

\* The type of a query does not matter to the cache, where it is the category.
LEMMA SameLookup ==
    ASSUME NEW rows \in Seq(Row), NEW q \in Query, NEW r \in Query, SameWords(q, r),
           q.type = q.category, NEW now, NEW threshold,
           Lookup(rows, q, now, threshold) # 0
    PROVE  Lookup(rows, r, now, threshold) = Lookup(rows, q, now, threshold)
<1>1. /\ r.category = q.category /\ r.brand = q.brand /\ r.items = q.items
      /\ r.features = q.features /\ r.budget = q.budget
  <2>1. q \in Requirements /\ r \in Requirements
    BY MarketAssumption
  <2>2. /\ [q EXCEPT !.type = ""].category = q.category /\ [r EXCEPT !.type = ""].category = r.category
        /\ [q EXCEPT !.type = ""].brand = q.brand /\ [r EXCEPT !.type = ""].brand = r.brand
        /\ [q EXCEPT !.type = ""].items = q.items /\ [r EXCEPT !.type = ""].items = r.items
        /\ [q EXCEPT !.type = ""].features = q.features
        /\ [r EXCEPT !.type = ""].features = r.features
        /\ [q EXCEPT !.type = ""].budget = q.budget /\ [r EXCEPT !.type = ""].budget = r.budget
    BY <2>1 DEF Requirements
  <2> QED
    BY <2>2 DEF SameWords
<1>2. ASSUME NEW i \in DOMAIN rows
      PROVE  /\ Similarity[<<r, rows[i].query>>] = Similarity[<<q, rows[i].query>>]
             /\ OtherItems(r, rows[i].query) = OtherItems(q, rows[i].query)
  <2>1. rows[i].query \in Query
    BY SimilarityIs DEF Row
  <2> QED
    BY <1>1, <2>1, MarketAssumption DEF OtherItems
<1> DEFINE usable == UsableRows(rows, q, now, threshold)
<1>3. UsableRows(rows, r, now, threshold) = usable
  BY <1>2 DEF UsableRows
<1>4. usable \subseteq DOMAIN rows
  BY DEF UsableRows
<1> HIDE DEF usable
<1>5. Closest(rows, r, now, threshold) = Closest(rows, q, now, threshold)
  BY <1>2, <1>3, <1>4 DEF Closest, usable
<1>6. usable # {} /\ Meaningful(q)
  BY DEF Lookup, usable
<1>7. Meaningful(r)
  BY <1>1, <1>6 DEF Meaningful
<1> QED
  BY <1>3, <1>5, <1>6, <1>7 DEF Lookup, Closest, usable

-----------------------------------------------------------------------------
(***************************************************************************)
(* The shop's own products.                                                *)
(***************************************************************************)
LEMMA CaptureScoreType ==
    ASSUME NEW c, IsCatalogue(c), NEW s \in DOMAIN c, NEW q \in Query
    PROVE  CaptureScore(c, s, q) \in Int /\ s \in Nat
<1>1. s \in Product /\ c[s].price \in Nat /\ c[s].stock \in Nat /\ q.budget \in Nat
  BY QueriesAre DEF IsCatalogue, Offer
<1>2. PriceScore(c[s].price, q.budget) \in Int
  <2> DEFINE p == c[s].price
             b == q.budget
             part == (150 * (p - b)) \div b
  <2>1. p \in Nat /\ b \in Nat
    BY <1>1
  <2> HIDE DEF p, b
  <2>2. CASE b = 0 \/ 10 * p <= 8 * b \/ p <= b
    <3>1. PriceScore(p, b) \in {120, 150, 105}
      BY <2>1, <2>2 DEF PriceScore
    <3> QED
      BY <3>1 DEF p, b
  <2>3. CASE ~(b = 0 \/ 10 * p <= 8 * b \/ p <= b)
    <3>1. PriceScore(p, b) = Max({0, 75 - part})
      BY <2>1, <2>3 DEF PriceScore
    <3>2. part \in Int
      BY <2>1, <2>3
    <3> HIDE DEF part
    <3>3. 0 \in Int /\ 75 - part \in Int
      BY <3>2
    <3>4. Max({0, 75 - part}) \in {0, 75 - part}
      BY <3>3, MaxOfTwo
    <3> QED
      BY <3>1, <3>3, <3>4 DEF p, b
  <2> QED
    BY <2>2, <2>3
<1>3. StockScore(c[s].stock) \in Int
  <2>1. Min({10, c[s].stock}) \in Nat
    BY <1>1, MinOfTwo
  <2> QED
    BY <2>1 DEF StockScore
<1>4. Fit[<<s, q>>] \in Int
  <2> DEFINE pair == <<s, q>>
  <2>1. pair \in Product \X Query
    BY <1>1
  <2> HIDE DEF pair
  <2>2. Fit[pair] \in 0 .. 750
    BY <2>1, MerchandisingAssumption
  <2>3. \A n \in 0 .. 750 : n \in Int
    OBVIOUS
  <2>4. Fit[pair] \in Int
    BY <2>2, <2>3
  <2> QED
    BY <2>4 DEF pair
<1>5. s \in Nat
  BY <1>1, MerchandisingAssumption
<1> QED
  BY <1>2, <1>3, <1>4, <1>5 DEF CaptureScore

LEMMA TopMatchesAre ==
    ASSUME NEW c, IsCatalogue(c), NEW q \in Query
    PROVE  /\ TopMatches(c, q) \in Seq(DOMAIN c)
           /\ Len(TopMatches(c, q)) <= 3
<1> DEFINE captured == {s \in DOMAIN c : Captured(c, s, q)}
           R == {st \in captured \X captured : Preferred(c, q, st[1], st[2])}
<1>1. IsFiniteSet(captured) /\ captured \subseteq DOMAIN c
  BY FS_Subset DEF IsCatalogue
<1>2. ASSUME NEW s \in captured, NEW t \in captured
      PROVE  <<s, t>> \in R <=> Preferred(c, q, s, t)
  OBVIOUS
<1> HIDE DEF captured, R
<1>3. \A s \in captured : CaptureScore(c, s, q) \in Int /\ s \in Int
  BY <1>1, CaptureScoreType
<1>4. Orders(captured, R)
  <2>1. ASSUME NEW s \in captured PROVE ~Preferred(c, q, s, s)
    BY <1>3 DEF Preferred
  <2>2. ASSUME NEW s \in captured, NEW t \in captured, NEW u \in captured,
               Preferred(c, q, s, t), Preferred(c, q, t, u)
        PROVE  Preferred(c, q, s, u)
    BY <1>3, <2>2 DEF Preferred
  <2>3. ASSUME NEW s \in captured, NEW t \in captured, s # t
        PROVE  Preferred(c, q, s, t) \/ Preferred(c, q, t, s)
    BY <1>3, <2>3 DEF Preferred
  <2> QED
    BY <1>2, <2>1, <2>2, <2>3 DEF Orders
<1>5. InOrder(captured, R) \in Seq(captured)
  BY <1>1, <1>4, InOrderIs
<1>6. InOrder(captured, R) \in Seq(DOMAIN c)
  BY <1>1, <1>5, SeqDef
<1>7. TopMatches(c, q) = FirstThree(InOrder(captured, R))
  BY DEF TopMatches, captured, R
<1> QED
  BY <1>6, <1>7, FirstThreeIs

\* The candidates are those of the top matches that are named.
LEMMA CandidatesAre ==
    ASSUME NEW c, IsCatalogue(c), NEW q \in Query
    PROVE  /\ Candidates(c, q) \in Seq(DOMAIN c)
           /\ Candidates(c, q) = <<>> <=> NoMerchantMatch(c, q)
<1> DEFINE top == TopMatches(c, q)
           I == {i \in DOMAIN top : IsNamed(top[i], q)}
<1>1. top \in Seq(DOMAIN c)
  BY TopMatchesAre
<1>2. I \in SUBSET (DOMAIN top) /\ (I = {} <=> NoMerchantMatch(c, q))
  BY DEF NoMerchantMatch
<1>3. Candidates(c, q) = Picked(top, I)
  BY DEF Candidates
<1> HIDE DEF top, I
<1> QED
  BY <1>1, <1>2, <1>3, PickedIs

\* What is suggested can be bought: in stock, within the budget, once, and
\* not in the cart, unless it is the captured product.
CanBeBought(cards, budget, cart) ==
    \A i \in DOMAIN cards :
        /\ cards[i].stock > 0 /\ cards[i].price > 0
        /\ budget # 0 => cards[i].price <= budget
        /\ i > 1 => cards[i].sku \notin cart
        /\ \A j \in 1 .. i - 1 : cards[j].sku # cards[i].sku

LEMMA CardIs ==
    ASSUME NEW c, IsCatalogue(c), NEW s \in DOMAIN c
    PROVE  Card(c, s) \in CardRecord
<1>1. c[s] \in Offer /\ s \in Product
  BY DEF IsCatalogue
<1> QED
  BY <1>1 DEF Card, CardRecord, Offer

LEMMA CardsAre ==
    ASSUME NEW c, IsCatalogue(c), NEW skus \in Seq(DOMAIN c)
    PROVE  /\ [i \in DOMAIN skus |-> Card(c, skus[i])] \in Seq(CardRecord)
           /\ Len([i \in DOMAIN skus |-> Card(c, skus[i])]) = Len(skus)
<1> DEFINE cards == [i \in DOMAIN skus |-> Card(c, skus[i])]
<1>1. DOMAIN skus = 1 .. Len(skus) /\ Len(skus) \in Nat
  BY LenProperties
<1>2. \A i \in DOMAIN skus : skus[i] \in DOMAIN c
  BY LenProperties
<1>3. cards \in [1 .. Len(skus) -> CardRecord]
  BY <1>1, <1>2, CardIs
<1> HIDE DEF cards
<1>4. cards \in Seq(CardRecord)
  BY <1>1, <1>3, SeqDef
<1>5. Len(cards) = Len(skus)
  BY <1>1, <1>3, <1>4, LenProperties
<1> QED
  BY <1>4, <1>5 DEF cards

LEMMA SuggestionListIs ==
    ASSUME NEW cards \in Seq(CardRecord), cards # <<>>, NEW c, IsCatalogue(c),
           NEW budget \in Nat, NEW cart
    PROVE  /\ SuggestionList(cards, c, budget, cart) \in Seq(CardRecord)
           /\ Len(SuggestionList(cards, c, budget, cart)) <= 3
           /\ CanBeBought(SuggestionList(cards, c, budget, cart), budget, cart)
<1> DEFINE usual == Complements[cards[1].sku]
           I == {i \in DOMAIN usual : usual[i] \in DOMAIN c}
           sold == Picked(usual, I)
           more == [i \in DOMAIN sold |-> Card(c, sold[i])]
           list == <<cards[1]>> \o more \o cards
           P == {i \in DOMAIN list : Pushed(list, i, budget, cart)}
           picked == Picked(list, P)
           out == FirstThree(picked)
           May(j) == Payable(list[j], budget) /\ (j > 1 => list[j].sku \notin cart)
<1>1. cards[1] \in CardRecord
  BY EmptySeq, LenProperties
<1>2. usual \in Seq(Product)
  BY <1>1, MerchandisingAssumption DEF CardRecord
<1> HIDE DEF usual
<1>3. I \in SUBSET (DOMAIN usual) /\ \A i \in I : usual[i] \in DOMAIN c
  OBVIOUS
<1> HIDE DEF I
<1>4. sold \in Seq(Product) /\ \A k \in DOMAIN sold : \E i \in I : sold[k] = usual[i]
  BY <1>2, <1>3, PickedIs
<1> HIDE DEF sold
<1>5. sold \in Seq(DOMAIN c)
  <2>1. \A k \in DOMAIN sold : sold[k] \in DOMAIN c
    BY <1>3, <1>4
  <2>2. DOMAIN sold = 1 .. Len(sold) /\ Len(sold) \in Nat
    BY <1>4, LenProperties
  <2>3. sold = [k \in DOMAIN sold |-> sold[k]]
    BY <1>4, SeqDef
  <2>4. sold \in [1 .. Len(sold) -> DOMAIN c]
    BY <2>1, <2>2, <2>3
  <2> QED
    BY <2>2, <2>4, SeqDef
<1>6. more \in Seq(CardRecord)
  BY <1>5, CardsAre
<1> HIDE DEF more
<1>7. list \in Seq(CardRecord)
  <2>1. <<cards[1]>> \in Seq(CardRecord)
    BY <1>1
  <2>2. <<cards[1]>> \o more \in Seq(CardRecord)
    BY <1>6, <2>1, ConcatProperties
  <2> QED
    BY <2>2, ConcatProperties
<1> HIDE DEF list
<1>8. /\ P \in SUBSET (DOMAIN list)
      /\ \A i \in P : Pushed(list, i, budget, cart)
  OBVIOUS
<1> HIDE DEF P
<1>9. /\ picked \in Seq(CardRecord)
      /\ \A k \in DOMAIN picked : \E i \in P : picked[k] = list[i]
      /\ \A k, m \in DOMAIN picked : k < m =>
           \E i, j \in P : i < j /\ picked[k] = list[i] /\ picked[m] = list[j]
  BY <1>7, <1>8, PickedIs
<1> HIDE DEF picked
<1>10. /\ out \in Seq(CardRecord) /\ Len(out) <= 3 /\ DOMAIN out \subseteq DOMAIN picked
       /\ \A k \in DOMAIN out : out[k] = picked[k]
  BY <1>9, FirstThreeIs
<1> HIDE DEF out
<1>11. DOMAIN out = 1 .. Len(out) /\ Len(out) \in Nat
  BY <1>10, LenProperties
<1>12. DOMAIN list = 1 .. Len(list) /\ Len(list) \in Nat
  BY <1>7, LenProperties
<1>13. \A i \in P : May(i) /\ \A j \in 1 .. i - 1 : May(j) => list[j].sku # list[i].sku
  BY <1>8 DEF Pushed
<1>14. ASSUME NEW k \in DOMAIN out, NEW j \in 1 .. k - 1
       PROVE  out[j].sku # out[k].sku /\ out[k].sku \notin cart
  <2>1. j \in DOMAIN out /\ j < k
    BY <1>11
  <2>2. PICK a \in P, b \in P : a < b /\ out[j] = list[a] /\ out[k] = list[b]
    BY <1>9, <1>10, <2>1
  <2>3. a \in 1 .. b - 1 /\ b > 1
    BY <1>8, <1>12, <2>2
  <2>4. May(a) /\ May(b)
    BY <1>13
  <2>5. list[a].sku # list[b].sku
    BY <1>13, <2>3, <2>4
  <2>6. list[b].sku \notin cart
    BY <2>3, <2>4
  <2> QED
    BY <2>2, <2>5, <2>6
<1>15. ASSUME NEW k \in DOMAIN out
       PROVE  Payable(out[k], budget)
  BY <1>9, <1>10, <1>13
<1>16. CanBeBought(out, budget, cart)
  <2>1. ASSUME NEW k \in DOMAIN out, k > 1 PROVE out[k].sku \notin cart
    <3>1. 1 \in 1 .. k - 1
      BY <1>11, <2>1
    <3> QED
      BY <1>14, <3>1
  <2> QED
    BY <1>14, <1>15, <2>1 DEF CanBeBought, Payable
<1>17. SuggestionList(cards, c, budget, cart) = out
  BY DEF SuggestionList, out, picked, P, list, more, sold, I, usual
<1> QED
  BY <1>10, <1>16, <1>17

-----------------------------------------------------------------------------
(***************************************************************************)
(* Searches.  What is known of a search at each of its labels is said of   *)
(* the record alone, so that the steps are lemmas about records.           *)
(***************************************************************************)

\* What Tier 2 looks up is the cascade's reading, what the pipeline or an agent
\* does the query itself, and for a product of the shop what goes with it.
AsksFor(s) ==
    /\ s.at # "idle" => s.query \in Query
    /\ s.at \in {"tier2", "verdict"} =>
         s.asked \in Query /\ s.asked.type = s.asked.category
    /\ s.at \in {"lookup", "market"} =>
         s.asked \in Query /\ (s.todo = <<>> => s.asked = s.query)

\* The steps of the chat's own searches and of the agents' do not mix.
Branches(s) ==
    /\ s.by = "chat" => s.todo = <<>> /\ s.at \notin {"best", "shortlist", "cross"}
    /\ s.at \in {"offer", "record", "suggest"} => s.cards # <<>>
    /\ \A i \in DOMAIN s.todo : s.todo[i] # <<>>

Shows(s) ==
    /\ Len(s.recs) <= 3 /\ Len(s.suggestions) <= 3
    /\ s.cached => s.recs # <<>>
    /\ ~s.cached => FitsQuery(s.recs, s.query)
    /\ s.by = "chat" => CanBeBought(s.suggestions, s.query.budget, s.cart)

Sound(s) == s \in Search /\ AsksFor(s) /\ Branches(s) /\ Shows(s)

SearchInv ==
    /\ clock \in 0 .. MaxTime
    /\ cache \in Seq(Row)
    /\ \A i \in DOMAIN cache : Honest(cache[i])
    /\ history \in [Product \X Product -> [shown : Nat, accepted : Nat]]
    /\ search \in [Worker -> Search]
    /\ \A w \in Worker : Sound(search[w])

LEMMA NothingShown ==
    ASSUME NEW q, NEW budget, NEW cart
    PROVE  FitsQuery(<<>>, q) /\ CanBeBought(<<>>, budget, cart)
  BY DEF FitsQuery, CanBeBought

LEMMA IdleSound == Sound(IdleSearch)
<1>1. IdleSearch \in Search
  BY DEF IdleSearch, Search, SearchLabel
<1>2. AsksFor(IdleSearch) /\ Branches(IdleSearch)
  BY DEF IdleSearch, AsksFor, Branches
<1>3. Shows(IdleSearch)
  <2>1. FitsQuery(<<>>, NoQuery)
    BY NothingShown
  <2> QED
    BY <2>1 DEF IdleSearch, Shows
<1> QED
  BY <1>1, <1>2, <1>3 DEF Sound

LEMMA StartSound ==
    ASSUME NEW t, t \in Search, t.query \in Query, t.by \in {"chat", "agent"},
           \/ /\ t.at \in {"tier2", "match"}
              /\ t.asked \in Query /\ t.asked.type = t.asked.category
           \/ t.at = "lookup" /\ t.asked = t.query,
           t.recs = <<>>, t.suggestions = <<>>, t.todo = <<>>,
           t.cached = FALSE
    PROVE  Sound(t)
<1>1. AsksFor(t) /\ Branches(t)
  BY DEF AsksFor, Branches
<1>2. Shows(t)
  <2>1. FitsQuery(<<>>, t.query) /\ CanBeBought(<<>>, t.query.budget, t.cart)
    BY NothingShown
  <2> QED
    BY <2>1 DEF Shows
<1> QED
  BY <1>1, <1>2 DEF Sound

\* A search that goes on with what it has.
Onward(from, to) ==
    \/ from \in {"tier2", "verdict"} /\ to = "match"
    \/ from \in {"verdict", "cross", "suggest"} /\ to = "reply"
    \/ from = "lookup" /\ to = "market"
    \/ from = "offer" /\ to = "record"
    \/ from = "record" /\ to = "suggest"

LEMMA PassSound ==
    ASSUME NEW s, Sound(s), NEW label \in SearchLabel, Onward(s.at, label)
    PROVE  Sound([s EXCEPT !.at = label])
<1> DEFINE t == [s EXCEPT !.at = label]
<1>1. s \in Search /\ AsksFor(s) /\ Branches(s) /\ Shows(s)
  BY DEF Sound
<1>2. t \in Search
  BY <1>1 DEF Search
<1>3. s = [s EXCEPT !.at = s.at] /\ t.at = label
  BY <1>1 DEF Search
<1>4. /\ t.query = s.query /\ t.asked = s.asked /\ t.todo = s.todo /\ t.by = s.by
      /\ t.recs = s.recs /\ t.suggestions = s.suggestions /\ t.cached = s.cached
      /\ t.cart = s.cart /\ t.cards = s.cards
  BY <1>1 DEF Search
<1> HIDE DEF t
<1>5. AsksFor(t)
  BY <1>1, <1>3, <1>4 DEF AsksFor, Onward
<1>6. Branches(t)
  BY <1>1, <1>3, <1>4 DEF Branches, Onward
<1>7. Shows(t)
  BY <1>1, <1>4 DEF Shows
<1> QED
  BY <1>2, <1>5, <1>6, <1>7 DEF Sound, t

\* Tier 2 shows what it has found in the cache.
LEMMA TierTwoSound ==
    ASSUME NEW s, Sound(s), s.at = "tier2",
           NEW recs \in Seq(Listing), Len(recs) <= 3, recs # <<>>
    PROVE  Sound([s EXCEPT !.at = "verdict", !.cached = TRUE, !.recs = recs])
<1> DEFINE t == [s EXCEPT !.at = "verdict", !.cached = TRUE, !.recs = recs]
<1>1. s \in Search /\ AsksFor(s) /\ Branches(s) /\ Shows(s)
  BY DEF Sound
<1>2. t \in Search
  BY <1>1 DEF Search, SearchLabel
<1>3. /\ t.at = "verdict" /\ t.cached = TRUE /\ t.recs = recs
  BY <1>1 DEF Search
<1>4. /\ t.by = s.by /\ t.query = s.query /\ t.cart = s.cart
      /\ t.asked = s.asked /\ t.cards = s.cards /\ t.suggestions = s.suggestions
      /\ t.offer = s.offer /\ t.todo = s.todo
  BY <1>1 DEF Search
<1> HIDE DEF t
<1>5. AsksFor(t) /\ Branches(t)
  BY <1>1, <1>3, <1>4 DEF AsksFor, Branches
<1>6. Shows(t)
  BY <1>1, <1>3, <1>4 DEF Shows
<1> QED
  BY <1>2, <1>5, <1>6 DEF Sound, t

LEMMA TierTwoUndone ==
    ASSUME NEW s, Sound(s), s.at = "verdict"
    PROVE  Sound([s EXCEPT !.at = "match", !.recs = <<>>, !.cached = FALSE])
<1> DEFINE t == [s EXCEPT !.at = "match", !.recs = <<>>, !.cached = FALSE]
<1>1. s \in Search /\ AsksFor(s) /\ Branches(s) /\ Shows(s)
  BY DEF Sound
<1>2. t \in Search
  <2>1. <<>> \in Seq(Listing)
    OBVIOUS
  <2> QED
    BY <1>1, <2>1 DEF Search, SearchLabel
<1>3. /\ t.at = "match" /\ t.recs = <<>> /\ t.cached = FALSE
     
  BY <1>1 DEF Search
<1>4. /\ t.by = s.by /\ t.query = s.query /\ t.cart = s.cart
      /\ t.asked = s.asked /\ t.cards = s.cards /\ t.suggestions = s.suggestions
      /\ t.offer = s.offer /\ t.todo = s.todo
  BY <1>1 DEF Search
<1> HIDE DEF t
<1>5. AsksFor(t) /\ Branches(t)
  BY <1>1, <1>3, <1>4 DEF AsksFor, Branches
<1>6. Shows(t)
  <2>1. FitsQuery(<<>>, s.query)
    BY NothingShown
  <2> QED
    BY <1>1, <1>3, <1>4, <2>1 DEF Shows
<1> QED
  BY <1>2, <1>5, <1>6 DEF Sound, t

LEMMA MatchSound ==
    ASSUME NEW s, Sound(s), s.at = "match", NEW cards \in Seq(CardRecord),
           NEW label \in {"lookup", "offer"}, label = "offer" => cards # <<>>
    PROVE  Sound([s EXCEPT !.cards = cards, !.asked = s.query, !.at = label])
<1> DEFINE t == [s EXCEPT !.cards = cards, !.asked = s.query, !.at = label]
<1>1. s \in Search /\ AsksFor(s) /\ Branches(s) /\ Shows(s)
  BY DEF Sound
<1>2. t \in Search
  BY <1>1 DEF Search, SearchLabel
<1>3. /\ t.cards = cards /\ t.asked = s.query /\ t.at = label
  BY <1>1 DEF Search
<1>4. /\ t.by = s.by /\ t.query = s.query /\ t.cart = s.cart
      /\ t.recs = s.recs
      /\ t.cached = s.cached /\ t.suggestions = s.suggestions /\ t.offer = s.offer
      /\ t.todo = s.todo
  BY <1>1 DEF Search
<1> HIDE DEF t
<1>5. AsksFor(t) /\ Branches(t)
  BY <1>1, <1>3, <1>4 DEF AsksFor, Branches
<1>6. Shows(t)
  BY <1>1, <1>3, <1>4 DEF Shows
<1> QED
  BY <1>2, <1>5, <1>6 DEF Sound, t

LEMMA OfferSound ==
    ASSUME NEW s, Sound(s), s.at = "offer", NEW offer \in SUBSET Product
    PROVE  Sound([s EXCEPT !.at = "record", !.offer = offer])
<1> DEFINE t == [s EXCEPT !.at = "record", !.offer = offer]
<1>1. s \in Search /\ AsksFor(s) /\ Branches(s) /\ Shows(s)
  BY DEF Sound
<1>2. t \in Search
  BY <1>1 DEF Search, SearchLabel
<1>3. /\ t.at = "record" /\ t.offer = offer
  BY <1>1 DEF Search
<1>4. /\ t.by = s.by /\ t.query = s.query /\ t.cart = s.cart
      /\ t.asked = s.asked /\ t.recs = s.recs
      /\ t.cached = s.cached /\ t.cards = s.cards /\ t.suggestions = s.suggestions
      /\ t.todo = s.todo
  BY <1>1 DEF Search
<1> HIDE DEF t
<1>5. AsksFor(t) /\ Branches(t)
  BY <1>1, <1>3, <1>4 DEF AsksFor, Branches
<1>6. Shows(t)
  BY <1>1, <1>3, <1>4 DEF Shows
<1> QED
  BY <1>2, <1>5, <1>6 DEF Sound, t

LEMMA SuggestSound ==
    ASSUME NEW s, Sound(s), s.at = "suggest", NEW list \in Seq(CardRecord), Len(list) <= 3,
           CanBeBought(list, s.query.budget, s.cart)
    PROVE  Sound([s EXCEPT !.at = "reply", !.suggestions = list])
<1> DEFINE t == [s EXCEPT !.at = "reply", !.suggestions = list]
<1>1. s \in Search /\ AsksFor(s) /\ Branches(s) /\ Shows(s)
  BY DEF Sound
<1>2. t \in Search
  BY <1>1 DEF Search, SearchLabel
<1>3. /\ t.at = "reply" /\ t.suggestions = list
  BY <1>1 DEF Search
<1>4. /\ t.by = s.by /\ t.query = s.query /\ t.cart = s.cart
      /\ t.asked = s.asked /\ t.recs = s.recs
      /\ t.cached = s.cached /\ t.cards = s.cards /\ t.offer = s.offer
      /\ t.todo = s.todo
  BY <1>1 DEF Search
<1> HIDE DEF t
<1>5. AsksFor(t) /\ Branches(t)
  BY <1>1, <1>3, <1>4 DEF AsksFor, Branches
<1>6. Shows(t)
  BY <1>1, <1>3, <1>4 DEF Shows
<1> QED
  BY <1>2, <1>5, <1>6 DEF Sound, t

LEMMA BestSound ==
    ASSUME NEW s, Sound(s), s.at = "best", NEW offer \in SUBSET Product
    PROVE  Sound([s EXCEPT !.at = "shortlist", !.offer = offer])
<1> DEFINE t == [s EXCEPT !.at = "shortlist", !.offer = offer]
<1>1. s \in Search /\ AsksFor(s) /\ Branches(s) /\ Shows(s)
  BY DEF Sound
<1>2. t \in Search
  BY <1>1 DEF Search, SearchLabel
<1>3. /\ t.at = "shortlist" /\ t.offer = offer
  BY <1>1 DEF Search
<1>4. /\ t.by = s.by /\ t.query = s.query /\ t.cart = s.cart
      /\ t.asked = s.asked /\ t.recs = s.recs
      /\ t.cached = s.cached /\ t.cards = s.cards /\ t.suggestions = s.suggestions
      /\ t.todo = s.todo
  BY <1>1 DEF Search
<1> HIDE DEF t
<1>5. AsksFor(t) /\ Branches(t)
  BY <1>1, <1>3, <1>4 DEF AsksFor, Branches
<1>6. Shows(t)
  BY <1>1, <1>3, <1>4 DEF Shows
<1> QED
  BY <1>2, <1>5, <1>6 DEF Sound, t

LEMMA ShortlistSound ==
    ASSUME NEW s, Sound(s), s.at = "shortlist", NEW list \in Seq(CardRecord), Len(list) <= 3,
           NEW todo \in Seq(Seq(Query)), \A i \in DOMAIN todo : todo[i] # <<>>
    PROVE  Sound([s EXCEPT !.at = "cross", !.suggestions = list, !.todo = todo])
<1> DEFINE t == [s EXCEPT !.at = "cross", !.suggestions = list, !.todo = todo]
<1>1. s \in Search /\ AsksFor(s) /\ Branches(s) /\ Shows(s)
  BY DEF Sound
<1>2. t \in Search
  BY <1>1 DEF Search, SearchLabel
<1>3. /\ t.at = "cross" /\ t.suggestions = list /\ t.todo = todo
  BY <1>1 DEF Search
<1>4. /\ t.by = s.by /\ t.query = s.query /\ t.cart = s.cart
      /\ t.asked = s.asked /\ t.recs = s.recs
      /\ t.cached = s.cached /\ t.cards = s.cards /\ t.offer = s.offer
  BY <1>1 DEF Search
<1> HIDE DEF t
<1>5. AsksFor(t) /\ Branches(t)
  BY <1>1, <1>3, <1>4 DEF AsksFor, Branches
<1>6. Shows(t)
  <2>1. s.by # "chat"
    BY <1>1 DEF Branches
  <2> QED
    BY <1>1, <1>3, <1>4, <2>1 DEF Shows
<1> QED
  BY <1>2, <1>5, <1>6 DEF Sound, t

LEMMA CrossSound ==
    ASSUME NEW s, Sound(s), s.at = "cross", s.todo # <<>>, NEW q \in Query
    PROVE  Sound([s EXCEPT !.at = "lookup", !.asked = q])
<1> DEFINE t == [s EXCEPT !.at = "lookup", !.asked = q]
<1>1. s \in Search /\ AsksFor(s) /\ Branches(s) /\ Shows(s)
  BY DEF Sound
<1>2. t \in Search
  BY <1>1 DEF Search, SearchLabel
<1>3. /\ t.at = "lookup" /\ t.asked = q
  BY <1>1 DEF Search
<1>4. /\ t.by = s.by /\ t.query = s.query /\ t.cart = s.cart
      /\ t.recs = s.recs /\ t.cached = s.cached
      /\ t.cards = s.cards /\ t.suggestions = s.suggestions /\ t.offer = s.offer
      /\ t.todo = s.todo
  BY <1>1 DEF Search
<1> HIDE DEF t
<1>5. AsksFor(t) /\ Branches(t)
  BY <1>1, <1>3, <1>4 DEF AsksFor, Branches
<1>6. Shows(t)
  BY <1>1, <1>3, <1>4 DEF Shows
<1> QED
  BY <1>2, <1>5, <1>6 DEF Sound, t

\* The complements still to look for: none of their lists is empty.
LEMMA NextComplementsAre ==
    ASSUME NEW todo \in Seq(Seq(Query)), todo # <<>>,
           \A i \in DOMAIN todo : todo[i] # <<>>, NEW recs
    PROVE  /\ Head(Head(todo)) \in Query
           /\ NextComplements(todo, recs) \in Seq(Seq(Query))
           /\ \A i \in DOMAIN NextComplements(todo, recs) :
                NextComplements(todo, recs)[i] # <<>>
<1> DEFINE first == Head(todo)
           rest == Tail(todo)
<1>1. /\ first \in Seq(Query) /\ rest \in Seq(Seq(Query)) /\ Len(rest) = Len(todo) - 1
      /\ \A i \in 1 .. Len(rest) : rest[i] = todo[i + 1]
  BY HeadTailProperties
<1>2. /\ DOMAIN todo = 1 .. Len(todo) /\ Len(todo) \in Nat /\ Len(todo) # 0
      /\ DOMAIN rest = 1 .. Len(rest) /\ Len(rest) \in Nat
  BY <1>1, LenProperties, EmptySeq
<1>3. first = todo[1] /\ 1 \in DOMAIN todo
  BY <1>2
<1>4. first # <<>>
  BY <1>3
<1> HIDE DEF first, rest
<1>5. ASSUME NEW i \in DOMAIN rest PROVE rest[i] # <<>>
  <2>1. rest[i] = todo[i + 1] /\ i + 1 \in DOMAIN todo
    BY <1>1, <1>2
  <2> QED
    BY <2>1
<1>6. Head(first) \in Query
  BY <1>1, <1>4, HeadTailProperties
<1>7. CASE recs # <<>> \/ Len(first) = 1
  <2>1. NextComplements(todo, recs) = rest
    BY <1>7 DEF NextComplements, first, rest
  <2> QED
    BY <1>1, <1>5, <1>6, <2>1 DEF first
<1>8. CASE ~(recs # <<>> \/ Len(first) = 1)
  <2> DEFINE t == Tail(first)
             one == <<t>>
  <2>1. NextComplements(todo, recs) = one \o rest
    BY <1>8 DEF NextComplements, first, rest
  <2>2. t \in Seq(Query) /\ Len(t) = Len(first) - 1
    BY <1>1, <1>4, HeadTailProperties
  <2>3. Len(first) \in Nat /\ Len(first) # 0
    BY <1>1, <1>4, LenProperties, EmptySeq
  <2>4. Len(t) # 0
    BY <1>8, <2>2, <2>3
  <2>5. t # <<>>
    BY <2>2, <2>4, EmptySeq
  <2> HIDE DEF t
  <2>6. one \in Seq(Seq(Query)) /\ Len(one) = 1 /\ one[1] = t
    BY <2>2
  <2> HIDE DEF one
  <2> DEFINE both == one \o rest
  <2>7. /\ both \in Seq(Seq(Query)) /\ Len(both) = 1 + Len(rest)
        /\ \A i \in 1 .. Len(both) :
             both[i] = IF i <= 1 THEN one[i] ELSE rest[i - 1]
    <3>1. /\ both \in Seq(Seq(Query)) /\ Len(both) = Len(one) + Len(rest)
          /\ \A i \in 1 .. Len(one) + Len(rest) :
               both[i] = IF i <= Len(one) THEN one[i] ELSE rest[i - Len(one)]
      BY <1>1, <2>6, ConcatProperties
    <3> QED
      BY <2>6, <3>1
  <2> HIDE DEF both
  <2>8. ASSUME NEW i \in DOMAIN both PROVE both[i] # <<>>
    <3>1. i \in 1 .. Len(both)
      BY <2>7, LenProperties
    <3>2. i = 1 \/ i - 1 \in DOMAIN rest
      BY <1>2, <2>7, <3>1
    <3>3. CASE i = 1
      BY <2>5, <2>6, <2>7, <3>1, <3>3
    <3>4. CASE i # 1
      <4>1. ~(i <= 1)
        BY <3>1, <3>4
      <4>2. both[i] = rest[i - 1]
        BY <2>7, <3>1, <4>1
      <4> QED
        BY <1>5, <3>2, <3>4, <4>2
    <3> QED
      BY <3>3, <3>4
  <2> QED
    BY <1>6, <2>1, <2>7, <2>8 DEF both, first
<1> QED
  BY <1>7, <1>8

LEMMA CrossOnSound ==
    ASSUME NEW s, Sound(s), s.at \in {"lookup", "market"}, s.todo # <<>>,
           NEW todo \in Seq(Seq(Query)), \A i \in DOMAIN todo : todo[i] # <<>>
    PROVE  Sound([s EXCEPT !.at = "cross", !.todo = todo])
<1> DEFINE t == [s EXCEPT !.at = "cross", !.todo = todo]
<1>1. s \in Search /\ AsksFor(s) /\ Branches(s) /\ Shows(s)
  BY DEF Sound
<1>2. t \in Search
  BY <1>1 DEF Search, SearchLabel
<1>3. /\ t.at = "cross" /\ t.todo = todo
  BY <1>1 DEF Search
<1>4. /\ t.by = s.by /\ t.query = s.query /\ t.cart = s.cart
      /\ t.asked = s.asked /\ t.recs = s.recs
      /\ t.cached = s.cached /\ t.cards = s.cards /\ t.suggestions = s.suggestions
      /\ t.offer = s.offer
  BY <1>1 DEF Search
<1> HIDE DEF t
<1>5. AsksFor(t) /\ Branches(t)
  BY <1>1, <1>3, <1>4 DEF AsksFor, Branches
<1>6. Shows(t)
  BY <1>1, <1>3, <1>4 DEF Shows
<1> QED
  BY <1>2, <1>5, <1>6 DEF Sound, t

LEMMA ChatListedSound ==
    ASSUME NEW s, Sound(s), s.at \in {"lookup", "market"},
           NEW recs \in Seq(Listing), Len(recs) <= 3, NEW cached \in BOOLEAN,
           cached => recs # <<>>, ~cached => FitsQuery(recs, s.asked),
           s.todo = <<>>
    PROVE  Sound([s EXCEPT !.at = "reply", !.recs = recs, !.cached = cached])
<1> DEFINE t == [s EXCEPT !.at = "reply", !.recs = recs, !.cached = cached]
<1>1. s \in Search /\ AsksFor(s) /\ Branches(s) /\ Shows(s)
  BY DEF Sound
<1>2. t \in Search
  BY <1>1 DEF Search, SearchLabel
<1>3. /\ t.at = "reply" /\ t.recs = recs /\ t.cached = cached
  BY <1>1 DEF Search
<1>4. /\ t.by = s.by /\ t.query = s.query /\ t.cart = s.cart
      /\ t.asked = s.asked /\ t.cards = s.cards /\ t.suggestions = s.suggestions
      /\ t.offer = s.offer /\ t.todo = s.todo
  BY <1>1 DEF Search
<1> HIDE DEF t
<1>5. AsksFor(t) /\ Branches(t)
  BY <1>1, <1>3, <1>4 DEF AsksFor, Branches
<1>6. Shows(t)
  <2>1. s.asked = s.query
    BY <1>1 DEF AsksFor
  <2> QED
    BY <1>1, <1>3, <1>4, <2>1 DEF Shows
<1> QED
  BY <1>2, <1>5, <1>6 DEF Sound, t

LEMMA AgentListedSound ==
    ASSUME NEW s, Sound(s), s.at \in {"lookup", "market"},
           NEW recs \in Seq(Listing), Len(recs) <= 3, NEW cached \in BOOLEAN,
           cached => recs # <<>>, ~cached => FitsQuery(recs, s.asked),
           s.todo = <<>>, s.by # "chat"
    PROVE  Sound([s EXCEPT !.at = "best", !.recs = recs, !.cached = cached])
<1> DEFINE t == [s EXCEPT !.at = "best", !.recs = recs, !.cached = cached]
<1>1. s \in Search /\ AsksFor(s) /\ Branches(s) /\ Shows(s)
  BY DEF Sound
<1>2. t \in Search
  BY <1>1 DEF Search, SearchLabel
<1>3. /\ t.at = "best" /\ t.recs = recs /\ t.cached = cached
  BY <1>1 DEF Search
<1>4. /\ t.by = s.by /\ t.query = s.query /\ t.cart = s.cart
      /\ t.asked = s.asked /\ t.cards = s.cards
      /\ t.suggestions = s.suggestions /\ t.offer = s.offer /\ t.todo = s.todo
  BY <1>1 DEF Search
<1> HIDE DEF t
<1>5. AsksFor(t) /\ Branches(t)
  BY <1>1, <1>3, <1>4 DEF AsksFor, Branches
<1>6. Shows(t)
  <2>1. s.asked = s.query
    BY <1>1 DEF AsksFor
  <2> QED
    BY <1>1, <1>3, <1>4, <2>1 DEF Shows
<1> QED
  BY <1>2, <1>5, <1>6 DEF Sound, t

LEMMA ListedSound ==
    ASSUME NEW s, Sound(s), s.at \in {"lookup", "market"},
           NEW recs \in Seq(Listing), Len(recs) <= 3, NEW cached \in BOOLEAN,
           cached => recs # <<>>, ~cached => FitsQuery(recs, s.asked)
    PROVE  Sound(Listed(s, recs, cached))
<1>1. /\ s.todo \in Seq(Seq(Query)) /\ \A i \in DOMAIN s.todo : s.todo[i] # <<>>
      /\ s.by = "chat" => s.todo = <<>>
  BY DEF Sound, Search, Branches
<1>2. CASE s.todo # <<>>
  <2> DEFINE todo == NextComplements(s.todo, recs)
  <2>1. todo \in Seq(Seq(Query)) /\ \A i \in DOMAIN todo : todo[i] # <<>>
    BY <1>1, <1>2, NextComplementsAre
  <2> HIDE DEF todo
  <2>2. Sound([s EXCEPT !.at = "cross", !.todo = todo])
    BY <1>2, <2>1, CrossOnSound
  <2> QED
    BY <1>2, <2>2 DEF Listed, todo
<1>3. CASE s.todo = <<>> /\ s.by = "chat"
  BY <1>3, ChatListedSound DEF Listed
<1>4. CASE s.todo = <<>> /\ s.by # "chat"
  BY <1>4, AgentListedSound DEF Listed
<1> QED
  BY <1>2, <1>3, <1>4

-----------------------------------------------------------------------------
(* Their steps. *)

LEMMA Becomes ==
    ASSUME SearchInv, NEW w \in Worker, NEW t, Sound(t),
           search' = [search EXCEPT ![w] = t], clock' = clock,
           /\ cache' \in Seq(Row)
           /\ \A i \in DOMAIN cache' : Honest(cache'[i]),
           history' \in [Product \X Product -> [shown : Nat, accepted : Nat]]
    PROVE  SearchInv'
<1>1. search \in [Worker -> Search] /\ t \in Search
  BY DEF SearchInv, Sound
<1>2. search' \in [Worker -> Search]
  BY <1>1
<1>3. \A v \in Worker : Sound(search'[v])
  BY <1>1 DEF SearchInv
<1> QED
  BY <1>2, <1>3 DEF SearchInv

LEMMA OnlyBecomes ==
    ASSUME SearchInv, NEW w \in Worker, NEW t, Sound(t), Become(w, t), UNCHANGED shelf
    PROVE  SearchInv'
<1>1. /\ search' = [search EXCEPT ![w] = t]
      /\ clock' = clock /\ cache' = cache /\ history' = history
  BY DEF Become, shelf
<1>2. /\ cache' \in Seq(Row)
      /\ \A i \in DOMAIN cache' : Honest(cache'[i])
  BY <1>1 DEF SearchInv
<1>3. history' \in [Product \X Product -> [shown : Nat, accepted : Nat]]
  BY <1>1 DEF SearchInv
<1> QED
  BY <1>1, <1>2, <1>3, Becomes

LEMMA NowIs ==
    ASSUME IndexInv
    PROVE  IsCatalogue(Now)
  BY VersionsAre, CatalogAssumption DEF IndexInv, IndexTypeOK, Now, Version

LEMMA StartInv ==
    ASSUME SearchInv, NEW w \in Worker, StartChatSearch(w) \/ StartAgentSearch(w)
    PROVE  SearchInv'
<1>1. /\ Readings \subseteq [cascade : Query, pipeline : Query]
      /\ \A r \in Readings : r.cascade.type = r.cascade.category
      /\ AgentQuery \subseteq Query /\ Carts \subseteq SUBSET Product
  BY StorefrontAssumption, ReadingAssumption
<1>2. CASE StartChatSearch(w)
  <2>1. PICK r \in Readings, c \in Carts, label \in {"tier2", "match"} :
           Become(w, [IdleSearch EXCEPT !.at = label, !.by = "chat", !.cart = c,
                         !.query = r.pipeline, !.asked = r.cascade])
    BY <1>2 DEF StartChatSearch
  <2> DEFINE t == [IdleSearch EXCEPT !.at = label, !.by = "chat", !.cart = c,
                      !.query = r.pipeline, !.asked = r.cascade]
  <2>2. Sound(t)
    <3>1. /\ r.pipeline \in Query /\ r.cascade \in Query /\ c \in SUBSET Product
          /\ r.cascade.type = r.cascade.category
      BY <1>1
    <3>2. t \in Search
      BY <3>1, IdleSound DEF Sound, Search, SearchLabel
    <3>3. /\ t.query = r.pipeline /\ t.asked = r.cascade /\ t.at \in {"tier2", "match"}
          /\ t.by = "chat" /\ t.recs = <<>> /\ t.suggestions = <<>> /\ t.todo = <<>>
          /\ t.cached = FALSE
      BY DEF IdleSearch
    <3> QED
      BY <3>1, <3>2, <3>3, StartSound
  <2>3. Become(w, t) /\ UNCHANGED shelf
    BY <1>2, <2>1 DEF StartChatSearch
  <2> HIDE DEF t
  <2> QED
    BY <2>2, <2>3, OnlyBecomes
<1>3. CASE StartAgentSearch(w)
  <2>1. PICK q \in AgentQuery :
           Become(w, [IdleSearch EXCEPT !.at = "lookup", !.by = "agent", !.query = q,
                                        !.asked = q])
    BY <1>3 DEF StartAgentSearch
  <2> DEFINE t == [IdleSearch EXCEPT !.at = "lookup", !.by = "agent", !.query = q,
                                     !.asked = q]
  <2>2. Sound(t)
    <3>1. q \in Query
      BY <1>1
    <3>2. t \in Search
      BY <3>1, IdleSound DEF Sound, Search, SearchLabel
    <3>3. /\ t.query = q /\ t.asked = q /\ t.at = "lookup" /\ t.by = "agent"
          /\ t.recs = <<>> /\ t.suggestions = <<>> /\ t.todo = <<>>
          /\ t.cached = FALSE
      BY DEF IdleSearch
    <3> QED
      BY <3>1, <3>2, <3>3, StartSound
  <2>3. Become(w, t) /\ UNCHANGED shelf
    BY <1>3, <2>1 DEF StartAgentSearch
  <2> HIDE DEF t
  <2> QED
    BY <2>2, <2>3, OnlyBecomes
<1> QED
  BY <1>2, <1>3

LEMMA PassInv ==
    ASSUME SearchInv, NEW w \in Worker, NEW label \in SearchLabel,
           Onward(search[w].at, label), Pass(w, label), UNCHANGED shelf
    PROVE  SearchInv'
<1>1. PICK s : s = search[w]
  OBVIOUS
<1>2. PICK t : t = [s EXCEPT !.at = label]
  OBVIOUS
<1>3. Sound(s) /\ Onward(s.at, label)
  BY <1>1 DEF SearchInv
<1>4. Sound(t)
  BY <1>2, <1>3, PassSound
<1>5. Become(w, t)
  BY <1>1, <1>2 DEF Pass
<1> QED
  BY <1>4, <1>5, OnlyBecomes

LEMMA TierTwoInv ==
    ASSUME SearchInv, NEW w \in Worker, TierTwo(w)
    PROVE  SearchInv'
<1>1. PICK s : s = search[w]
  OBVIOUS
<1>2. PICK row : row = Lookup(cache, s.asked, clock, CertainlySimilar)
  OBVIOUS
<1>3. Sound(s) /\ s.at = "tier2" /\ s.asked \in Query /\ UNCHANGED shelf
  BY <1>1 DEF SearchInv, Sound, AsksFor, TierTwo, Searching
<1>4. CASE row = 0
  <2>1. Pass(w, "match")
    BY <1>1, <1>2, <1>4 DEF TierTwo
  <2> QED
    BY <1>1, <1>3, <2>1, PassInv DEF Onward, SearchLabel
<1>5. CASE row # 0
  <2>1. row \in DOMAIN cache
    BY <1>2, <1>3, <1>5, LookupIs DEF SearchInv
  <2>2. PICK recs : recs = cache[row].results
    OBVIOUS
  <2>3. cache[row] \in Row /\ Honest(cache[row])
    BY <2>1, LenProperties DEF SearchInv
  <2>4. recs \in Seq(Listing) /\ Len(recs) <= 3 /\ recs # <<>>
    BY <2>2, <2>3 DEF Row, Honest
  <2>5. FirstThree(recs) = recs
    BY <2>4, FirstThreeIs
  <2>6. PICK t : t = [s EXCEPT !.at = "verdict", !.cached = TRUE, !.recs = recs]
    OBVIOUS
  <2>7. Sound(t)
    BY <1>3, <2>4, <2>6, TierTwoSound
  <2>8. Become(w, [s EXCEPT !.at = "verdict", !.cached = TRUE,
                      !.recs = FirstThree(recs)])
    BY <1>1, <1>2, <1>5, <2>2 DEF TierTwo
  <2>9. Become(w, t)
    BY <2>5, <2>6, <2>8
  <2> QED
    BY <1>3, <2>7, <2>9, OnlyBecomes
<1> QED
  BY <1>4, <1>5

LEMMA VerdictInv ==
    ASSUME SearchInv, NEW w \in Worker, TierTwoAnswers(w) \/ TierTwoPasses(w)
    PROVE  SearchInv'
<1>1. PICK s : s = search[w]
  OBVIOUS
<1>2. Sound(s) /\ s.at = "verdict" /\ UNCHANGED shelf
  BY <1>1 DEF SearchInv, TierTwoAnswers, TierTwoPasses, Searching
<1>3. CASE TierTwoAnswers(w)
  <2>1. Pass(w, "reply")
    BY <1>3 DEF TierTwoAnswers
  <2> QED
    BY <1>1, <1>2, <2>1, PassInv DEF Onward, SearchLabel
<1>4. CASE TierTwoPasses(w)
  <2>1. PICK t : t = [s EXCEPT !.at = "match", !.recs = <<>>, !.cached = FALSE]
    OBVIOUS
  <2>2. Sound(t)
    BY <1>2, <2>1, TierTwoUndone
  <2>3. Become(w, t)
    BY <1>1, <1>4, <2>1 DEF TierTwoPasses
  <2> QED
    BY <1>2, <2>2, <2>3, OnlyBecomes
<1> QED
  BY <1>3, <1>4

LEMMA MatchInv ==
    ASSUME IndexInv, SearchInv, NEW w \in Worker, Match(w)
    PROVE  SearchInv'
<1>1. PICK s : s = search[w]
  OBVIOUS
<1>2. Sound(s) /\ s.at = "match" /\ s.query \in Query /\ UNCHANGED shelf
  BY <1>1 DEF SearchInv, Sound, AsksFor, Match, Searching
<1>3. PICK c : c = Now
  OBVIOUS
<1>4. PICK skus : skus = Candidates(c, s.query)
  OBVIOUS
<1>5. PICK cards : cards = [i \in DOMAIN skus |-> Card(c, skus[i])]
  OBVIOUS
<1>6. IsCatalogue(c)
  BY <1>3, NowIs
<1>7. skus \in Seq(DOMAIN c)
  BY <1>2, <1>4, <1>6, CandidatesAre
<1>8. cards \in Seq(CardRecord) /\ Len(cards) = Len(skus)
  BY <1>5, <1>6, <1>7, CardsAre
<1>9. skus # <<>> => cards # <<>>
  BY <1>7, <1>8, EmptySeq
<1>10. PICK label : label = IF skus = <<>> THEN "lookup" ELSE "offer"
  OBVIOUS
<1>11. label \in {"lookup", "offer"} /\ (label = "offer" => cards # <<>>)
  BY <1>9, <1>10
<1>12. PICK t : t = [s EXCEPT !.cards = cards, !.asked = s.query, !.at = label]
  OBVIOUS
<1>13. Sound(t)
  BY <1>2, <1>8, <1>11, <1>12, MatchSound
<1>14. Become(w, t)
  <2>1. Cards(skus) = cards
    BY <1>3, <1>5 DEF Cards
  <2>2. Become(w, [s EXCEPT !.cards = Cards(skus), !.asked = s.query,
                            !.at = IF skus = <<>> THEN "lookup" ELSE "offer"])
    BY <1>1, <1>3, <1>4 DEF Match
  <2> QED
    BY <1>10, <1>12, <2>1, <2>2
<1> QED
  BY <1>2, <1>13, <1>14, OnlyBecomes

LEMMA OfferInv ==
    ASSUME IndexInv, SearchInv, NEW w \in Worker, MakeOffer(w)
    PROVE  SearchInv'
<1>1. PICK s : s = search[w]
  OBVIOUS
<1>2. Sound(s) /\ s.at = "offer" /\ UNCHANGED shelf
  BY <1>1 DEF SearchInv, MakeOffer, Searching
<1>3. PICK c : c = Now
  OBVIOUS
<1>4. PICK offer : offer = BestOffer(c, s.cards[1], s.cart, history)
  OBVIOUS
<1>5. DOMAIN c \subseteq Product
  BY <1>3, NowIs DEF IsCatalogue
<1>6. offer \subseteq DOMAIN c
  BY <1>4 DEF BestOffer, CandidateOffers
<1>7. PICK t : t = [s EXCEPT !.at = "record", !.offer = offer]
  OBVIOUS
<1>8. Sound(t)
  BY <1>2, <1>5, <1>6, <1>7, OfferSound
<1>9. Become(w, t)
  BY <1>1, <1>3, <1>4, <1>7 DEF MakeOffer
<1> QED
  BY <1>2, <1>8, <1>9, OnlyBecomes

LEMMA RecordInv ==
    ASSUME SearchInv, NEW w \in Worker, RecordOffer(w)
    PROVE  SearchInv'
<1>1. PICK s : s = search[w]
  OBVIOUS
<1>2. Sound(s) /\ s.at = "record"
  BY <1>1 DEF SearchInv, RecordOffer, Searching
<1>3. PICK t : t = [s EXCEPT !.at = "suggest"]
  OBVIOUS
<1>4. Sound(t)
  BY <1>2, <1>3, PassSound DEF Onward, SearchLabel
<1>5. search' = [search EXCEPT ![w] = t] /\ clock' = clock /\ cache' = cache
  BY <1>1, <1>3 DEF RecordOffer, Pass, Become
<1>6. history' \in [Product \X Product -> [shown : Nat, accepted : Nat]]
  <2>1. history \in [Product \X Product -> [shown : Nat, accepted : Nat]]
    BY DEF SearchInv
  <2>2. ASSUME NEW base, NEW offer
        PROVE  Recorded(base, offer) \in [Product \X Product -> [shown : Nat, accepted : Nat]]
    BY <2>1 DEF Recorded
  <2>3. history' = history \/ history' = Recorded(search[w].cards[1], search[w].offer)
    BY DEF RecordOffer
  <2> QED
    BY <2>1, <2>2, <2>3
<1>7. cache' \in Seq(Row) /\ \A i \in DOMAIN cache' : Honest(cache'[i])
  BY <1>5 DEF SearchInv
<1> QED
  BY <1>4, <1>5, <1>6, <1>7, Becomes

LEMMA SuggestInv ==
    ASSUME IndexInv, SearchInv, NEW w \in Worker, Suggest(w)
    PROVE  SearchInv'
<1>1. PICK s : s = search[w]
  OBVIOUS
<1>2. Sound(s) /\ s.at = "suggest" /\ UNCHANGED shelf
  BY <1>1 DEF SearchInv, Suggest, Searching
<1>3. s.query \in Query /\ s.cards \in Seq(CardRecord) /\ s.cards # <<>>
  BY <1>2 DEF Sound, AsksFor, Branches, Search
<1>4. s.query.budget \in Nat
  BY <1>3, QueriesAre
<1>5. PICK c : c = Now
  OBVIOUS
<1>6. PICK list : list = SuggestionList(s.cards, c, s.query.budget, s.cart)
  OBVIOUS
<1>7. /\ list \in Seq(CardRecord) /\ Len(list) <= 3
      /\ CanBeBought(list, s.query.budget, s.cart)
  BY <1>3, <1>4, <1>5, <1>6, NowIs, SuggestionListIs
<1>8. PICK t : t = [s EXCEPT !.at = "reply", !.suggestions = list]
  OBVIOUS
<1>9. Sound(t)
  BY <1>2, <1>7, <1>8, SuggestSound
<1>10. Become(w, t)
  BY <1>1, <1>5, <1>6, <1>8 DEF Suggest
<1> QED
  BY <1>2, <1>9, <1>10, OnlyBecomes

LEMMA LookUpInv ==
    ASSUME SearchInv, NEW w \in Worker, LookUp(w)
    PROVE  SearchInv'
<1>1. PICK s : s = search[w]
  OBVIOUS
<1>2. PICK row : row = Lookup(cache, s.asked, clock, SimilarEnough)
  OBVIOUS
<1>3. Sound(s) /\ s.at = "lookup" /\ s.asked \in Query /\ UNCHANGED shelf
  BY <1>1 DEF SearchInv, Sound, AsksFor, LookUp, Searching
<1>4. CASE row = 0
  <2>1. Pass(w, "market")
    BY <1>1, <1>2, <1>4 DEF LookUp
  <2> QED
    BY <1>1, <1>3, <2>1, PassInv DEF Onward, SearchLabel
<1>5. CASE row # 0
  <2>1. row \in DOMAIN cache
    BY <1>2, <1>3, <1>5, LookupIs DEF SearchInv
  <2>2. PICK recs : recs = cache[row].results
    OBVIOUS
  <2>3. cache[row] \in Row /\ Honest(cache[row])
    BY <2>1, LenProperties DEF SearchInv
  <2>4. recs \in Seq(Listing) /\ Len(recs) <= 3 /\ recs # <<>>
    BY <2>2, <2>3 DEF Row, Honest
  <2>5. PICK t : t = Listed(s, recs, TRUE)
    OBVIOUS
  <2>6. Sound(t)
    BY <1>3, <2>4, <2>5, ListedSound
  <2>7. Become(w, t)
    BY <1>1, <1>2, <1>5, <2>2, <2>5 DEF LookUp
  <2> QED
    BY <1>3, <2>6, <2>7, OnlyBecomes
<1> QED
  BY <1>4, <1>5

LEMMA StampedIs ==
    ASSUME NEW answer \in Seq(Listing), clock \in Nat
    PROVE  /\ Stamped(answer) \in Seq(Listing)
           /\ \A i \in DOMAIN Stamped(answer) : Stamped(answer)[i].found = clock
<1>1. DOMAIN answer = 1 .. Len(answer) /\ Len(answer) \in Nat
  BY LenProperties
<1>2. ASSUME NEW i \in DOMAIN answer
      PROVE  /\ [answer[i] EXCEPT !.found = clock] \in Listing
             /\ [answer[i] EXCEPT !.found = clock].found = clock
  <2>1. answer[i] \in Listing
    BY LenProperties
  <2> QED
    BY <2>1 DEF Listing
<1>3. Stamped(answer) \in [1 .. Len(answer) -> Listing]
  BY <1>1, <1>2 DEF Stamped
<1>4. Stamped(answer) \in Seq(Listing)
  BY <1>1, <1>3, SeqDef
<1> QED
  BY <1>2, <1>4 DEF Stamped

\* What is remembered was found just now, and expires CacheTTL later.
LEMMA MarketInv ==
    ASSUME SearchInv, NEW w \in Worker, SearchMarket(w)
    PROVE  SearchInv'
<1>1. PICK s : s = search[w]
  OBVIOUS
<1>2. Sound(s) /\ s.at = "market" /\ s.asked \in Query
  BY <1>1 DEF SearchInv, Sound, AsksFor, SearchMarket, Searching
<1>3. PICK answer \in MarketAnswers[s.asked] :
         LET recs == Recommendations(Stamped(answer), s.asked)
         IN  cache' \in CachePut(s.asked, recs) /\ Become(w, Listed(s, recs, FALSE))
  BY <1>1 DEF SearchMarket
<1>4. clock \in Nat /\ clock' = clock /\ history' = history
  BY StorefrontAssumption DEF SearchInv, SearchMarket
<1>5. PICK found : found = Stamped(answer)
  OBVIOUS
<1>6. PICK recs : recs = Recommendations(found, s.asked)
  OBVIOUS
<1>7. answer \in Seq(Listing)
  <2>1. MarketAnswers[s.asked] \in SUBSET Seq(Listing)
    BY <1>2, StorefrontAssumption
  <2> QED
    BY <2>1
<1>8. found \in Seq(Listing) /\ \A i \in DOMAIN found : found[i].found = clock
  BY <1>4, <1>5, <1>7, StampedIs
<1>9. /\ recs \in Seq(Listing) /\ Len(recs) <= 3 /\ FitsQuery(recs, s.asked)
      /\ \A k \in DOMAIN recs : \E i \in DOMAIN found : recs[k] = found[i]
  BY <1>2, <1>6, <1>8, RecommendationsAre
<1>10. \A k \in DOMAIN recs : recs[k].found = clock
  BY <1>8, <1>9
<1>11. PICK t : t = Listed(s, recs, FALSE)
  OBVIOUS
<1>12. Sound(t)
  BY <1>2, <1>9, <1>11, ListedSound
<1>13. search' = [search EXCEPT ![w] = t]
  BY <1>3, <1>5, <1>6, <1>11 DEF Become
<1>14. /\ cache' \in Seq(Row)
       /\ \A i \in DOMAIN cache' : Honest(cache'[i])
  <2> DEFINE row == CacheRow(s.asked, recs, clock)
             longer == Append(cache, row)
  <2>1. cache \in Seq(Row) /\ \A i \in DOMAIN cache : Honest(cache[i])
    BY DEF SearchInv
  <2>2. cache' = cache \/ (recs # <<>> /\ cache' = longer)
    BY <1>3, <1>5, <1>6 DEF CachePut
  <2>3. CASE cache' = cache
    BY <2>1, <2>3
  <2>4. CASE recs # <<>> /\ cache' = longer
    <3>1. CacheTTL \in Nat
      BY MarketAssumption
    <3>2. row \in Row /\ row.expires = clock + CacheTTL /\ row.results = recs
      BY <1>2, <1>4, <1>9, <3>1 DEF CacheRow, Row
    <3>3. \A k \in DOMAIN recs : clock + CacheTTL <= recs[k].found + CacheTTL
      BY <1>4, <1>10, <3>1
    <3>4. Honest(row)
      BY <1>9, <2>4, <3>2, <3>3 DEF Honest
    <3> HIDE DEF row
    <3>5. /\ longer \in Seq(Row) /\ Len(longer) = Len(cache) + 1
          /\ \A i \in 1 .. Len(cache) : longer[i] = cache[i]
          /\ longer[Len(cache) + 1] = row
      BY <2>1, <3>2, AppendProperties
    <3> HIDE DEF longer
    <3>6. DOMAIN longer = 1 .. Len(longer) /\ DOMAIN cache = 1 .. Len(cache)
      BY <2>1, <3>5, LenProperties
    <3>7. Len(cache) \in Nat
      BY <2>1, LenProperties
    <3>8. \A i \in 1 .. Len(cache) + 1 : i \in 1 .. Len(cache) \/ i = Len(cache) + 1
      BY <3>7
    <3>9. ASSUME NEW i \in DOMAIN longer PROVE Honest(longer[i])
      <4>1. i \in 1 .. Len(cache) \/ i = Len(cache) + 1
        BY <3>5, <3>6, <3>8
      <4>2. CASE i \in 1 .. Len(cache)
        BY <2>1, <3>5, <3>6, <4>2
      <4>3. CASE i = Len(cache) + 1
        BY <3>4, <3>5, <4>3
      <4> QED
        BY <4>1, <4>2, <4>3
    <3> QED
      BY <2>4, <3>5, <3>9
  <2> QED
    BY <2>2, <2>3, <2>4
<1>15. history' \in [Product \X Product -> [shown : Nat, accepted : Nat]]
  BY <1>4 DEF SearchInv
<1> QED
  BY <1>4, <1>12, <1>13, <1>14, <1>15, Becomes

LEMMA BestInv ==
    ASSUME IndexInv, SearchInv, NEW w \in Worker, FindBest(w)
    PROVE  SearchInv'
<1>1. PICK s : s = search[w]
  OBVIOUS
<1>2. Sound(s) /\ s.at = "best" /\ UNCHANGED shelf
  BY <1>1 DEF SearchInv, FindBest, Searching
<1>3. PICK c : c = Now
  OBVIOUS
<1>4. PICK offer : offer = BestCapture(c, s.query)
  OBVIOUS
<1>5. DOMAIN c \subseteq Product
  BY <1>3, NowIs DEF IsCatalogue
<1>6. offer \subseteq DOMAIN c
  BY <1>4 DEF BestCapture
<1>7. PICK t : t = [s EXCEPT !.at = "shortlist", !.offer = offer]
  OBVIOUS
<1>8. Sound(t)
  BY <1>2, <1>5, <1>6, <1>7, BestSound
<1>9. Become(w, t)
  BY <1>1, <1>3, <1>4, <1>7 DEF FindBest
<1> QED
  BY <1>2, <1>8, <1>9, OnlyBecomes

LEMMA ShortlistInv ==
    ASSUME IndexInv, SearchInv, NEW w \in Worker, Shortlist(w)
    PROVE  SearchInv'
<1>1. PICK s : s = search[w]
  OBVIOUS
<1>2. Sound(s) /\ s.at = "shortlist" /\ s.query \in Query /\ UNCHANGED shelf
  BY <1>1 DEF SearchInv, Sound, AsksFor, Shortlist, Searching
<1>3. PICK c : c = Now
  OBVIOUS
<1>4. PICK skus : skus = IF s.query.category = "" THEN <<>> ELSE TopMatches(c, s.query)
  OBVIOUS
<1>5. PICK list : list = [i \in DOMAIN skus |-> Card(c, skus[i])]
  OBVIOUS
<1>6. PICK terms : terms = [i \in DOMAIN skus |-> MarketComplement[skus[i]]]
  OBVIOUS
<1>7. PICK I : I = {i \in DOMAIN terms : terms[i] # <<>>}
  OBVIOUS
<1>8. PICK todo : todo = Picked(terms, I)
  OBVIOUS
<1>9. IsCatalogue(c)
  BY <1>3, NowIs
<1>10. skus \in Seq(DOMAIN c) /\ Len(skus) <= 3
  <2>1. TopMatches(c, s.query) \in Seq(DOMAIN c) /\ Len(TopMatches(c, s.query)) <= 3
    BY <1>2, <1>9, TopMatchesAre
  <2>2. <<>> \in Seq(DOMAIN c) /\ Len(<<>>) <= 3
    OBVIOUS
  <2> QED
    BY <1>4, <2>1, <2>2
<1>11. list \in Seq(CardRecord) /\ Len(list) <= 3
  BY <1>5, <1>9, <1>10, CardsAre
<1>12. terms \in Seq(Seq(Query))
  <2>1. DOMAIN skus = 1 .. Len(skus) /\ Len(skus) \in Nat
    BY <1>10, LenProperties
  <2>2. ASSUME NEW i \in DOMAIN skus PROVE MarketComplement[skus[i]] \in Seq(Query)
    <3>1. skus[i] \in DOMAIN c
      BY <1>10, LenProperties
    <3>2. skus[i] \in Product
      BY <1>9, <3>1 DEF IsCatalogue
    <3> QED
      BY <3>2, StorefrontAssumption
  <2>3. terms \in [1 .. Len(skus) -> Seq(Query)]
    BY <1>6, <2>1, <2>2
  <2> QED
    BY <2>1, <2>3, SeqDef
<1>13. todo \in Seq(Seq(Query)) /\ \A k \in DOMAIN todo : \E i \in I : todo[k] = terms[i]
  <2>1. I \in SUBSET (DOMAIN terms)
    BY <1>7
  <2> QED
    BY <1>8, <1>12, <2>1, PickedIs
<1>14. \A k \in DOMAIN todo : todo[k] # <<>>
  BY <1>7, <1>13
<1>15. PICK t : t = [s EXCEPT !.at = "cross", !.suggestions = list, !.todo = todo]
  OBVIOUS
<1>16. Sound(t)
  BY <1>2, <1>11, <1>13, <1>14, <1>15, ShortlistSound
<1>17. Become(w, t)
  <2>1. Cards(skus) = list
    BY <1>3, <1>5 DEF Cards
  <2>2. Become(w, [s EXCEPT !.at = "cross", !.suggestions = Cards(skus), !.todo = todo])
    BY <1>1, <1>3, <1>4, <1>6, <1>7, <1>8 DEF Shortlist
  <2> QED
    BY <1>15, <2>1, <2>2
<1> QED
  BY <1>2, <1>16, <1>17, OnlyBecomes

LEMMA CrossInv ==
    ASSUME SearchInv, NEW w \in Worker, CrossSell(w)
    PROVE  SearchInv'
<1>1. PICK s : s = search[w]
  OBVIOUS
<1>2. Sound(s) /\ s.at = "cross" /\ UNCHANGED shelf
  BY <1>1 DEF SearchInv, CrossSell, Searching
<1>3. CASE s.todo = <<>>
  <2>1. Pass(w, "reply")
    BY <1>1, <1>3 DEF CrossSell
  <2> QED
    BY <1>1, <1>2, <2>1, PassInv DEF Onward, SearchLabel
<1>4. CASE s.todo # <<>>
  <2>1. PICK q : q = Head(Head(s.todo))
    OBVIOUS
  <2>2. s.todo \in Seq(Seq(Query)) /\ \A i \in DOMAIN s.todo : s.todo[i] # <<>>
    BY <1>2 DEF Sound, Search, Branches
  <2>3. q \in Query
    BY <1>4, <2>1, <2>2, NextComplementsAre
  <2>4. PICK t : t = [s EXCEPT !.at = "lookup", !.asked = q]
    OBVIOUS
  <2>5. Sound(t)
    BY <1>2, <1>4, <2>3, <2>4, CrossSound
  <2>6. Become(w, t)
    BY <1>1, <1>4, <2>1, <2>4 DEF CrossSell
  <2> QED
    BY <1>2, <2>5, <2>6, OnlyBecomes
<1> QED
  BY <1>3, <1>4

LEMMA ReplyInv ==
    ASSUME SearchInv, NEW w \in Worker, Reply(w)
    PROVE  SearchInv'
<1>1. PICK t : t = IdleSearch
  OBVIOUS
<1>2. Sound(t) /\ Become(w, t) /\ UNCHANGED shelf
  BY <1>1, IdleSound DEF Reply
<1> QED
  BY <1>2, OnlyBecomes

LEMMA SearchInitInv == StoreInit => SearchInv
<1> SUFFICES ASSUME StoreInit PROVE SearchInv
  OBVIOUS
<1>1. clock \in 0 .. MaxTime
  BY StorefrontAssumption DEF StoreInit
<1>2. cache \in Seq(Row) /\ \A i \in DOMAIN cache : Honest(cache[i])
  BY DEF StoreInit
<1>3. history \in [Product \X Product -> [shown : Nat, accepted : Nat]]
  BY DEF StoreInit, NoHistory
<1>4. IdleSearch \in Search
  BY IdleSound DEF Sound
<1>5. search = [w \in Worker |-> IdleSearch]
  BY DEF StoreInit
<1>6. search \in [Worker -> Search] /\ \A w \in Worker : Sound(search[w])
  BY <1>4, <1>5, IdleSound
<1> QED
  BY <1>1, <1>2, <1>3, <1>6 DEF SearchInv

LEMMA ElsewhereInv ==
    ASSUME SearchInv, clock' \in 0 .. MaxTime, cache' = cache, history' = history,
           search' = search \/ search' = [w \in Worker |-> IdleSearch]
    PROVE  SearchInv'
<1>1. cache' \in Seq(Row) /\ \A i \in DOMAIN cache' : Honest(cache'[i])
  BY DEF SearchInv
<1>2. history' \in [Product \X Product -> [shown : Nat, accepted : Nat]]
  BY DEF SearchInv
<1>3. IdleSearch \in Search
  BY IdleSound DEF Sound
<1>4. search' \in [Worker -> Search] /\ \A w \in Worker : Sound(search'[w])
  <2>1. CASE search' = search
    BY <2>1 DEF SearchInv
  <2>2. CASE search' = [w \in Worker |-> IdleSearch]
    BY <1>3, <2>2, IdleSound
  <2> QED
    BY <2>1, <2>2
<1> QED
  BY <1>1, <1>2, <1>4 DEF SearchInv

LEMMA SearchInvNext ==
    ASSUME IndexInv, SearchInv, [StoreNext]_storeVars
    PROVE  SearchInv'
<1>1. clock \in 0 .. MaxTime /\ MaxTime \in Nat
  BY StorefrontAssumption DEF SearchInv
<1>2. ASSUME UNCHANGED <<shelf, search>> PROVE SearchInv'
  BY <1>1, <1>2, ElsewhereInv DEF shelf
<1>3. CASE UNCHANGED storeVars
  BY <1>2, <1>3 DEF storeVars, shelf
<1>4. ASSUME NEW w \in Worker, StartChatSearch(w) \/ StartAgentSearch(w) PROVE SearchInv'
  BY <1>4, StartInv
<1>5. ASSUME NEW w \in Worker, SearchStep(w) PROVE SearchInv'
  BY <1>5, TierTwoInv, VerdictInv, MatchInv, OfferInv, RecordInv, SuggestInv, LookUpInv,
     MarketInv, BestInv, ShortlistInv, CrossInv, ReplyInv DEF SearchStep
<1>6. CASE StopServer /\ search' = [w \in Worker |-> IdleSearch] /\ UNCHANGED shelf
  BY <1>1, <1>6, ElsewhereInv DEF shelf
<1>7. CASE Tick
  <2>1. clock' \in 0 .. MaxTime
    BY <1>1, <1>7 DEF Tick
  <2> QED
    BY <1>7, <2>1, ElsewhereInv DEF Tick
<1> QED
  BY <1>2, <1>3, <1>4, <1>5, <1>6, <1>7 DEF StoreNext

LEMMA StoreAlways == StoreSpec => [](IndexInv /\ SearchInv)
<1>1. StoreInit => SearchInv
  BY SearchInitInv
<1>2. IndexInv /\ SearchInv /\ [StoreNext]_storeVars => SearchInv'
  BY SearchInvNext
<1> QED
  BY <1>1, <1>2, IndexAlways, PTL DEF StoreSpec

-----------------------------------------------------------------------------
(* What follows, for any number of threads. *)

\* The storefront's variables keep their types: never more than three listings
\* or suggestions are shown (top three of discover, out[:3] of
\* _suggestion_list), every row of the cache and every card has its fields.
THEOREM StoreIsTyped == StoreSpec => []StoreTypeOK
<1>1. IndexInv /\ SearchInv => StoreTypeOK
  <2> SUFFICES ASSUME IndexInv, SearchInv PROVE StoreTypeOK
    OBVIOUS
  <2>1. \A w \in Worker : Len(search[w].recs) <= 3 /\ Len(search[w].suggestions) <= 3
    BY DEF SearchInv, Sound, Shows
  <2> QED
    BY <2>1 DEF IndexInv, SearchInv, StoreTypeOK, Row
<1> QED
  BY <1>1, StoreAlways, PTL

\* An answer just found on the market fits the query: available, within the
\* budget, one listing of a product, the better fit first (deduplicate, filter,
\* rank and take three in discover, app/discovery.py).
THEOREM AnswersFit == StoreSpec => []FoundFits
<1>1. IndexInv /\ SearchInv => FoundFits
  BY DEF SearchInv, Sound, Shows, FoundFits, FitsQuery
<1> QED
  BY <1>1, StoreAlways, PTL

\* No search ends with an empty answer from the cache: nothing empty is ever
\* remembered (cache_put is guarded in discover).
THEOREM CacheIsNeverEmptyHanded == StoreSpec => []CacheAnswersSomething
<1>1. IndexInv /\ SearchInv => CacheAnswersSomething
  BY DEF SearchInv, Sound, Shows, CacheAnswersSomething
<1> QED
  BY <1>1, StoreAlways, PTL

\* Every suggestion the chat replies with was in stock, priced within the
\* budget and not a second copy of another or of what the cart holds, except the
\* captured product, when its card was read: products are read once before the
\* offer and again for the complements, and the merchant edits them between
\* (_suggestion_list in app/orchestration.py).
THEOREM ChatSuggestsPayable == StoreSpec => []SuggestionsPayable
<1>1. IndexInv /\ SearchInv => SuggestionsPayable
  BY DEF SearchInv, Sound, Shows, SuggestionsPayable, CanBeBought
<1> QED
  BY <1>1, StoreAlways, PTL

-----------------------------------------------------------------------------
(* What single steps do. *)

LEMMA BecomesAlone ==
    ASSUME SearchInv, NEW w \in Worker, NEW t, search' = [search EXCEPT ![w] = t],
           NEW v \in Worker
    PROVE  search'[v] = IF v = w THEN t ELSE search[v]
  BY DEF SearchInv

LEMMA BecomesThat ==
    ASSUME SearchInv, NEW w \in Worker, NEW t, Become(w, t)
    PROVE  search'[w] = t
<1>1. search' = [search EXCEPT ![w] = t]
  BY DEF Become
<1>2. search \in [Worker -> Search]
  BY DEF SearchInv
<1> QED
  BY <1>1, <1>2

\* A search changes only by its own thread, or when the server stops.
LEMMA OwnSteps ==
    ASSUME SearchInv, [StoreNext]_storeVars, NEW v \in Worker
    PROVE  \/ search'[v] = search[v]
           \/ search'[v] = IdleSearch
           \/ StartChatSearch(v) \/ StartAgentSearch(v) \/ SearchStep(v)
<1>1. ASSUME NEW w \in Worker, NEW t, Become(w, t), v # w
      PROVE  search'[v] = search[v]
  BY <1>1, BecomesAlone DEF Become
<1>2. ASSUME NEW w \in Worker, StartChatSearch(w) \/ StartAgentSearch(w)
      PROVE  \E t : Become(w, t)
  BY <1>2 DEF StartChatSearch, StartAgentSearch
<1>3. ASSUME NEW w \in Worker, SearchStep(w)
      PROVE  \E t : Become(w, t)
  <2>1. CASE SearchMarket(w)
    BY <2>1 DEF SearchMarket
  <2>2. CASE TierTwo(w) \/ TierTwoAnswers(w) \/ TierTwoPasses(w) \/ Match(w)
             \/ MakeOffer(w) \/ RecordOffer(w) \/ Suggest(w) \/ LookUp(w)
    <3>1. \A label : Pass(w, label) => \E t : Become(w, t)
      BY DEF Pass
    <3> QED
      BY <2>2, <3>1 DEF TierTwo, TierTwoAnswers, TierTwoPasses, Match, MakeOffer,
         RecordOffer, Suggest, LookUp
  <2>3. CASE FindBest(w) \/ Shortlist(w) \/ CrossSell(w) \/ Reply(w)
    <3>1. \A label : Pass(w, label) => \E t : Become(w, t)
      BY DEF Pass
    <3> QED
      BY <2>3, <3>1 DEF FindBest, Shortlist, CrossSell, Reply
  <2> QED
    BY <1>3, <2>1, <2>2, <2>3 DEF SearchStep
<1>4. CASE \E w \in Worker : StartChatSearch(w) \/ StartAgentSearch(w) \/ SearchStep(w)
  <2>1. PICK w \in Worker : StartChatSearch(w) \/ StartAgentSearch(w) \/ SearchStep(w)
    BY <1>4
  <2>2. PICK t : Become(w, t)
    BY <1>2, <1>3, <2>1
  <2> QED
    BY <1>1, <2>1, <2>2
<1>5. CASE UNCHANGED search
  BY <1>5
<1>6. CASE search' = [w \in Worker |-> IdleSearch]
  BY <1>6
<1> QED
  BY <1>4, <1>5, <1>6 DEF StoreNext, storeVars, Tick

\* What comes from the cache has not expired.
FreshNow(s) == \A i \in DOMAIN s.recs : clock < s.recs[i].found + CacheTTL

LEMMA RowsAreFresh ==
    ASSUME SearchInv, NEW q \in Query, NEW threshold,
           NEW row, row = Lookup(cache, q, clock, threshold), row # 0
    PROVE  /\ \A i \in DOMAIN cache[row].results :
                clock < cache[row].results[i].found + CacheTTL
           /\ cache[row].results \in Seq(Listing) /\ Len(cache[row].results) <= 3
<1>1. cache \in Seq(Row) /\ \A i \in DOMAIN cache : Honest(cache[i])
  BY DEF SearchInv
<1>2. row \in DOMAIN cache /\ cache[row].expires > clock
  BY <1>1, LookupIs
<1>3. cache[row] \in Row /\ Honest(cache[row])
  BY <1>1, <1>2, LenProperties
<1>4. clock \in Int /\ CacheTTL \in Int /\ cache[row].expires \in Int
  BY <1>3, StorefrontAssumption, MarketAssumption DEF SearchInv, Row
<1> DEFINE recs == cache[row].results
<1>5. recs \in Seq(Listing) /\ Len(recs) <= 3
  BY <1>3 DEF Row, Honest
<1>6. ASSUME NEW i \in DOMAIN recs PROVE clock < recs[i].found + CacheTTL
  <2>1. recs[i] \in Listing
    BY <1>5, LenProperties
  <2>2. recs[i].found \in Int
    BY <2>1 DEF Listing
  <2>3. cache[row].expires <= recs[i].found + CacheTTL
    BY <1>3 DEF Honest
  <2> HIDE DEF recs
  <2> QED
    BY <1>2, <1>4, <2>2, <2>3
<1> QED
  BY <1>5, <1>6

LEMMA ServedFreshStep ==
    ASSUME SearchInv, [StoreNext]_storeVars, NEW w \in Worker,
           ~search[w].cached, search'[w].cached
    PROVE  FreshNow(search'[w])
<1>1. PICK s : s = search[w]
  OBVIOUS
<1>2. s \in Search /\ AsksFor(s) /\ ~s.cached
  BY <1>1 DEF SearchInv, Sound
<1>3. PICK u : u = search'[w]
  OBVIOUS
<1>4. ASSUME NEW t, Become(w, t) PROVE u = t
  BY <1>3, <1>4, BecomesThat
<1>5. IdleSearch.cached = FALSE
  BY DEF IdleSearch
<1>6. ASSUME NEW label, Pass(w, label) PROVE FALSE
  <2>1. u = [s EXCEPT !.at = label]
    BY <1>1, <1>4, <1>6 DEF Pass
  <2> QED
    BY <1>2, <1>3, <2>1 DEF Search
<1>7. CASE TierTwo(w)
  <2>1. PICK row : row = Lookup(cache, s.asked, clock, CertainlySimilar)
    OBVIOUS
  <2>2. s.asked \in Query
    BY <1>1, <1>2, <1>7 DEF TierTwo, Searching, AsksFor
  <2>3. row # 0
    BY <1>1, <1>6, <1>7, <2>1 DEF TierTwo
  <2>4. PICK recs : recs = cache[row].results
    OBVIOUS
  <2>5. /\ \A i \in DOMAIN recs : clock < recs[i].found + CacheTTL
        /\ recs \in Seq(Listing) /\ Len(recs) <= 3
    BY <2>1, <2>2, <2>3, <2>4, RowsAreFresh
  <2>6. FirstThree(recs) = recs
    BY <2>5, FirstThreeIs
  <2>7. Become(w, [s EXCEPT !.at = "verdict", !.cached = TRUE, !.recs = FirstThree(recs)])
    BY <1>1, <1>7, <2>1, <2>3, <2>4 DEF TierTwo
  <2>8. u = [s EXCEPT !.at = "verdict", !.cached = TRUE, !.recs = recs]
    BY <1>4, <2>6, <2>7
  <2>9. u.recs = recs
    BY <1>2, <2>8 DEF Search
  <2> QED
    BY <1>3, <2>5, <2>9 DEF FreshNow
<1>8. CASE LookUp(w)
  <2>1. PICK row : row = Lookup(cache, s.asked, clock, SimilarEnough)
    OBVIOUS
  <2>2. s.asked \in Query
    BY <1>1, <1>2, <1>8 DEF LookUp, Searching, AsksFor
  <2>3. row # 0
    BY <1>1, <1>6, <1>8, <2>1 DEF LookUp
  <2>4. PICK recs : recs = cache[row].results
    OBVIOUS
  <2>5. \A i \in DOMAIN recs : clock < recs[i].found + CacheTTL
    BY <2>1, <2>2, <2>3, <2>4, RowsAreFresh
  <2>6. u = Listed(s, recs, TRUE)
    BY <1>1, <1>4, <1>8, <2>1, <2>3, <2>4 DEF LookUp
  <2>7. u.recs = recs
    <3>1. CASE s.todo # <<>>
      BY <1>2, <1>3, <2>6, <3>1 DEF Listed, Search
    <3>2. CASE s.todo = <<>>
      BY <1>2, <2>6, <3>2 DEF Listed, Search
    <3> QED
      BY <3>1, <3>2
  <2> QED
    BY <1>3, <2>5, <2>7 DEF FreshNow
<1>9. ASSUME SearchMarket(w) PROVE FALSE
  <2>1. PICK recs : Become(w, Listed(s, recs, FALSE))
    BY <1>1, <1>9 DEF SearchMarket
  <2>2. u = Listed(s, recs, FALSE)
    BY <1>4, <2>1
  <2>3. ~u.cached
    BY <1>2, <2>2 DEF Listed, Search
  <2> QED
    BY <1>3, <2>3
<1>10. ASSUME StartChatSearch(w) \/ StartAgentSearch(w) \/ Reply(w) PROVE FALSE
  <2>1. CASE StartChatSearch(w)
    <3>1. PICK q, r, c, label :
             Become(w, [IdleSearch EXCEPT !.at = label, !.by = "chat", !.cart = c,
                           !.query = q, !.asked = r])
      BY <2>1 DEF StartChatSearch
    <3>2. u = [IdleSearch EXCEPT !.at = label, !.by = "chat", !.cart = c,
                  !.query = q, !.asked = r]
      BY <1>4, <3>1
    <3> QED
      BY <1>3, <3>2 DEF IdleSearch
  <2>2. CASE StartAgentSearch(w)
    <3>1. PICK q : Become(w, [IdleSearch EXCEPT !.at = "lookup", !.by = "agent", !.query = q,
                                               !.asked = q])
      BY <2>2 DEF StartAgentSearch
    <3>2. u = [IdleSearch EXCEPT !.at = "lookup", !.by = "agent", !.query = q, !.asked = q]
      BY <1>4, <3>1
    <3> QED
      BY <1>3, <3>2 DEF IdleSearch
  <2>3. CASE Reply(w)
    BY <1>3, <1>4, <1>5, <2>3 DEF Reply
  <2> QED
    BY <1>10, <2>1, <2>2, <2>3
<1>11. ASSUME TierTwoPasses(w) \/ Match(w) \/ MakeOffer(w) \/ Suggest(w) \/ FindBest(w)
              \/ Shortlist(w) PROVE FALSE
  <2>1. ~u.cached
    <3>1. CASE TierTwoPasses(w)
      BY <1>1, <1>2, <1>4, <3>1 DEF TierTwoPasses, Search
    <3>2. CASE Match(w)
      BY <1>1, <1>2, <1>4, <3>2 DEF Match, Search
    <3>3. CASE MakeOffer(w)
      BY <1>1, <1>2, <1>4, <3>3 DEF MakeOffer, Search
    <3>4. CASE Suggest(w)
      BY <1>1, <1>2, <1>4, <3>4 DEF Suggest, Search
    <3>5. CASE FindBest(w)
      BY <1>1, <1>2, <1>4, <3>5 DEF FindBest, Search
    <3>6. CASE Shortlist(w)
      BY <1>1, <1>2, <1>4, <3>6 DEF Shortlist, Search
    <3> QED
      BY <1>11, <3>1, <3>2, <3>3, <3>4, <3>5, <3>6
  <2> QED
    BY <1>3, <2>1
<1>12. ASSUME CrossSell(w) PROVE FALSE
  <2>1. Become(w, [s EXCEPT !.at = "lookup", !.asked = Head(Head(s.todo))])
    BY <1>1, <1>6, <1>12 DEF CrossSell
  <2>2. u = [s EXCEPT !.at = "lookup", !.asked = Head(Head(s.todo))]
    BY <1>4, <2>1
  <2> QED
    BY <1>2, <1>3, <2>2 DEF Search
<1>13. ASSUME TierTwoAnswers(w) \/ RecordOffer(w) PROVE FALSE
  BY <1>6, <1>13 DEF TierTwoAnswers, RecordOffer
<1>14. \/ u = s \/ u = IdleSearch
       \/ StartChatSearch(w) \/ StartAgentSearch(w) \/ SearchStep(w)
  BY <1>1, <1>3, OwnSteps
<1> QED
  BY <1>2, <1>3, <1>5, <1>7, <1>8, <1>9, <1>10, <1>11, <1>12, <1>13, <1>14 DEF SearchStep

\* Listings taken from the cache were found less than CacheTTL ago: a row
\* expires with what it holds, and what is served is never cached anew
\* (cache_put and cached_lookup in app/semantic_cache.py).
THEOREM CacheServesFresh == StoreSpec => ServedFresh
<1>1. IndexInv /\ SearchInv /\ [StoreNext]_storeVars
      => [\A w \in Worker : ~search[w].cached /\ search'[w].cached =>
            \A i \in DOMAIN search'[w].recs :
                clock < search'[w].recs[i].found + CacheTTL]_storeVars
  BY ServedFreshStep DEF FreshNow
<1> QED
  BY <1>1, StoreAlways, PTL DEF StoreSpec, ServedFresh

CascadeHonest(w) ==
    /\ /\ Searching(w, "tier2") /\ search'[w].at = "verdict"
       /\ SameWords(search[w].asked, search[w].query)
       => LET row == Lookup(cache, search[w].query, clock, SimilarEnough)
          IN  row # 0 /\ search'[w].recs = FirstThree(cache[row].results)
    /\ /\ Searching(w, "verdict") /\ search'[w].at = "reply"
       /\ search[w].asked = search[w].query
       => Candidates(Now, search[w].query) = <<>>

LEMMA CascadeStep ==
    ASSUME SimilarEnough <= CertainlySimilar,
           IndexInv, SearchInv, [StoreNext]_storeVars, NEW w \in Worker
    PROVE  CascadeHonest(w)
<1>1. PICK s : s = search[w]
  OBVIOUS
<1>2. s \in Search /\ AsksFor(s)
  BY <1>1 DEF SearchInv, Sound
<1>3. PICK u : u = search'[w]
  OBVIOUS
<1>4. ASSUME NEW t, Become(w, t) PROVE u = t
  BY <1>3, <1>4, BecomesThat
<1>5. \/ u = s \/ u = IdleSearch
      \/ StartChatSearch(w) \/ StartAgentSearch(w) \/ SearchStep(w)
  BY <1>1, <1>3, OwnSteps
<1>6. IdleSearch.at = "idle"
  BY DEF IdleSearch
<1>7. ASSUME s.at = "tier2", u.at = "verdict", SameWords(s.asked, s.query)
      PROVE  LET row == Lookup(cache, s.query, clock, SimilarEnough)
             IN  row # 0 /\ u.recs = FirstThree(cache[row].results)
  <2>1. TierTwo(w)
    BY <1>1, <1>5, <1>6, <1>7 DEF SearchStep, StartChatSearch, StartAgentSearch, Free,
       Searching, TierTwoAnswers, TierTwoPasses, Match, MakeOffer, RecordOffer, Suggest,
       LookUp, SearchMarket, FindBest, Shortlist, CrossSell, Reply
  <2>2. PICK row : row = Lookup(cache, s.asked, clock, CertainlySimilar)
    OBVIOUS
  <2>3. row # 0
    <3> SUFFICES ASSUME row = 0 PROVE FALSE
      OBVIOUS
    <3>1. Become(w, [s EXCEPT !.at = "match"])
      BY <1>1, <2>1, <2>2 DEF TierTwo, Pass
    <3> QED
      BY <1>2, <1>4, <1>7, <3>1 DEF Search
  <2>4. /\ s.query \in Query /\ s.asked \in Query
        /\ s.asked.type = s.asked.category
    BY <1>2, <1>7 DEF AsksFor
  <2>5. Lookup(cache, s.query, clock, SimilarEnough) = row
    <3>1. SimilarEnough \in 0 .. 100 /\ CertainlySimilar \in 0 .. 100
      BY MarketAssumption, StorefrontAssumption
    <3>2. cache \in Seq(Row)
      BY DEF SearchInv
    <3>3. Lookup(cache, s.asked, clock, SimilarEnough) = row
      BY <2>2, <2>3, <2>4, <3>1, <3>2, StricterLookup
    <3> QED
      BY <1>7, <2>3, <2>4, <3>2, <3>3, SameLookup
  <2>6. Become(w, [s EXCEPT !.at = "verdict", !.cached = TRUE,
                    !.recs = FirstThree(cache[row].results)])
    BY <1>1, <2>1, <2>2, <2>3 DEF TierTwo
  <2>7. u.recs = FirstThree(cache[row].results)
    BY <1>2, <1>4, <2>6 DEF Search
  <2> QED
    BY <2>3, <2>5, <2>7
<1>8. ASSUME s.at = "verdict", u.at = "reply", s.asked = s.query
      PROVE  Candidates(Now, s.query) = <<>>
  <2>1. TierTwoAnswers(w) \/ TierTwoPasses(w)
    BY <1>1, <1>5, <1>6, <1>8 DEF SearchStep, StartChatSearch, StartAgentSearch, Free,
       Searching, TierTwo, Match, MakeOffer, RecordOffer, Suggest,
       LookUp, SearchMarket, FindBest, Shortlist, CrossSell, Reply
  <2>2. ~TierTwoPasses(w)
    BY <1>1, <1>2, <1>4, <1>8 DEF TierTwoPasses, Search
  <2>3. NoMerchantMatch(Now, s.query)
    BY <1>1, <1>8, <2>1, <2>2 DEF TierTwoAnswers
  <2>4. s.query \in Query
    BY <1>2, <1>8 DEF AsksFor
  <2> QED
    BY <2>3, <2>4, NowIs, CandidatesAre
<1> QED
  BY <1>1, <1>3, <1>7, <1>8 DEF Searching, CascadeHonest

\* When Tier 2 answers from the cache and its reading of the message has the
\* words of the pipeline's, the pipeline would have looked up the very same
\* listings, as long as the cascade's threshold is the stricter; and where the
\* two readings are equal, type included, it would have found no product of the
\* shop's own (app/cascade_router.py, _structured_requirements in
\* app/orchestration.py).  Nothing is said of readings that differ.
THEOREM CascadeAgrees ==
    ASSUME SimilarEnough <= CertainlySimilar
    PROVE  StoreSpec => TierTwoAgrees
<1>1. IndexInv /\ SearchInv /\ [StoreNext]_storeVars
      => [\A w \in Worker : CascadeHonest(w)]_storeVars
  BY CascadeStep
<1>2. [](IndexInv /\ SearchInv) /\ [][StoreNext]_storeVars
      => [][\A w \in Worker : CascadeHonest(w)]_storeVars
  BY <1>1, PTL
<1> QED
  BY <1>2, StoreAlways, PTL DEF StoreSpec, TierTwoAgrees, CascadeHonest

=============================================================================
