-------------------------- MODULE TaskListingProofs --------------------------
(***************************************************************************)
(* The pages of TaskListing, for any places, filters, page sizes and number  *)
(* of changes: how a change of one task moves the positions of the others.   *)
(***************************************************************************)
EXTENDS TaskListing, FiniteSetTheorems, TLAPS

-----------------------------------------------------------------------------
(* Positions in a list L, and what is on the wrong side of a page's end m *)

Pos(L, i) == Cardinality({j \in L : j >= i})
MissedIn(L, D, G, m) == {i \in D \ G : Pos(L, i) <= m}
PageOf(L, m, l) == {i \in L : m < Pos(L, i) /\ Pos(L, i) <= m + l}
AheadIn(L, G, m) == {i \in G \cap L : Pos(L, i) > m}

\* The positions of a list are 1 to its length, and no two tasks have the same.
LEMMA Positions ==
  ASSUME NEW L \in SUBSET Int, IsFiniteSet(L)
  PROVE  /\ Cardinality(L) \in Nat
         /\ \A i \in Int : Pos(L, i) \in Nat /\ Pos(L, i) <= Cardinality(L)
         /\ \A i \in L : Pos(L, i) > 0
         /\ \A i, j \in L : i < j => Pos(L, j) < Pos(L, i)
         /\ \A i, j \in L : Pos(L, i) = Pos(L, j) => i = j
<1> DEFINE F(i) == {j \in L : j >= i}
<1>1. Cardinality(L) \in Nat /\ \A i \in L : i \in Int
  BY FS_CardinalityType
<1>2. ASSUME NEW i \in Int
      PROVE  IsFiniteSet(F(i)) /\ Pos(L, i) \in Nat /\ Pos(L, i) <= Cardinality(L)
  <2>1. F(i) \in SUBSET L
    OBVIOUS
  <2>2. IsFiniteSet(F(i)) /\ Cardinality(F(i)) <= Cardinality(L)
    BY <2>1, FS_Subset
  <2>3. Cardinality(F(i)) \in Nat
    BY <2>2, FS_CardinalityType
  <2>. QED
    BY <2>2, <2>3 DEF Pos
<1>3. ASSUME NEW i \in L, NEW j \in L, i < j PROVE Pos(L, j) < Pos(L, i)
  <2>1. i \in Int /\ j \in Int
    BY <1>1
  <2>2. F(j) \in SUBSET F(i) /\ i \in F(i) /\ i \notin F(j)
    <3>1. \A h \in Int : h >= j => h >= i
      BY <1>3, <2>1
    <3>2. i >= i /\ ~(i >= j)
      BY <1>3, <2>1
    <3>. QED
      BY <1>1, <3>1, <3>2
  <2>3. Cardinality(F(j)) <= Cardinality(F(i)) /\ Cardinality(F(i)) # Cardinality(F(j))
    BY <1>2, <2>1, <2>2, FS_Subset
  <2>. QED
    BY <1>2, <2>1, <2>3 DEF Pos
<1>4. ASSUME NEW i \in L, NEW j \in L, Pos(L, i) = Pos(L, j) PROVE i = j
  <2>1. i \in Int /\ j \in Int
    BY <1>1
  <2>2. Pos(L, i) \in Nat
    BY <1>2, <2>1
  <2>3. ~(i < j) /\ ~(j < i)
    BY <1>3, <1>4, <2>2
  <2>. QED
    BY <2>1, <2>3
<1>5. ASSUME NEW i \in L PROVE Pos(L, i) > 0
  <2>1. i \in Int /\ i \in F(i)
    BY <1>1
  <2>2. Cardinality(F(i)) # 0
    BY <1>2, <2>1, FS_EmptySet
  <2>. QED
    BY <1>2, <2>1, <2>2 DEF Pos
<1>. QED
  BY <1>1, <1>2, <1>3, <1>4, <1>5

\* A task that leaves a list moves the older ones one position forward.
LEMMA LeavingMoves ==
  ASSUME NEW L \in SUBSET Int, IsFiniteSet(L), NEW x \in L, NEW i \in Int
  PROVE  /\ IsFiniteSet(L \ {x}) /\ L \ {x} \in SUBSET Int
         /\ Pos(L \ {x}, i) = IF x >= i THEN Pos(L, i) - 1 ELSE Pos(L, i)
<1> DEFINE F == {j \in L : j >= i}
           H == {j \in L \ {x} : j >= i}
<1>1. IsFiniteSet(L \ {x})
  BY FS_RemoveElement
<1>2. H = F \ {x} /\ (x \in F <=> x >= i) /\ F \in SUBSET L
  OBVIOUS
<1>3. IsFiniteSet(F)
  BY <1>2, FS_Subset
<1>4. Cardinality(F \ {x}) = IF x \in F THEN Cardinality(F) - 1 ELSE Cardinality(F)
  BY <1>3, FS_RemoveElement
<1>. QED
  BY <1>1, <1>2, <1>4 DEF Pos

\* A set that gains only elements of a set without two of them gains at most one.
LEMMA AtMostOneMore ==
  ASSUME NEW S, IsFiniteSet(S), NEW E, \A a, b \in E : a = b, NEW T \in SUBSET (S \cup E)
  PROVE  Cardinality(T) \in Nat /\ Cardinality(T) <= Cardinality(S) + 1
<1>1. Cardinality(S) \in Nat
  BY FS_CardinalityType
<1>2. PICK e : E \subseteq {e}
  OBVIOUS
<1>3. T \in SUBSET (S \cup {e})
  BY <1>2
<1>4. IsFiniteSet(S \cup {e}) /\ Cardinality(S \cup {e}) \in Nat /\ Cardinality(S \cup {e}) <= Cardinality(S) + 1
  BY <1>1, FS_AddElement
<1>5. IsFiniteSet(T) /\ Cardinality(T) <= Cardinality(S \cup {e})
  BY <1>3, <1>4, FS_Subset
<1>6. Cardinality(T) \in Nat
  BY <1>5, FS_CardinalityType
<1>. QED
  BY <1>1, <1>4, <1>5, <1>6

\* What is missed and what is ahead are finite.
LEMMA SidesFinite ==
  ASSUME NEW L \in SUBSET Int, IsFiniteSet(L), NEW D \in SUBSET L, NEW G, NEW m
  PROVE  /\ IsFiniteSet(MissedIn(L, D, G, m)) /\ Cardinality(MissedIn(L, D, G, m)) \in Nat
         /\ IsFiniteSet(AheadIn(L, G, m)) /\ Cardinality(AheadIn(L, G, m)) \in Nat
<1>1. MissedIn(L, D, G, m) \in SUBSET L /\ AheadIn(L, G, m) \in SUBSET L
  BY DEF MissedIn, AheadIn
<1>2. IsFiniteSet(MissedIn(L, D, G, m)) /\ IsFiniteSet(AheadIn(L, G, m))
  BY <1>1, FS_Subset
<1>. QED
  BY <1>2, FS_CardinalityType

\* A task that leaves hides one that has not been read at most, and puts none ahead.
LEMMA Leaving ==
  ASSUME NEW L \in SUBSET Int, IsFiniteSet(L), NEW x \in L, NEW D \in SUBSET L, NEW G, NEW m \in Nat
  PROVE  /\ Cardinality(MissedIn(L \ {x}, D \ {x}, G, m)) <= Cardinality(MissedIn(L, D, G, m)) + 1
         /\ Cardinality(AheadIn(L \ {x}, G, m)) <= Cardinality(AheadIn(L, G, m))
<1> DEFINE K == L \ {x}
           E == {i \in L : Pos(L, i) = m + 1}
<1>1. \A i \in L : /\ Pos(L, i) \in Nat /\ Pos(K, i) <= Pos(L, i)
                   /\ Pos(K, i) <= m => Pos(L, i) <= m \/ Pos(L, i) = m + 1
  <2>1. \A i \in L : i \in Int
    OBVIOUS
  <2>2. ASSUME NEW i \in L
        PROVE  /\ Pos(L, i) \in Nat
               /\ Pos(K, i) = Pos(L, i) \/ Pos(K, i) = Pos(L, i) - 1
    BY <2>1, LeavingMoves, Positions
  <2> HIDE DEF K
  <2>. QED
    BY <2>2
<1>2. \A a, b \in E : a = b
  BY Positions
<1>3. MissedIn(K, D \ {x}, G, m) \in SUBSET (MissedIn(L, D, G, m) \cup E)
  <2>1. \A i \in D : i \in L
    OBVIOUS
  <2> HIDE DEF K
  <2>. QED
    BY <1>1, <2>1 DEF MissedIn
<1>4. AheadIn(K, G, m) \in SUBSET AheadIn(L, G, m)
  <2>1. SUFFICES ASSUME NEW i \in L, Pos(K, i) > m PROVE Pos(L, i) > m
    BY DEF AheadIn
  <2>2. Pos(L, i) \in Nat /\ Pos(K, i) \in Nat /\ Pos(K, i) <= Pos(L, i)
    <3>1. i \in Int
      OBVIOUS
    <3>. QED
      BY <1>1, <3>1, LeavingMoves, Positions, ZenonT(40)
  <2>. QED
    BY <2>1, <2>2
<1>5. IsFiniteSet(MissedIn(L, D, G, m)) /\ IsFiniteSet(AheadIn(L, G, m))
  BY SidesFinite
<1> HIDE DEF E
<1>6. Cardinality(MissedIn(K, D \ {x}, G, m)) <= Cardinality(MissedIn(L, D, G, m)) + 1
  BY <1>2, <1>3, <1>5, AtMostOneMore
<1>7. Cardinality(AheadIn(K, G, m)) <= Cardinality(AheadIn(L, G, m))
  BY <1>4, <1>5, FS_Subset
<1>. QED
  BY <1>6, <1>7

\* A task that enters hides none, and puts one that has been read ahead at most.
LEMMA Entering ==
  ASSUME NEW L \in SUBSET Int, IsFiniteSet(L), NEW x \in Int, x \notin L,
         NEW D \in SUBSET L, NEW G, NEW m \in Nat
  PROVE  /\ IsFiniteSet(L \cup {x}) /\ L \cup {x} \in SUBSET Int
         /\ Cardinality(MissedIn(L \cup {x}, D, G, m)) <= Cardinality(MissedIn(L, D, G, m))
         /\ Cardinality(AheadIn(L \cup {x}, G, m)) <= Cardinality(AheadIn(L, G, m)) + 1
<1> DEFINE K == L \cup {x}
           E == IF Pos(K, x) > m THEN {x} ELSE {i \in L : Pos(L, i) = m}
<1>1. IsFiniteSet(K) /\ K \in SUBSET Int /\ K \ {x} = L /\ x \in K
  BY FS_AddElement
<1>2. \A i \in Int : /\ Pos(L, i) \in Nat /\ Pos(K, i) \in Nat
                     /\ Pos(L, i) = IF x >= i THEN Pos(K, i) - 1 ELSE Pos(K, i)
  <2>1. \A i \in Int : Pos(L, i) \in Nat /\ Pos(K, i) \in Nat
    BY <1>1, Positions
  <2>2. ASSUME NEW i \in Int PROVE Pos(L, i) = IF x >= i THEN Pos(K, i) - 1 ELSE Pos(K, i)
    <3> HIDE DEF K
    <3>1. Pos(K \ {x}, i) = IF x >= i THEN Pos(K, i) - 1 ELSE Pos(K, i)
      BY <1>1, LeavingMoves
    <3>. QED
      BY <1>1, <3>1
  <2>. QED
    BY <2>1, <2>2
<1>3. \A i \in L : i < x => Pos(K, x) < Pos(K, i)
  BY <1>1, Positions
<1>4. \A a, b \in E : a = b
  BY Positions
<1>5. MissedIn(K, D, G, m) \in SUBSET MissedIn(L, D, G, m)
  <2>1. SUFFICES ASSUME NEW i \in D, Pos(K, i) <= m PROVE Pos(L, i) <= m
    BY DEF MissedIn
  <2>2. i \in Int
    OBVIOUS
  <2>3. /\ Pos(L, i) \in Nat /\ Pos(K, i) \in Nat
        /\ Pos(L, i) = IF x >= i THEN Pos(K, i) - 1 ELSE Pos(K, i)
    <3> HIDE DEF K
    <3>. QED
      BY <1>2, <2>2
  <2>. QED
    BY <2>1, <2>3
<1>6. AheadIn(K, G, m) \in SUBSET (AheadIn(L, G, m) \cup E)
  <2>1. SUFFICES ASSUME NEW i \in G \cap K, Pos(K, i) > m, ~(i \in L /\ Pos(L, i) > m)
                 PROVE  i \in E
    BY DEF AheadIn
  <2>2. CASE i = x
    BY <2>1, <2>2
  <2>3. CASE i # x
    <3>1. i \in L /\ i \in Int /\ Pos(K, i) > m /\ ~(Pos(L, i) > m)
      BY <2>1, <2>3
    <3>2. x >= i /\ i < x /\ Pos(L, i) = m /\ Pos(K, i) = m + 1
      <4> HIDE DEF K
      <4>1. Pos(L, i) \in Nat /\ Pos(K, i) \in Nat /\ Pos(L, i) = IF x >= i THEN Pos(K, i) - 1 ELSE Pos(K, i)
        BY <1>2, <3>1
      <4>. QED
        BY <2>3, <3>1, <4>1
    <3>3. ~(Pos(K, x) > m)
      <4> HIDE DEF K
      <4>1. Pos(K, x) \in Nat /\ Pos(K, x) < Pos(K, i)
        BY <1>2, <1>3, <3>1, <3>2
      <4>. QED
        BY <3>2, <4>1
    <3>. QED
      BY <3>1, <3>2, <3>3
  <2>. QED
    BY <2>2, <2>3
<1>7. IsFiniteSet(MissedIn(L, D, G, m)) /\ IsFiniteSet(AheadIn(L, G, m))
  BY SidesFinite
<1> HIDE DEF E
<1>8. Cardinality(AheadIn(K, G, m)) <= Cardinality(AheadIn(L, G, m)) + 1
  BY <1>4, <1>6, <1>7, AtMostOneMore
<1>9. Cardinality(MissedIn(K, D, G, m)) <= Cardinality(MissedIn(L, D, G, m))
  BY <1>5, <1>7, FS_Subset
<1>. QED
  BY <1>1, <1>8, <1>9

\* The tasks on a page: none of those missed is on it, and what is given again is no
\* longer ahead.
LEMMA Turning ==
  ASSUME NEW L \in SUBSET Int, IsFiniteSet(L), NEW D \in SUBSET L, NEW G, NEW m \in Nat, NEW l \in Nat
  PROVE  /\ Cardinality(PageOf(L, m, l) \cap G) \in Nat
         /\ Cardinality(MissedIn(L, D, G \cup PageOf(L, m, l), m + l))
               <= Cardinality(MissedIn(L, D, G, m))
         /\ Cardinality(PageOf(L, m, l) \cap G)
               + Cardinality(AheadIn(L, G \cup PageOf(L, m, l), m + l))
               = Cardinality(AheadIn(L, G, m))
<1> DEFINE P == PageOf(L, m, l)
<1>1. \A i \in L : Pos(L, i) \in Nat
  <2>1. \A i \in L : i \in Int
    OBVIOUS
  <2>. QED
    BY <2>1, Positions
<1>10. P = {i \in L : m < Pos(L, i) /\ Pos(L, i) <= m + l}
  BY DEF PageOf
<1> HIDE DEF P
<1>2. MissedIn(L, D, G \cup P, m + l) \in SUBSET MissedIn(L, D, G, m)
  <2>1. SUFFICES ASSUME NEW i \in D, i \notin G, i \notin P, Pos(L, i) <= m + l
                 PROVE  Pos(L, i) <= m
    BY DEF MissedIn
  <2>2. i \in L /\ Pos(L, i) \in Nat
    BY <1>1
  <2>3. ~(m < Pos(L, i))
    BY <1>10, <2>1, <2>2
  <2>. QED
    BY <2>2, <2>3
<1>3. IsFiniteSet(MissedIn(L, D, G, m)) /\ IsFiniteSet(AheadIn(L, G, m)) /\ IsFiniteSet(AheadIn(L, G \cup P, m + l))
  BY SidesFinite
<1>4. /\ AheadIn(L, G, m) = (P \cap G) \cup AheadIn(L, G \cup P, m + l)
      /\ (P \cap G) \cap AheadIn(L, G \cup P, m + l) = {}
  <2>1. ASSUME NEW i \in L
        PROVE  /\ i \in P <=> m < Pos(L, i) /\ Pos(L, i) <= m + l
               /\ Pos(L, i) > m + l => Pos(L, i) > m
               /\ Pos(L, i) > m => i \in P \/ Pos(L, i) > m + l
               /\ ~(i \in P /\ Pos(L, i) > m + l)
    BY <1>1, <1>10
  <2>2. \A i : i \in P => i \in L /\ Pos(L, i) > m
    BY <1>1, <1>10
  <2>3. \A i : i \in AheadIn(L, G, m) <=> i \in L /\ i \in G /\ Pos(L, i) > m
    BY DEF AheadIn
  <2>4. \A i : i \in AheadIn(L, G \cup P, m + l) <=> i \in L /\ (i \in G \/ i \in P) /\ Pos(L, i) > m + l
    BY DEF AheadIn
  <2>. QED
    BY <2>1, <2>2, <2>3, <2>4
<1>5. P \cap G \in SUBSET AheadIn(L, G, m)
  BY <1>4
<1>6. IsFiniteSet(P \cap G) /\ Cardinality(P \cap G) \in Nat
  BY <1>3, <1>5, FS_Subset, FS_CardinalityType
<1>7. Cardinality(AheadIn(L, G, m))
        = Cardinality(P \cap G) + Cardinality(AheadIn(L, G \cup P, m + l)) - 0
  <2> DEFINE A == AheadIn(L, G \cup P, m + l)
             R == P \cap G
  <2>1. IsFiniteSet(A) /\ IsFiniteSet(R) /\ R \cap A = {} /\ AheadIn(L, G, m) = R \cup A
    BY <1>3, <1>4, <1>6
  <2> HIDE DEF A, R
  <2>2. Cardinality(R \cup A) = Cardinality(R) + Cardinality(A) - Cardinality(R \cap A)
    BY <2>1, FS_Union
  <2>. QED
    BY <2>1, <2>2, FS_EmptySet DEF A, R
<1>8. Cardinality(AheadIn(L, G \cup P, m + l)) \in Nat
  BY <1>3, FS_CardinalityType
<1>9. Cardinality(MissedIn(L, D, G \cup P, m + l)) <= Cardinality(MissedIn(L, D, G, m))
  BY <1>2, <1>3, FS_Subset
<1>. QED
  BY <1>6, <1>7, <1>8, <1>9 DEF P

-----------------------------------------------------------------------------
(* The client and the other requests *)

\* What the invariant counts, by the operators above.
LEMMA Sides ==
  /\ Missed = MissedIn(Listed, due, got, page * limit)
  /\ Ahead = AheadIn(Listed, got, page * limit)
  /\ Missed' = MissedIn(Listed', due', got', page' * limit')
  /\ Ahead' = AheadIn(Listed', got', page' * limit')
BY DEF Missed, Ahead, MissedIn, AheadIn, Position, Pos

\* The types of the variables.
LEMMA ListTypes ==
  ASSUME ListTypeOK
  PROVE  /\ Listed \in SUBSET Int /\ IsFiniteSet(Listed)
         /\ due \in SUBSET Listed /\ got \in SUBSET Places
         /\ limit \in Nat /\ page \in Nat /\ page * limit \in Nat
         /\ (page + 1) * limit = page * limit + limit
         /\ Skipped(page + 1) = page * limit
         /\ left \in Nat /\ entered \in Nat /\ again \in Nat
         /\ Cardinality(Missed) \in Nat /\ Cardinality(Ahead) \in Nat
<1>1. limit \in Nat /\ page \in Nat /\ left \in Nat /\ entered \in Nat /\ again \in Nat
  BY LimitsAssumption DEF ListTypeOK
<1>2. Listed \in SUBSET Places /\ due \in SUBSET Listed /\ got \in SUBSET Places
  BY DEF ListTypeOK, Listed
<1>3. Listed \in SUBSET Int /\ IsFiniteSet(Listed)
  BY <1>2, PlacesAssumption, FS_Subset
<1>4. page * limit \in Nat /\ (page + 1) * limit = page * limit + limit
  BY <1>1
<1>5. Skipped(page + 1) = page * limit
  BY <1>1 DEF Skipped
<1>6. Cardinality(Missed) \in Nat /\ Cardinality(Ahead) \in Nat
  BY <1>2, <1>3, SidesFinite, Sides
<1>. QED
  BY <1>1, <1>2, <1>3, <1>4, <1>5, <1>6

\* Before the first page nothing is missed or read.
LEMMA NothingYet ==
  ASSUME NEW L, NEW m
  PROVE  Cardinality(MissedIn(L, {}, {}, m)) = 0 /\ Cardinality(AheadIn(L, {}, m)) = 0
<1>1. MissedIn(L, {}, {}, m) = {} /\ AheadIn(L, {}, m) = {}
  BY DEF MissedIn, AheadIn
<1>. QED
  BY <1>1, FS_EmptySet

\* The client begins with an empty list.
LEMMA InitListInv == ListInit => ListInv
<1> SUFFICES ASSUME ListInit PROVE ListInv
  OBVIOUS
<1>1. ListTypeOK
  BY DEF ListInit, ListTypeOK, Queries
<1>2. Cardinality(Missed) = 0 /\ Cardinality(Ahead) = 0
  BY NothingYet, Sides DEF ListInit
<1>. QED
  BY <1>1, <1>2 DEF ListInit, ListInv, ListSkipsNothing

\* A request for page 1 chooses the list.
LEMMA AskStep ==
  ASSUME ListInv, NEW q \in Queries, NEW l \in Limits, Ask(q, l)
  PROVE  ListInv'
<1>1. page = 0 /\ got = {} /\ due = {} /\ l # 0
  BY LimitsAssumption DEF ListInv, Ask
<1>2. ListTypeOK'
  BY <1>1 DEF ListInv, ListTypeOK, Ask
<1>3. Cardinality(Missed') = 0 /\ Cardinality(Ahead') = 0
  BY <1>1, NothingYet, Sides DEF Ask
<1>4. Cardinality(Missed) \in Nat /\ Cardinality(Ahead) \in Nat
      /\ left \in Nat /\ entered \in Nat /\ again \in Nat
  BY ListTypes DEF ListInv
<1>5. again = 0 \/ again <= entered
  BY <1>4 DEF ListInv
<1>. QED
  BY <1>1, <1>2, <1>3, <1>4, <1>5 DEF ListInv, ListSkipsNothing, Ask

\* A page: what is due on it is read.
LEMMA ReadItemsStep ==
  ASSUME ListInv, ReadItems
  PROVE  ListInv'
<1> DEFINE P == Items(page + 1)
           m == page * limit
<1>1. /\ Listed \in SUBSET Int /\ IsFiniteSet(Listed)
      /\ due \in SUBSET Listed /\ got \in SUBSET Places
      /\ limit \in Nat /\ page \in Nat /\ m \in Nat /\ (page + 1) * limit = m + limit
      /\ left \in Nat /\ entered \in Nat /\ again \in Nat
  BY ListTypes DEF ListInv
<1>2. P = PageOf(Listed, m, limit)
  BY ListTypes DEF ListInv, Items, Position, Pos, PageOf
<1>3. Listed' = Listed
  BY DEF ReadItems, Listed
<1>4. /\ page' = page + 1 /\ limit' = limit /\ got' = got \cup P /\ phase' = "total"
      /\ again' = again + Cardinality(P \cap got) /\ left' = left /\ entered' = entered
      /\ due' = IF page = 0 THEN Listed ELSE due
  BY DEF ReadItems
<1>5. P \in SUBSET Places
  BY <1>2 DEF Listed, PageOf
<1> HIDE DEF P
<1>6. /\ Cardinality(P \cap got) \in Nat
      /\ Cardinality(MissedIn(Listed, due, got \cup P, m + limit)) <= Cardinality(Missed)
      /\ Cardinality(P \cap got) + Cardinality(AheadIn(Listed, got \cup P, m + limit)) = Cardinality(Ahead)
  <2>1. Missed = MissedIn(Listed, due, got, m) /\ Ahead = AheadIn(Listed, got, m)
    BY Sides
  <2> HIDE DEF m
  <2>2. Listed \in SUBSET Int /\ IsFiniteSet(Listed) /\ due \in SUBSET Listed /\ limit \in Nat /\ m \in Nat
    BY <1>1
  <2>3. /\ Cardinality(PageOf(Listed, m, limit) \cap got) \in Nat
        /\ Cardinality(MissedIn(Listed, due, got \cup PageOf(Listed, m, limit), m + limit))
              <= Cardinality(MissedIn(Listed, due, got, m))
        /\ Cardinality(PageOf(Listed, m, limit) \cap got)
               + Cardinality(AheadIn(Listed, got \cup PageOf(Listed, m, limit), m + limit))
             = Cardinality(AheadIn(Listed, got, m))
    BY <2>2, Turning
  <2>. QED
    BY <1>2, <2>1, <2>3
<1>7. ListTypeOK'
  BY <1>1, <1>3, <1>4, <1>5, <1>6 DEF ListInv, ListTypeOK, ReadItems
<1>8. Cardinality(Missed') <= left'
  <2>1. Missed' = MissedIn(Listed, due', got \cup P, m + limit)
    BY <1>1, <1>3, <1>4, Sides
  <2>2. CASE page = 0
    <3>1. got = {} /\ m = 0 /\ due' = Listed
      BY <1>1, <1>4, <2>2 DEF ListInv
    <3>2. MissedIn(Listed, Listed, got \cup P, m + limit) = {}
      <4>1. ASSUME NEW i \in Listed PROVE Pos(Listed, i) \in Nat /\ Pos(Listed, i) > 0
        <5>1. i \in Int
          BY <1>1
        <5>. QED
          BY <1>1, <5>1, Positions
      <4>. QED
        BY <1>1, <1>2, <3>1, <4>1 DEF MissedIn, PageOf
    <3>. QED
      BY <1>1, <1>4, <2>1, <3>1, <3>2, FS_EmptySet
  <2>3. CASE page # 0
    <3>1. due' = due
      BY <1>4, <2>3
    <3>2. Cardinality(MissedIn(Listed, due, got \cup P, m + limit)) \in Nat /\ Cardinality(Missed) \in Nat
      BY <1>1, SidesFinite, Sides
    <3>. QED
      BY <1>1, <1>4, <1>6, <2>1, <3>1, <3>2 DEF ListInv
  <2>. QED
    BY <2>2, <2>3
<1>9. again' + Cardinality(Ahead') <= entered'
  <2>1. Ahead' = AheadIn(Listed, got \cup P, m + limit)
    BY <1>1, <1>3, <1>4, Sides
  <2>2. Cardinality(Ahead') \in Nat
    BY <1>1, <2>1, SidesFinite
  <2>3. again + Cardinality(Ahead) <= entered
    BY DEF ListInv
  <2>. QED
    BY <1>1, <1>4, <1>6, <2>1, <2>2, <2>3
<1>10. page' # 0 /\ limit # 0
  BY <1>1, <1>4 DEF ListInv, ReadItems
<1>. QED
  BY <1>4, <1>7, <1>8, <1>9, <1>10 DEF ListInv, ListSkipsNothing

\* A total: the client stops when no position is behind its last page.
LEMMA ReadTotalStep ==
  ASSUME ListInv, ReadTotal
  PROVE  ListInv'
<1>1. /\ Listed \in SUBSET Int /\ IsFiniteSet(Listed) /\ due \in SUBSET Listed
      /\ page * limit \in Nat
  BY ListTypes DEF ListInv
<1>2. Listed' = Listed /\ Missed' = Missed /\ Ahead' = Ahead
  BY DEF ReadTotal, Listed, Missed, Ahead, Position
<1>3. ListTypeOK'
  BY <1>2 DEF ListInv, ListTypeOK, ReadTotal
<1>4. ASSUME phase' = "done" PROVE Cardinality(due' \ got') <= left'
  <2>1. page * limit >= Cardinality(Listed)
    BY <1>4 DEF ReadTotal
  <2>2. ASSUME NEW i \in due PROVE Position(i) <= page * limit
    <3>1. i \in Int
      BY <1>1
    <3>2. /\ Pos(Listed, i) \in Nat /\ Cardinality(Listed) \in Nat
          /\ Pos(Listed, i) <= Cardinality(Listed)
      BY <1>1, <3>1, Positions
    <3>3. Position(i) = Pos(Listed, i)
      BY DEF Position, Pos
    <3>. QED
      BY <1>1, <2>1, <3>2, <3>3
  <2>3. due \ got = Missed
    BY <2>2 DEF Missed
  <2>. QED
    BY <2>3 DEF ListInv, ReadTotal
<1>5. phase' \in {"items", "done"} /\ page # 0
  BY DEF ListInv, ReadTotal
<1>. QED
  BY <1>2, <1>3, <1>4, <1>5 DEF ListInv, ListSkipsNothing, ReadTotal

\* A commit of another request.
LEMMA PutStep ==
  ASSUME ListInv, NEW i \in Places, NEW task \in Columns \cup {NoTask}, Put(i, task)
  PROVE  ListInv'
<1> DEFINE m == page * limit
<1>1. /\ Listed \in SUBSET Int /\ IsFiniteSet(Listed) /\ i \in Int
      /\ due \in SUBSET Listed /\ m \in Nat /\ page \in Nat
      /\ left \in Nat /\ entered \in Nat /\ again \in Nat
      /\ Cardinality(Missed) \in Nat /\ Cardinality(Ahead) \in Nat
  BY ListTypes, PlacesAssumption DEF ListInv
<1>2. UNCHANGED clientVars /\ stored \in [Places -> Columns \cup {NoTask}]
  BY DEF ListInv, ListTypeOK, Put
<1>3. stored' \in [Places -> Columns \cup {NoTask}] /\ stored'[i] = task
      /\ \A j \in Places : j # i => stored'[j] = stored[j]
  BY <1>2 DEF Put
<1>4. Listed' = IF Matches(task, query) THEN Listed \cup {i} ELSE Listed \ {i}
  <2>1. Listed' = {j \in Places : Matches(stored'[j], query)}
    BY <1>2 DEF Listed, Matches, clientVars
  <2>2. \A j \in Places : j # i => (Matches(stored'[j], query) <=> j \in Listed)
    BY <1>3 DEF Listed
  <2>. QED
    BY <1>3, <2>1, <2>2 DEF Listed
<1>5. /\ Missed' = MissedIn(Listed', due', got, m) /\ Ahead' = AheadIn(Listed', got, m)
      /\ Missed = MissedIn(Listed, due, got, m) /\ Ahead = AheadIn(Listed, got, m)
  BY <1>2, Sides DEF clientVars
<1>6. /\ Cardinality(Missed) <= left /\ again + Cardinality(Ahead) <= entered
      /\ phase = "done" => Cardinality(due \ got) <= left
      /\ page = 0 => got = {} /\ due = {} /\ phase \in {"nothing", "items"}
  BY DEF ListInv, ListSkipsNothing
<1> HIDE DEF m
<1>7. ASSUME due' \in SUBSET due, due' \in SUBSET Listed', left' \in Nat, left' >= left,
             entered' \in Nat, page = 0 => due' = {},
             Cardinality(Missed') <= left', again + Cardinality(Ahead') <= entered'
      PROVE  ListInv'
  <2>1. ListTypeOK'
    BY <1>2, <1>3, <1>7 DEF ListInv, ListTypeOK, clientVars
  <2>2. phase = "done" => Cardinality(due' \ got) <= left'
    <3>1. due \ got \in SUBSET Listed /\ due' \ got \in SUBSET (due \ got)
      BY <1>1, <1>7
    <3>2. IsFiniteSet(due \ got) /\ IsFiniteSet(due' \ got) /\ Cardinality(due' \ got) <= Cardinality(due \ got)
      BY <1>1, <3>1, FS_Subset
    <3>3. Cardinality(due \ got) \in Nat /\ Cardinality(due' \ got) \in Nat
      BY <3>2, FS_CardinalityType
    <3>. QED
      BY <1>1, <1>6, <1>7, <3>2, <3>3
  <2>. QED
    BY <1>2, <1>6, <1>7, <2>1, <2>2 DEF ListInv, ListSkipsNothing, clientVars
<1>8. CASE page = 0
  <2>1. got = {} /\ due' = {} /\ left' = left /\ entered' = entered /\ due = {}
    BY <1>6, <1>8 DEF Put
  <2>2. Cardinality(Missed') = 0 /\ Cardinality(Ahead') = 0
    BY <1>5, <2>1, NothingYet
  <2>3. Cardinality(Missed') <= left' /\ again + Cardinality(Ahead') <= entered'
    BY <1>1, <1>6, <2>1, <2>2
  <2>. QED
    BY <1>1, <1>7, <2>1, <2>3
<1>9. CASE page # 0 /\ i \in Listed /\ ~Matches(task, query)
  <2>1. Listed' = Listed \ {i} /\ due' = due \ {i} /\ left' = left + 1 /\ entered' = entered
    BY <1>1, <1>4, <1>9 DEF Put
  <2>2. /\ Cardinality(MissedIn(Listed \ {i}, due \ {i}, got, m)) <= Cardinality(Missed) + 1
        /\ Cardinality(AheadIn(Listed \ {i}, got, m)) <= Cardinality(Ahead)
    BY <1>1, <1>5, <1>9, Leaving
  <2>3. Cardinality(Missed') \in Nat /\ Cardinality(Ahead') \in Nat
    <3>1. Listed \ {i} \in SUBSET Int /\ IsFiniteSet(Listed \ {i}) /\ due \ {i} \in SUBSET (Listed \ {i})
      BY <1>1, FS_RemoveElement
    <3>. QED
      BY <1>5, <2>1, <3>1, SidesFinite
  <2>4. Cardinality(Missed') <= left' /\ again + Cardinality(Ahead') <= entered'
    BY <1>1, <1>5, <1>6, <2>1, <2>2, <2>3
  <2>5. due \ {i} \in SUBSET due /\ due \ {i} \in SUBSET (Listed \ {i})
    BY <1>1
  <2>. QED
    BY <1>1, <1>7, <1>9, <2>1, <2>4, <2>5
<1>10. CASE page # 0 /\ i \notin Listed /\ Matches(task, query)
  <2>1. Listed' = Listed \cup {i} /\ due' = due /\ left' = left /\ entered' = entered + 1
    BY <1>1, <1>4, <1>10 DEF Put
  <2>2. /\ IsFiniteSet(Listed \cup {i}) /\ Listed \cup {i} \in SUBSET Int
        /\ Cardinality(MissedIn(Listed \cup {i}, due, got, m)) <= Cardinality(Missed)
        /\ Cardinality(AheadIn(Listed \cup {i}, got, m)) <= Cardinality(Ahead) + 1
    BY <1>1, <1>5, <1>10, Entering
  <2>3. due \in SUBSET (Listed \cup {i})
    BY <1>1
  <2>4. Cardinality(Missed') \in Nat /\ Cardinality(Ahead') \in Nat
    BY <1>5, <2>1, <2>2, <2>3, SidesFinite
  <2>5. Cardinality(Missed') <= left' /\ again + Cardinality(Ahead') <= entered'
    BY <1>1, <1>5, <1>6, <2>1, <2>2, <2>4
  <2>. QED
    BY <1>1, <1>7, <1>10, <2>1, <2>3, <2>5
<1>11. CASE page # 0 /\ (i \in Listed <=> Matches(task, query))
  <2>1. Listed' = Listed /\ due' = due /\ left' = left /\ entered' = entered
    BY <1>4, <1>11 DEF Put
  <2>2. Missed' = Missed /\ Ahead' = Ahead
    BY <1>5, <2>1
  <2>. QED
    BY <1>1, <1>6, <1>7, <1>11, <2>1, <2>2
<1>12. Matches(task, query) \in BOOLEAN
  BY DEF Matches
<1>. QED
  BY <1>8, <1>9, <1>10, <1>11, <1>12

LEMMA ListInvStep == ListInv /\ [ListNext]_listVars => ListInv'
<1> SUFFICES ASSUME ListInv, [ListNext]_listVars PROVE ListInv'
  OBVIOUS
<1>1. ASSUME NEW q \in Queries, NEW l \in Limits, Ask(q, l) PROVE ListInv'
  BY <1>1, AskStep
<1>2. CASE ReadItems
  BY <1>2, ReadItemsStep
<1>3. CASE ReadTotal
  BY <1>3, ReadTotalStep
<1>4. ASSUME NEW i \in Places, NEW columns \in Columns, CreateTask(i, columns) \/ UpdateTask(i, columns)
      PROVE  ListInv'
  BY <1>4, PutStep DEF CreateTask, UpdateTask
<1>5. ASSUME NEW i \in Places, RemoveTask(i) PROVE ListInv'
  BY <1>5, PutStep DEF RemoveTask
<1>6. CASE UNCHANGED listVars
  BY <1>6 DEF ListInv, ListTypeOK, ListSkipsNothing, Missed, Ahead, Position, Listed, Matches,
              listVars, clientVars
<1>. QED
  BY <1>1, <1>2, <1>3, <1>4, <1>5, <1>6 DEF ListNext

-----------------------------------------------------------------------------
(* Theorems *)

\* The inductive invariant: TasksService.list's pages against the list as it is now.
THEOREM ListInvariance == ListSpec => []ListInv
BY InitListInv, ListInvStep, PTL DEF ListSpec

\* A client of TasksService.list that has read all pages lacks, of the tasks that were
\* listed all the time, at most one for each task that left the list meanwhile.
THEOREM PagesSkipNothing == ListSpec => []ListSkipsNothing
<1>1. ListInv => ListSkipsNothing
  BY DEF ListInv
<1>. QED
  BY <1>1, ListInvariance, PTL

\* It is given a task again at most once for each task that entered the list.
THEOREM PagesRepeatNothing == ListSpec => []ListRepeatsNothing
<1>1. ListInv => ListRepeatsNothing
  <2>1. SUFFICES ASSUME ListInv PROVE again <= entered
    BY DEF ListRepeatsNothing
  <2>2. again \in Nat /\ entered \in Nat /\ Cardinality(Ahead) \in Nat
    BY <2>1, ListTypes DEF ListInv
  <2>. QED
    BY <2>1, <2>2 DEF ListInv
<1>. QED
  BY <1>1, ListInvariance, PTL

=============================================================================
