----------------------------- MODULE SearchProofs -----------------------------
(***************************************************************************)
(* Searches and preloads: a walk through the pages of a search leaves out  *)
(* nothing that matches throughout and shows nothing twice, and a preload  *)
(* is the beginning of the branch.                                         *)
(***************************************************************************)
EXTENDS Search, FiniteSetTheorems, SequenceTheorems, TLAPS

-----------------------------------------------------------------------------
(* Sets of ids in order                                                    *)

\* The number of ids of S before i.
Rank(S, i) == Cardinality({j \in S : j < i})

\* A set of ids is finite.
LEMMA IdsFinite ==
    ASSUME NEW S \in SUBSET Id
    PROVE  IsFiniteSet(S) /\ Cardinality(S) \in Nat /\ S \in SUBSET Nat
<1>1. IsFiniteSet(S)
  BY SearchAssumption, FS_Subset
<1> QED BY <1>1, FS_CardinalityType, SearchAssumption

\* Ids are ranked in their order, from 0 on.
LEMMA RankIs ==
    ASSUME NEW S \in SUBSET Id, NEW i \in S
    PROVE  /\ Rank(S, i) \in 0 .. Cardinality(S) - 1
           /\ \A j \in S : j < i => Rank(S, j) < Rank(S, i)
<1> DEFINE Before(j) == {k \in S : k < j}
<1>1. IsFiniteSet(S) /\ Cardinality(S) \in Nat /\ S \in SUBSET Nat
  BY IdsFinite
<1>2. \A j \in S : Before(j) \in SUBSET S /\ j \notin Before(j)
  BY <1>1
<1>3. ASSUME NEW j \in S
      PROVE  IsFiniteSet(Before(j)) /\ Cardinality(Before(j)) \in Nat
             /\ Cardinality(Before(j)) <= Cardinality(S)
             /\ Cardinality(Before(j)) # Cardinality(S)
  <2> HIDE DEF Before
  <2>1. Before(j) \in SUBSET S /\ Before(j) # S
    BY <1>2
  <2>2. IsFiniteSet(Before(j)) /\ Cardinality(Before(j)) <= Cardinality(S)
        /\ Cardinality(Before(j)) # Cardinality(S)
    BY <1>1, <2>1, FS_Subset
  <2> QED BY <2>2, FS_CardinalityType
<1>4. ASSUME NEW j \in S, j < i PROVE Cardinality(Before(j)) < Cardinality(Before(i))
  <2>1. Before(j) \in SUBSET Before(i) /\ j \in Before(i) /\ j \notin Before(j)
    <3>1. i \in Nat /\ j \in Nat
      BY <1>1
    <3>2. ASSUME NEW k \in S, k < j PROVE k < i
      BY <1>1, <1>4, <3>1, <3>2
    <3>3. j \in Before(i) /\ j \notin Before(j)
      BY <1>4, <3>1
    <3> QED BY <3>2, <3>3
  <2> HIDE DEF Before
  <2>2. Cardinality(Before(j)) <= Cardinality(Before(i))
        /\ Cardinality(Before(j)) # Cardinality(Before(i))
    BY <1>3, <2>1, FS_Subset
  <2> QED BY <1>3, <2>2
<1>5. \A j : Rank(S, j) = Cardinality(Before(j))
  BY DEF Rank
<1> HIDE DEF Before
<1>6. Rank(S, i) \in 0 .. Cardinality(S) - 1
  BY <1>1, <1>3, <1>5
<1>7. \A j \in S : j < i => Rank(S, j) < Rank(S, i)
  BY <1>4, <1>5
<1> QED BY <1>6, <1>7

\* The order of ids and of their ranks is the same.
LEMMA RankOrder ==
    ASSUME NEW S \in SUBSET Id, NEW i \in S, NEW j \in S
    PROVE  /\ i < j <=> Rank(S, i) < Rank(S, j)
           /\ i = j <=> Rank(S, i) = Rank(S, j)
<1>1. i \in Nat /\ j \in Nat
  BY IdsFinite
<1>2. Rank(S, i) \in Int /\ Rank(S, j) \in Int
  BY RankIs
<1>3. (i < j => Rank(S, i) < Rank(S, j)) /\ (j < i => Rank(S, j) < Rank(S, i))
  BY RankIs
<1> QED BY <1>1, <1>2, <1>3

\* Every rank is some id's: the ranks are as many as the ids.
LEMMA RankTaken ==
    ASSUME NEW S \in SUBSET Id, NEW n \in 0 .. Cardinality(S) - 1
    PROVE  \E i \in S : Rank(S, i) = n
<1> DEFINE T == 0 .. Cardinality(S) - 1
           f == [i \in S |-> Rank(S, i)]
<1>1. IsFiniteSet(S) /\ Cardinality(S) \in Nat /\ S \in SUBSET Nat
  BY IdsFinite
<1>2. IsFiniteSet(T) /\ Cardinality(T) = Cardinality(S)
  <2>1. 0 \in Int /\ Cardinality(S) - 1 \in Int
    BY <1>1
  <2>2. IsFiniteSet(T)
    BY <2>1, FS_Interval
  <2>3. Cardinality(T) = IF 0 > Cardinality(S) - 1 THEN 0 ELSE Cardinality(S) - 1 - 0 + 1
    BY <2>1, FS_Interval
  <2> HIDE DEF T
  <2> QED BY <1>1, <2>2, <2>3
<1>3. f \in [S -> T]
  BY RankIs
<1>4. IsInjective(f)
  BY RankOrder DEF IsInjective
<1>5. f \in Injection(S, T)
  BY <1>3, <1>4 DEF Injection
<1> HIDE DEF T, f
<1>6. f \in Surjection(S, T)
  BY <1>2, <1>5, FS_Injection
<1>7. \A t \in T : \E i \in S : f[i] = t
  BY <1>6 DEF Surjection
<1>8. n \in T
  BY DEF T
<1>9. PICK i \in S : f[i] = n
  BY <1>7, <1>8
<1> QED BY <1>9 DEF f

\* What InOrder returns: the id of each rank at its place.
LEMMA InOrderIs ==
    ASSUME NEW S \in SUBSET Id
    PROVE  /\ Cardinality(S) \in Nat
           /\ InOrder(S) \in [1 .. Cardinality(S) -> S]
           /\ \A n \in 1 .. Cardinality(S) : Rank(S, InOrder(S)[n]) = n - 1
<1>1. Cardinality(S) \in Nat
  BY IdsFinite
<1> DEFINE P(n, i) == Rank(S, i) = n - 1
<1>2. InOrder(S) = [n \in 1 .. Cardinality(S) |-> CHOOSE i \in S : P(n, i)]
  BY DEF InOrder, Rank
<1>3. ASSUME NEW n \in 1 .. Cardinality(S) PROVE \E i \in S : P(n, i)
  <2>1. n - 1 \in 0 .. Cardinality(S) - 1
    BY <1>1
  <2> QED BY <2>1, RankTaken
<1> HIDE DEF P
<1>4. ASSUME NEW n \in 1 .. Cardinality(S)
      PROVE  InOrder(S)[n] \in S /\ P(n, InOrder(S)[n])
  BY <1>2, <1>3
<1>5. InOrder(S) \in [1 .. Cardinality(S) -> S]
  BY <1>2, <1>4
<1> QED BY <1>1, <1>4, <1>5 DEF P

\* An id of S is at the place after its rank.
LEMMA PlaceOf ==
    ASSUME NEW S \in SUBSET Id, NEW i \in S
    PROVE  Rank(S, i) + 1 \in 1 .. Cardinality(S) /\ InOrder(S)[Rank(S, i) + 1] = i
<1> DEFINE n == Rank(S, i) + 1
<1>1. Rank(S, i) \in 0 .. Cardinality(S) - 1 /\ Cardinality(S) \in Nat
  BY RankIs, InOrderIs
<1>2. n \in 1 .. Cardinality(S) /\ n - 1 = Rank(S, i)
  BY <1>1
<1> HIDE DEF n
<1>3. InOrder(S)[n] \in S /\ Rank(S, InOrder(S)[n]) = n - 1
  BY <1>2, InOrderIs
<1>4. InOrder(S)[n] = i
  BY <1>2, <1>3, RankOrder
<1> QED BY <1>2, <1>4 DEF n

\* The order goes up.
LEMMA InOrderGoesUp ==
    ASSUME NEW S \in SUBSET Id,
           NEW m \in 1 .. Cardinality(S), NEW n \in 1 .. Cardinality(S), m < n
    PROVE  InOrder(S)[m] < InOrder(S)[n]
<1>1. /\ InOrder(S)[m] \in S /\ InOrder(S)[n] \in S /\ Cardinality(S) \in Nat
      /\ Rank(S, InOrder(S)[m]) = m - 1 /\ Rank(S, InOrder(S)[n]) = n - 1
  BY InOrderIs
<1>2. m - 1 < n - 1
  BY <1>1
<1> QED BY <1>1, <1>2, RankOrder

\* The first ids of an order are those of the smallest ranks.
LEMMA FirstIs ==
    ASSUME NEW S \in SUBSET Id, NEW limit \in Nat
    PROVE  LET c == IF limit <= Cardinality(S) THEN limit ELSE Cardinality(S)
               ids == First(limit, InOrder(S))
           IN  /\ c \in 0 .. Cardinality(S) /\ ids \in [1 .. c -> S]
               /\ Len(ids) = c /\ ids \in Seq(S)
               /\ \A n \in 1 .. c : ids[n] = InOrder(S)[n]
               /\ Range(ids) = {i \in S : Rank(S, i) < limit}
<1> DEFINE c == IF limit <= Cardinality(S) THEN limit ELSE Cardinality(S)
           seq == InOrder(S)
           ids == SubSeq(seq, 1, c)
<1>1. Cardinality(S) \in Nat /\ seq \in [1 .. Cardinality(S) -> S]
  BY InOrderIs
<1>2. seq \in Seq(S) /\ Len(seq) = Cardinality(S)
  <2> HIDE DEF seq
  <2> QED BY <1>1
<1>3. c \in 0 .. Cardinality(S)
  BY <1>1
<1>4. Min({limit, Cardinality(S)}) = c
  BY <1>1 DEF Min
<1>5. First(limit, seq) = ids
  <2> HIDE DEF seq, c
  <2> QED BY <1>2, <1>4 DEF First
<1>6. ids = [n \in 1 .. c |-> seq[n]]
  <2> HIDE DEF seq, c
  <2> QED BY <1>1, <1>2, <1>3
<1> HIDE DEF ids
<1>7. ids \in [1 .. c -> S] /\ \A n \in 1 .. c : ids[n] = seq[n]
  <2> HIDE DEF seq, c
  <2> QED BY <1>1, <1>3, <1>6
<1>8. ids \in Seq(S) /\ Len(ids) = c
  <2> HIDE DEF seq, c
  <2> QED BY <1>1, <1>3, <1>7
<1>9. Range(ids) = {i \in S : Rank(S, i) < limit}
  <2>1. ASSUME NEW n \in 1 .. c PROVE ids[n] \in S /\ Rank(S, ids[n]) < limit
    <3>1. n \in 1 .. Cardinality(S) /\ n - 1 < limit /\ ids[n] = seq[n]
      BY <1>1, <1>3, <1>7
    <3> QED BY <3>1, InOrderIs
  <2>2. ASSUME NEW i \in S, Rank(S, i) < limit PROVE \E n \in 1 .. c : ids[n] = i
    <3>1. Rank(S, i) + 1 \in 1 .. Cardinality(S) /\ seq[Rank(S, i) + 1] = i
      BY PlaceOf
    <3>2. Rank(S, i) \in Int
      BY RankIs
    <3>3. Rank(S, i) + 1 \in 1 .. c
      BY <1>1, <2>2, <3>1, <3>2
    <3> QED BY <1>7, <3>1, <3>3
  <2>3. DOMAIN ids = 1 .. c
    BY <1>7
  <2> HIDE DEF c
  <2> QED BY <2>1, <2>2, <2>3 DEF Range
<1> QED BY <1>3, <1>5, <1>7, <1>8, <1>9

\* The first ids of an order are themselves in order.
LEMMA FirstInOrder ==
    ASSUME NEW S \in SUBSET Id, NEW limit \in Nat
    PROVE  First(limit, InOrder(S)) = InOrder(Range(First(limit, InOrder(S))))
<1> DEFINE c == IF limit <= Cardinality(S) THEN limit ELSE Cardinality(S)
           ids == First(limit, InOrder(S))
           R == Range(ids)
<1>1. /\ c \in 0 .. Cardinality(S) /\ ids \in [1 .. c -> S] /\ Cardinality(S) \in Nat
      /\ \A n \in 1 .. c : ids[n] = InOrder(S)[n]
      /\ R = {i \in S : Rank(S, i) < limit}
  BY FirstIs, InOrderIs
<1>2. R \in SUBSET Id /\ R \in SUBSET S
  BY <1>1
<1>3. ASSUME NEW n \in 1 .. c
      PROVE  ids[n] \in R /\ Rank(S, ids[n]) = n - 1 /\ n - 1 < limit
  <2>1. n \in 1 .. Cardinality(S) /\ n - 1 < limit /\ ids[n] \in S
    BY <1>1
  <2> QED BY <1>1, <2>1, InOrderIs
<1> HIDE DEF ids
<1>4. ASSUME NEW i \in R PROVE Rank(R, i) = Rank(S, i)
  <2>1. i \in S /\ Rank(S, i) < limit
    BY <1>1
  <2>2. ASSUME NEW j \in S, j < i PROVE j \in R
    <3>1. Rank(S, j) < Rank(S, i) /\ Rank(S, j) \in Int /\ Rank(S, i) \in Int
      BY <2>1, <2>2, RankIs
    <3> QED BY <1>1, <2>1, <3>1
  <2>3. {j \in R : j < i} = {j \in S : j < i}
    BY <1>2, <2>2
  <2> QED BY <2>3 DEF Rank
<1> HIDE DEF R
<1>5. Cardinality(R) = c
  <2>1. IsInjective(ids)
    <3> SUFFICES ASSUME NEW m \in 1 .. c, NEW n \in 1 .. c, ids[m] = ids[n] PROVE m = n
      BY <1>1 DEF IsInjective
    <3>1. m - 1 = n - 1
      BY <1>3
    <3> QED BY <1>1, <3>1
  <2>2. \A i \in R : \E n \in 1 .. c : ids[n] = i
    BY <1>1 DEF R, Range
  <2>3. ids \in [1 .. c -> R]
    <3> HIDE DEF c
    <3> QED BY <1>1, <1>3
  <2>4. ids \in Bijection(1 .. c, R)
    <3> HIDE DEF c
    <3> QED BY <2>1, <2>2, <2>3 DEF Bijection, Injection, Surjection
  <2>5. ExistsBijection(1 .. c, R) /\ c \in Nat
    <3> HIDE DEF c
    <3>1. c \in Nat
      BY <1>1
    <3>2. ExistsBijection(1 .. c, R)
      BY <2>4 DEF ExistsBijection
    <3> QED BY <3>1, <3>2
  <2> HIDE DEF c
  <2> QED BY <2>5, FS_CountingElements
<1>6. InOrder(R) \in [1 .. c -> R]
  BY <1>2, <1>5, InOrderIs
<1>7. ASSUME NEW n \in 1 .. c PROVE InOrder(R)[n] = ids[n]
  <2>1. InOrder(R)[n] \in R /\ Rank(R, InOrder(R)[n]) = n - 1
    BY <1>2, <1>5, InOrderIs
  <2>2. ids[n] \in R /\ Rank(R, ids[n]) = n - 1
    BY <1>3, <1>4
  <2> QED BY <1>2, <2>1, <2>2, RankOrder
<1>8. ids = InOrder(R)
  <2> HIDE DEF c
  <2> QED BY <1>1, <1>6, <1>7
<1> QED BY <1>8 DEF ids, R

-----------------------------------------------------------------------------
(* The preload                                                             *)

\* More ids, higher ranks.
LEMMA RankInSubset ==
    ASSUME NEW T \in SUBSET Id, NEW S \in SUBSET T, NEW i
    PROVE  Rank(S, i) \in Nat /\ Rank(T, i) \in Nat /\ Rank(S, i) <= Rank(T, i)
<1> DEFINE A == {j \in S : j < i}
           B == {j \in T : j < i}
<1>1. A \in SUBSET B /\ A \in SUBSET Id /\ B \in SUBSET Id
  OBVIOUS
<1> HIDE DEF A, B
<1>2. Cardinality(A) \in Nat /\ Cardinality(B) \in Nat /\ IsFiniteSet(B)
  BY <1>1, IdsFinite
<1>3. Cardinality(A) <= Cardinality(B)
  BY <1>1, <1>2, FS_Subset
<1> QED BY <1>2, <1>3 DEF A, B, Rank

\* Txn::preload (src/txn.rs): one entry more than the limit is read of what was
\* there, and what the request writes is sorted in.  The ids that are left are the
\* first ones of the whole branch.
LEMMA PreloadIs ==
    ASSUME NEW C \in SUBSET Id, NEW W \in SUBSET Id, NEW own
    PROVE  LET U == (C \cup W) \ {own}
           IN  /\ Range(Preload(C, W, own)) = {p \in U : Rank(U, p) < PreloadLimit}
               /\ Preload(C, W, own) = InOrder(Range(Preload(C, W, own)))
<1> DEFINE U == (C \cup W) \ {own}
           D == C \ {own}
           A == Range(First(PreloadLimit + 1, InOrder(D)))
           M == A \cup (W \ {own})
<1>1. D \in SUBSET Id /\ D \in SUBSET U /\ U \in SUBSET Id
      /\ PreloadLimit \in Nat /\ PreloadLimit + 1 \in Nat
  <2>1. PreloadLimit \in Nat
    BY SearchAssumption
  <2> QED BY <2>1
<1>2. A = {p \in D : Rank(D, p) < PreloadLimit + 1}
  BY <1>1, FirstIs
<1>3. M \in SUBSET Id /\ M \in SUBSET U /\ A \in SUBSET D
      /\ \A p \in U : p \in M \/ p \in D
  BY <1>1, <1>2
<1>4. Preload(C, W, own) = First(PreloadLimit, InOrder(M))
  BY DEF Preload
<1>5. \A p \in A : p \in M
  OBVIOUS
<1> HIDE DEF A, M, U, D
<1>6. Range(Preload(C, W, own)) = {p \in M : Rank(M, p) < PreloadLimit}
  BY <1>1, <1>3, <1>4, FirstIs
<1>7. ASSUME NEW p \in U, Rank(U, p) < PreloadLimit
      PROVE  p \in M /\ Rank(M, p) < PreloadLimit
  <2>1. /\ Rank(M, p) \in Nat /\ Rank(U, p) \in Nat /\ Rank(D, p) \in Nat
        /\ Rank(M, p) <= Rank(U, p) /\ Rank(D, p) <= Rank(U, p)
    BY <1>1, <1>3, RankInSubset
  <2>2. Rank(M, p) < PreloadLimit /\ Rank(D, p) < PreloadLimit + 1
    BY <1>1, <1>7, <2>1
  <2>3. p \in M
    BY <1>2, <1>3, <1>5, <2>2
  <2> QED BY <2>2, <2>3
<1>8. ASSUME NEW p \in M, Rank(M, p) < PreloadLimit
      PROVE  p \in U /\ Rank(U, p) < PreloadLimit
  <2>1. ASSUME NEW q \in U, q < p, q \notin M PROVE FALSE
    <3>1. q \in D /\ ~(Rank(D, q) < PreloadLimit + 1)
      BY <1>2, <1>3, <1>5, <2>1
    <3>2. Rank(D, q) \in 0 .. Cardinality(D) - 1 /\ Cardinality(D) \in Nat
      BY <1>1, <3>1, RankIs, IdsFinite
    <3>3. PreloadLimit \in 0 .. Cardinality(D) - 1
      BY <1>1, <3>1, <3>2
    <3>4. PICK c \in D : Rank(D, c) = PreloadLimit
      BY <1>1, <3>3, RankTaken
    <3>5. c < q
      <4>1. Rank(D, c) < Rank(D, q)
        BY <1>1, <3>1, <3>2, <3>4
      <4> QED BY <1>1, <3>1, <4>1, RankOrder
    <3>6. ASSUME NEW x \in D, x < c PROVE x \in M /\ x < p
      <4>1. Rank(D, x) < Rank(D, c) /\ Rank(D, x) \in Int
        BY <1>1, <3>6, RankIs
      <4>2. Rank(D, x) < PreloadLimit + 1
        BY <1>1, <3>4, <4>1
      <4>3. x \in M
        BY <1>2, <1>5, <4>2
      <4>4. x \in Nat /\ c \in Nat /\ q \in Nat /\ p \in Nat
        BY <1>1, <1>3, SearchAssumption
      <4> QED BY <2>1, <3>5, <3>6, <4>3, <4>4
    <3> DEFINE X == {x \in D : x < c}
               Y == {x \in M : x < p}
    <3>7. X \in SUBSET Y /\ Y \in SUBSET Id
      BY <1>3, <3>6
    <3>8. Cardinality(X) = PreloadLimit /\ Cardinality(Y) < PreloadLimit
      BY <1>8, <3>4 DEF Rank
    <3> HIDE DEF X, Y
    <3>9. IsFiniteSet(Y) /\ Cardinality(Y) \in Nat /\ Cardinality(X) <= Cardinality(Y)
      BY <3>7, IdsFinite, FS_Subset
    <3> QED BY <1>1, <3>8, <3>9
  <2>2. {q \in U : q < p} = {q \in M : q < p}
    BY <1>3, <2>1
  <2>3. Rank(U, p) = Rank(M, p)
    BY <2>2 DEF Rank
  <2> QED BY <1>3, <1>8, <2>3
<1>9. {p \in M : Rank(M, p) < PreloadLimit} = {p \in U : Rank(U, p) < PreloadLimit}
  BY <1>7, <1>8
<1>10. Preload(C, W, own) = InOrder(Range(Preload(C, W, own)))
  BY <1>1, <1>3, <1>4, FirstInOrder
<1> QED BY <1>6, <1>9, <1>10 DEF U

-----------------------------------------------------------------------------
(* The pages                                                               *)

\* What page (src/kernel.rs) returns: ids after the cursor, in order, all of them
\* or all up to the next cursor, which is the last one.
PageGood(Q, page) ==
    /\ page.ids \in Seq(Id) /\ Len(page.ids) \in Nat
    /\ \A n \in 1 .. Len(page.ids) : page.ids[n] \in Q
    /\ \A m, n \in 1 .. Len(page.ids) : m < n => page.ids[m] < page.ids[n]
    /\ \/ page.next = None /\ \A i \in Q : \E n \in 1 .. Len(page.ids) : page.ids[n] = i
       \/ /\ page.next \in Id /\ page.next \in Q
          /\ \A n \in 1 .. Len(page.ids) : page.ids[n] <= page.next
          /\ \A i \in Q : i <= page.next => \E n \in 1 .. Len(page.ids) : page.ids[n] = i

\* A page of the ids after the cursor.
LEMMA PageIs ==
    ASSUME NEW S \in SUBSET Id, NEW cursor, NEW limit \in Nat \ {0}
    PROVE  PageGood({i \in S : cursor = None \/ i > cursor}, Page(S, cursor, limit))
<1> DEFINE Q == {i \in S : cursor = None \/ i > cursor}
           rest == InOrder(Q)
           page == Page(S, cursor, limit)
<1>1. Q \in SUBSET Id
  OBVIOUS
<1>2. page = IF Len(rest) > limit THEN [ids |-> First(limit, rest), next |-> rest[limit]]
             ELSE [ids |-> rest, next |-> None]
  BY DEF Page
<1> HIDE DEF Q, page
<1>3. /\ Cardinality(Q) \in Nat /\ rest \in [1 .. Cardinality(Q) -> Q]
      /\ \A n \in 1 .. Cardinality(Q) : Rank(Q, rest[n]) = n - 1
  BY <1>1, InOrderIs
<1>4. \A m, n \in 1 .. Cardinality(Q) : m < n => rest[m] < rest[n]
  BY <1>1, InOrderGoesUp
<1>5. \A i \in Q : Rank(Q, i) \in Int /\ Rank(Q, i) + 1 \in 1 .. Cardinality(Q)
                   /\ rest[Rank(Q, i) + 1] = i
  BY <1>1, RankIs, PlaceOf
<1>6. LET c == IF limit <= Cardinality(Q) THEN limit ELSE Cardinality(Q)
      IN  /\ First(limit, rest) \in Seq(Q) /\ Len(First(limit, rest)) = c
          /\ \A n \in 1 .. c : First(limit, rest)[n] = rest[n]
  BY <1>1, FirstIs
<1> HIDE DEF rest
<1>7. rest \in Seq(Q) /\ Len(rest) = Cardinality(Q)
  BY <1>3
<1>8. CASE Len(rest) > limit
  <2> DEFINE ids == First(limit, rest)
             last == rest[limit]
  <2>1. page.ids = ids /\ page.next = last
    BY <1>2, <1>8
  <2>2. ids \in Seq(Q) /\ Len(ids) = limit /\ \A n \in 1 .. limit : ids[n] = rest[n]
    BY <1>3, <1>6, <1>7, <1>8
  <2>3. limit \in 1 .. Cardinality(Q) /\ \A n \in 1 .. limit : n \in 1 .. Cardinality(Q)
    BY <1>3, <1>7, <1>8
  <2> HIDE DEF ids
  <2>4. last \in Q /\ last \in Id
    BY <1>1, <1>3, <2>3
  <2>5. ASSUME NEW n \in 1 .. limit PROVE ids[n] \in Q /\ ids[n] <= last
    <3>1. ids[n] = rest[n] /\ rest[n] \in Q /\ rest[n] \in Nat /\ last \in Nat
      BY <1>1, <1>3, <2>2, <2>3, <2>4, SearchAssumption
    <3>2. CASE n = limit
      BY <3>1, <3>2
    <3>3. CASE n < limit
      <4>1. rest[n] < last
        BY <1>4, <2>3, <3>3
      <4> QED BY <3>1, <4>1
    <3> QED BY <3>1, <3>2, <3>3
  <2>6. \A m, n \in 1 .. limit : m < n => ids[m] < ids[n]
    BY <1>4, <2>2, <2>3
  <2>7. ASSUME NEW i \in Q, i <= last PROVE \E n \in 1 .. limit : ids[n] = i
    <3>1. Rank(Q, last) = limit - 1 /\ Rank(Q, i) \in Int
      BY <1>3, <1>5, <2>3
    <3>2. ~(limit - 1 < Rank(Q, i))
      <4>1. i \in Nat /\ last \in Nat
        BY <1>1, <2>4, SearchAssumption
      <4>2. ~(last < i)
        BY <2>7, <4>1
      <4> QED BY <1>1, <2>4, <3>1, <4>2, RankOrder
    <3>3. Rank(Q, i) + 1 \in 1 .. limit
      BY <1>3, <1>5, <3>1, <3>2
    <3> QED BY <1>5, <2>2, <3>3
  <2>8. ids \in Seq(Id)
    BY <1>1, <2>2, SeqMonotonic
  <2> HIDE DEF last
  <2> QED BY <2>1, <2>2, <2>4, <2>5, <2>6, <2>7, <2>8 DEF PageGood, Q, page
<1>9. CASE ~(Len(rest) > limit)
  <2>1. page.ids = rest /\ page.next = None
    BY <1>2, <1>9
  <2>2. rest \in Seq(Id)
    BY <1>1, <1>7, SeqMonotonic
  <2>3. \A n \in 1 .. Cardinality(Q) : rest[n] \in Q
    BY <1>3
  <2>4. \A i \in Q : \E n \in 1 .. Cardinality(Q) : rest[n] = i
    BY <1>5
  <2> QED BY <1>3, <1>4, <1>7, <2>1, <2>2, <2>3, <2>4 DEF PageGood, Q, page
<1> QED BY <1>8, <1>9

-----------------------------------------------------------------------------
(* The walk                                                                *)

Walk == [pc : {"idle", "walking", "done"}, state : SearchStates \cup {None},
         tags : {None, Tag}, limit : 0 .. MaxSearchLimit, cursor : Id \cup {None},
         seen : Seq(Id), steady : SUBSET Id]

Records == [Id -> Record \cup {None}]

Upward(seq) == \A m, n \in 1 .. Len(seq) : m < n => seq[m] < seq[n]

Has(seq, i) == \E n \in 1 .. Len(seq) : seq[n] = i

\* The walk can go on after its cursor: what it has seen is before the cursor, and
\* what matched throughout up to there is among it.
CanGoOn(w) ==
    /\ w.limit # 0 /\ Upward(w.seen)
    /\ w.cursor = None => w.seen = <<>>
    /\ w.cursor # None =>
          /\ \A n \in 1 .. Len(w.seen) : w.seen[n] <= w.cursor
          /\ \A i \in w.steady : i <= w.cursor => Has(w.seen, i)

\* The inductive invariant of walks.
WalkInv ==
    /\ record \in Records /\ walk \in Walk
    /\ walk.steady \subseteq Matching(record, walk)
    /\ Upward(walk.seen)
    /\ walk.pc = "walking" => walk.cursor \in Id /\ CanGoOn(walk)
    /\ walk.pc = "done" => \A i \in walk.steady : Has(walk.seen, i)

\* What a walk has seen, and the page after it.
LEMMA SeenAndPage ==
    ASSUME NEW s \in Seq(Id), NEW p \in Seq(Id)
    PROVE  /\ s \o p \in Seq(Id) /\ Len(s \o p) = Len(s) + Len(p)
           /\ Len(s) \in Nat /\ Len(p) \in Nat
           /\ \A n \in 1 .. Len(s) : (s \o p)[n] = s[n]
           /\ \A n \in 1 .. Len(p) : (s \o p)[Len(s) + n] = p[n]
           /\ \A n \in 1 .. Len(s) + Len(p) : n \in 1 .. Len(s) \/
                 (n - Len(s) \in 1 .. Len(p) /\ (s \o p)[n] = p[n - Len(s)])
<1> DEFINE w == s \o p
<1>1. /\ w \in Seq(Id) /\ Len(w) = Len(s) + Len(p)
      /\ \A i \in 1 .. Len(s) + Len(p) : w[i] = IF i <= Len(s) THEN s[i] ELSE p[i - Len(s)]
  BY ConcatProperties
<1>2. Len(s) \in Nat /\ Len(p) \in Nat
  OBVIOUS
<1> HIDE DEF w
<1>3. \A n \in 1 .. Len(s) : w[n] = s[n]
  BY <1>1, <1>2
<1>4. ASSUME NEW n \in 1 .. Len(p) PROVE w[Len(s) + n] = p[n]
  <2>1. Len(s) + n \in 1 .. Len(s) + Len(p) /\ ~(Len(s) + n <= Len(s)) /\ (Len(s) + n) - Len(s) = n
    BY <1>2
  <2> QED BY <1>1, <2>1
<1>5. \A n \in 1 .. Len(s) + Len(p) : n \in 1 .. Len(s) \/
                 (n - Len(s) \in 1 .. Len(p) /\ w[n] = p[n - Len(s)])
  BY <1>1, <1>2
<1> QED BY <1>1, <1>2, <1>3, <1>4, <1>5 DEF w

\* A page takes the walk on: promise_search, task_search and schedule_search
\* (src/kernel.rs) with the cursor of the page before.
LEMMA PageTakesWalkOn ==
    ASSUME record \in Records, NEW w \in Walk, w.steady \subseteq Matching(record, w),
           CanGoOn(w), NextPage(w)
    PROVE  WalkInv'
<1> DEFINE S == Matching(record, w)
           page == Page(S, w.cursor, w.limit)
           Q == {i \in S : w.cursor = None \/ i > w.cursor}
           old == w.seen
           new == page.ids
           seen == old \o new
<1>1. /\ S \in SUBSET Id /\ w.limit \in Nat \ {0} /\ old \in Seq(Id)
      /\ w.steady \subseteq Id /\ w.cursor \in Id \cup {None} /\ Upward(old)
  BY SearchAssumption DEF Matching, Walk, CanGoOn
<1>2. PageGood(Q, page)
  BY <1>1, PageIs
<1>3. /\ walk' = [w EXCEPT !.pc = IF page.next = None THEN "done" ELSE "walking",
                           !.cursor = page.next, !.seen = seen]
      /\ record' = record /\ kind' = kind
  BY DEF NextPage
<1> HIDE DEF S, page, Q
<1>4. new \in Seq(Id) /\ page.next \in Id \cup {None}
  BY <1>2 DEF PageGood
<1>5. /\ seen \in Seq(Id) /\ Len(seen) = Len(old) + Len(new)
      /\ Len(old) \in Nat /\ Len(new) \in Nat
      /\ \A n \in 1 .. Len(old) : seen[n] = old[n]
      /\ \A n \in 1 .. Len(new) : seen[Len(old) + n] = new[n]
      /\ \A n \in 1 .. Len(old) + Len(new) : n \in 1 .. Len(old) \/
            (n - Len(old) \in 1 .. Len(new) /\ seen[n] = new[n - Len(old)])
  <2> HIDE DEF old, new
  <2> QED BY <1>1, <1>4, SeenAndPage
<1> HIDE DEF seen, old, new
<1>6. /\ walk' \in Walk /\ walk'.pc = (IF page.next = None THEN "done" ELSE "walking")
      /\ walk'.cursor = page.next /\ walk'.seen = seen /\ walk'.steady = w.steady
      /\ walk'.state = w.state /\ walk'.tags = w.tags /\ walk'.limit = w.limit
  BY <1>3, <1>4, <1>5 DEF Walk
<1>7. Matching(record, walk)' = S
  BY <1>3, <1>6 DEF Matching, S
<1>8. /\ \A n \in 1 .. Len(old) : old[n] \in Nat
      /\ \A n \in 1 .. Len(new) : new[n] \in Nat /\ new[n] \in Q
      /\ \A n \in 1 .. Len(new) : w.cursor = None \/ new[n] > w.cursor
      /\ \A m, n \in 1 .. Len(new) : m < n => new[m] < new[n]
  <2>1. \A n \in 1 .. Len(old) : old[n] \in Id
    BY <1>1
  <2>2. \A n \in 1 .. Len(new) : new[n] \in Id
    BY <1>4
  <2>3. \A n \in 1 .. Len(new) : new[n] \in Q
    BY <1>2 DEF PageGood, new
  <2>4. \A m, n \in 1 .. Len(new) : m < n => new[m] < new[n]
    BY <1>2 DEF PageGood, new
  <2> QED BY <2>1, <2>2, <2>3, <2>4, SearchAssumption DEF Q
<1>9. ASSUME NEW m \in 1 .. Len(old), NEW n \in 1 .. Len(new)
      PROVE  w.cursor \in Nat /\ old[m] <= w.cursor /\ w.cursor < new[n] /\ old[m] < new[n]
  <2>1. w.cursor # None
    <3> SUFFICES ASSUME w.cursor = None PROVE FALSE
      OBVIOUS
    <3>1. old = <<>>
      BY DEF CanGoOn, old
    <3> QED BY <3>1
  <2>2. w.cursor \in Nat /\ old[m] <= w.cursor /\ w.cursor < new[n]
    BY <1>1, <1>8, <2>1, SearchAssumption DEF CanGoOn, old
  <2> QED BY <1>8, <2>2
<1>10. Upward(seen)
  <2> SUFFICES ASSUME NEW m \in 1 .. Len(seen), NEW n \in 1 .. Len(seen), m < n
               PROVE  seen[m] < seen[n]
    BY DEF Upward
  <2>1. m \in 1 .. Len(old) + Len(new) /\ n \in 1 .. Len(old) + Len(new)
    BY <1>5
  <2>2. CASE n \in 1 .. Len(old)
    <3>1. m \in 1 .. Len(old)
      BY <1>5, <2>1, <2>2
    <3> QED BY <1>1, <1>5, <2>2, <3>1 DEF Upward
  <2>3. CASE m \in 1 .. Len(old) /\ n \notin 1 .. Len(old)
    BY <1>5, <1>9, <2>1, <2>3
  <2>4. CASE m \notin 1 .. Len(old)
    <3>1. n \notin 1 .. Len(old)
      BY <1>5, <2>1, <2>4
    <3>2. /\ m - Len(old) \in 1 .. Len(new) /\ seen[m] = new[m - Len(old)]
          /\ n - Len(old) \in 1 .. Len(new) /\ seen[n] = new[n - Len(old)]
      BY <1>5, <2>1, <2>4, <3>1
    <3>3. m - Len(old) < n - Len(old)
      BY <1>5, <2>1
    <3> QED BY <1>8, <3>2, <3>3
  <2> QED BY <2>2, <2>3, <2>4
<1>11. \A i : Has(old, i) \/ Has(new, i) => Has(seen, i)
  <2>1. ASSUME NEW n \in 1 .. Len(old) PROVE Has(seen, old[n])
    <3>1. n \in 1 .. Len(seen) /\ seen[n] = old[n]
      BY <1>5
    <3> QED BY <3>1 DEF Has
  <2>2. ASSUME NEW n \in 1 .. Len(new) PROVE Has(seen, new[n])
    <3>1. Len(old) + n \in 1 .. Len(seen) /\ seen[Len(old) + n] = new[n]
      BY <1>5
    <3> QED BY <3>1 DEF Has
  <2> QED BY <2>1, <2>2 DEF Has
<1>12. ASSUME NEW i \in w.steady, page.next = None \/ i <= page.next PROVE Has(seen, i)
  <2>1. i \in S /\ i \in Nat
    BY <1>1, SearchAssumption DEF S
  <2>2. CASE i \in Q
    <3>1. Has(new, i)
      <4>1. page.next = None => Has(new, i)
        <5>1. page.next = None => page.next \notin Id
          BY SearchAssumption
        <5> QED BY <1>2, <2>2, <5>1 DEF PageGood, Has, new
      <4>2. page.next # None => Has(new, i)
        BY <1>2, <1>12, <2>2 DEF PageGood, Has, new
      <4> QED BY <4>1, <4>2
    <3> QED BY <1>11, <3>1
  <2>3. CASE i \notin Q
    <3>1. w.cursor # None /\ w.cursor \in Nat
      BY <1>1, <2>1, <2>3, SearchAssumption DEF Q
    <3>2. i <= w.cursor
      BY <2>1, <2>3, <3>1 DEF Q
    <3>3. Has(old, i)
      BY <3>1, <3>2 DEF CanGoOn, old
    <3> QED BY <1>11, <3>3
  <2> QED BY <2>2, <2>3
<1>13. CASE page.next = None
  BY <1>1, <1>3, <1>6, <1>7, <1>10, <1>12, <1>13 DEF WalkInv, S
<1>14. CASE page.next # None
  <2>1. page.next \in Id /\ page.next \in Nat
    BY <1>4, <1>14, SearchAssumption
  <2>2. \A n \in 1 .. Len(new) : new[n] <= page.next
    BY <1>2, <1>14 DEF PageGood, new
  <2>3. ASSUME NEW n \in 1 .. Len(old) PROVE old[n] <= page.next
    <3>1. Has(new, page.next)
      <4>1. page.next \in Q /\ page.next <= page.next
        BY <1>2, <1>14, <2>1 DEF PageGood
      <4> QED BY <1>2, <1>14, <4>1 DEF PageGood, Has, new
    <3>2. PICK k \in 1 .. Len(new) : new[k] = page.next
      BY <3>1 DEF Has
    <3>3. old[n] < new[k]
      BY <1>9
    <3> QED BY <1>8, <2>1, <3>2, <3>3
  <2>4. ASSUME NEW n \in 1 .. Len(seen) PROVE seen[n] <= page.next
    <3>1. n \in 1 .. Len(old) + Len(new)
      BY <1>5
    <3> QED BY <1>5, <2>2, <2>3, <3>1
  <2>5. CanGoOn(walk')
    BY <1>6, <1>10, <1>12, <2>4, <1>14 DEF CanGoOn
  <2> QED BY <1>1, <1>3, <1>6, <1>7, <1>10, <1>14, <2>1, <2>5 DEF WalkInv, S, CanGoOn
<1> QED BY <1>13, <1>14

-----------------------------------------------------------------------------
(* The steps                                                               *)

\* A record has the given state, tags, deadline and branch.
LEMMA NewRecordIs ==
    ASSUME NEW state \in {"pending", "resolved", "rejected_timedout", "acquired",
                          "fulfilled", "scheduled"},
           NEW tags \in {s.tags : s \in Shapes} \cup {{}},
           NEW timeoutAt \in Deadlines \cup {0},
           NEW branch \in {s.branch : s \in Shapes} \cup {None}
    PROVE  NewRecord(state, tags, timeoutAt, branch) \in Record
<1>1. state \in UNION {States[k] : k \in DOMAIN States}
  <2>1. {"promise", "task", "schedule"} \subseteq DOMAIN States
    BY DEF States
  <2>2. \E k \in {"promise", "task", "schedule"} : state \in States[k]
    BY DEF States
  <2> QED BY <2>1, <2>2
<1> QED BY <1>1 DEF NewRecord, Record

\* The deadlines leave every promise with its branch.
LEMMA TryTimeoutIs ==
    ASSUME NEW r \in Records, NEW ids
    PROVE  /\ TryTimeout(r, ids) \in Records
           /\ \A p \in Id : /\ TryTimeout(r, ids)[p] = None <=> r[p] = None
                            /\ r[p] # None => TryTimeout(r, ids)[p].branch = r[p].branch
<1> DEFINE t == TryTimeout(r, ids)
<1>1. \A p \in Id : r[p] \in Record \/ r[p] = None
  BY DEF Records
<1>2. None \notin Record
  BY SearchAssumption
<1>3. "rejected_timedout" \in UNION {States[k] : k \in DOMAIN States}
  <2>1. "promise" \in DOMAIN States /\ "rejected_timedout" \in States["promise"]
    BY DEF States
  <2> QED BY <2>1
<1>4. ASSUME NEW x \in Record
      PROVE  /\ [x EXCEPT !.state = "rejected_timedout"] \in Record
             /\ [x EXCEPT !.state = "rejected_timedout"].branch = x.branch
  BY <1>3 DEF Record
<1>5. ASSUME NEW p \in Id
      PROVE  /\ t[p] \in Record \cup {None} /\ (t[p] = None <=> r[p] = None)
             /\ r[p] # None => t[p].branch = r[p].branch
  <2>1. t[p] = IF p \in ids /\ Expired(r, p)
               THEN [r[p] EXCEPT !.state = "rejected_timedout"] ELSE r[p]
    BY DEF TryTimeout
  <2>2. Expired(r, p) => r[p] # None
    BY DEF Expired
  <2> HIDE DEF t
  <2> QED BY <1>1, <1>2, <1>4, <2>1, <2>2
<1>6. t \in [Id -> Record \cup {None}]
  <2>1. t = [p \in Id |-> t[p]]
    BY DEF TryTimeout
  <2> HIDE DEF t
  <2> QED BY <1>5, <2>1
<1> HIDE DEF t
<1> QED BY <1>5, <1>6 DEF t, Records

\* A promise is created with the tags and the branch that are asked for.
LEMMA CreatedPromiseIs ==
    ASSUME NEW s \in Shapes, NEW timeoutAt \in Deadlines
    PROVE  CreatedPromise(s.tags, timeoutAt, s.branch) \in Record
<1>1. s.tags \in {x.tags : x \in Shapes} \cup {{}} /\ timeoutAt \in Deadlines \cup {0}
      /\ s.branch \in {x.branch : x \in Shapes} \cup {None}
  OBVIOUS
<1> QED BY <1>1, NewRecordIs DEF CreatedPromise

\* A request that changes records changes them to records.
LEMMA ChangeIs ==
    ASSUME record \in Records, NEW i \in Id,
           \/ \E s \in Shapes, timeoutAt \in Deadlines :
                 PromiseCreate(i, s.tags, timeoutAt, s.branch)
           \/ \E s \in Shapes : ScheduleCreate(i, s.tags)
           \/ PromiseSettle(i) \/ ScheduleDelete(i)
           \/ \E state \in States.task : TaskChange(i, state)
    PROVE  \E r \in Records : Changed(r) /\ reply' = NoReply
<1>1. ASSUME NEW x \in Record \cup {None}
      PROVE  [record EXCEPT ![i] = x] \in Records
  BY DEF Records
<1>2. ASSUME NEW s \in Shapes, NEW timeoutAt \in Deadlines,
             PromiseCreate(i, s.tags, timeoutAt, s.branch)
      PROVE  \E r \in Records : Changed(r) /\ reply' = NoReply
  BY <1>1, <1>2, CreatedPromiseIs DEF PromiseCreate
<1>3. ASSUME NEW s \in Shapes, ScheduleCreate(i, s.tags)
      PROVE  \E r \in Records : Changed(r) /\ reply' = NoReply
  <2>1. NewRecord("scheduled", s.tags, 0, None) \in Record
    <3>1. s.tags \in {x.tags : x \in Shapes} \cup {{}}
      OBVIOUS
    <3> QED BY <3>1, NewRecordIs
  <2> QED BY <1>1, <1>3, <2>1 DEF ScheduleCreate
<1>4. CASE ScheduleDelete(i)
  BY <1>1, <1>4 DEF ScheduleDelete
<1>5. ASSUME NEW state \in States.task, TaskChange(i, state)
      PROVE  \E r \in Records : Changed(r) /\ reply' = NoReply
  <2>1. state \in {"pending", "acquired", "fulfilled"}
    BY DEF States
  <2>2. NewRecord(state, {}, 0, None) \in Record
    BY <2>1, NewRecordIs
  <2> QED BY <1>1, <1>5, <2>2 DEF TaskChange
<1>6. CASE PromiseSettle(i)
  <2> DEFINE t == TryTimeout(record, {i})
             u == [t EXCEPT ![i].state = "resolved"]
  <2>1. t \in Records /\ (t[i] = None <=> record[i] = None)
    BY TryTimeoutIs
  <2>2. record[i] # None /\ reply' = NoReply /\ (Changed(u) \/ Changed(t))
    BY <1>6 DEF PromiseSettle
  <2> HIDE DEF t
  <2>3. u \in Records
    <3>1. t[i] \in Record
      BY <2>1, <2>2 DEF Records
    <3>2. "resolved" \in UNION {States[k] : k \in DOMAIN States}
      <4>1. "promise" \in DOMAIN States /\ "resolved" \in States["promise"]
        BY DEF States
      <4> QED BY <4>1
    <3>3. [t[i] EXCEPT !.state = "resolved"] \in Record
      BY <3>1, <3>2 DEF Record
    <3>4. u = [t EXCEPT ![i] = [t[i] EXCEPT !.state = "resolved"]]
      BY <2>1 DEF Records
    <3> QED BY <2>1, <3>3, <3>4 DEF Records
  <2> QED BY <2>1, <2>2, <2>3
<1> QED BY <1>2, <1>3, <1>4, <1>5, <1>6

\* The preload in the reply is of the branch as the request leaves it, when the
\* request keeps the branches of the promises that exist.
LEMMA ReplyIsFirst ==
    ASSUME record \in Records, NEW r \in Records, NEW own \in Id, r[own] # None,
           reply' = PreloadReply(r, own),
           \A p \in Id : record[p] # None => r[p] # None /\ r[p].branch = record[p].branch,
           \A p \in Id : /\ record'[p] = None <=> r[p] = None
                         /\ r[p] # None => record'[p].branch = r[p].branch
    PROVE  PreloadIsFirstOfBranch'
<1> DEFINE b == r[own].branch
           C == Entries(record, b)
           W == Entries(r, b) \ C
           U == (C \cup W) \ {own}
           ids == reply'.ids
           siblings == {p \in Id : /\ record'[p] # None /\ p # reply'.own
                                   /\ record'[p].branch # None
                                   /\ record'[p].branch = record'[reply'.own].branch}
<1>1. /\ reply'.own = own /\ record'[own].branch = b
      /\ ids = IF b = None THEN <<>> ELSE Preload(C, W, own)
  BY DEF PreloadReply
<1>2. CASE b = None
  <2>1. siblings = {}
    BY <1>1, <1>2
  <2>2. ids = <<>> /\ Range(ids) = {}
    BY <1>1, <1>2 DEF Range
  <2>3. InOrder({}) = <<>>
    <3>1. Cardinality({}) = 0
      BY FS_EmptySet
    <3>2. {} \in SUBSET Id
      OBVIOUS
    <3>3. InOrder({}) \in [1 .. 0 -> {}]
      BY <3>1, <3>2, InOrderIs
    <3> QED BY <3>3
  <2> QED BY <2>1, <2>2, <2>3 DEF PreloadIsFirstOfBranch
<1>3. CASE b # None
  <2>1. C \in SUBSET Id /\ W \in SUBSET Id /\ U \in SUBSET Id
    BY DEF Entries
  <2>2. \A p \in Id : p \in C => p \in Entries(r, b)
    BY DEF Entries
  <2>3. siblings = U
    <3>1. \A p \in Id : p \in U <=> p # own /\ r[p] # None /\ r[p].branch = b
      BY <2>2 DEF Entries
    <3>2. \A p \in Id : p \in siblings <=> p # own /\ r[p] # None /\ r[p].branch = b
      BY <1>1, <1>3
    <3> HIDE DEF U, siblings
    <3>3. siblings \in SUBSET Id
      BY DEF siblings
    <3> QED BY <2>1, <3>1, <3>2, <3>3
  <2>4. ids = Preload(C, W, own)
    BY <1>1, <1>3
  <2>5. Range(ids) = {p \in U : Rank(U, p) < PreloadLimit} /\ ids = InOrder(Range(ids))
    <3> HIDE DEF C, W, ids
    <3>1. /\ Range(Preload(C, W, own)) = {p \in U : Rank(U, p) < PreloadLimit}
          /\ Preload(C, W, own) = InOrder(Range(Preload(C, W, own)))
      BY <2>1, PreloadIs
    <3> QED BY <2>4, <3>1
  <2> HIDE DEF U, ids
  <2>6. \A p \in U : p \in Range(ids) <=> Cardinality({q \in U : q < p}) < PreloadLimit
    BY <2>5 DEF Rank
  <2>7. Range(ids) \subseteq U
    BY <2>5
  <2> QED BY <2>3, <2>5, <2>6, <2>7 DEF PreloadIsFirstOfBranch, ids
<1> QED BY <1>2, <1>3

\* A task is shown: its promise's preload is of the records as they are.
LEMMA TaskViewIs ==
    ASSUME record \in Records, NEW t \in Id, TaskView(t)
    PROVE  PreloadIsFirstOfBranch'
<1> DEFINE r == TryTimeout(record, {t})
<1>1. /\ r \in Records
      /\ \A p \in Id : /\ r[p] = None <=> record[p] = None
                       /\ record[p] # None => r[p].branch = record[p].branch
  BY TryTimeoutIs
<1>2. r[t] # None /\ reply' = PreloadReply(r, t) /\ record' = record
  BY DEF TaskView, HasTask
<1> HIDE DEF r
<1> QED BY <1>1, <1>2, ReplyIsFirst

\* A fenced creation adds a promise at most, and shows the branch with it.
LEMMA TaskFenceIs ==
    ASSUME record \in Records, NEW t \in Id, NEW i \in Id, NEW s \in Shapes,
           NEW timeoutAt \in Deadlines, TaskFence(t, i, s.tags, timeoutAt, s.branch)
    PROVE  PreloadIsFirstOfBranch' /\ \E r \in Records : Changed(r)
<1> DEFINE r == TryTimeout(record, {t, i})
           x == CreatedPromise(s.tags, timeoutAt, s.branch)
           w == IF r[i] # None THEN r ELSE [r EXCEPT ![i] = x]
<1>1. /\ r \in Records
      /\ \A p \in Id : /\ r[p] = None <=> record[p] = None
                       /\ record[p] # None => r[p].branch = record[p].branch
  BY TryTimeoutIs
<1>2. x \in Record
  BY CreatedPromiseIs
<1>3. t # i /\ r[t] # None /\ Changed(w) /\ reply' = PreloadReply(w, t)
  BY DEF TaskFence, HasTask
<1> HIDE DEF r, x
<1>4. w \in Records
  BY <1>1, <1>2 DEF Records
<1>5. \A p \in Id : r[p] # None => w[p] = r[p]
  BY <1>1 DEF Records
<1> HIDE DEF w
<1>6. record' = w
  BY <1>3 DEF Changed
<1>7. w[t] # None
  BY <1>3, <1>5
<1>8. \A p \in Id : record[p] # None => w[p] # None /\ w[p].branch = record[p].branch
  BY <1>1, <1>5
<1>9. PreloadIsFirstOfBranch'
  BY <1>3, <1>4, <1>6, <1>7, <1>8, ReplyIsFirst
<1> QED BY <1>3, <1>4, <1>9

\* Every step is a page of a walk that can go on, a change of the records that the
\* walk notices, or none of these; a reply with a preload is right.
LEMMA SearchStep ==
    ASSUME WalkInv, Next
    PROVE  /\ \/ \E w \in Walk : /\ w.steady \subseteq Matching(record, w)
                                 /\ CanGoOn(w) /\ NextPage(w)
              \/ \E r \in Records : Changed(r)
              \/ UNCHANGED <<kind, record, walk>>
           /\ PreloadIsFirstOfBranch' \/ reply'.to # "preload"
<1>1. record \in Records
  BY DEF WalkInv
<1>2. ASSUME NEW limit \in Limits, NEW tags \in {None, Tag},
             NEW state \in SearchStates \cup {None}, SearchFirst(state, tags, limit)
      PROVE  \E w \in Walk : /\ w.steady \subseteq Matching(record, w)
                             /\ CanGoOn(w) /\ NextPage(w)
  <2> DEFINE v == [Idle EXCEPT !.state = state, !.tags = tags, !.limit = SearchLimit(limit)]
             w == [v EXCEPT !.steady = Matching(record, v)]
  <2>1. SearchLimit(limit) \in 1 .. MaxSearchLimit /\ NextPage(w)
    BY <1>2, SearchAssumption DEF SearchFirst, SearchLimit
  <2>2. SearchLimit(limit) \in 0 .. MaxSearchLimit /\ SearchLimit(limit) # 0
    BY <2>1, SearchAssumption
  <2>3. Idle \in Walk /\ Idle.cursor = None /\ Idle.seen = <<>> /\ Len(<<>>) = 0
    <3>1. <<>> \in Seq(Id) /\ Len(<<>>) = 0
      OBVIOUS
    <3> QED BY <3>1, SearchAssumption DEF Idle, Walk
  <2>4. /\ v \in Walk /\ v.state = state /\ v.tags = tags /\ v.limit = SearchLimit(limit)
        /\ v.cursor = None /\ v.seen = <<>>
    <3> DEFINE l == SearchLimit(limit)
    <3> HIDE DEF l
    <3>1. /\ [Idle EXCEPT !.state = state, !.tags = tags, !.limit = l] \in Walk
          /\ [Idle EXCEPT !.state = state, !.tags = tags, !.limit = l].state = state
          /\ [Idle EXCEPT !.state = state, !.tags = tags, !.limit = l].tags = tags
          /\ [Idle EXCEPT !.state = state, !.tags = tags, !.limit = l].limit = l
          /\ [Idle EXCEPT !.state = state, !.tags = tags, !.limit = l].cursor = None
          /\ [Idle EXCEPT !.state = state, !.tags = tags, !.limit = l].seen = <<>>
      BY <2>2, <2>3 DEF Walk, l
    <3> QED BY <3>1 DEF l
  <2> DEFINE S == Matching(record, v)
  <2>5. S \in SUBSET Id
    BY DEF Matching
  <2> HIDE DEF v, S
  <2>6. /\ w \in Walk /\ w.steady = S /\ w.state = state /\ w.tags = tags
        /\ w.limit = SearchLimit(limit) /\ w.cursor = None /\ w.seen = <<>>
    BY <2>4, <2>5 DEF Walk, S
  <2> HIDE DEF w
  <2>7. w \in Walk
    BY <2>6
  <2>8. w.steady \subseteq Matching(record, w)
    BY <2>4, <2>6 DEF Matching, S
  <2>9. CanGoOn(w)
    BY <2>2, <2>3, <2>6 DEF CanGoOn, Upward
  <2> QED BY <2>1, <2>7, <2>8, <2>9
<1>3. ASSUME SearchNext
      PROVE  walk \in Walk /\ walk.steady \subseteq Matching(record, walk)
             /\ CanGoOn(walk) /\ NextPage(walk)
  BY <1>3 DEF SearchNext, WalkInv
<1>4. ASSUME NEW w, NextPage(w) PROVE reply'.to # "preload"
  BY <1>4 DEF NextPage
<1>5. reply' = NoReply => reply'.to # "preload"
  BY DEF NoReply
<1>6. ASSUME NEW t \in Id, TaskView(t)
      PROVE  UNCHANGED <<kind, record, walk>> /\ PreloadIsFirstOfBranch'
  BY <1>1, <1>6, TaskViewIs DEF TaskView
<1>7. ASSUME Tick PROVE UNCHANGED <<kind, record, walk>> /\ reply' = NoReply
  BY <1>7 DEF Tick
<1>8. CASE \E limit \in Limits, tags \in {None, Tag}, state \in SearchStates \cup {None} :
              SearchFirst(state, tags, limit)
  BY <1>2, <1>4, <1>8
<1>9. CASE SearchNext
  BY <1>3, <1>4, <1>9
<1>10. CASE \E i \in Id, s \in Shapes, timeoutAt \in Deadlines, t \in Id :
               TaskFence(t, i, s.tags, timeoutAt, s.branch)
  BY <1>1, <1>10, TaskFenceIs
<1>11. CASE \E i \in Id : \/ \E s \in Shapes, timeoutAt \in Deadlines :
                                PromiseCreate(i, s.tags, timeoutAt, s.branch)
                          \/ \E s \in Shapes : ScheduleCreate(i, s.tags)
                          \/ PromiseSettle(i) \/ ScheduleDelete(i)
                          \/ \E state \in States.task : TaskChange(i, state)
  BY <1>1, <1>5, <1>11, ChangeIs
<1>12. CASE (\E i \in Id : TaskView(i)) \/ Tick
  BY <1>5, <1>6, <1>7, <1>12
<1> QED BY <1>8, <1>9, <1>10, <1>11, <1>12 DEF Next

\* A change of the records leaves out of `steady' what matches no longer.
LEMMA ChangeKeepsWalk ==
    ASSUME WalkInv, NEW r \in Records, Changed(r)
    PROVE  WalkInv'
<1> DEFINE M == Matching(r, walk)
<1>1. record' = r /\ kind' = kind /\ walk' = [walk EXCEPT !.steady = @ \cap M]
  BY DEF Changed
<1>2. M \in SUBSET Id
  BY DEF Matching
<1>3. walk \in Walk
  BY DEF WalkInv
<1> HIDE DEF M
<1>4. /\ walk' \in Walk /\ walk'.steady = walk.steady \cap M
      /\ walk'.pc = walk.pc /\ walk'.cursor = walk.cursor /\ walk'.seen = walk.seen
      /\ walk'.limit = walk.limit /\ walk'.state = walk.state /\ walk'.tags = walk.tags
  BY <1>1, <1>2, <1>3 DEF Walk
<1>5. Matching(record, walk)' = M
  BY <1>1, <1>4 DEF Matching, M
<1>6. CanGoOn(walk) => CanGoOn(walk')
  BY <1>4 DEF CanGoOn
<1> QED BY <1>1, <1>4, <1>5, <1>6 DEF WalkInv, CanGoOn

\* The walk and the records are as they should be, in every state.
LEMMA WalkInvHolds == Spec => []WalkInv
<1>1. Init => WalkInv
  <2> SUFFICES ASSUME Init PROVE WalkInv
    OBVIOUS
  <2>1. record \in Records
    BY DEF Init, Records
  <2>2. /\ walk.pc = "idle" /\ walk.seen = <<>> /\ walk.steady = {}
        /\ walk = [pc |-> "idle", state |-> None, tags |-> None, limit |-> 0,
                   cursor |-> None, seen |-> <<>>, steady |-> {}]
    BY DEF Init, Idle
  <2>3. <<>> \in Seq(Id) /\ Len(<<>>) = 0
    OBVIOUS
  <2>4. walk \in Walk
    BY <2>2, <2>3, SearchAssumption DEF Walk
  <2>5. Upward(walk.seen)
    BY <2>2, <2>3 DEF Upward
  <2> QED BY <2>1, <2>2, <2>4, <2>5 DEF WalkInv
<1>2. WalkInv /\ [Next]_vars => WalkInv'
  <2> SUFFICES ASSUME WalkInv, [Next]_vars PROVE WalkInv'
    OBVIOUS
  <2>1. CASE UNCHANGED <<kind, record, walk>>
    BY <2>1 DEF WalkInv, Matching, CanGoOn, Upward
  <2>2. CASE Next
    <3>1. ASSUME NEW w \in Walk, w.steady \subseteq Matching(record, w), CanGoOn(w), NextPage(w)
          PROVE  WalkInv'
      BY <3>1, PageTakesWalkOn DEF WalkInv
    <3> QED BY <2>1, <2>2, <3>1, SearchStep, ChangeKeepsWalk
  <2>3. CASE UNCHANGED vars
    BY <2>1, <2>3 DEF vars
  <2> QED BY <2>2, <2>3
<1> QED BY <1>1, <1>2, PTL DEF Spec

\* A walk through the pages of a search (promise_search, task_search,
\* schedule_search, src/kernel.rs) leaves out no record that matches throughout, for
\* every set of records, every limit and whatever happens between the pages.
THEOREM WalksMissNothing == Spec => []WalkMissesNothing
<1>1. WalkInv => WalkMissesNothing
  <2> SUFFICES ASSUME WalkInv, NEW i \in walk.steady,
                      walk.pc = "done" \/ (walk.pc = "walking" /\ i <= walk.cursor)
               PROVE  i \in Range(walk.seen)
    BY DEF WalkMissesNothing
  <2>1. Has(walk.seen, i)
    <3>1. CASE walk.pc = "done"
      BY <3>1 DEF WalkInv
    <3>2. CASE walk.pc = "walking" /\ i <= walk.cursor
      <4>1. walk.cursor # None
        BY <3>2, SearchAssumption DEF WalkInv
      <4> QED BY <3>2, <4>1 DEF WalkInv, CanGoOn
    <3> QED BY <3>1, <3>2
  <2>2. walk.seen \in Seq(Id)
    BY DEF WalkInv, Walk
  <2>3. DOMAIN walk.seen = 1 .. Len(walk.seen)
    BY <2>2
  <2> QED BY <2>1, <2>3 DEF Has, Range
<1> QED BY <1>1, WalkInvHolds, PTL

\* The pages of a walk go up in id order and repeat nothing.
THEOREM WalksGoForward == Spec => []WalkGoesForward
<1>1. WalkInv => WalkGoesForward
  <2> SUFFICES ASSUME WalkInv PROVE WalkGoesForward
    OBVIOUS
  <2>1. walk.seen \in Seq(Id) /\ Upward(walk.seen)
    BY DEF WalkInv, Walk
  <2>2. DOMAIN walk.seen = 1 .. Len(walk.seen)
    BY <2>1
  <2> QED BY <2>1, <2>2 DEF WalkGoesForward, Upward
<1> QED BY <1>1, WalkInvHolds, PTL

\* A preload (Txn::preload, src/txn.rs) is the beginning of the branch as the request
\* leaves it, for every branch and every limit.
THEOREM PreloadsAreFirstOfBranch == Spec => []PreloadIsFirstOfBranch
<1>1. Init => PreloadIsFirstOfBranch
  BY DEF Init, NoReply, PreloadIsFirstOfBranch
<1>2. WalkInv /\ PreloadIsFirstOfBranch /\ [Next]_vars => PreloadIsFirstOfBranch'
  <2> SUFFICES ASSUME WalkInv, PreloadIsFirstOfBranch, [Next]_vars
               PROVE  PreloadIsFirstOfBranch'
    OBVIOUS
  <2>1. CASE Next
    <3>1. reply'.to # "preload" => PreloadIsFirstOfBranch'
      BY DEF PreloadIsFirstOfBranch
    <3> QED BY <2>1, <3>1, SearchStep
  <2>2. CASE UNCHANGED vars
    BY <2>2 DEF vars, PreloadIsFirstOfBranch
  <2> QED BY <2>1, <2>2
<1> QED BY <1>1, <1>2, WalkInvHolds, PTL DEF Spec
=============================================================================
