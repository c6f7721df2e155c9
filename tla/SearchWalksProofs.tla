-------------------------- MODULE SearchWalksProofs -------------------------
(***************************************************************************)
(* What a walk over the pages of a search shows, for every collection of   *)
(* documents, every page size and cap, and every order of publications,    *)
(* cached pages and failures.                                              *)
(***************************************************************************)
EXTENDS SearchWalks, FiniteSetTheorems, SequenceTheorems,
        WellFoundedInduction, TLAPS

-----------------------------------------------------------------------------
(* Naturals.                                                               *)

Less == {p \in Nat \X Nat : p[1] < p[2]}

\* A non-empty set of naturals has a least element.
LEMMA LeastNatural ==
    ASSUME NEW S \in SUBSET Nat, S # {}
    PROVE  \E m \in S : \A n \in S : m <= n
<1>1. IsWellFoundedOn(Less, Nat)
  BY NatLessThanWellFounded DEF OpToRel, Less
<1>2. PICK m \in S : \A n \in S : <<n, m>> \notin Less
  BY <1>1, WFMin
<1>3. ASSUME NEW n \in S
      PROVE  m <= n
  <2>1. m \in Nat /\ n \in Nat
    OBVIOUS
  <2>2. n < m => <<n, m>> \in Less
    BY <2>1 DEF Less
  <2>3. QED
    BY <1>2, <2>1, <2>2
<1>4. QED
  BY <1>3

\* What is before a page of a size, and what it ends with.
Offset(page, size) == (page - 1) * size

Limit(page, size) == page * size

\* A page follows the one before it.
LEMMA PageBounds ==
    ASSUME NEW p \in Nat \ {0}, NEW size \in Nat
    PROVE  /\ Offset(p, size) \in Nat /\ Limit(p, size) \in Nat
           /\ Limit(p, size) = Offset(p, size) + size
           /\ Offset(p + 1, size) = Limit(p, size)
           /\ Offset(1, size) = 0
<1>1. PICK q \in Nat : p = q + 1
  <2>1. p - 1 \in Nat /\ p = (p - 1) + 1
    OBVIOUS
  <2>2. QED
    BY <2>1
<1>2. q * size \in Nat /\ (q + 1) * size = q * size + size /\ 0 * size = 0
  OBVIOUS
<1>3. p - 1 = q /\ (p + 1) - 1 = p /\ 1 - 1 = 0
  BY <1>1
<1>4. Offset(p, size) = q * size /\ Limit(p, size) = (q + 1) * size
  BY <1>1, <1>3 DEF Offset, Limit
<1>5. Offset(p + 1, size) = Limit(p, size) /\ Offset(1, size) = 0
  BY <1>2, <1>3 DEF Offset, Limit
<1>6. QED
  BY <1>2, <1>4, <1>5

\* The pages of a size do not overlap.
LEMMA PagesApart ==
    ASSUME NEW p \in Nat \ {0}, NEW q \in Nat \ {0}, NEW size \in Nat, p < q
    PROVE  Limit(p, size) <= Offset(q, size)
<1>1. PICK d \in Nat : q - 1 = p + d
  <2>1. (q - 1) - p \in Nat /\ q - 1 = p + ((q - 1) - p)
    OBVIOUS
  <2>2. QED
    BY <2>1
<1>2. /\ p * size \in Nat /\ d * size \in Nat
      /\ (p + d) * size = p * size + d * size
  OBVIOUS
<1>3. Offset(q, size) = (p + d) * size
  BY <1>1 DEF Offset
<1>4. QED
  BY <1>2, <1>3 DEF Limit

-----------------------------------------------------------------------------
(* Subsequences.                                                           *)

Before(S, i) == {j \in S : j < i}

\* A set of numbers up to v is finite.
LEMMA UpToFinite ==
    ASSUME NEW v \in Nat, NEW S \in SUBSET (1..v)
    PROVE  IsFiniteSet(S) /\ Cardinality(S) \in Nat
<1>1. PICK V : V = 1..v
  OBVIOUS
<1>2. IsFiniteSet(V) /\ S \in SUBSET V
  BY <1>1, FS_Interval
<1>3. QED
  BY <1>2, FS_Subset, FS_CardinalityType

\* In a set of numbers up to v there is one with k - 1 before it, for every
\* place k: the last one before the first bound with k below it.
LEMMA RankExists ==
    ASSUME NEW v \in Nat, NEW S \in SUBSET (1..v), NEW k \in 1..Cardinality(S)
    PROVE  \E i \in S : Cardinality(Before(S, i)) = k - 1
<1> DEFINE below(i) == Cardinality(Before(S, i))
           F == {i \in 1..(v + 1) : below(i) >= k}
<1>1. IsFiniteSet(S) /\ Cardinality(S) \in Nat /\ k \in Nat /\ k >= 1
  BY UpToFinite
<1>2. ASSUME NEW i
      PROVE  IsFiniteSet(Before(S, i)) /\ below(i) \in Nat
  <2>1. PICK A : A = Before(S, i)
    OBVIOUS
  <2>2. A \in SUBSET S
    BY <2>1 DEF Before
  <2>3. QED
    BY <1>1, <2>1, <2>2, FS_Subset, FS_CardinalityType
<1>3. v + 1 \in F
  <2>1. Before(S, v + 1) = S
    <3>1. \A j \in S : j < v + 1
      OBVIOUS
    <3>2. QED
      BY <3>1 DEF Before
  <2>2. below(v + 1) = Cardinality(S) /\ v + 1 \in 1..(v + 1)
    BY <2>1
  <2>3. QED
    BY <1>1, <2>2
<1>4. PICK m \in F : \A i \in F : m <= i
  <2>1. F \in SUBSET Nat
    OBVIOUS
  <2>2. QED
    BY <1>3, <2>1, LeastNatural
<1>5. m # 1
  <2>1. Before(S, 1) = {}
    <3>1. \A j \in S : ~(j < 1)
      OBVIOUS
    <3>2. QED
      BY <3>1 DEF Before
  <2>2. below(1) = 0
    BY <2>1, FS_EmptySet
  <2>3. QED
    BY <1>1, <2>2
<1>6. PICK i \in 1..v : m = i + 1
  <2>1. m - 1 \in 1..v /\ m = (m - 1) + 1
    <3>1. m \in 1..(v + 1)
      OBVIOUS
    <3>2. QED
      BY <1>5, <3>1
  <2>2. QED
    BY <2>1
<1>7. i \notin F /\ below(i) < k
  <2>1. i \notin F
    <3>1. ~(m <= i)
      BY <1>6
    <3>2. QED
      BY <1>4, <3>1
  <2>2. below(i) \in Nat /\ i \in 1..(v + 1)
    BY <1>2, <1>6
  <2>3. ~(below(i) >= k)
    BY <2>1, <2>2
  <2>4. QED
    BY <1>1, <2>1, <2>2, <2>3
<1>8. below(m) >= k
  BY <1>4
<1>9. CASE i \in S
  <2>1. Before(S, m) = Before(S, i) \cup {i} /\ i \notin Before(S, i)
    <3>1. \A j \in S : (j < m <=> j < i \/ j = i) /\ ~(i < i)
      BY <1>6
    <3>2. QED
      BY <1>9, <3>1 DEF Before
  <2>2. below(m) = below(i) + 1
    <3>1. PICK A : A = Before(S, i)
      OBVIOUS
    <3>2. QED
      BY <1>2, <2>1, <3>1, FS_AddElement
  <2>3. QED
    BY <1>1, <1>2, <1>7, <1>8, <1>9, <2>2
<1>10. CASE i \notin S
  <2>1. Before(S, m) = Before(S, i)
    <3>1. \A j \in S : j < m <=> j < i
      BY <1>6, <1>10
    <3>2. QED
      BY <3>1 DEF Before
  <2>2. QED
    BY <1>1, <1>2, <1>7, <1>8, <2>1
<1>11. QED
  BY <1>9, <1>10

\* More numbers are before a larger one.
LEMMA RankRises ==
    ASSUME NEW v \in Nat, NEW S \in SUBSET (1..v), NEW i \in S, NEW j \in S, i < j
    PROVE  Cardinality(Before(S, i)) < Cardinality(Before(S, j))
<1>1. IsFiniteSet(S)
  BY UpToFinite
<1>2. PICK A, B : A = Before(S, i) /\ B = Before(S, j)
  OBVIOUS
<1>3. IsFiniteSet(A) /\ IsFiniteSet(B)
  BY <1>1, <1>2, FS_Subset DEF Before
<1>4. A \cup {i} \subseteq B /\ i \notin A
  <2>1. i \in Nat /\ j \in Nat /\ \A k \in S : k \in Nat
    OBVIOUS
  <2>2. ~(i < i) /\ \A k \in S : k < i => k < j
    BY <2>1
  <2>3. QED
    BY <1>2, <2>2 DEF Before
<1>5. Cardinality(A \cup {i}) = Cardinality(A) + 1
  BY <1>3, <1>4, FS_AddElement
<1>6. Cardinality(A \cup {i}) <= Cardinality(B)
  BY <1>3, <1>4, FS_Subset
<1>7. QED
  BY <1>2, <1>3, <1>5, <1>6, FS_CardinalityType

\* InOrder lists the numbers of a set, each at the place that the ones before
\* it leave to it.
LEMMA InOrderPlaces ==
    ASSUME NEW v \in Nat, NEW S \in SUBSET (1..v)
    PROVE  /\ IsFiniteSet(S) /\ Cardinality(S) \in Nat
           /\ InOrder(S) \in Seq(S) /\ Len(InOrder(S)) = Cardinality(S)
           /\ \A k \in 1..Cardinality(S) :
                 /\ InOrder(S)[k] \in S
                 /\ Cardinality(Before(S, InOrder(S)[k])) = k - 1
           /\ \A i \in S : /\ Cardinality(Before(S, i)) + 1 \in 1..Cardinality(S)
                           /\ InOrder(S)[Cardinality(Before(S, i)) + 1] = i
<1> DEFINE at(k) == CHOOSE i \in S : Cardinality(Before(S, i)) = k - 1
<1>1. IsFiniteSet(S) /\ Cardinality(S) \in Nat
  BY UpToFinite
<1>2. InOrder(S) = [k \in 1..Cardinality(S) |-> at(k)]
  BY DEF InOrder, Before
<1>3. ASSUME NEW k \in 1..Cardinality(S)
      PROVE  at(k) \in S /\ Cardinality(Before(S, at(k))) = k - 1
  BY RankExists
<1> HIDE DEF at
<1>4. InOrder(S) \in [1..Cardinality(S) -> S]
  BY <1>2, <1>3
<1>5. InOrder(S) \in Seq(S) /\ Len(InOrder(S)) = Cardinality(S)
  <2>1. InOrder(S) \in Seq(S)
    BY <1>1, <1>4, SeqDef
  <2>2. QED
    BY <1>1, <1>4, <2>1, LenProperties
<1>6. ASSUME NEW i \in S
      PROVE  /\ Cardinality(Before(S, i)) + 1 \in 1..Cardinality(S)
             /\ InOrder(S)[Cardinality(Before(S, i)) + 1] = i
  <2>1. PICK r : r = Cardinality(Before(S, i))
    OBVIOUS
  <2>2. r \in Nat /\ r < Cardinality(S)
    <3>1. PICK A : A = Before(S, i)
      OBVIOUS
    <3>2. A \cup {i} \subseteq S /\ i \notin A /\ IsFiniteSet(A)
      <4>1. ~(i < i)
        OBVIOUS
      <4>2. A \cup {i} \subseteq S /\ i \notin A
        BY <3>1, <4>1 DEF Before
      <4>3. QED
        BY <1>1, <4>2, FS_Subset
    <3>3. Cardinality(A \cup {i}) = Cardinality(A) + 1
      BY <3>2, FS_AddElement
    <3>4. Cardinality(A \cup {i}) <= Cardinality(S)
      BY <1>1, <3>2, FS_Subset
    <3>5. QED
      BY <1>1, <2>1, <3>1, <3>2, <3>3, <3>4, FS_CardinalityType
  <2>3. r + 1 \in 1..Cardinality(S)
    BY <1>1, <2>2
  <2>4. PICK j \in S : j = InOrder(S)[r + 1] /\ Cardinality(Before(S, j)) = r
    <3>1. InOrder(S)[r + 1] = at(r + 1) /\ (r + 1) - 1 = r
      BY <1>2, <2>2, <2>3
    <3>2. at(r + 1) \in S /\ Cardinality(Before(S, at(r + 1))) = r
      BY <1>3, <2>3, <3>1
    <3>3. QED
      BY <3>1, <3>2
  <2>5. ~(i < j) /\ ~(j < i)
    <3>1. i < j => Cardinality(Before(S, i)) < Cardinality(Before(S, j))
      BY RankRises
    <3>2. j < i => Cardinality(Before(S, j)) < Cardinality(Before(S, i))
      BY RankRises
    <3>3. QED
      BY <2>1, <2>2, <2>4, <3>1, <3>2
  <2>6. i = j
    BY <2>5
  <2>7. QED
    BY <2>1, <2>3, <2>4, <2>6
<1>7. QED
  BY <1>1, <1>2, <1>3, <1>5, <1>6

\* The entries of t are those of s at the places P, each taken once.
Takes(t, s, P) ==
    \E at \in [1..Len(t) -> P] :
       /\ \A k \in 1..Len(t) : t[k] = s[at[k]]
       /\ \A j, k \in 1..Len(t) : at[j] = at[k] => j = k
       /\ \A p \in P : \E k \in 1..Len(t) : at[k] = p

\* At takes each of the places once.
LEMMA AtPlaces ==
    ASSUME NEW M, NEW s \in Seq(M), NEW P \in SUBSET (1..Len(s))
    PROVE  At(s, P) \in Seq(M) /\ Takes(At(s, P), s, P)
<1>1. Len(s) \in Nat
  BY LenProperties
<1>2. PICK at : at = InOrder(P)
  OBVIOUS
<1>3. /\ Cardinality(P) \in Nat
      /\ at \in Seq(P) /\ Len(at) = Cardinality(P)
      /\ \A k \in 1..Cardinality(P) :
            at[k] \in P /\ Cardinality(Before(P, at[k])) = k - 1
      /\ \A p \in P : /\ Cardinality(Before(P, p)) + 1 \in 1..Cardinality(P)
                      /\ at[Cardinality(Before(P, p)) + 1] = p
  BY <1>1, <1>2, InOrderPlaces
<1>4. at \in [1..Cardinality(P) -> P]
  BY <1>3, LenProperties
<1>5. At(s, P) = [k \in 1..Cardinality(P) |-> s[at[k]]]
  BY <1>2 DEF At
<1>6. At(s, P) \in [1..Cardinality(P) -> M]
  <2>1. ASSUME NEW k \in 1..Cardinality(P)
        PROVE  s[at[k]] \in M
    BY <1>3, ElementOfSeq
  <2>2. QED
    BY <1>5, <2>1
<1>7. At(s, P) \in Seq(M) /\ Len(At(s, P)) = Cardinality(P)
  <2>1. At(s, P) \in Seq(M)
    BY <1>3, <1>6, SeqDef
  <2>2. QED
    BY <1>3, <1>6, <2>1, LenProperties
<1>8. ASSUME NEW j \in 1..Cardinality(P), NEW k \in 1..Cardinality(P), at[j] = at[k]
      PROVE  j = k
  <2>1. j - 1 = k - 1
    BY <1>3, <1>8
  <2>2. QED
    BY <2>1
<1>9. QED
  BY <1>3, <1>4, <1>5, <1>7, <1>8 DEF Takes

-----------------------------------------------------------------------------
(* Rankings.                                                               *)

\* Those it lists before n.
Ahead(source, order, v, n) ==
    IF order = "dateasc" THEN {m \in Matching(source, v) : m < n}
    ELSE {m \in Matching(source, v) : n < m}

PlaceOf(source, order, v, n) == Cardinality(Ahead(source, order, v, n)) + 1

\* A ranking lists each of them, at the place that those ahead leave to it.
LEMMA RankingPlaces ==
    ASSUME NEW source, NEW order, NEW v \in Nat
    PROVE  LET S == Matching(source, v)
               R == Ranking(source, order, v)
           IN  /\ Cardinality(S) \in Nat
               /\ R \in Seq(S) /\ Len(R) = Cardinality(S)
               /\ \A k \in 1..Cardinality(S) :
                     R[k] \in S /\ PlaceOf(source, order, v, R[k]) = k
               /\ \A n \in S :
                     /\ PlaceOf(source, order, v, n) \in 1..Cardinality(S)
                     /\ R[PlaceOf(source, order, v, n)] = n
<1> DEFINE S == Matching(source, v)
<1>1. PICK c, rising, R : /\ c = Cardinality(S) /\ rising = InOrder(S)
                          /\ R = Ranking(source, order, v)
  OBVIOUS
<1>2. S \in SUBSET (1..v)
  BY DEF Matching
<1> HIDE DEF S
<1>3. /\ IsFiniteSet(S) /\ c \in Nat
      /\ rising \in Seq(S) /\ Len(rising) = c
      /\ \A k \in 1..c : /\ rising[k] \in S
                         /\ Cardinality(Before(S, rising[k])) = k - 1
      /\ \A n \in S : /\ Cardinality(Before(S, n)) + 1 \in 1..c
                      /\ rising[Cardinality(Before(S, n)) + 1] = n
  BY <1>1, <1>2, InOrderPlaces
<1>4. DOMAIN rising = 1..c
  BY <1>3, LenProperties
<1>5. CASE order = "dateasc"
  <2>1. R = rising
    BY <1>1, <1>5 DEF Ranking, NewestFirst, S
  <2>2. \A n : PlaceOf(source, order, v, n) = Cardinality(Before(S, n)) + 1
    BY <1>5 DEF PlaceOf, Ahead, Before, S
  <2>3. \A k \in 1..c : PlaceOf(source, order, v, R[k]) = k
    BY <1>3, <2>1, <2>2
  <2>4. QED
    BY <1>1, <1>3, <2>1, <2>2, <2>3 DEF S
<1>6. CASE order # "dateasc"
  <2>1. R = [i \in 1..c |-> rising[c + 1 - i]]
    BY <1>1, <1>3, <1>4, <1>6 DEF Ranking, NewestFirst, S
  <2>2. ASSUME NEW n \in S
        PROVE  /\ Cardinality(Before(S, n)) \in Nat
               /\ PlaceOf(source, order, v, n) = c - Cardinality(Before(S, n))
    <3>1. PICK A, B : A = Ahead(source, order, v, n) /\ B = Before(S, n)
      OBVIOUS
    <3>2. A = {m \in S : n < m}
      BY <1>6, <3>1 DEF Ahead, S
    <3>3. S = A \cup (B \cup {n}) /\ A \cap (B \cup {n}) = {} /\ n \notin B
      <4>1. n \in Nat /\ \A m \in S : m \in Nat
        BY <1>2
      <4>2. \A m \in S : /\ m < n \/ m = n \/ n < m
                         /\ ~(m < n /\ n < m) /\ ~(n < n)
        BY <4>1
      <4>3. QED
        BY <3>1, <3>2, <4>2 DEF Before
    <3>4. IsFiniteSet(A) /\ IsFiniteSet(B) /\ IsFiniteSet(B \cup {n})
      BY <1>3, <3>3, FS_Subset
    <3>5. Cardinality(B \cup {n}) = Cardinality(B) + 1
      BY <3>3, <3>4, FS_AddElement
    <3>6. Cardinality(S) = Cardinality(A) + Cardinality(B \cup {n})
                             - Cardinality(A \cap (B \cup {n}))
      BY <3>3, <3>4, FS_Union
    <3>7. Cardinality(A \cap (B \cup {n})) = 0
      BY <3>3, FS_EmptySet
    <3>8. Cardinality(A) \in Nat /\ Cardinality(B) \in Nat
      BY <3>4, FS_CardinalityType
    <3>9. PlaceOf(source, order, v, n) = Cardinality(A) + 1
      BY <3>1 DEF PlaceOf
    <3>10. QED
      BY <1>1, <3>1, <3>5, <3>6, <3>7, <3>8, <3>9
  <2>3. ASSUME NEW k \in 1..c
        PROVE  R[k] \in S /\ PlaceOf(source, order, v, R[k]) = k
    <3>1. c + 1 - k \in 1..c /\ R[k] = rising[c + 1 - k]
      BY <1>3, <2>1
    <3>2. R[k] \in S /\ Cardinality(Before(S, R[k])) = (c + 1 - k) - 1
      BY <1>3, <3>1
    <3>3. PlaceOf(source, order, v, R[k]) = c - Cardinality(Before(S, R[k]))
      BY <2>2, <3>2
    <3>4. c - ((c + 1 - k) - 1) = k
      BY <1>3
    <3>5. QED
      BY <3>2, <3>3, <3>4
  <2>4. ASSUME NEW n \in S
        PROVE  /\ PlaceOf(source, order, v, n) \in 1..c
               /\ R[PlaceOf(source, order, v, n)] = n
    <3>1. PICK b : b = Cardinality(Before(S, n))
      OBVIOUS
    <3>2. b \in Nat /\ b + 1 \in 1..c /\ rising[b + 1] = n
      BY <1>3, <2>2, <3>1
    <3>3. PlaceOf(source, order, v, n) = c - b
      BY <2>2, <3>1
    <3>4. c - b \in 1..c /\ c + 1 - (c - b) = b + 1
      BY <1>3, <3>2
    <3>5. QED
      BY <2>1, <3>2, <3>3, <3>4
  <2>5. R \in Seq(S) /\ Len(R) = c
    <3>1. R \in [1..c -> S]
      BY <2>1, <2>3
    <3>2. R \in Seq(S)
      BY <1>3, <3>1, SeqDef
    <3>3. QED
      BY <1>3, <3>1, <3>2, LenProperties
  <2>6. QED
    BY <1>1, <1>3, <2>3, <2>4, <2>5 DEF S
<1>7. QED
  BY <1>5, <1>6

\* Among the first numbers there is a greatest.
LEMMA GreatestOfSet ==
    ASSUME NEW v \in Nat, NEW S \in SUBSET (1..v), S # {}
    PROVE  \E n \in S : \A m \in S : m <= n
<1>1. PICK B : B = {k \in Nat : \A m \in S : m <= k}
  OBVIOUS
<1>2. v \in B /\ B \in SUBSET Nat
  BY <1>1
<1>3. PICK k \in B : \A j \in B : k <= j
  BY <1>2, LeastNatural
<1>4. k \in Nat /\ \A m \in S : m \in 1..v /\ m <= k
  BY <1>1, <1>3
<1>5. k \in S
  <2>1. SUFFICES ASSUME k \notin S PROVE FALSE
    OBVIOUS
  <2>2. PICK l \in Nat : l >= 1 /\ l <= k
    <3>1. PICK l : l \in S
      OBVIOUS
    <3>2. l \in 1..v /\ l <= k
      BY <1>4, <3>1
    <3>3. QED
      BY <3>2
  <2>3. ASSUME NEW m \in S
        PROVE  m <= k - 1
    <3>1. m \in Nat /\ m <= k /\ m # k
      BY <1>4, <2>1
    <3>2. QED
      BY <1>4, <3>1
  <2>4. k - 1 \in B
    <3>1. k - 1 \in Nat
      BY <1>4, <2>2
    <3>2. QED
      BY <1>1, <2>3, <3>1
  <2>5. QED
    BY <1>3, <1>4, <2>4
<1>6. QED
  BY <1>4, <1>5

\* The moment an answer shows stands for the number published when it was
\* made: no document published since matches.
LEMMA MomentShows ==
    ASSUME NEW source, NEW v \in Nat
    PROVE  /\ Moment(source, v) \in 0..v
           /\ Matching(source, Moment(source, v)) = Matching(source, v)
<1>1. PICK S, M : S = Matching(source, v) /\ M = Moment(source, v)
  OBVIOUS
<1>2. S \in SUBSET (1..v)
  BY <1>1 DEF Matching
<1>3. M = IF S = {} THEN 0 ELSE CHOOSE n \in S : \A m \in S : m <= n
  BY <1>1 DEF Moment
<1>4. CASE S = {}
  <2>1. M = 0 /\ Matching(source, 0) = {}
    BY <1>3, <1>4 DEF Matching
  <2>2. QED
    BY <1>1, <1>4, <2>1
<1>5. CASE S # {}
  <2>1. \E n \in S : \A m \in S : m <= n
    BY <1>2, <1>5, GreatestOfSet
  <2>2. M \in S /\ \A m \in S : m <= M
    BY <1>3, <1>5, <2>1
  <2>3. M \in 1..v /\ S = {m \in S : m \in 1..M} /\ \A n \in 1..M : n \in 1..v
    <3>1. PICK k \in Nat : k = M /\ k \in 1..v
      BY <1>2, <2>2
    <3>2. \A m \in S : m \in Nat /\ m >= 1 /\ m <= k
      BY <1>2, <2>2, <3>1
    <3>3. \A m \in S : m \in 1..k
      BY <3>1, <3>2
    <3>4. \A n \in 1..k : n \in 1..v
      BY <3>1
    <3>5. QED
      BY <3>1, <3>3, <3>4
  <2>4. Matching(source, M) = S
    BY <1>1, <2>3 DEF Matching
  <2>5. QED
    BY <1>1, <2>3, <2>4
<1>6. QED
  BY <1>4, <1>5

\* With more published, no document moves forward; from the oldest to the
\* newest none moves at all.
LEMMA PlacesOnlyMoveBack ==
    ASSUME NEW source, NEW order, NEW v \in Nat, NEW w \in Nat, v <= w,
           NEW n \in Matching(source, v)
    PROVE  /\ n \in Matching(source, w)
           /\ PlaceOf(source, order, v, n) \in Nat \ {0}
           /\ PlaceOf(source, order, v, n) <= PlaceOf(source, order, w, n)
           /\ order = "dateasc" =>
                PlaceOf(source, order, v, n) = PlaceOf(source, order, w, n)
<1>1. Matching(source, v) \subseteq Matching(source, w)
  BY DEF Matching
<1>2. PICK A, B : A = Ahead(source, order, v, n) /\ B = Ahead(source, order, w, n)
  OBVIOUS
<1>3. A \subseteq B
  BY <1>1, <1>2 DEF Ahead
<1>4. IsFiniteSet(A) /\ IsFiniteSet(B)
  <2>1. A \in SUBSET (1..v) /\ B \in SUBSET (1..w)
    BY <1>2 DEF Ahead, Matching
  <2>2. QED
    BY <2>1, UpToFinite
<1>5. Cardinality(A) \in Nat /\ Cardinality(B) \in Nat /\ Cardinality(A) <= Cardinality(B)
  BY <1>3, <1>4, FS_Subset, FS_CardinalityType
<1>6. order = "dateasc" => A = B
  <2>1. n \in 1..v
    BY DEF Matching
  <2>2. \A m \in 1..w : m < n => m \in 1..v
    BY <2>1
  <2>3. QED
    BY <1>2, <1>3, <2>2 DEF Ahead, Matching
<1>7. QED
  BY <1>1, <1>2, <1>5, <1>6 DEF PlaceOf

-----------------------------------------------------------------------------
(* Pages.                                                                  *)

\* The place of n is on that page.
OnPage(source, order, v, n, page, size) ==
    /\ Offset(page, size) < PlaceOf(source, order, v, n)
    /\ PlaceOf(source, order, v, n) <= Limit(page, size)

\* Of LeyChile every document is listed, of the Contraloria those kept.
ListableFrom(source, n) == source = "leyes" \/ Kept(source, n)

\* The results summarize the documents of the page that can be listed, once
\* each.
Shows(results, source, order, page, size, v) ==
    /\ \A k \in 1..Len(results) : /\ results[k] = Summary(source, results[k].doc)
                                  /\ results[k].doc \in Matching(source, v)
                                  /\ OnPage(source, order, v, results[k].doc, page, size)
    /\ \A j, k \in 1..Len(results) : results[j].doc = results[k].doc => j = k
    /\ \A n \in Matching(source, v) :
          OnPage(source, order, v, n, page, size) /\ ListableFrom(source, n) =>
             \E k \in 1..Len(results) : results[k].doc = n

\* The slice of a sequence that a page is.
Slice(R, page, size) ==
    LET from == Offset(page, size)
    IN  SubSeq(R, from + 1, IF Len(R) < from + size THEN Len(R) ELSE from + size)

\* The entries of R that follow the first from, size of them at most.
Slices(h, S, R, from, size) ==
    /\ h \in Seq(S)
    /\ \A i \in 1..Len(h) : /\ from + i \in 1..Len(R) /\ i <= size
                            /\ h[i] = R[from + i]
    /\ \A k \in 1..Len(R) : from < k /\ k <= from + size =>
          k - from \in 1..Len(h)

\* A slice has the entries after its beginning, as many as it is long.
LEMMA SliceEntries ==
    ASSUME NEW S, NEW R \in Seq(S), NEW page \in Nat \ {0}, NEW size \in Nat,
           NEW from, from = Offset(page, size), NEW h, h = Slice(R, page, size)
    PROVE  /\ from \in Nat /\ Limit(page, size) = from + size
           /\ Slices(h, S, R, from, size)
<1>1. PICK n \in Nat : n = Len(R)
  BY LenProperties
<1>2. from \in Nat /\ Limit(page, size) = from + size
  BY PageBounds
<1>3. PICK last : last = IF n < from + size THEN n ELSE from + size
  OBVIOUS
<1>4. last \in Nat /\ last <= n /\ last <= from + size
  BY <1>1, <1>2, <1>3
<1>5. \A i \in (from + 1)..last : R[i] \in S
  <2>1. ASSUME NEW i \in (from + 1)..last
        PROVE  i \in 1..Len(R)
    BY <1>1, <1>2, <1>4
  <2>2. QED
    BY <2>1, ElementOfSeq
<1>6. h = SubSeq(R, from + 1, last)
  BY <1>1, <1>3 DEF Slice
<1>7. /\ h \in Seq(S)
      /\ Len(h) = IF from + 1 <= last THEN last - from ELSE 0
      /\ \A i \in 1..(last - from) : h[i] = R[from + i]
  <2>1. PICK m : m = from + 1
    OBVIOUS
  <2>2. m \in Int /\ last \in Int /\ \A i \in m..last : R[i] \in S
    BY <1>2, <1>4, <1>5, <2>1
  <2>3. /\ SubSeq(R, m, last) \in Seq(S)
        /\ Len(SubSeq(R, m, last)) = IF m <= last THEN last - m + 1 ELSE 0
        /\ \A i \in 1..(last - m + 1) : SubSeq(R, m, last)[i] = R[m + i - 1]
    BY <2>2, SubSeqProperties, SMTT(30)
  <2>4. /\ last - m + 1 = last - from
        /\ \A i \in 1..(last - from) : m + i - 1 = from + i
    <3>1. from \in Int /\ last \in Int
      BY <1>2, <1>4
    <3>2. QED
      BY ONLY <2>1, <3>1
  <2>5. h \in Seq(S) /\ Len(h) = IF from + 1 <= last THEN last - from ELSE 0
    BY <1>6, <2>1, <2>3, <2>4, SMTT(20)
  <2>6. ASSUME NEW i \in 1..(last - from)
        PROVE  h[i] = R[from + i]
    <3>1. h[i] = R[m + i - 1]
      BY <1>6, <2>1, <2>3, <2>4, SMTT(20)
    <3>2. QED
      BY <2>4, <3>1
  <2>7. QED
    BY <2>5, <2>6
<1>8. PICK l : l = Len(h)
  OBVIOUS
<1>9. ASSUME NEW i \in 1..l
      PROVE  from + i \in 1..n /\ i <= size /\ h[i] = R[from + i]
  <2>1. i \in 1..(last - from) /\ i <= last - from
    BY <1>2, <1>4, <1>7, <1>8
  <2>2. from + i \in 1..n /\ i <= size
    BY <1>1, <1>2, <1>4, <2>1
  <2>3. QED
    BY <1>7, <2>1, <2>2
<1>10. ASSUME NEW k \in 1..n, from < k, k <= from + size
       PROVE  k - from \in 1..l
  <2>1. k <= last /\ from + 1 <= last
    BY <1>1, <1>2, <1>3, <1>4, <1>10
  <2>2. l = last - from
    BY <1>7, <1>8, <2>1
  <2>3. QED
    BY <1>2, <1>4, <1>10, <2>1, <2>2
<1>11. QED
  BY <1>1, <1>2, <1>7, <1>8, <1>9, <1>10 DEF Slices

\* The hits are the documents whose place is on the page, once each.
Lists(h, source, order, page, size, v) ==
    /\ h \in Seq(Matching(source, v))
    /\ \A i \in 1..Len(h) : /\ h[i] \in Matching(source, v)
                            /\ OnPage(source, order, v, h[i], page, size)
    /\ \A i, j \in 1..Len(h) : h[i] = h[j] => i = j
    /\ \A n \in Matching(source, v) :
          OnPage(source, order, v, n, page, size) => \E i \in 1..Len(h) : h[i] = n

\* A page of a ranking has them.
LEMMA SliceOfRanking ==
    ASSUME NEW source, NEW order, NEW v \in Nat,
           NEW page \in Nat \ {0}, NEW size \in Nat
    PROVE  Lists(Slice(Ranking(source, order, v), page, size), source, order, page, size, v)
<1>1. PICK S, c, R, from, h :
         /\ S = Matching(source, v) /\ c = Cardinality(S)
         /\ R = Ranking(source, order, v) /\ from = Offset(page, size)
         /\ h = Slice(R, page, size)
  OBVIOUS
<1>2. /\ c \in Nat /\ R \in Seq(S) /\ Len(R) = c
      /\ \A k \in 1..c : R[k] \in S /\ PlaceOf(source, order, v, R[k]) = k
      /\ \A n \in S : /\ PlaceOf(source, order, v, n) \in 1..c
                      /\ R[PlaceOf(source, order, v, n)] = n
  BY <1>1, RankingPlaces
<1>3. /\ from \in Nat /\ Limit(page, size) = from + size
      /\ h \in Seq(S)
      /\ \A i \in 1..Len(h) : /\ from + i \in 1..Len(R) /\ i <= size
                              /\ h[i] = R[from + i]
      /\ \A k \in 1..Len(R) : from < k /\ k <= from + size =>
            k - from \in 1..Len(h)
  <2>1. R \in Seq(S) /\ h = Slice(R, page, size)
    BY <1>1, <1>2
  <2>2. from = Offset(page, size)
    BY <1>1
  <2>3. /\ from \in Nat /\ Limit(page, size) = from + size
        /\ Slices(h, S, R, from, size)
    BY ONLY <2>1, <2>2, page \in Nat \ {0}, size \in Nat, SliceEntries
  <2>4. QED
    BY ONLY <2>3 DEF Slices
<1>4. PICK l \in Nat : l = Len(h)
  BY <1>3, LenProperties
<1>5. ASSUME NEW i \in 1..l
      PROVE  h[i] \in S /\ PlaceOf(source, order, v, h[i]) = from + i
  <2>1. from + i \in 1..c /\ h[i] = R[from + i]
    BY <1>2, <1>3, <1>4
  <2>2. QED
    BY <1>2, <2>1
<1>6. ASSUME NEW i \in 1..l
      PROVE  OnPage(source, order, v, h[i], page, size)
  <2>1. i <= size /\ size \in Nat /\ i \in Nat /\ i >= 1
    BY <1>3, <1>4
  <2>2. from < from + i /\ from + i <= from + size
    BY <1>3, <2>1
  <2>3. QED
    BY <1>1, <1>3, <1>5, <2>2 DEF OnPage
<1>7. ASSUME NEW i \in 1..l, NEW j \in 1..l, h[i] = h[j]
      PROVE  i = j
  <2>1. from + i = from + j
    BY <1>5, <1>7
  <2>2. QED
    BY <1>3, <1>4, <2>1
<1>8. ASSUME NEW n \in S, OnPage(source, order, v, n, page, size)
      PROVE  \E i \in 1..l : h[i] = n
  <2>1. PICK k : k = PlaceOf(source, order, v, n)
    OBVIOUS
  <2>2. k \in 1..c /\ R[k] = n /\ from < k /\ k <= from + size
    BY <1>1, <1>2, <1>3, <1>8, <2>1 DEF OnPage
  <2>3. k - from \in 1..l /\ from + (k - from) = k
    BY <1>2, <1>3, <1>4, <2>2
  <2>4. h[k - from] = n
    BY <1>3, <1>4, <2>2, <2>3
  <2>5. QED
    BY <2>3, <2>4
<1>9. QED
  BY <1>1, <1>3, <1>4, <1>5, <1>6, <1>7, <1>8 DEF Lists

\* What is published is summarized.
LEMMA SummaryTyped ==
    ASSUME NEW source, NEW n \in Documents
    PROVE  Summary(source, n) \in SummaryType
<1>1. Docs[n] \in Doc /\ n \in Nat /\ n \in 0..Len(Docs)
  <2>1. Docs \in Seq(Doc) /\ Len(Docs) \in Nat
    BY DocumentsAssumption, LenProperties
  <2>2. QED
    BY <2>1, ElementOfSeq DEF Documents
<1>2. /\ Docs[n].id \in Name \cup {NoName} /\ Docs[n].docId \in Name \cup {NoName}
      /\ Docs[n].numero \in Name \cup {NoName}
  BY <1>1 DEF Doc
<1>3. dictamenId(source, n) \in Name \cup {NoName}
  BY <1>2 DEF dictamenId
<1>4. QED
  BY <1>2, <1>3 DEF Summary, SummaryType

\* The results summarize the hits one by one.
Summarizes(results, source, h) ==
    /\ results \in Seq(SummaryType) /\ Len(results) = Len(h)
    /\ \A i \in 1..Len(h) : results[i] = Summary(source, h[i])

\* The loop over hits makes such summaries.
LEMMA SummariesOf ==
    ASSUME NEW source, NEW v \in 0..Len(Docs), NEW s, NEW h \in Seq(Matching(s, v))
    PROVE  Summarizes([i \in DOMAIN h |-> Summary(source, h[i])], source, h)
<1>1. PICK l \in Nat : l = Len(h) /\ DOMAIN h = 1..l
  BY LenProperties
<1>2. PICK results : results = [i \in DOMAIN h |-> Summary(source, h[i])]
  OBVIOUS
<1>3. ASSUME NEW i \in 1..l
      PROVE  results[i] \in SummaryType /\ results[i] = Summary(source, h[i])
  <2>1. h[i] \in Matching(s, v)
    BY <1>1, ElementOfSeq
  <2>2. h[i] \in Documents
    <3>1. Len(Docs) \in Nat
      BY DocumentsAssumption, LenProperties
    <3>2. QED
      BY <2>1, <3>1 DEF Matching, Documents
  <2>3. results[i] = Summary(source, h[i])
    BY <1>1, <1>2
  <2>4. Summary(source, h[i]) \in SummaryType
    BY <2>2, SummaryTyped
  <2>5. QED
    BY <2>3, <2>4
<1>4. results \in [1..l -> SummaryType]
  BY <1>1, <1>2, <1>3
<1>5. results \in Seq(SummaryType) /\ Len(results) = l
  <2>1. results \in Seq(SummaryType)
    BY <1>1, <1>4, SeqDef
  <2>2. QED
    BY <1>1, <1>4, <2>1, LenProperties
<1>6. QED
  BY <1>1, <1>2, <1>3, <1>5 DEF Summarizes

\* Results that summarize the hits kept of a page show it.
LEMMA SummariesShow ==
    ASSUME NEW source, NEW order, NEW page, NEW size, NEW v,
           NEW hits, Lists(hits, source, order, page, size, v),
           NEW P, P = {i \in 1..Len(hits) : ListableFrom(source, hits[i])},
           NEW kept, Takes(kept, hits, P),
           NEW results, Summarizes(results, source, kept)
    PROVE  Shows(results, source, order, page, size, v)
<1>1. PICK l, c : l = Len(hits) /\ c = Len(kept)
  OBVIOUS
<1>2. PICK at \in [1..c -> P] :
         /\ \A k \in 1..c : kept[k] = hits[at[k]]
         /\ \A j, k \in 1..c : at[j] = at[k] => j = k
         /\ \A p \in P : \E k \in 1..c : at[k] = p
  BY <1>1 DEF Takes
<1>3. /\ Len(results) = c
      /\ \A k \in 1..c : /\ results[k].doc = hits[at[k]]
                         /\ results[k] = Summary(source, results[k].doc)
  <2>1. \A n : Summary(source, n).doc = n
    BY DEF Summary
  <2>2. Len(results) = c /\ \A k \in 1..c : results[k] = Summary(source, hits[at[k]])
    BY <1>1, <1>2 DEF Summarizes
  <2>3. QED
    BY <2>1, <2>2
<1>4. \A k \in 1..c : at[k] \in 1..l
  BY <1>1, <1>2
<1>5. ASSUME NEW k \in 1..c
      PROVE  /\ results[k].doc \in Matching(source, v)
             /\ OnPage(source, order, v, results[k].doc, page, size)
  BY <1>1, <1>3, <1>4 DEF Lists
<1>6. ASSUME NEW j \in 1..c, NEW k \in 1..c, results[j].doc = results[k].doc
      PROVE  j = k
  <2>1. hits[at[j]] = hits[at[k]] /\ at[j] \in 1..l /\ at[k] \in 1..l
    BY <1>3, <1>4, <1>6
  <2>2. at[j] = at[k]
    BY <1>1, <2>1 DEF Lists
  <2>3. QED
    BY <1>2, <2>2
<1>7. ASSUME NEW n \in Matching(source, v), ListableFrom(source, n),
             OnPage(source, order, v, n, page, size)
      PROVE  \E k \in 1..c : results[k].doc = n
  <2>1. PICK i \in 1..l : hits[i] = n
    BY <1>1, <1>7 DEF Lists
  <2>2. i \in P
    BY <1>1, <1>7, <2>1
  <2>3. PICK k \in 1..c : at[k] = i
    BY <1>2, <2>2
  <2>4. results[k].doc = n
    BY <1>3, <2>1, <2>3
  <2>5. QED
    BY <2>4
<1>8. QED
  BY <1>3, <1>5, <1>6, <1>7 DEF Shows

\* A page of LeyChile's search, all of whose hits are listed.
LEMMA LawPageShows ==
    ASSUME NEW order, NEW v \in 0..Len(Docs), NEW page \in Nat \ {0}, NEW size \in Nat,
           NEW h, h = LawPage(Ranking("leyes", order, v), page, size)
    PROVE  LET results == [i \in DOMAIN h |-> Summary("leyes", h[i])]
           IN  /\ results \in Seq(SummaryType)
               /\ Shows(results, "leyes", order, page, size, v)
<1>1. v \in Nat
  BY DocumentsAssumption, LenProperties
<1>2. Lists(h, "leyes", order, page, size, v)
  <2>1. h = Slice(Ranking("leyes", order, v), page, size)
    BY DEF LawPage, Slice, Offset
  <2>2. Lists(Slice(Ranking("leyes", order, v), page, size), "leyes", order, page, size, v)
    BY <1>1, SliceOfRanking
  <2>3. QED
    BY <2>1, <2>2
<1>3. h \in Seq(Matching("leyes", v))
  BY <1>2 DEF Lists
<1>4. PICK results : results = [i \in DOMAIN h |-> Summary("leyes", h[i])]
  OBVIOUS
<1>5. Summarizes(results, "leyes", h)
  BY <1>3, <1>4, SummariesOf
<1>6. PICK l \in Nat : l = Len(h)
  BY <1>3, LenProperties
<1>7. PICK P : P = {i \in 1..l : ListableFrom("leyes", h[i])}
  OBVIOUS
<1>8. P = 1..l
  BY <1>7 DEF ListableFrom
<1>9. Takes(h, h, P)
  <2>1. PICK at : at = [k \in 1..l |-> k]
    OBVIOUS
  <2>2. /\ at \in [1..l -> P]
        /\ \A k \in 1..l : at[k] = k
    BY <1>8, <2>1
  <2>3. QED
    BY <1>6, <1>8, <2>2 DEF Takes
<1>10. Shows(results, "leyes", order, page, size, v)
  BY <1>2, <1>5, <1>6, <1>7, <1>9, SummariesShow
<1>11. QED
  BY <1>4, <1>5, <1>10 DEF Summarizes

\* A page of the Contraloria's, without the hits that are passed over.
LEMMA CgrPageShows ==
    ASSUME NEW source, source # "leyes", NEW order, NEW v \in 0..Len(Docs),
           NEW page \in Nat \ {0}
    PROVE  LET results == SearchResponse(source, order, page, v).results
           IN  /\ results \in Seq(SummaryType)
               /\ Shows(results, source, order, page, pageSize, v)
<1>1. v \in Nat /\ pageSize \in Nat
  BY DocumentsAssumption, LenProperties
<1>2. PICK h, P, kept, results :
         /\ h = HitsOn(source, order, page, v)
         /\ P = {i \in DOMAIN h : Kept(source, h[i])}
         /\ kept = At(h, P)
         /\ results = SearchResponse(source, order, page, v).results
  OBVIOUS
<1>3. Lists(h, source, order, page, pageSize, v)
  <2>1. h = Slice(Ranking(source, order, v), page, pageSize)
    BY <1>2 DEF HitsOn, apiPage, Slice, Offset
  <2>2. Lists(Slice(Ranking(source, order, v), page, pageSize),
              source, order, page, pageSize, v)
    BY <1>1, SliceOfRanking
  <2>3. QED
    BY <2>1, <2>2
<1>4. h \in Seq(Matching(source, v))
  BY <1>3 DEF Lists
<1>5. P = {i \in 1..Len(h) : ListableFrom(source, h[i])}
  <2>1. DOMAIN h = 1..Len(h)
    BY <1>4, LenProperties
  <2>2. QED
    BY <1>2, <2>1 DEF ListableFrom
<1>6. kept \in Seq(Matching(source, v)) /\ Takes(kept, h, P)
  <2>1. P \in SUBSET (1..Len(h))
    BY <1>5
  <2>2. QED
    BY <1>2, <1>4, <2>1, AtPlaces
<1>7. Summarizes(results, source, kept)
  <2>1. results = [i \in DOMAIN kept |-> Summary(source, kept[i])]
    BY <1>2 DEF SearchResponse
  <2>2. QED
    BY <1>6, <2>1, SummariesOf
<1>8. Shows(results, source, order, page, pageSize, v)
  BY <1>3, <1>5, <1>6, <1>7, SummariesShow
<1>9. QED
  BY <1>2, <1>7, <1>8 DEF Summarizes

\* What a page shows does not depend on when it was made but for its moment.
LEMMA ShowsAtMoment ==
    ASSUME NEW results, NEW source, NEW order, NEW page, NEW size, NEW v \in Nat,
           Shows(results, source, order, page, size, v)
    PROVE  Shows(results, source, order, page, size, Moment(source, v))
<1>1. PICK M : M = Moment(source, v)
  OBVIOUS
<1>2. Matching(source, M) = Matching(source, v)
  BY <1>1, MomentShows
<1>3. \A n : PlaceOf(source, order, M, n) = PlaceOf(source, order, v, n)
  BY <1>2 DEF PlaceOf, Ahead
<1>4. QED
  BY <1>1, <1>2, <1>3 DEF Shows, OnPage

-----------------------------------------------------------------------------
(* Walks.                                                                  *)

\* The t-th page of a walk.
PageAt(from, t) == from + t - 1

\* Each result summarizes a document that was on one of the pages shown, at
\* the moment of that page; no page repeats a document.
Traced(got, moments, source, order, from, size) ==
    \E at \in [1..Len(got) -> 1..Len(moments)] :
       /\ \A i \in 1..Len(got) :
             /\ got[i] = Summary(source, got[i].doc)
             /\ got[i].doc \in Matching(source, moments[at[i]])
             /\ OnPage(source, order, moments[at[i]], got[i].doc, PageAt(from, at[i]), size)
       /\ \A i, j \in 1..Len(got) : at[i] = at[j] /\ got[i].doc = got[j].doc => i = j

\* No page shown leaves out a document that was on it.
Complete(got, moments, source, order, from, size) ==
    \A t \in 1..Len(moments) : \A n \in Matching(source, moments[t]) :
       /\ OnPage(source, order, moments[t], n, PageAt(from, t), size)
       /\ ListableFrom(source, n)
       => \E i \in 1..Len(got) : got[i].doc = n

\* What is so of the empty walk ...
LEMMA TraceOfNothing ==
    ASSUME NEW source, NEW order, NEW from, NEW size
    PROVE  /\ Traced(<<>>, <<>>, source, order, from, size)
           /\ Complete(<<>>, <<>>, source, order, from, size)
<1>1. PICK at : at = [i \in 1..0 |-> i]
  OBVIOUS
<1>2. at \in [1..Len(<<>>) -> 1..Len(<<>>)] /\ 1..Len(<<>>) = {}
  BY <1>1
<1>3. QED
  BY <1>2 DEF Traced, Complete

\* ... is so of a walk that was shown one page more.
LEMMA TraceExtended ==
    ASSUME NEW got \in Seq(SummaryType), NEW results \in Seq(SummaryType),
           NEW moments \in Seq(Nat), NEW M \in Nat,
           NEW source, NEW order, NEW from \in Nat, NEW size,
           Traced(got, moments, source, order, from, size),
           Shows(results, source, order, from + Len(moments), size, M)
    PROVE  Traced(got \o results, Append(moments, M), source, order, from, size)
<1>1. PICK g \in Nat, r \in Nat, l \in Nat : g = Len(got) /\ r = Len(results) /\ l = Len(moments)
  <2>1. Len(got) \in Nat /\ Len(results) \in Nat /\ Len(moments) \in Nat
    BY LenProperties
  <2>2. QED
    BY ONLY <2>1
<1>2. PICK at \in [1..g -> 1..l] :
         /\ \A i \in 1..g :
               /\ got[i] = Summary(source, got[i].doc)
               /\ got[i].doc \in Matching(source, moments[at[i]])
               /\ OnPage(source, order, moments[at[i]], got[i].doc, PageAt(from, at[i]), size)
         /\ \A i, j \in 1..g : at[i] = at[j] /\ got[i].doc = got[j].doc => i = j
  BY <1>1, ZenonT(40) DEF Traced
<1>3. PICK G, m : G = got \o results /\ m = Append(moments, M)
  OBVIOUS
<1>4. /\ Len(G) = g + r
      /\ \A i \in 1..g : G[i] = got[i]
      /\ \A i \in (g + 1)..(g + r) : i - g \in 1..r /\ G[i] = results[i - g]
  BY <1>1, <1>3
<1>5. /\ Len(m) = l + 1 /\ m[l + 1] = M
      /\ \A t \in 1..l : m[t] = moments[t]
  BY <1>1, <1>3
<1>6. PICK to : to = [i \in 1..(g + r) |-> IF i <= g THEN at[i] ELSE l + 1]
  OBVIOUS
<1>7. /\ \A i \in 1..g : to[i] = at[i] /\ at[i] \in 1..l
      /\ \A i \in (g + 1)..(g + r) : to[i] = l + 1
  <2>1. ASSUME NEW i \in 1..g
        PROVE  to[i] = at[i] /\ at[i] \in 1..l
    <3>1. i \in 1..(g + r) /\ i <= g
      BY <1>1
    <3>2. QED
      BY <1>2, <1>6, <3>1
  <2>2. ASSUME NEW i \in (g + 1)..(g + r)
        PROVE  to[i] = l + 1
    <3>1. i \in 1..(g + r) /\ ~(i <= g)
      BY <1>1
    <3>2. QED
      BY <1>6, <3>1
  <2>3. QED
    BY <2>1, <2>2
<1>8. PageAt(from, l + 1) = from + l
  BY <1>1 DEF PageAt
<1>9. /\ \A k \in 1..r : /\ results[k] = Summary(source, results[k].doc)
                         /\ results[k].doc \in Matching(source, M)
                         /\ OnPage(source, order, M, results[k].doc, from + l, size)
      /\ \A j, k \in 1..r : results[j].doc = results[k].doc => j = k
  BY <1>1 DEF Shows
<1>10. ASSUME NEW i \in 1..(g + r)
       PROVE  /\ G[i] = Summary(source, G[i].doc)
              /\ G[i].doc \in Matching(source, m[to[i]])
              /\ OnPage(source, order, m[to[i]], G[i].doc, PageAt(from, to[i]), size)
  <2>1. CASE i \in 1..g
    <3>1. G[i] = got[i] /\ to[i] = at[i] /\ m[to[i]] = moments[at[i]]
      BY <1>4, <1>5, <1>7, <2>1
    <3>2. QED
      BY <1>2, <2>1, <3>1
  <2>2. CASE i \in (g + 1)..(g + r)
    <3>1. /\ G[i] = results[i - g] /\ i - g \in 1..r
          /\ to[i] = l + 1 /\ m[to[i]] = M
      BY <1>4, <1>5, <1>7, <2>2
    <3>2. QED
      BY <1>8, <1>9, <3>1
  <2>3. QED
    BY <1>1, <2>1, <2>2
<1>11. ASSUME NEW i \in 1..(g + r), NEW j \in 1..(g + r),
              to[i] = to[j], G[i].doc = G[j].doc
       PROVE  i = j
  <2>1. CASE i \in 1..g
    <3>1. j \in 1..g
      <4>1. to[j] \in 1..l /\ ~(l + 1 \in 1..l)
        BY <1>1, <1>7, <1>11, <2>1
      <4>2. j \notin (g + 1)..(g + r)
        BY <1>7, <4>1
      <4>3. QED
        BY <1>1, <4>2
    <3>2. at[i] = at[j] /\ got[i].doc = got[j].doc
      BY <1>4, <1>7, <1>11, <2>1, <3>1
    <3>3. QED
      BY <1>2, <2>1, <3>1, <3>2
  <2>2. CASE i \in (g + 1)..(g + r)
    <3>1. j \in (g + 1)..(g + r)
      <4>1. to[j] = l + 1 /\ ~(l + 1 \in 1..l)
        BY <1>1, <1>7, <1>11, <2>2
      <4>2. j \notin 1..g
        BY <1>7, <4>1
      <4>3. QED
        BY <1>1, <4>2
    <3>2. results[i - g].doc = results[j - g].doc /\ i - g \in 1..r /\ j - g \in 1..r
      BY <1>4, <1>11, <2>2, <3>1
    <3>3. i - g = j - g
      BY <1>9, <3>2
    <3>4. QED
      BY <1>1, <3>3
  <2>3. QED
    BY <1>1, <2>1, <2>2
<1>12. Traced(G, m, source, order, from, size)
  <2>1. Len(G) = g + r /\ Len(m) = l + 1
    BY <1>4, <1>5
  <2>2. to \in [1..(g + r) -> 1..(l + 1)]
    <3>1. ASSUME NEW i \in 1..(g + r)
          PROVE  to[i] \in 1..(l + 1)
      <4>1. i \in 1..g \/ i \in (g + 1)..(g + r)
        BY <1>1
      <4>2. QED
        BY <1>1, <1>7, <4>1
    <3>2. QED
      BY <1>6, <3>1
  <2>3. to \in [1..Len(G) -> 1..Len(m)]
    BY <2>1, <2>2
  <2>4. \A i \in 1..Len(G) :
           /\ G[i] = Summary(source, G[i].doc)
           /\ G[i].doc \in Matching(source, m[to[i]])
           /\ OnPage(source, order, m[to[i]], G[i].doc, PageAt(from, to[i]), size)
    BY <1>10, <2>1
  <2>5. \A i, j \in 1..Len(G) : to[i] = to[j] /\ G[i].doc = G[j].doc => i = j
    BY <1>11, <2>1
  <2>6. QED
    BY <2>3, <2>4, <2>5, ZenonT(40) DEF Traced
<1>13. QED
  BY <1>3, <1>12

\* The same of what the pages have to show.
LEMMA CompleteExtended ==
    ASSUME NEW got \in Seq(SummaryType), NEW results \in Seq(SummaryType),
           NEW moments \in Seq(Nat), NEW M \in Nat,
           NEW source, NEW order, NEW from \in Nat, NEW size,
           Complete(got, moments, source, order, from, size),
           Shows(results, source, order, from + Len(moments), size, M)
    PROVE  Complete(got \o results, Append(moments, M), source, order, from, size)
<1>1. PICK g \in Nat, r \in Nat, l \in Nat : g = Len(got) /\ r = Len(results) /\ l = Len(moments)
  <2>1. Len(got) \in Nat /\ Len(results) \in Nat /\ Len(moments) \in Nat
    BY LenProperties
  <2>2. QED
    BY ONLY <2>1
<1>2. PICK G, m : G = got \o results /\ m = Append(moments, M)
  OBVIOUS
<1>3. /\ Len(G) = g + r
      /\ \A i \in 1..g : i \in 1..(g + r) /\ G[i] = got[i]
      /\ \A i \in 1..r : g + i \in 1..(g + r) /\ G[g + i] = results[i]
  BY <1>1, <1>2, SMTT(30)
<1>4. /\ Len(m) = l + 1 /\ m[l + 1] = M
      /\ \A t \in 1..l : m[t] = moments[t]
  BY <1>1, <1>2
<1>5. PageAt(from, l + 1) = from + l
  BY <1>1 DEF PageAt
<1>6. ASSUME NEW t \in 1..(l + 1), NEW n \in Matching(source, m[t]), ListableFrom(source, n),
             OnPage(source, order, m[t], n, PageAt(from, t), size)
      PROVE  \E i \in 1..(g + r) : G[i].doc = n
  <2>1. CASE t \in 1..l
    <3>1. m[t] = moments[t]
      BY <1>4, <2>1
    <3>2. PICK i \in 1..g : got[i].doc = n
      BY <1>1, <1>6, <2>1, <3>1 DEF Complete
    <3>3. QED
      BY <1>3, <3>2
  <2>2. CASE t = l + 1
    <3>1. m[t] = M /\ PageAt(from, t) = from + l
      BY <1>4, <1>5, <2>2
    <3>2. PICK i \in 1..r : results[i].doc = n
      BY <1>1, <1>6, <3>1 DEF Shows
    <3>3. QED
      BY <1>3, <3>2
  <2>3. QED
    BY <1>1, <2>1, <2>2
<1>7. Complete(G, m, source, order, from, size)
  <2>1. Len(G) = g + r /\ Len(m) = l + 1
    BY <1>3, <1>4
  <2>2. QED
    BY <1>6, <2>1 DEF Complete
<1>8. QED
  BY <1>2, <1>7

-----------------------------------------------------------------------------
(* The cache of pages.                                                     *)

\* The total an answer reports: LeyChile's has no cap.
TotalShown(source, v) ==
    IF source = "leyes" THEN Cardinality(Matching(source, v))
    ELSE Reported(Cardinality(Matching(source, v)))

Order == {"date", "dateasc", "score"}

Response == [results : Seq(SummaryType), page : Nat, total : Nat, totalPages : Nat,
             hasMore : BOOLEAN, moment : Nat]

PageKey == [source : allowedSources, order : Order, page : Nat \ {0}]

\* The answer shows the page of its key as it was at its moment, and tells
\* whether there is a next one.
Faithful(k, response) ==
    /\ Shows(response.results, k.source, k.order, k.page, pageSize, response.moment)
    /\ response.hasMore <=> Limit(k.page, pageSize) < TotalShown(k.source, response.moment)

\* Answers that can be cached when v documents are published.
PageEntry(v) == {e \in [key : PageKey, response : Response] :
                   e.response.moment <= v /\ Faithful(e.key, e.response)}

KeysApart(s) == \A i, j \in 1..Len(s) : s[i].key = s[j].key => i = j

\* Division rounds down.
LEMMA DivBounds ==
    ASSUME NEW a \in Nat, NEW b \in Nat \ {0}
    PROVE  /\ a \div b \in Nat
           /\ (a \div b) * b <= a /\ a < (a \div b) * b + b
OBVIOUS

\* The put of the cache keeps the entries' kind, one entry per key, and no
\* more of them than the capacity.
LEMMA RememberKeeps ==
    ASSUME NEW E, pages \in Seq(E), KeysApart(pages), Key \in PageKey,
           NEW response, [key |-> Key, response |-> response] \in E
    PROVE  /\ Remember(response) \in Seq(E)
           /\ KeysApart(Remember(response))
           /\ Len(Remember(response)) <= searchesMax
<1>1. PICK e, l, P, others, all :
         /\ e = [key |-> Key, response |-> response]
         /\ l = Len(pages)
         /\ P = {i \in DOMAIN pages : pages[i].key # Key}
         /\ others = At(pages, P)
         /\ all = <<e>> \o others
  OBVIOUS
<1>2. l \in Nat /\ P \in SUBSET (1..l)
  <2>1. l \in Nat /\ DOMAIN pages = 1..l
    BY <1>1, LenProperties
  <2>2. QED
    BY <1>1, <2>1
<1>3. others \in Seq(E) /\ Takes(others, pages, P)
  BY <1>1, <1>2, AtPlaces
<1>4. PICK c \in Nat : c = Len(others)
  BY <1>3, LenProperties
<1>5. PICK at \in [1..c -> P] :
         /\ \A k \in 1..c : others[k] = pages[at[k]]
         /\ \A j, k \in 1..c : at[j] = at[k] => j = k
  BY <1>3, <1>4 DEF Takes
<1>6. \A k \in 1..c : others[k].key # Key
  <2>1. \A i \in P : pages[i].key # Key
    BY <1>1
  <2>2. QED
    BY <1>5, <2>1
<1>7. ASSUME NEW j \in 1..c, NEW k \in 1..c, others[j].key = others[k].key
      PROVE  j = k
  <2>1. pages[at[j]].key = pages[at[k]].key /\ at[j] \in 1..l /\ at[k] \in 1..l
    BY <1>2, <1>5, <1>7
  <2>2. at[j] = at[k]
    BY <1>1, <2>1 DEF KeysApart
  <2>3. QED
    BY <1>5, <2>2
<1>8. /\ all \in Seq(E) /\ Len(all) = c + 1
      /\ all[1] = e /\ \A k \in 2..(c + 1) : k - 1 \in 1..c /\ all[k] = others[k - 1]
  <2>1. e \in E
    BY <1>1
  <2>2. <<e>> \in Seq(E) /\ Len(<<e>>) = 1 /\ <<e>>[1] = e
    BY <2>1
  <2>3. QED
    BY <1>1, <1>3, <1>4, <2>2, ConcatProperties
<1>9. ASSUME NEW j \in 1..(c + 1), NEW k \in 1..(c + 1), all[j].key = all[k].key
      PROVE  j = k
  <2>1. e.key = Key
    BY <1>1
  <2>2. CASE j = 1 \/ k = 1
    BY <1>4, <1>6, <1>8, <1>9, <2>1, <2>2
  <2>3. CASE j # 1 /\ k # 1
    <3>1. /\ j \in 2..(c + 1) /\ k \in 2..(c + 1)
      BY <1>4, <2>3
    <3>2. /\ j - 1 \in 1..c /\ k - 1 \in 1..c
          /\ others[j - 1].key = others[k - 1].key
      BY <1>8, <1>9, <3>1
    <3>3. j - 1 = k - 1
      BY <1>7, <3>2
    <3>4. QED
      BY <1>4, <3>1, <3>3
  <2>4. QED
    BY <2>2, <2>3
<1>10. PICK n \in Nat : /\ n = IF c + 1 < searchesMax THEN c + 1 ELSE searchesMax
                        /\ n <= c + 1 /\ n <= searchesMax
  <2>1. searchesMax \in Nat /\ c + 1 \in Nat
    BY <1>4, WalksAssumption
  <2>2. CASE c + 1 < searchesMax
    BY <2>1, <2>2
  <2>3. CASE ~(c + 1 < searchesMax)
    BY <2>1, <2>3
  <2>4. QED
    BY <2>2, <2>3
<1>11. n <= c + 1 /\ n <= searchesMax
  BY <1>10
<1>12. PICK kept : kept = SubSeq(all, 1, n)
  OBVIOUS
<1>13. /\ kept \in Seq(E) /\ Len(kept) = n
       /\ \A k \in 1..n : k \in 1..(c + 1) /\ kept[k] = all[k]
  <2>1. \A k \in 1..n : k \in 1..(c + 1) /\ all[k] \in E
    <3>1. \A k \in 1..n : k \in 1..(c + 1)
      BY <1>4, <1>10, <1>11
    <3>2. \A k \in 1..(c + 1) : all[k] \in E
      BY <1>8, ElementOfSeq
    <3>3. QED
      BY <3>1, <3>2
  <2>2. /\ SubSeq(all, 1, n) \in Seq(E)
        /\ Len(SubSeq(all, 1, n)) = IF 1 <= n THEN n - 1 + 1 ELSE 0
        /\ \A k \in 1..(n - 1 + 1) : SubSeq(all, 1, n)[k] = all[1 + k - 1]
    BY <1>10, <2>1, SubSeqProperties
  <2>3. /\ n - 1 + 1 = n /\ (1 <= n \/ n = 0)
        /\ \A k \in 1..n : 1 + k - 1 = k
    BY <1>10
  <2>4. QED
    BY <1>12, <2>1, <2>2, <2>3
<1>14. Remember(response) = kept
  <2>1. Len(all) = c + 1
    BY <1>8
  <2>2. QED
    BY <1>1, <1>10, <1>12, <2>1 DEF Remember, Others
<1>15. KeysApart(kept)
  BY <1>9, <1>13 DEF KeysApart
<1>16. QED
  BY <1>11, <1>13, <1>14, <1>15

\* More pages hold no fewer documents.
LEMMA LimitRises ==
    ASSUME NEW p \in Nat, NEW q \in Nat, NEW size \in Nat, p <= q
    PROVE  Limit(p, size) \in Nat /\ Limit(q, size) \in Nat /\ Limit(p, size) <= Limit(q, size)
<1>1. PICK d \in Nat : q = p + d
  <2>1. q - p \in Nat /\ q = p + (q - p)
    OBVIOUS
  <2>2. QED
    BY <2>1
<1>2. /\ p * size \in Nat /\ d * size \in Nat
      /\ (p + d) * size = p * size + d * size
  OBVIOUS
<1>3. QED
  BY <1>1, <1>2 DEF Limit

\* Totals are numbers, and that of a moment is the one of its time.
LEMMA TotalAtMoment ==
    ASSUME NEW source, NEW order, NEW v \in Nat
    PROVE  /\ Moment(source, v) \in 0..v
           /\ TotalShown(source, Moment(source, v)) = TotalShown(source, v)
           /\ Len(Ranking(source, order, v)) \in Nat
           /\ Len(Ranking(source, order, v)) = Cardinality(Matching(source, v))
           /\ TotalShown(source, v) =
                IF source = "leyes" THEN Len(Ranking(source, order, v))
                ELSE Reported(Len(Ranking(source, order, v)))
<1>1. PICK S, R, M : /\ S = Matching(source, v) /\ R = Ranking(source, order, v)
                     /\ M = Moment(source, v)
  OBVIOUS
<1>2. Cardinality(S) \in Nat /\ Len(R) = Cardinality(S)
  BY <1>1, RankingPlaces
<1>3. M \in 0..v /\ Matching(source, M) = S
  BY <1>1, MomentShows
<1>4. QED
  BY <1>1, <1>2, <1>3 DEF TotalShown

\* What the client makes of a page of the Contraloria's is faithful to it.
LEMMA ResponseFaithful ==
    ASSUME NEW source \in allowedSources, NEW order \in Order, NEW page \in Nat \ {0},
           NEW v \in 0..Len(Docs)
    PROVE  LET response == SearchResponse(source, order, page, v)
           IN  [key |-> [source |-> source, order |-> order, page |-> page],
                response |-> response] \in PageEntry(v)
<1>1. PICK r, k : /\ r = SearchResponse(source, order, page, v)
                  /\ k = [source |-> source, order |-> order, page |-> page]
  OBVIOUS
<1>2. source # "leyes"
  BY DEF allowedSources, Openable
<1>3. v \in Nat /\ pageSize \in Nat \ {0} /\ totalCap \in Nat
  BY DocumentsAssumption, LenProperties
<1>4. PICK M, T : M = Moment(source, v) /\ T = Reported(Cardinality(Matching(source, v)))
  OBVIOUS
<1>5. /\ M \in 0..v /\ TotalShown(source, M) = T /\ T \in Nat
  <2>1. /\ M \in 0..v /\ TotalShown(source, M) = TotalShown(source, v)
        /\ Cardinality(Matching(source, v)) \in Nat
        /\ TotalShown(source, v) = T
    BY <1>2, <1>3, <1>4, TotalAtMoment
  <2>2. T \in Nat
    BY <1>3, <1>4, <2>1 DEF Reported
  <2>3. QED
    BY <2>1, <2>2
<1>6. /\ r.results \in Seq(SummaryType)
      /\ Shows(r.results, source, order, page, pageSize, M)
  <2>1. /\ r.results \in Seq(SummaryType)
        /\ Shows(r.results, source, order, page, pageSize, v)
    BY <1>1, <1>2, CgrPageShows
  <2>2. QED
    BY <1>3, <1>4, <2>1, ShowsAtMoment
<1>7. PICK pagesInAll \in Nat : pagesInAll = IF T > 0 THEN CeilDiv(T, pageSize) ELSE 0
  <2>1. T + pageSize - 1 \in Nat
    BY <1>3, <1>5
  <2>2. CeilDiv(T, pageSize) \in Nat
    BY <1>3, <2>1, DivBounds DEF CeilDiv
  <2>3. QED
    BY <2>2
<1>8. PICK more \in BOOLEAN : more <=> page * pageSize < T
  <2>1. CASE page * pageSize < T
    BY <2>1
  <2>2. CASE ~(page * pageSize < T)
    BY <2>2
  <2>3. QED
    BY <2>1, <2>2
<1>9. r = [results |-> r.results, page |-> page, total |-> T, totalPages |-> pagesInAll,
           hasMore |-> more, moment |-> M]
  BY <1>1, <1>4, <1>7, <1>8 DEF SearchResponse
<1>10. r \in Response /\ r.moment = M /\ r.hasMore = more
  <2>1. PICK results : results = r.results
    OBVIOUS
  <2>2. /\ results \in Seq(SummaryType) /\ page \in Nat /\ T \in Nat /\ pagesInAll \in Nat
        /\ more \in BOOLEAN /\ M \in Nat
    BY <1>3, <1>5, <1>6, <1>7, <1>8, <2>1
  <2>3. r = [results |-> results, page |-> page, total |-> T, totalPages |-> pagesInAll,
             hasMore |-> more, moment |-> M]
    BY <1>9, <2>1
  <2>4. QED
    BY ONLY <2>2, <2>3 DEF Response
<1>11. Faithful(k, r)
  <2>1. k.source = source /\ k.order = order /\ k.page = page
    BY <1>1
  <2>2. more <=> Limit(page, pageSize) < T
    BY <1>8 DEF Limit
  <2>3. QED
    BY <1>5, <1>6, <1>10, <2>1, <2>2 DEF Faithful
<1>12. [key |-> k, response |-> r] \in PageEntry(v)
  <2>1. r.moment <= v
    BY <1>3, <1>5, <1>10
  <2>2. k \in PageKey
    BY <1>1 DEF PageKey
  <2>3. QED
    BY <1>10, <1>11, <2>1, <2>2 DEF PageEntry
<1>13. QED
  BY <1>1, <1>12

-----------------------------------------------------------------------------
(* The inductive invariant.                                                *)

WalkRecord ==
    [source : allowedSources \cup {"leyes"}, order : Order, size : Nat,
     via : {"structured", "text"}, from : Nat, page : Nat, got : Seq(SummaryType),
     moments : Seq(Nat), misled : BOOLEAN,
     status : {"none", "refused", "asking", "failed", "done"}]

\* The page a walk asks for is the one after those it was shown, and one that
\* the tool takes.
Asking(w) == w.status = "asking" =>
                /\ w.from >= 1 /\ w.size >= 1 /\ w.page = w.from + Len(w.moments)
                /\ w.source # "leyes" => w.size = pageSize /\ w.page <= maxPage

\* A walk that was shown something began at some page; one that was told to
\* end, and not misled, has seen the pages of all that was reported.
Ended(w) == /\ w.moments # <<>> => w.from >= 1
            /\ w.status = "done" =>
                 /\ w.moments # <<>>
                 /\ ~w.misled =>
                      TotalShown(w.source, w.moments[Len(w.moments)])
                        <= Limit(PageAt(w.from, Len(w.moments)), w.size)

Walked(w) == /\ Asking(w) /\ Ended(w)
             /\ Traced(w.got, w.moments, w.source, w.order, w.from, w.size)
             /\ Complete(w.got, w.moments, w.source, w.order, w.from, w.size)

\* The page cache holds faithful answers, one per key.
PagesKept(v, cached) == /\ cached \in Seq(PageEntry(v))
                        /\ KeysApart(cached)
                        /\ Len(cached) <= searchesMax

WalkKept(v, w) == /\ w \in WalkRecord
                  /\ \A t \in 1..Len(w.moments) : w.moments[t] <= v
                  /\ Walked(w)

IInv == /\ published \in Initially..Len(Docs)
        /\ PagesKept(published, pages)
        /\ WalkKept(published, walk)

\* Publishing makes no answer and no walk wrong.
LEMMA PublishingKeeps ==
    ASSUME NEW v \in Nat, NEW u \in Nat, v <= u
    PROVE  /\ \A cached : PagesKept(v, cached) => PagesKept(u, cached)
           /\ \A w : WalkKept(v, w) => WalkKept(u, w)
<1>1. ASSUME NEW cached, PagesKept(v, cached)
      PROVE  PagesKept(u, cached)
  <2>1. \A e \in PageEntry(v) : e \in PageEntry(u)
    <3>1. ASSUME NEW e \in PageEntry(v)
          PROVE  e.response.moment \in Nat
      BY DEF PageEntry, Response
    <3>2. QED
      BY <3>1 DEF PageEntry
  <2>2. cached \in Seq(PageEntry(v)) /\ KeysApart(cached) /\ Len(cached) <= searchesMax
    BY <1>1 DEF PagesKept
  <2>3. cached \in Seq(PageEntry(u))
    <3>1. PICK l \in Nat : l = Len(cached) /\ cached \in [1..l -> PageEntry(v)]
      BY <2>2, LenProperties
    <3>2. \A i \in 1..l : cached[i] \in PageEntry(u)
      BY <2>1, <3>1
    <3>3. cached \in [1..l -> PageEntry(u)]
      BY <3>1, <3>2
    <3>4. QED
      BY <3>3, SeqDef
  <2>4. QED
    BY <2>2, <2>3 DEF PagesKept
<1>2. ASSUME NEW w, WalkKept(v, w)
      PROVE  WalkKept(u, w)
  <2>1. w.moments \in Seq(Nat) /\ \A t \in 1..Len(w.moments) : w.moments[t] <= v
    BY <1>2 DEF WalkKept, WalkRecord
  <2>2. ASSUME NEW t \in 1..Len(w.moments)
        PROVE  w.moments[t] <= u
    <3>1. w.moments[t] \in Nat /\ w.moments[t] <= v
      BY <2>1, ElementOfSeq
    <3>2. QED
      BY <3>1
  <2>3. QED
    BY <1>2, <2>2 DEF WalkKept
<1>3. QED
  BY <1>1, <1>2

\* A walk that was shown nothing yet is as it should be.
LEMMA FreshWalk ==
    ASSUME NEW v, NEW w \in WalkRecord, w.got = <<>>, w.moments = <<>>,
           w.status # "done", Asking(w)
    PROVE  WalkKept(v, w)
<1>1. Len(w.moments) = 0 /\ 1..0 = {}
  OBVIOUS
<1>2. Ended(w)
  BY DEF Ended
<1>3. /\ Traced(w.got, w.moments, w.source, w.order, w.from, w.size)
      /\ Complete(w.got, w.moments, w.source, w.order, w.from, w.size)
  BY TraceOfNothing
<1>4. QED
  BY <1>1, <1>2, <1>3 DEF WalkKept, Walked

\* A walk that takes one page more stays as it should be.
LEMMA TurnKeeps ==
    ASSUME NEW v \in Nat, NEW w, WalkKept(v, w), w.status = "asking",
           NEW results \in Seq(SummaryType), NEW M \in 0..v,
           NEW goesOn \in BOOLEAN, NEW misled \in BOOLEAN,
           Shows(results, w.source, w.order, w.page, w.size, M),
           goesOn /\ w.source # "leyes" => w.page + 1 <= maxPage,
           ~goesOn /\ ~misled => TotalShown(w.source, M) <= Limit(w.page, w.size),
           NEW x, x = [w EXCEPT !.got = @ \o results,
                                !.moments = Append(@, M),
                                !.page = IF goesOn THEN @ + 1 ELSE @,
                                !.misled = misled,
                                !.status = IF goesOn THEN "asking" ELSE "done"]
    PROVE  WalkKept(v, x)
<1>1. PICK source \in allowedSources \cup {"leyes"}, order \in Order, size \in Nat,
           via \in {"structured", "text"}, from \in Nat, page \in Nat,
           got \in Seq(SummaryType), moments \in Seq(Nat) :
         /\ source = w.source /\ order = w.order /\ size = w.size /\ via = w.via
         /\ from = w.from /\ page = w.page /\ got = w.got /\ moments = w.moments
  BY DEF WalkKept, WalkRecord
<1>2. /\ from >= 1 /\ size >= 1 /\ page = from + Len(moments)
      /\ source # "leyes" => size = pageSize /\ page <= maxPage
  BY <1>1 DEF WalkKept, Walked, Asking
<1>3. /\ Traced(got, moments, source, order, from, size)
      /\ Complete(got, moments, source, order, from, size)
      /\ \A t \in 1..Len(moments) : moments[t] <= v
  BY <1>1 DEF WalkKept, Walked
<1>4. PICK G, m, next, status :
         /\ G = got \o results /\ m = Append(moments, M)
         /\ next = IF goesOn THEN page + 1 ELSE page
         /\ status = IF goesOn THEN "asking" ELSE "done"
  OBVIOUS
<1>5. /\ x.source = source /\ x.order = order /\ x.size = size /\ x.via = via
      /\ x.from = from /\ x.page = next /\ x.got = G /\ x.moments = m
      /\ x.misled = misled /\ x.status = status
  BY <1>1, <1>4 DEF WalkKept, WalkRecord
<1>6. PICK l \in Nat : l = Len(moments)
  BY LenProperties
<1>7. /\ G \in Seq(SummaryType) /\ m \in Seq(Nat) /\ m # <<>>
      /\ Len(m) = l + 1 /\ m[l + 1] = M
      /\ \A t \in 1..l : m[t] = moments[t]
  BY <1>4, <1>6, SMTT(30)
<1>8. x \in WalkRecord
  <2>1. next \in Nat /\ status \in {"asking", "done"}
    BY <1>4
  <2>2. x = [source |-> source, order |-> order, size |-> size, via |-> via, from |-> from,
             page |-> next, got |-> G, moments |-> m, misled |-> misled, status |-> status]
    BY <1>1, <1>4 DEF WalkKept, WalkRecord
  <2>3. G \in Seq(SummaryType) /\ m \in Seq(Nat)
    BY <1>7
  <2>4. QED
    BY ONLY <1>1, <2>1, <2>2, <2>3, misled \in BOOLEAN, SMTT(30) DEF WalkRecord
<1>9. ASSUME NEW t \in 1..(l + 1)
      PROVE  m[t] <= v
  <2>1. t \in 1..l \/ t = l + 1
    BY <1>6
  <2>2. CASE t \in 1..l
    BY <1>3, <1>6, <1>7, <2>2
  <2>3. CASE t = l + 1
    BY <1>3, <1>7, <2>3
  <2>4. QED
    BY <2>1, <2>2, <2>3
<1>10. /\ Traced(G, m, source, order, from, size)
       /\ Complete(G, m, source, order, from, size)
  <2>1. Shows(results, source, order, from + Len(moments), size, M)
    BY <1>1, <1>2
  <2>2. M \in Nat
    OBVIOUS
  <2>3. Traced(G, m, source, order, from, size)
    BY <1>3, <1>4, <2>1, <2>2, TraceExtended
  <2>4. Complete(G, m, source, order, from, size)
    BY <1>3, <1>4, <2>1, <2>2, CompleteExtended
  <2>5. QED
    BY <2>3, <2>4
<1>11. Asking(x)
  <2>1. status = "asking" => goesOn
    BY <1>4
  <2>2. goesOn => next = page + 1 /\ page + 1 = from + (l + 1)
    BY <1>2, <1>4, <1>6
  <2>3. goesOn /\ source # "leyes" => page + 1 <= maxPage
    BY <1>1
  <2>4. QED
    BY <1>2, <1>5, <1>7, <2>1, <2>2, <2>3 DEF Asking
<1>12. Ended(x)
  <2>1. PageAt(from, l + 1) = page
    BY <1>2, <1>6 DEF PageAt
  <2>2. status = "done" => ~goesOn
    BY <1>4
  <2>3. ~goesOn /\ ~misled => TotalShown(source, M) <= Limit(page, size)
    BY <1>1
  <2>4. QED
    BY <1>2, <1>5, <1>7, <2>1, <2>2, <2>3 DEF Ended
<1>13. QED
  BY <1>5, <1>7, <1>8, <1>9, <1>10, <1>11, <1>12 DEF WalkKept, Walked

-----------------------------------------------------------------------------
(* The invariant is inductive.                                             *)

\* A moment of the services' history is a number of documents.
LEMMA PublishedTyped ==
    ASSUME IInv
    PROVE  published \in 0..Len(Docs) /\ published \in Nat
<1>1. Len(Docs) \in Nat /\ Initially \in 0..Len(Docs)
  BY DocumentsAssumption, WalksAssumption, LenProperties
<1>2. QED
  BY <1>1 DEF IInv

\* A walk begins as it should.
LEMMA BeginKeeps ==
    ASSUME NEW v, NEW source \in allowedSources \cup {"leyes"}, NEW order \in Order,
           NEW size \in Nat \ {0}, NEW via \in {"structured", "text"},
           NEW page \in Nat \ {0},
           source # "leyes" => size = pageSize /\ page <= maxPage,
           NEW x, x = [NoWalk EXCEPT !.source = source, !.order = order, !.size = size,
                                     !.via = via, !.from = page, !.page = page,
                                     !.status = "asking"]
    PROVE  WalkKept(v, x)
<1>1. x = [source |-> source, order |-> order, size |-> size, via |-> via, from |-> page,
           page |-> page, got |-> <<>>, moments |-> <<>>, misled |-> FALSE,
           status |-> "asking"]
  BY DEF NoWalk
<1>2. x \in WalkRecord
  <2>1. <<>> \in Seq(SummaryType) /\ <<>> \in Seq(Nat)
    OBVIOUS
  <2>2. size \in Nat /\ page \in Nat /\ FALSE \in BOOLEAN
    OBVIOUS
  <2>3. /\ source \in allowedSources \cup {"leyes"} /\ order \in Order
        /\ via \in {"structured", "text"}
    OBVIOUS
  <2>4. QED
    BY ONLY <1>1, <2>1, <2>2, <2>3 DEF WalkRecord
<1>3. Asking(x)
  <2>1. Len(x.moments) = 0 /\ page = page + 0 /\ page >= 1 /\ size >= 1
    BY ONLY <1>1, size \in Nat \ {0}, page \in Nat \ {0}
  <2>2. source # "leyes" => size = pageSize /\ page <= maxPage
    OBVIOUS
  <2>3. QED
    BY ONLY <1>1, <2>1, <2>2 DEF Asking
<1>4. x.got = <<>> /\ x.moments = <<>> /\ x.status # "done"
  BY ONLY <1>1
<1>5. QED
  BY <1>2, <1>3, <1>4, FreshWalk

\* A walk that is ended without a page, or was none, asks for nothing.
LEMMA NoWalkKept ==
    ASSUME NEW v, NEW status \in {"none", "refused"}, NEW x, x = [NoWalk EXCEPT !.status = status]
    PROVE  WalkKept(v, x)
<1>1. x = [source |-> "dictamenes", order |-> "date", size |-> 0, via |-> "structured",
           from |-> 0, page |-> 0, got |-> <<>>, moments |-> <<>>, misled |-> FALSE,
           status |-> status]
  BY DEF NoWalk
<1>2. x \in WalkRecord
  <2>1. <<>> \in Seq(SummaryType) /\ <<>> \in Seq(Nat)
    OBVIOUS
  <2>2. "dictamenes" \in allowedSources /\ "date" \in Order
    BY DEF allowedSources, Openable, Order
  <2>3. QED
    BY ONLY <1>1, <2>1, <2>2, status \in {"none", "refused"} DEF WalkRecord
<1>3. Asking(x)
  BY ONLY <1>1, status \in {"none", "refused"} DEF Asking
<1>4. x.got = <<>> /\ x.moments = <<>> /\ x.status # "done"
  BY ONLY <1>1, status \in {"none", "refused"}
<1>5. QED
  BY <1>2, <1>3, <1>4, FreshWalk

\* One that fails stays as it was.
LEMMA FailureKeeps ==
    ASSUME NEW v, NEW w, WalkKept(v, w), NEW x, x = [w EXCEPT !.status = "failed"]
    PROVE  WalkKept(v, x)
<1>1. /\ x \in WalkRecord
      /\ x.source = w.source /\ x.order = w.order /\ x.size = w.size /\ x.from = w.from
      /\ x.got = w.got /\ x.moments = w.moments /\ x.status = "failed"
  BY DEF WalkKept, WalkRecord
<1>2. QED
  BY <1>1 DEF WalkKept, Walked, Asking, Ended

\* Nothing is published, cached or asked at first.
LEMMA InitInv ==
    ASSUME Init
    PROVE  IInv
<1>1. published \in Initially..Len(Docs)
  <2>1. Len(Docs) \in Nat /\ Initially \in 0..Len(Docs)
    BY DocumentsAssumption, WalksAssumption, LenProperties
  <2>2. QED
    BY <2>1 DEF Init
<1>2. PagesKept(published, pages)
  <2>1. pages = <<>> /\ searchesMax \in Nat
    BY WalksAssumption DEF Init
  <2>2. <<>> \in Seq(PageEntry(published)) /\ Len(<<>>) = 0 /\ 1..0 = {}
    OBVIOUS
  <2>3. QED
    BY <2>1, <2>2 DEF PagesKept, KeysApart
<1>3. WalkKept(published, walk)
  <2>1. walk = [NoWalk EXCEPT !.status = "none"]
    BY DEF Init, NoWalk
  <2>2. QED
    BY <2>1, NoWalkKept
<1>4. QED
  BY <1>1, <1>2, <1>3 DEF IInv

\* More is published.
LEMMA PublishInv ==
    ASSUME IInv, Publish
    PROVE  IInv'
<1>1. published \in Nat /\ published' = published + 1 /\ published' \in Initially..Len(Docs)
  <2>1. Len(Docs) \in Nat /\ Initially \in 0..Len(Docs)
    BY DocumentsAssumption, WalksAssumption, LenProperties
  <2>2. QED
    BY <2>1 DEF IInv, Publish
<1>2. published' \in Nat /\ published <= published'
  BY <1>1
<1>3. PagesKept(published', pages) /\ WalkKept(published', walk)
  BY <1>1, <1>2, PublishingKeeps DEF IInv
<1>4. pages' = pages /\ walk' = walk
  BY DEF Publish
<1>5. QED
  BY <1>1, <1>3, <1>4 DEF IInv

\* A search is refused, or begins.
LEMMA BeginInv ==
    ASSUME IInv, NEW source, NEW order, NEW page \in Int, NEW via \in {"structured", "text"},
           RefuseSearch(source, order, page) \/ StartSearch(source, order, page, via)
    PROVE  IInv'
<1>1. published' = published /\ pages' = pages
  BY DEF RefuseSearch, StartSearch
<1>2. WalkKept(published, walk')
  <2>1. CASE RefuseSearch(source, order, page)
    BY <2>1, NoWalkKept DEF RefuseSearch
  <2>2. CASE StartSearch(source, order, page, via)
    <3>1. PICK s, o, p : s = SourceOf(source) /\ o = OrderOf(order) /\ p = PageOf(page)
      OBVIOUS
    <3>2. s \in allowedSources /\ o \in Order /\ p \in 1..maxPage
      BY <2>2, <3>1 DEF StartSearch, ValidArgs, validPage, Order
    <3>3. /\ p \in Nat \ {0} /\ p <= maxPage /\ pageSize \in Nat \ {0}
          /\ s \in allowedSources \cup {"leyes"}
      BY <3>2, DocumentsAssumption
    <3>4. walk' = [NoWalk EXCEPT !.source = s, !.order = o, !.size = pageSize,
                                 !.via = via, !.from = p, !.page = p, !.status = "asking"]
      BY <2>2, <3>1 DEF StartSearch, Begin
    <3>5. QED
      BY <3>2, <3>3, <3>4, BeginKeeps
  <2>3. QED
    BY <2>1, <2>2
<1>3. QED
  BY <1>1, <1>2 DEF IInv

\* A search of laws begins.
LEMMA StartLawsInv ==
    ASSUME IInv, NEW size, NEW page \in Int, NEW order \in {"date", "dateasc"},
           StartLaws(size, page, order)
    PROVE  IInv'
<1>1. published' = published /\ pages' = pages
  BY DEF StartLaws
<1>2. WalkKept(published, walk')
  <2>1. PICK s, p : s = NormalSize(size) /\ p = NormalPage(page)
    OBVIOUS
  <2>2. s \in Nat \ {0} /\ p \in Nat \ {0}
    BY <2>1, LawPagesAssumption DEF NormalSize, NormalPage
  <2>3. order \in Order /\ "leyes" \in allowedSources \cup {"leyes"}
        /\ "structured" \in {"structured", "text"}
    BY DEF Order
  <2>4. walk' = [NoWalk EXCEPT !.source = "leyes", !.order = order, !.size = s,
                               !.via = "structured", !.from = p, !.page = p,
                               !.status = "asking"]
    BY <2>1 DEF StartLaws, Begin
  <2>5. QED
    BY <2>2, <2>3, <2>4, BeginKeeps
<1>3. QED
  BY <1>1, <1>2 DEF IInv

\* The end of a walk's path through the pages of the Contraloria: has_more is
\* never said of a page that is the last one allowed.
LEMMA MoreIsAllowed ==
    ASSUME NEW page \in Nat, NEW source, source # "leyes", NEW v \in Nat,
           Limit(page, pageSize) < TotalShown(source, v)
    PROVE  page + 1 <= maxPage
<1>1. /\ pageSize \in Nat /\ maxPage \in Nat /\ totalCap \in Nat
      /\ totalCap <= pageSize * maxPage
  BY DocumentsAssumption
<1>2. TotalShown(source, v) \in Nat /\ TotalShown(source, v) <= totalCap
  <2>1. PICK n \in Nat : TotalShown(source, v) = Reported(n)
    BY TotalAtMoment
  <2>2. QED
    BY <1>1, <2>1 DEF Reported
<1>3. Limit(maxPage, pageSize) = pageSize * maxPage
  BY <1>1 DEF Limit
<1>4. CASE maxPage <= page
  <2>1. /\ Limit(maxPage, pageSize) \in Nat /\ Limit(page, pageSize) \in Nat
        /\ Limit(maxPage, pageSize) <= Limit(page, pageSize)
    BY <1>1, <1>4, LimitRises
  <2>2. QED
    BY <1>1, <1>2, <1>3, <2>1
<1>5. CASE ~(maxPage <= page)
  BY <1>1, <1>5
<1>6. QED
  BY <1>4, <1>5

\* A walk that takes what an answer shows, and goes on if told to.
LEMMA AdvanceKeeps ==
    ASSUME IInv, AskingCgr, NEW response, Advance(response),
           [key |-> Key, response |-> response] \in PageEntry(published)
    PROVE  WalkKept(published, walk')
<1>1. PICK w : w = walk
  OBVIOUS
<1>2. /\ WalkKept(published, w) /\ w.status = "asking" /\ w.source # "leyes"
      /\ w.page \in Nat /\ w.size = pageSize
  BY <1>1 DEF IInv, WalkKept, WalkRecord, Walked, Asking, AskingCgr
<1>3. PICK e : e = [key |-> Key, response |-> response]
  OBVIOUS
<1>4. e \in PageEntry(published) /\ e.key = Key /\ e.response = response
  BY <1>3
<1>5. /\ response \in Response /\ response.moment <= published
      /\ Faithful(Key, response)
  BY <1>4 DEF PageEntry
<1>6. PICK results \in Seq(SummaryType), M \in Nat, more \in BOOLEAN :
         results = response.results /\ M = response.moment /\ more = response.hasMore
  BY <1>5 DEF Response
<1>7. published \in Nat /\ M \in 0..published
  BY <1>5, <1>6, PublishedTyped
<1>8. /\ Shows(results, w.source, w.order, w.page, w.size, M)
      /\ more <=> Limit(w.page, pageSize) < TotalShown(w.source, M)
  <2>1. Key.source = w.source /\ Key.order = w.order /\ Key.page = w.page
    BY <1>1 DEF Key
  <2>2. QED
    BY <1>2, <1>5, <1>6, <2>1 DEF Faithful
<1>9. PICK hidden \in BOOLEAN : hidden <=> w.via = "text" /\ results = <<>>
  <2>1. CASE w.via = "text" /\ results = <<>>
    BY <2>1
  <2>2. CASE ~(w.via = "text" /\ results = <<>>)
    BY <2>2
  <2>3. QED
    BY <2>1, <2>2
<1>10. PICK goesOn \in BOOLEAN, misled \in BOOLEAN :
          (goesOn <=> more /\ ~hidden) /\ (misled <=> more /\ hidden)
  OBVIOUS
<1>11. goesOn /\ w.source # "leyes" => w.page + 1 <= maxPage
  BY <1>2, <1>6, <1>8, <1>10, MoreIsAllowed
<1>12. ~goesOn /\ ~misled => TotalShown(w.source, M) <= Limit(w.page, w.size)
  <2>1. ASSUME ~goesOn, ~misled
        PROVE  ~(Limit(w.page, pageSize) < TotalShown(w.source, M))
    BY <1>8, <1>10, <2>1
  <2>2. TotalShown(w.source, M) \in Nat
    <3>1. PICK n \in Nat : TotalShown(w.source, M) = Reported(n)
      BY <1>2, <1>6, TotalAtMoment
    <3>2. QED
      BY <3>1, DocumentsAssumption DEF Reported
  <2>3. Limit(w.page, pageSize) \in Nat
    <3>1. PICK p \in Nat, s \in Nat : p = w.page /\ s = pageSize /\ p <= p
      BY <1>2, DocumentsAssumption
    <3>2. QED
      BY <3>1, LimitRises
  <2>4. QED
    BY <1>2, <2>1, <2>2, <2>3
<1>13. PICK x : x = [w EXCEPT !.got = @ \o results,
                              !.moments = Append(@, M),
                              !.page = IF goesOn THEN @ + 1 ELSE @,
                              !.misled = misled,
                              !.status = IF goesOn THEN "asking" ELSE "done"]
  OBVIOUS
<1>14. walk' = x
  <2>1. Turn(results, M, more /\ ~hidden, more /\ hidden)
    BY <1>1, <1>6, <1>9 DEF Advance
  <2>2. QED
    BY <1>1, <1>10, <1>13, <2>1 DEF Turn
<1>15. WalkKept(published, x)
  BY ONLY <1>2, <1>6, <1>7, <1>8, <1>10, <1>11, <1>12, <1>13, TurnKeeps, ZenonT(40)
<1>16. QED
  BY <1>14, <1>15

\* The key of a page that is asked for, and what the put of its answer keeps.
LEMMA PutKeeps ==
    ASSUME IInv, AskingCgr, NEW response,
           [key |-> Key, response |-> response] \in PageEntry(published)
    PROVE  PagesKept(published, Remember(response))
<1>1. Key \in PageKey
  <2>1. /\ walk.source \in allowedSources /\ walk.order \in Order
        /\ walk.page \in Nat \ {0}
    BY DocumentsAssumption DEF IInv, WalkKept, WalkRecord, AskingCgr, validPage
  <2>2. QED
    BY <2>1 DEF Key, PageKey
<1>2. pages \in Seq(PageEntry(published)) /\ KeysApart(pages)
  BY DEF IInv, PagesKept
<1>3. /\ Remember(response) \in Seq(PageEntry(published))
      /\ KeysApart(Remember(response))
      /\ Len(Remember(response)) <= searchesMax
  BY <1>1, <1>2, RememberKeeps
<1>4. QED
  BY <1>3 DEF PagesKept

\* A page from the cache.
LEMMA CachedPageInv ==
    ASSUME IInv, CachedPage
    PROVE  IInv'
<1>1. PICK response \in Cached : pages' = Remember(response) /\ Advance(response)
  BY DEF CachedPage
<1>2. AskingCgr /\ published' = published
  BY DEF CachedPage
<1>3. [key |-> Key, response |-> response] \in PageEntry(published)
  <2>1. PICK i \in DOMAIN pages : pages[i].key = Key /\ response = pages[i].response
    BY <1>1 DEF Cached
  <2>2. pages[i] \in PageEntry(published)
    <3>1. pages \in Seq(PageEntry(published))
      BY DEF IInv, PagesKept
    <3>2. i \in 1..Len(pages)
      BY <2>1, <3>1, LenProperties
    <3>3. QED
      BY <3>1, <3>2, ElementOfSeq
  <2>3. pages[i] = [key |-> pages[i].key, response |-> pages[i].response]
    BY <2>2 DEF PageEntry
  <2>4. QED
    BY <2>1, <2>2, <2>3
<1>4. PagesKept(published, pages') /\ WalkKept(published, walk')
  BY <1>1, <1>2, <1>3, PutKeeps, AdvanceKeeps
<1>5. QED
  BY <1>2, <1>4 DEF IInv

\* A page that is fetched, and cached unless it is heavy.
LEMMA FetchedPageInv ==
    ASSUME IInv, FetchedPage
    PROVE  IInv'
<1>1. PICK response : response = SearchResponse(walk.source, walk.order, walk.page, published)
  OBVIOUS
<1>2. /\ AskingCgr /\ published' = published /\ Advance(response)
      /\ pages' = Remember(response) \/ pages' = pages
  BY <1>1 DEF FetchedPage
<1>3. [key |-> Key, response |-> response] \in PageEntry(published)
  <2>1. /\ walk.source \in allowedSources /\ walk.order \in Order
        /\ walk.page \in Nat \ {0}
    BY <1>2, DocumentsAssumption DEF IInv, WalkKept, WalkRecord, AskingCgr, validPage
  <2>2. published \in 0..Len(Docs)
    BY PublishedTyped
  <2>3. QED
    BY <1>1, <2>1, <2>2, ResponseFaithful DEF Key
<1>4. PagesKept(published, pages')
  BY <1>2, <1>3, PutKeeps DEF IInv
<1>5. WalkKept(published, walk')
  BY <1>2, <1>3, AdvanceKeeps
<1>6. QED
  BY <1>2, <1>4, <1>5 DEF IInv

\* A page that fails, of either service.
LEMMA PageFailsInv ==
    ASSUME IInv, PageFails \/ LawPageFails
    PROVE  IInv'
<1>1. /\ published' = published /\ pages' = pages
      /\ walk' = [walk EXCEPT !.status = "failed"]
  BY DEF PageFails, LawPageFails
<1>2. WalkKept(published, walk')
  BY <1>1, FailureKeeps DEF IInv
<1>3. QED
  BY <1>1, <1>2 DEF IInv

\* As many pages as LeyChile's total takes hold that many documents.
LEMMA LawPagesHold ==
    ASSUME NEW total \in Nat, NEW size \in Nat \ {0}, NEW page \in Nat,
           ~(page < lawTotalPages(total, size))
    PROVE  total <= Limit(page, size)
<1>1. PICK a \in Nat : a = total + size - 1
  OBVIOUS
<1>2. PICK q \in Nat : q = a \div size /\ a < q * size + size
  BY DivBounds
<1>3. q <= page
  BY <1>1, <1>2 DEF lawTotalPages
<1>4. Limit(q, size) \in Nat /\ Limit(page, size) \in Nat /\ Limit(q, size) <= Limit(page, size)
  BY <1>3, LimitRises
<1>5. total <= Limit(q, size)
  <2>1. PICK product \in Nat : product = q * size
    OBVIOUS
  <2>2. total + size - 1 < product + size
    BY <1>1, <1>2, <2>1
  <2>3. total <= product
    BY ONLY <2>2, total \in Nat, product \in Nat, size \in Nat \ {0}
  <2>4. QED
    BY <2>1, <2>3 DEF Limit
<1>6. QED
  BY <1>4, <1>5

\* A page of LeyChile.
LEMMA LawPageInv ==
    ASSUME IInv, NEW wire, LawPageAnswered(wire)
    PROVE  IInv'
<1>1. PICK w : w = walk
  OBVIOUS
<1>2. /\ WalkKept(published, w) /\ w.status = "asking" /\ w.source = "leyes"
      /\ w.page \in Nat \ {0} /\ w.size \in Nat \ {0}
  <2>1. WalkKept(published, w) /\ w.status = "asking" /\ w.source = "leyes"
    BY <1>1 DEF IInv, LawPageAnswered
  <2>2. PICK l \in Nat : l = Len(w.moments)
    BY <2>1, LenProperties DEF WalkKept, WalkRecord
  <2>3. /\ w.from \in Nat /\ w.page \in Nat /\ w.size \in Nat
        /\ w.from >= 1 /\ w.size >= 1 /\ w.page = w.from + l
    BY <2>1, <2>2 DEF WalkKept, WalkRecord, Walked, Asking
  <2>4. QED
    BY <2>1, <2>2, <2>3
<1>3. published \in 0..Len(Docs) /\ published \in Nat
  BY PublishedTyped
<1>4. PICK R, h, results, M, total :
         /\ R = Ranking("leyes", w.order, published)
         /\ h = LawPage(R, w.page, w.size)
         /\ results = [i \in DOMAIN h |-> Summary("leyes", h[i])]
         /\ M = Moment("leyes", published)
         /\ total = FlexInt(wire, Len(R))
  OBVIOUS
<1>5. results \in Seq(SummaryType) /\ Shows(results, "leyes", w.order, w.page, w.size, M)
  <2>1. /\ results \in Seq(SummaryType)
        /\ Shows(results, "leyes", w.order, w.page, w.size, published)
    BY ONLY <1>2, <1>3, <1>4, LawPageShows
  <2>2. QED
    BY <1>3, <1>4, <2>1, ShowsAtMoment
<1>6. M \in 0..published /\ Len(R) \in Nat /\ TotalShown("leyes", M) = Len(R)
  BY <1>3, <1>4, TotalAtMoment
<1>7. PICK goesOn \in BOOLEAN, misled \in BOOLEAN :
         /\ goesOn <=> w.page < lawTotalPages(total, w.size)
         /\ misled <=> total # Len(R)
  <2>1. \E goesOn \in BOOLEAN : goesOn <=> w.page < lawTotalPages(total, w.size)
    <3>1. CASE w.page < lawTotalPages(total, w.size)
      BY <3>1
    <3>2. CASE ~(w.page < lawTotalPages(total, w.size))
      BY <3>2
    <3>3. QED
      BY <3>1, <3>2
  <2>2. \E misled \in BOOLEAN : misled <=> total # Len(R)
    <3>1. CASE total # Len(R)
      BY <3>1
    <3>2. CASE total = Len(R)
      BY <3>2
    <3>3. QED
      BY <3>1, <3>2
  <2>3. QED
    BY <2>1, <2>2
<1>8. ~goesOn /\ ~misled => TotalShown(w.source, M) <= Limit(w.page, w.size)
  <2>1. SUFFICES ASSUME ~goesOn, ~misled
                 PROVE  TotalShown(w.source, M) <= Limit(w.page, w.size)
    OBVIOUS
  <2>2. total = Len(R) /\ ~(w.page < lawTotalPages(total, w.size))
    BY <1>7, <2>1
  <2>3. total <= Limit(w.page, w.size)
    BY <1>2, <1>6, <2>2, LawPagesHold
  <2>4. QED
    BY <1>2, <1>6, <2>2, <2>3
<1>9. PICK x : x = [w EXCEPT !.got = @ \o results,
                             !.moments = Append(@, M),
                             !.page = IF goesOn THEN @ + 1 ELSE @,
                             !.misled = misled,
                             !.status = IF goesOn THEN "asking" ELSE "done"]
  OBVIOUS
<1>10. walk' = x /\ published' = published /\ pages' = pages
  <2>1. /\ Turn(results, M, w.page < lawTotalPages(total, w.size), total # Len(R))
        /\ published' = published /\ pages' = pages
    BY <1>1, <1>4 DEF LawPageAnswered
  <2>2. QED
    BY <1>1, <1>7, <1>9, <2>1 DEF Turn
<1>11. WalkKept(published, x)
  <2>1. goesOn /\ w.source # "leyes" => w.page + 1 <= maxPage
    BY <1>2
  <2>2. Shows(results, w.source, w.order, w.page, w.size, M)
    BY <1>2, <1>5
  <2>3. results \in Seq(SummaryType)
    BY <1>5
  <2>4. QED
    BY ONLY <1>2, <1>3, <1>6, <1>7, <1>8, <1>9, <2>1, <2>2, <2>3, TurnKeeps
<1>12. QED
  BY <1>10, <1>11 DEF IInv

\* Every step keeps the invariant.
LEMMA StepInv ==
    ASSUME IInv, [Next]_vars
    PROVE  IInv'
<1>1. CASE Publish
  BY <1>1, PublishInv
<1>2. ASSUME NEW a \in Asked, NEW p \in PageArg,
             \/ RefuseSearch(a.source, a.order, p)
             \/ \E via \in {"structured", "text"} : StartSearch(a.source, a.order, p, via)
      PROVE  IInv'
  <2>1. p \in Int
    BY WalksAssumption
  <2>2. PICK via \in {"structured", "text"} :
           \/ RefuseSearch(a.source, a.order, p)
           \/ StartSearch(a.source, a.order, p, via)
    BY <1>2
  <2>3. QED
    BY <2>1, <2>2, BeginInv
<1>3. ASSUME NEW size \in SizeArg, NEW p \in PageArg, NEW order \in {"date", "dateasc"},
             StartLaws(size, p, order)
      PROVE  IInv'
  <2>1. p \in Int
    BY WalksAssumption
  <2>2. QED
    BY <1>3, <2>1, StartLawsInv
<1>4. CASE CachedPage
  BY <1>4, CachedPageInv
<1>5. CASE FetchedPage
  BY <1>5, FetchedPageInv
<1>6. CASE PageFails \/ LawPageFails
  BY <1>6, PageFailsInv
<1>7. ASSUME NEW wire \in Wire, LawPageAnswered(wire)
      PROVE  IInv'
  BY <1>7, LawPageInv
<1>8. CASE UNCHANGED <<published, pages, walk>>
  BY <1>8 DEF IInv
<1>9. (\E i \in DOMAIN walk.got : OpenListed(walk.got[i])) => UNCHANGED <<published, pages, walk>>
  BY DEF OpenListed
<1>10. QED
  BY <1>1, <1>2, <1>3, <1>4, <1>5, <1>6, <1>7, <1>8, <1>9 DEF Next, vars

\* So it always holds.
THEOREM Invariance == Spec => []IInv
<1>1. Init => IInv
  BY InitInv
<1>2. IInv /\ [Next]_vars => IInv'
  BY StepInv
<1>3. QED
  BY <1>1, <1>2, PTL DEF Spec

-----------------------------------------------------------------------------
(* What follows from it.                                                   *)

\* The shapes of walk and cache; no key twice, and never over the capacity
\* (cgr/cache.go:61).
THEOREM WalksTypeCorrect == Spec => []TypeOK
<1>1. ASSUME IInv
      PROVE  TypeOK
  <2>1. /\ published \in Initially..Len(Docs)
        /\ pages \in Seq(PageEntry(published)) /\ KeysApart(pages)
        /\ Len(pages) <= searchesMax
    BY <1>1 DEF IInv, PagesKept
  <2>2. \A i, j \in DOMAIN pages : pages[i].key = pages[j].key => i = j
    BY <2>1, LenProperties DEF KeysApart
  <2>3. /\ walk.source \in allowedSources \cup {"leyes"} /\ walk.page \in Nat
        /\ walk.status \in {"none", "refused", "asking", "failed", "done"}
        /\ walk.got \in Seq(SummaryType) /\ walk.moments \in Seq(Nat)
        /\ \A t \in 1..Len(walk.moments) : walk.moments[t] <= published
    BY <1>1 DEF IInv, WalkKept, WalkRecord
  <2>4. \A i \in DOMAIN walk.got : walk.got[i] \in SummaryType
    BY <2>3, LenProperties, ElementOfSeq
  <2>5. ASSUME NEW i \in DOMAIN walk.moments
        PROVE  walk.moments[i] \in 0..published
    <3>1. walk.moments[i] \in Nat /\ walk.moments[i] <= published
      BY <2>3, LenProperties, ElementOfSeq
    <3>2. published \in Nat
      BY <1>1, PublishedTyped
    <3>3. QED
      BY <3>1, <3>2
  <2>6. QED
    BY <2>1, <2>2, <2>3, <2>4, <2>5 DEF TypeOK
<1>2. QED
  BY <1>1, Invariance, PTL

\* A hint is never refused (search_cgr.go:268, cgr_client.go:180): that has_more
\* was said of the page before bounds the page by the total's cap.
THEOREM WalksAreNotRefused == Spec => []HintsAccepted
<1>1. ASSUME IInv
      PROVE  HintsAccepted
  <2>1. SUFFICES ASSUME walk.status = "asking", walk.source # "leyes"
                 PROVE  walk.page \in 1..maxPage
    BY DEF HintsAccepted, validPage
  <2>2. PICK l \in Nat : l = Len(walk.moments)
    BY <1>1, LenProperties DEF IInv, WalkKept, WalkRecord
  <2>3. /\ walk.from \in Nat /\ walk.from >= 1 /\ walk.page = walk.from + l
        /\ walk.page <= maxPage
    BY <1>1, <2>1, <2>2 DEF IInv, WalkKept, WalkRecord, Walked, Asking
  <2>4. maxPage \in Nat
    BY DocumentsAssumption
  <2>5. QED
    BY <2>3, <2>4
<1>2. QED
  BY <1>1, Invariance, PTL

\* The place of a document is the same at two moments if they are one, or if
\* the oldest come first.
LEMMA SamePlace ==
    ASSUME NEW source, NEW order, NEW v \in Nat, NEW w \in Nat, order = "dateasc" \/ v = w,
           NEW n \in Matching(source, v), n \in Matching(source, w)
    PROVE  PlaceOf(source, order, v, n) = PlaceOf(source, order, w, n)
<1>1. CASE v = w
  BY <1>1
<1>2. CASE order = "dateasc" /\ v <= w
  BY <1>2, PlacesOnlyMoveBack
<1>3. CASE order = "dateasc" /\ w <= v
  BY <1>3, PlacesOnlyMoveBack
<1>4. QED
  BY <1>1, <1>2, <1>3

\* A document with one place is on one page.
LEMMA OnePage ==
    ASSUME NEW source, NEW order, NEW v \in Nat, NEW w \in Nat, order = "dateasc" \/ v = w,
           NEW n \in Matching(source, v), n \in Matching(source, w),
           NEW p \in Nat \ {0}, NEW q \in Nat \ {0}, NEW size \in Nat,
           OnPage(source, order, v, n, p, size), OnPage(source, order, w, n, q, size)
    PROVE  ~(p < q)
<1>1. PICK place : /\ place = PlaceOf(source, order, v, n)
                   /\ place = PlaceOf(source, order, w, n) /\ place \in Nat
  BY SamePlace, PlacesOnlyMoveBack
<1>2. place <= Limit(p, size) /\ Offset(q, size) < place
  BY <1>1 DEF OnPage
<1>3. Limit(p, size) \in Nat /\ Offset(q, size) \in Nat
  BY PageBounds
<1>4. p < q => Limit(p, size) <= Offset(q, size)
  BY PagesApart
<1>5. QED
  BY <1>1, <1>2, <1>3, <1>4

\* No document is shown twice, whatever is cached and published meanwhile, by
\* a walk of one moment or from the oldest to the newest (cgr_client.go:171,
\* 299): its pages share no place, and its documents keep theirs.
THEOREM WalksShowNothingTwice == Spec => []NothingTwice
<1>1. ASSUME IInv
      PROVE  NothingTwice
  <2>1. PICK w, m, got : w = walk /\ m = walk.moments /\ got = walk.got
    OBVIOUS
  <2>2. /\ m \in Seq(Nat) /\ got \in Seq(SummaryType) /\ w.from \in Nat /\ w.size \in Nat
        /\ m # <<>> => w.from >= 1
        /\ Traced(got, m, w.source, w.order, w.from, w.size)
    BY <1>1, <2>1 DEF IInv, WalkKept, WalkRecord, Walked, Ended
  <2>3. PICK g \in Nat, l \in Nat : /\ g = Len(got) /\ l = Len(m)
                                    /\ DOMAIN got = 1..g /\ DOMAIN m = 1..l
    BY <2>2, LenProperties
  <2>4. PICK at \in [1..g -> 1..l] :
           /\ \A i \in 1..g :
                 /\ got[i].doc \in Matching(w.source, m[at[i]])
                 /\ OnPage(w.source, w.order, m[at[i]], got[i].doc,
                           PageAt(w.from, at[i]), w.size)
           /\ \A i, j \in 1..g : at[i] = at[j] /\ got[i].doc = got[j].doc => i = j
    BY <2>2, <2>3, ZenonT(40) DEF Traced
  <2>5. SUFFICES ASSUME w.order = "dateasc" \/ \A i \in 1..l : m[i] = m[1],
                        NEW i \in 1..g, NEW j \in 1..g, got[i].doc = got[j].doc
                 PROVE  i = j
    BY <2>1, <2>3 DEF NothingTwice
  <2>6. PICK t \in 1..l, u \in 1..l : t = at[i] /\ u = at[j]
    BY <2>4
  <2>7. PICK p, q, n : /\ n = got[i].doc
                       /\ p = PageAt(w.from, t) /\ q = PageAt(w.from, u)
    OBVIOUS
  <2>8. m # <<>>
    BY <2>3, <2>6
  <2>9. /\ p \in Nat \ {0} /\ q \in Nat \ {0}
        /\ p = w.from + t - 1 /\ q = w.from + u - 1
    <3>1. PICK from \in Nat : from = w.from /\ from >= 1
      BY <2>2, <2>8
    <3>2. p = from + t - 1 /\ q = from + u - 1
      BY <2>7, <3>1 DEF PageAt
    <3>3. t \in Nat \ {0} /\ u \in Nat \ {0}
      BY <2>3
    <3>4. QED
      BY ONLY <3>1, <3>2, <3>3, SMTT(20)
  <2>10. m[t] \in Nat /\ m[u] \in Nat
    BY <2>2, <2>3, ElementOfSeq
  <2>11. w.order = "dateasc" \/ m[t] = m[u]
    BY <2>5
  <2>12. /\ n \in Matching(w.source, m[t]) /\ n \in Matching(w.source, m[u])
         /\ OnPage(w.source, w.order, m[t], n, p, w.size)
         /\ OnPage(w.source, w.order, m[u], n, q, w.size)
    BY <2>4, <2>5, <2>6, <2>7
  <2>13. ~(p < q) /\ ~(q < p)
    BY <2>2, <2>9, <2>10, <2>11, <2>12, OnePage
  <2>14. t = u
    BY <2>2, <2>9, <2>13
  <2>15. QED
    BY <2>4, <2>5, <2>6, <2>14
<1>2. QED
  BY <1>1, Invariance, PTL

\* Moments that rise from page to page are no earlier than the first.
LEMMA RisingFromFirst ==
    ASSUME NEW m \in Seq(Nat), Rising(m), NEW t \in 1..Len(m)
    PROVE  m[1] <= m[t]
<1>1. PICK l \in Nat : l = Len(m)
  BY LenProperties
<1>2. \A k \in 1..l : m[k] \in Nat
  BY <1>1, ElementOfSeq
<1>3. PICK S : S = {k \in 1..l : m[k] < m[1]} /\ S \in SUBSET Nat
  <2>1. {k \in 1..l : m[k] < m[1]} \in SUBSET Nat
    OBVIOUS
  <2>2. QED
    BY <2>1
<1>4. CASE S = {}
  <2>1. ~(m[t] < m[1]) /\ 1 \in 1..l
    BY <1>1, <1>3, <1>4
  <2>2. QED
    BY <1>1, <1>2, <2>1
<1>5. CASE S # {}
  <2>1. PICK k \in S : \A n \in S : k <= n
    BY <1>3, <1>5, LeastNatural
  <2>2. k \in 1..l /\ m[k] < m[1] /\ k # 1 /\ 1 \in 1..l
    BY <1>1, <1>2, <1>3, <2>1
  <2>3. k \in 2..l /\ k - 1 \in 1..l /\ k - 1 \notin S
    BY <1>1, <1>3, <2>1, <2>2
  <2>4. ~(m[k - 1] < m[1])
    BY <1>3, <2>3
  <2>5. m[k - 1] <= m[k]
    BY <1>1, <2>3 DEF Rising
  <2>6. QED
    BY <1>2, <2>2, <2>3, <2>4, <2>5
<1>6. QED
  BY <1>4, <1>5

\* A document whose place only moves back, and at last is within the pages
\* shown, was on one of them.
LEMMA Caught ==
    ASSUME NEW l \in Nat \ {0}, NEW f, \A t \in 1..l : f[t] \in Nat \ {0},
           NEW size \in Nat,
           \A t \in 2..l : f[t - 1] <= f[t],
           f[l] <= Limit(l, size)
    PROVE  \E t \in 1..l : Offset(t, size) < f[t] /\ f[t] <= Limit(t, size)
<1>1. PICK S : S = {t \in 1..l : f[t] <= Limit(t, size)} /\ S \in SUBSET Nat
  <2>1. {t \in 1..l : f[t] <= Limit(t, size)} \in SUBSET Nat
    OBVIOUS
  <2>2. QED
    BY <2>1
<1>2. l \in S
  BY <1>1
<1>3. PICK t \in S : \A u \in S : t <= u
  <2>1. S \in SUBSET Nat /\ S # {}
    BY <1>1, <1>2
  <2>2. QED
    BY ONLY <2>1, LeastNatural
<1>4. t \in 1..l /\ f[t] <= Limit(t, size)
  BY <1>1, <1>3
<1>5. CASE t = 1
  <2>1. Offset(t, size) = 0
    BY <1>5, PageBounds
  <2>2. QED
    BY <1>4, <2>1
<1>6. CASE t # 1
  <2>1. PICK u \in 1..l : u = t - 1 /\ t = u + 1 /\ t \in 2..l /\ u \in Nat \ {0} /\ ~(t <= u)
    BY <1>4, <1>6
  <2>2. ~(f[u] <= Limit(u, size))
    <3>1. u \notin S
      BY <1>3, <2>1
    <3>2. QED
      BY <1>1, <3>1
  <2>3. Offset(t, size) = Limit(u, size) /\ Limit(u, size) \in Nat
    <3>1. u \in Nat \ {0} /\ size \in Nat
      BY <2>1
    <3>2. Offset(u + 1, size) = Limit(u, size) /\ Limit(u, size) \in Nat
      BY ONLY <3>1, PageBounds
    <3>3. QED
      BY <2>1, <3>2
  <2>4. f[u] <= f[t] /\ f[u] \in Nat /\ f[t] \in Nat
    BY <1>4, <2>1
  <2>5. Offset(t, size) < f[t]
    BY <2>2, <2>3, <2>4
  <2>6. QED
    BY <1>4, <2>5
<1>7. QED
  BY <1>5, <1>6

\* The place looked up in a ranking is the one that those ahead leave.
LEMMA PlaceInRanking ==
    ASSUME NEW source, NEW order, NEW v \in Nat, NEW n \in Matching(source, v)
    PROVE  /\ Place(n, Ranking(source, order, v)) = PlaceOf(source, order, v, n)
           /\ Cardinality(Matching(source, v)) \in Nat
           /\ PlaceOf(source, order, v, n) \in 1..Cardinality(Matching(source, v))
<1>1. PICK c, R, place : /\ c = Cardinality(Matching(source, v)) /\ R = Ranking(source, order, v)
                         /\ place = PlaceOf(source, order, v, n)
  OBVIOUS
<1>2. /\ c \in Nat /\ R \in Seq(Matching(source, v)) /\ Len(R) = c
      /\ \A k \in 1..c : PlaceOf(source, order, v, R[k]) = k
      /\ place \in 1..c /\ R[place] = n
  BY <1>1, RankingPlaces
<1>3. DOMAIN R = 1..c
  BY <1>2, LenProperties
<1>4. \A k \in DOMAIN R : R[k] = n => k = place
  BY <1>1, <1>2, <1>3
<1>5. Place(n, R) = place
  BY <1>2, <1>3, <1>4 DEF Place
<1>6. QED
  BY <1>1, <1>2, <1>5

\* A walk to the end of what it was told was shown every document that was due
\* when it began: their places only move back, so that none moves to a page
\* already read, and the last page reaches the total (cgr_client.go:299,
\* 580-585; search_laws.go:91-95).
THEOREM WalksSkipNothing == Spec => []NothingSkipped
<1>1. ASSUME IInv
      PROVE  NothingSkipped
  <2>1. PICK source, order, size, m, got :
           /\ source = walk.source /\ order = walk.order /\ size = walk.size
           /\ m = walk.moments /\ got = walk.got
    OBVIOUS
  <2>2. SUFFICES ASSUME walk.status = "done", walk.from = 1, ~walk.misled, Rising(m),
                        NEW i \in DOMAIN Ranking(source, order, m[1]),
                        Listable(Ranking(source, order, m[1])[i]),
                        Within(Ranking(source, order, m[1])[i],
                               Ranking(source, order, m[Len(m)]))
                 PROVE  \E j \in DOMAIN got : got[j].doc = Ranking(source, order, m[1])[i]
    BY <2>1 DEF NothingSkipped
  <2>3. /\ m \in Seq(Nat) /\ got \in Seq(SummaryType) /\ size \in Nat
    BY <1>1, <2>1 DEF IInv, WalkKept, WalkRecord
  <2>4. PICK l \in Nat : l = Len(m)
    BY <2>3, LenProperties
  <2>5. /\ m # <<>>
        /\ TotalShown(source, m[l]) <= Limit(PageAt(1, l), size)
        /\ Complete(got, m, source, order, 1, size)
    BY <1>1, <2>1, <2>2, <2>4 DEF IInv, WalkKept, Walked, Ended
  <2>6. l \in Nat \ {0} /\ \A t \in 1..l : m[t] \in Nat
    <3>1. l # 0
      BY <2>3, <2>4, <2>5, EmptySeq
    <3>2. QED
      BY <2>3, <2>4, <3>1, ElementOfSeq
  <2>7. \A t \in 1..l : PageAt(1, t) = t
    BY DEF PageAt
  <2>8. PICK n : n = Ranking(source, order, m[1])[i]
    OBVIOUS
  <2>9. n \in Matching(source, m[1])
    <3>1. m[1] \in Nat
      BY <2>6
    <3>2. PICK R : R = Ranking(source, order, m[1])
      OBVIOUS
    <3>3. R \in Seq(Matching(source, m[1]))
      BY <3>1, <3>2, RankingPlaces
    <3>4. i \in 1..Len(R)
      BY <2>2, <3>2, <3>3, LenProperties
    <3>5. QED
      BY <2>8, <3>2, <3>3, <3>4, ElementOfSeq
  <2>10. ASSUME NEW t \in 1..l
         PROVE  n \in Matching(source, m[t])
    <3>1. m[1] \in Nat /\ m[t] \in Nat /\ m[1] <= m[t]
      BY <2>2, <2>3, <2>4, <2>6, RisingFromFirst
    <3>2. QED
      BY <2>9, <3>1, PlacesOnlyMoveBack
  <2>11. PICK f : f = [t \in 1..l |-> PlaceOf(source, order, m[t], n)]
    OBVIOUS
  <2>12. \A t \in 1..l : f[t] \in Nat \ {0} /\ f[t] = PlaceOf(source, order, m[t], n)
    <3>1. ASSUME NEW t \in 1..l
          PROVE  PlaceOf(source, order, m[t], n) \in Nat \ {0}
      BY <2>6, <2>10, PlacesOnlyMoveBack
    <3>2. QED
      BY <2>11, <3>1
  <2>13. ASSUME NEW t \in 2..l
         PROVE  f[t - 1] <= f[t]
    <3>1. PICK u \in 1..l : u = t - 1 /\ t \in 1..l
      BY <2>6
    <3>2. m[u] \in Nat /\ m[t] \in Nat /\ m[u] <= m[t]
      BY <2>2, <2>4, <2>6, <3>1 DEF Rising
    <3>3. PlaceOf(source, order, m[u], n) <= PlaceOf(source, order, m[t], n)
      BY <2>10, <3>1, <3>2, PlacesOnlyMoveBack
    <3>4. QED
      BY <2>12, <3>1, <3>3
  <2>14. f[l] <= Limit(l, size)
    <3>1. PICK v \in Nat : v = m[l] /\ n \in Matching(source, v) /\ f[l] = PlaceOf(source, order, v, n)
      BY <2>6, <2>10, <2>12
    <3>2. /\ Place(n, Ranking(source, order, v)) = f[l]
          /\ Cardinality(Matching(source, v)) \in Nat
          /\ f[l] \in 1..Cardinality(Matching(source, v))
      BY <3>1, PlaceInRanking
    <3>3. source = "leyes" \/ f[l] <= totalCap
      BY <2>1, <2>2, <2>4, <2>8, <3>1, <3>2 DEF Within
    <3>4. TotalShown(source, v) \in Nat /\ f[l] <= TotalShown(source, v)
      BY <3>2, <3>3, DocumentsAssumption DEF TotalShown, Reported
    <3>5. TotalShown(source, v) <= Limit(l, size)
      BY <2>5, <2>6, <2>7, <3>1
    <3>6. Limit(l, size) \in Nat
      BY <2>3, <2>6, PageBounds
    <3>7. QED
      BY <3>2, <3>4, <3>5, <3>6
  <2>15. PICK t \in 1..l : Offset(t, size) < f[t] /\ f[t] <= Limit(t, size)
    <3>1. \A t \in 1..l : f[t] \in Nat \ {0}
      BY <2>12
    <3>2. QED
      BY ONLY <2>3, <2>6, <2>13, <2>14, <3>1, Caught
  <2>16. OnPage(source, order, m[t], n, PageAt(1, t), size)
    BY <2>7, <2>12, <2>15 DEF OnPage
  <2>17. ListableFrom(source, n)
    BY <2>1, <2>2, <2>8 DEF Listable, ListableFrom
  <2>18. PICK j \in 1..Len(got) : got[j].doc = n
    BY <2>4, <2>5, <2>10, <2>16, <2>17 DEF Complete
  <2>19. QED
    BY <2>3, <2>8, <2>18, LenProperties
<1>2. QED
  BY <1>1, Invariance, PTL

-----------------------------------------------------------------------------
(* Opening what was listed.                                                *)

\* An answer that carries one document weighs what the document weighs.
LEMMA WeightOfOne ==
    ASSUME NEW n, Docs[n].MB \in Nat
    PROVE  MBof(<<n>>) = Docs[n].MB
<1> DEFINE Is(g) == g = [i \in 0..1 |-> IF i = 0 THEN 0 ELSE g[i-1] + Docs[<<n>>[i]].MB]
           f == CHOOSE g : Is(g)
<1>1. PICK m \in Nat : m = Docs[n].MB
  OBVIOUS
<1>2. \E g : Is(g)
  <2>1. PICK g : g = [i \in 0..1 |-> IF i = 0 THEN 0 ELSE m]
    OBVIOUS
  <2>2. g[0] = 0 /\ g[1] = m
    BY <2>1
  <2>3. ASSUME NEW i \in 0..1
        PROVE  g[i] = IF i = 0 THEN 0 ELSE g[i-1] + Docs[<<n>>[i]].MB
    <3>1. i = 0 \/ i = 1
      OBVIOUS
    <3>2. CASE i = 0
      BY <2>2, <3>2
    <3>3. CASE i = 1
      <4>1. g[1 - 1] = 0 /\ <<n>>[1] = n /\ 1 # 0
        BY <2>2
      <4>2. QED
        BY <1>1, <2>2, <3>3, <4>1
    <3>4. QED
      BY <3>1, <3>2, <3>3
  <2>4. g = [i \in 0..1 |-> g[i]]
    BY <2>1
  <2>5. Is(g)
    BY <2>3, <2>4
  <2>6. QED
    BY <2>5
<1>3. Is(f)
  BY <1>2
<1>4. MBof(<<n>>) = f[1]
  <2>1. Len(<<n>>) = 1
    OBVIOUS
  <2>2. QED
    BY <2>1 DEF MBof
<1> HIDE DEF f
<1>5. f[0] = 0
  BY <1>3
<1>6. f[1] = f[0] + Docs[n].MB
  BY <1>3
<1>7. QED
  BY <1>1, <1>4, <1>5, <1>6

\* The families with documents to open.
LEMMA OpenableFamily ==
    ASSUME NEW source \in allowedSources
    PROVE  /\ Tool(source) \in Openable
           /\ source = "consolidados" <=> Tool(source) = "consolidados"
BY DEF allowedSources, Openable, Tool

\* What an exact search finds: documents that bear the name, and where one
\* alone bears it, that one.
LEMMA HitsBear ==
    ASSUME NEW family, NEW name, NEW v \in Nat,
           NEW B, B = Bearers(family, name, v),
           NEW hits, hits = ExactHits(family, name, v)
    PROVE  /\ hits # <<>> => hits[1] \in B
           /\ \A n : B = {n} => hits = <<n>>
<1>1. PICK rising, c : rising = InOrder(B) /\ c = Cardinality(B)
  OBVIOUS
<1>2. B \in SUBSET (1..v)
  BY DEF Bearers
<1>3. /\ c \in Nat /\ rising \in Seq(B) /\ Len(rising) = c
      /\ \A k \in 1..c : rising[k] \in B
  BY <1>1, <1>2, InOrderPlaces
<1>4. hits = [k \in 1..c |-> rising[c + 1 - k]]
  <2>1. DOMAIN rising = 1..c
    BY <1>3, LenProperties
  <2>2. QED
    BY <1>1, <1>3, <2>1 DEF ExactHits, NewestFirst
<1>5. hits \in [1..c -> B]
  <2>1. \A k \in 1..c : c + 1 - k \in 1..c
    BY <1>3
  <2>2. QED
    BY <1>3, <1>4, <2>1
<1>6. hits \in Seq(B) /\ Len(hits) = c
  <2>1. hits \in Seq(B)
    BY <1>3, <1>5, SeqDef
  <2>2. QED
    BY <1>3, <1>5, <2>1, LenProperties
<1>7. hits # <<>> => hits[1] \in B
  BY <1>6, EmptySeq
<1>8. ASSUME NEW n, B = {n}
      PROVE  hits = <<n>>
  <2>1. c = 1
    BY <1>1, <1>8, FS_Singleton
  <2>2. hits \in Seq({n}) /\ Len(hits) = 1 /\ hits[1] = n
    BY <1>5, <1>6, <1>8, <2>1
  <2>3. QED
    BY <2>2
<1>9. QED
  BY <1>7, <1>8

\* An answer to a name: a document that bears it, under a name it has, or a
\* failure, which for the only document of the name can but be its weight.
Answers(answer, family, name, v, limit) ==
    \/ \E n \in Bearers(family, name, v) : \E id \in NamesOf(n) :
          answer = [kind |-> "document", doc |-> n, id |-> id]
    \/ \E kind \in {"too large", "undecodable", "not found"} :
          /\ answer = Failure(kind)
          /\ \A n : (Bearers(family, name, v) = {n} /\ Kept(family, n)) =>
                       kind = "too large" /\ Docs[n].MB > limit

\* What a client makes of the hits, the first of which shows the name id.
IsFirstHit(answer, hits, limit, id) ==
    answer = IF MBof(hits) > limit THEN Failure("too large")
             ELSE IF \E i \in DOMAIN hits : ~Docs[hits[i]].decodes
                  THEN Failure("undecodable")
             ELSE IF hits = <<>> \/ Docs[hits[1]].index \notin {"own", "none"}
                  THEN Failure("not found")
             ELSE [kind |-> "document", doc |-> hits[1], id |-> id]

\* The first hit is such an answer.
LEMMA FirstHitAnswers ==
    ASSUME NEW v \in 0..Len(Docs), NEW family, family # "todos", NEW name, NEW limit,
           NEW hits, hits = ExactHits(family, name, v),
           NEW id, hits # <<>> => id \in NamesOf(hits[1]),
           NEW answer, IsFirstHit(answer, hits, limit, id)
    PROVE  Answers(answer, family, name, v, limit)
<1>1. PICK B : B = Bearers(family, name, v)
  OBVIOUS
<1>2. v \in Nat /\ Docs \in Seq(Doc) /\ Len(Docs) \in Nat
  BY DocumentsAssumption, LenProperties
<1>3. /\ hits # <<>> => hits[1] \in B
      /\ \A n : B = {n} => hits = <<n>>
  BY <1>1, <1>2, HitsBear
<1>4. ASSUME NEW n, B = {n}, Kept(family, n)
      PROVE  /\ MBof(hits) = Docs[n].MB
             /\ ~(\E i \in DOMAIN hits : ~Docs[hits[i]].decodes)
             /\ ~(hits = <<>> \/ Docs[hits[1]].index \notin {"own", "none"})
  <2>1. hits = <<n>>
    BY <1>3, <1>4
  <2>2. hits # <<>> /\ hits[1] = n /\ DOMAIN hits = {1}
    <3>1. <<n>> # <<>> /\ <<n>>[1] = n
      OBVIOUS
    <3>2. DOMAIN <<n>> = 1..1 /\ 1..1 = {1}
      OBVIOUS
    <3>3. QED
      BY <2>1, <3>1, <3>2
  <2>3. Docs[n].MB \in Nat
    <3>1. n \in B
      BY <1>4
    <3>2. n \in 1..v
      BY <1>1, <3>1 DEF Bearers
    <3>3. n \in 1..Len(Docs)
      BY <1>2, <3>2
    <3>4. Docs[n] \in Doc
      BY <1>2, <3>3, ElementOfSeq
    <3>5. QED
      BY <3>4 DEF Doc
  <2>4. MBof(hits) = Docs[n].MB
    BY <2>1, <2>3, WeightOfOne
  <2>5. Docs[n].decodes /\ Docs[n].index \in {"own", "none"}
    BY <1>4 DEF Kept
  <2>6. QED
    BY <2>2, <2>4, <2>5
<1>5. CASE MBof(hits) > limit
  BY <1>1, <1>4, <1>5 DEF Answers, IsFirstHit
<1>6. CASE ~(MBof(hits) > limit) /\ \E i \in DOMAIN hits : ~Docs[hits[i]].decodes
  BY <1>1, <1>4, <1>6 DEF Answers, IsFirstHit
<1>7. CASE /\ ~(MBof(hits) > limit) /\ ~(\E i \in DOMAIN hits : ~Docs[hits[i]].decodes)
           /\ hits = <<>> \/ Docs[hits[1]].index \notin {"own", "none"}
  BY <1>1, <1>4, <1>7 DEF Answers, IsFirstHit
<1>8. CASE /\ ~(MBof(hits) > limit) /\ ~(\E i \in DOMAIN hits : ~Docs[hits[i]].decodes)
           /\ ~(hits = <<>> \/ Docs[hits[1]].index \notin {"own", "none"})
  <2>1. answer = [kind |-> "document", doc |-> hits[1], id |-> id]
    BY <1>8 DEF IsFirstHit
  <2>2. hits[1] \in B /\ id \in NamesOf(hits[1])
    BY <1>3, <1>8
  <2>3. QED
    BY <1>1, <2>1, <2>2 DEF Answers
<1>9. QED
  BY <1>5, <1>6, <1>7, <1>8

\* The names shown of a document are names it has.
LEMMA ShownIsName ==
    ASSUME NEW n \in DOMAIN Docs, Docs[n].source \in Openable
    PROVE  IF Docs[n].source = "consolidados" THEN numeroOf(n) \in NamesOf(n)
           ELSE \A source : source # "consolidados" => dictamenId(source, n) \in NamesOf(n)
<1>1. IF Docs[n].source = "consolidados" THEN Docs[n].numero # NoName
      ELSE {Docs[n].id, Docs[n].docId} # {NoName}
  BY NamedAssumption
<1>2. CASE Docs[n].source = "consolidados"
  BY <1>1, <1>2 DEF numeroOf, NamesOf
<1>3. CASE Docs[n].source # "consolidados"
  <2>1. Docs[n].id # NoName \/ Docs[n].docId # NoName
    BY <1>1, <1>3
  <2>2. ASSUME NEW source, source # "consolidados"
        PROVE  dictamenId(source, n) \in NamesOf(n)
    BY <2>1, <2>2 DEF dictamenId, NamesOf
  <2>3. QED
    BY <1>3, <2>2
<1>4. QED
  BY <1>2, <1>3

\* The names an answer says to use are names of the document it lists.
LEMMA UsedIsName ==
    ASSUME NEW n \in DOMAIN Docs, NEW source \in allowedSources,
           Docs[n].source = Tool(source),
           NEW name \in NamesToUse(source, Summary(source, n))
    PROVE  name \in NamesOf(n)
<1>1. /\ Docs[n].source \in Openable
      /\ source = "consolidados" <=> Docs[n].source = "consolidados"
  BY OpenableFamily
<1>2. CASE source = "consolidados"
  <2>1. name = numeroOf(n)
    BY <1>2 DEF NamesToUse, Summary, numeroOf
  <2>2. QED
    BY <1>1, <1>2, <2>1, ShownIsName
<1>3. CASE source # "consolidados"
  <2>1. name = dictamenId(source, n) \/ (name = Docs[n].numero /\ name # NoName)
    BY <1>3 DEF NamesToUse, Summary
  <2>2. dictamenId(source, n) \in NamesOf(n)
    BY <1>1, <1>3, ShownIsName
  <2>3. QED
    BY <2>1, <2>2 DEF NamesOf
<1>4. QED
  BY <1>2, <1>3

\* The documents that bear a name are documents of the family.
LEMMA BearersOpen ==
    ASSUME NEW v \in 0..Len(Docs), NEW family \in Openable, NEW name,
           NEW n \in Bearers(family, name, v)
    PROVE  n \in DOMAIN Docs /\ Docs[n].source = family
BY DocumentsAssumption, LenProperties DEF Bearers

\* A client's Get method answers a name of the forms it lets through.
LEMMA GetAnswers ==
    ASSUME NEW v \in 0..Len(Docs), NEW family \in Openable, NEW forms, NEW limit, NEW name,
           family # "consolidados"
    PROVE  /\ name.form \in forms
                => Answers(Get(family, forms, limit, name, v), family, name, v, limit)
           /\ name.form \notin forms => Get(family, forms, limit, name, v) = Refused
<1>1. PICK hits, id : hits = ExactHits(family, name, v) /\ id = dictamenId(family, hits[1])
  OBVIOUS
<1>2. family # "todos" /\ v \in Nat
  BY DocumentsAssumption, LenProperties DEF Openable
<1>3. hits # <<>> => id \in NamesOf(hits[1])
  BY <1>1, <1>2, HitsBear, BearersOpen, ShownIsName
<1>4. CASE name.form \in forms
  <2>1. PICK answer : answer = Get(family, forms, limit, name, v)
    OBVIOUS
  <2>2. IsFirstHit(answer, hits, limit, id)
    BY <1>1, <1>4, <2>1 DEF Get, FirstHit, IsFirstHit
  <2>3. Answers(answer, family, name, v, limit)
    BY <1>1, <1>2, <1>3, <2>2, FirstHitAnswers
  <2>4. QED
    BY <1>4, <2>1, <2>3
<1>5. CASE name.form \notin forms
  BY <1>5 DEF Get
<1>6. QED
  BY <1>4, <1>5

\* So does the one for consolidados, which shows the numero.
LEMMA ConsolidadoAnswers ==
    ASSUME NEW v \in 0..Len(Docs), NEW name
    PROVE  /\ name.form = "CIC"
                => Answers(GetConsolidado(name, v), "consolidados", name, v, 2)
           /\ name.form # "CIC" => GetConsolidado(name, v) = Refused
<1>1. PICK hits, id : hits = ExactHits("consolidados", name, v) /\ id = numeroOf(hits[1])
  OBVIOUS
<1>2. v \in Nat /\ "consolidados" \in Openable
  BY DocumentsAssumption, LenProperties DEF Openable
<1>3. hits # <<>> => id \in NamesOf(hits[1])
  BY <1>1, <1>2, HitsBear, BearersOpen, ShownIsName
<1>4. CASE name.form = "CIC"
  <2>1. PICK answer : answer = GetConsolidado(name, v)
    OBVIOUS
  <2>2. IsFirstHit(answer, hits, 2, id)
    BY <1>1, <1>4, <2>1 DEF GetConsolidado, FirstHit, IsFirstHit
  <2>3. Answers(answer, "consolidados", name, v, 2)
    BY <1>1, <1>3, <2>2, FirstHitAnswers
  <2>4. QED
    BY <1>4, <2>1, <2>3
<1>5. CASE name.form # "CIC"
  BY <1>5 DEF GetConsolidado
<1>6. QED
  BY <1>4, <1>5

\* What a handler shows of such an answer is the answer.
LEMMA ShownAnswers ==
    ASSUME NEW answer, NEW family, NEW name, NEW v, NEW limit, NEW other,
           Answers(answer, family, name, v, limit)
    PROVE  Shown(answer, other) = answer
<1>1. ASSUME NEW n, NEW id \in NamesOf(n), answer = [kind |-> "document", doc |-> n, id |-> id]
      PROVE  Shown(answer, other) = answer
  <2>1. Shown(answer, other) = [answer EXCEPT !.id = Or(@, other)]
    BY <1>1 DEF Shown
  <2>2. Or(id, other) = id
    BY DEF NamesOf, Or
  <2>3. QED
    BY <1>1, <2>1, <2>2
<1>2. ASSUME NEW kind \in {"too large", "undecodable", "not found"}, answer = Failure(kind)
      PROVE  Shown(answer, other) = answer
  BY <1>2 DEF Shown, Failure
<1>3. QED
  BY <1>1, <1>2 DEF Answers

\* What a tool makes of a name: such an answer, within its family's limit, or
\* the refusal of a form that nothing promises.
Answered(answer, family, name, v) ==
    \/ answer = Refused /\ name.form \notin Promised[family]
    \/ Answers(answer, family, name, v, Readable[family])

\* The tools of the families that have no pattern of their own.
LEMMA PlainTools ==
    ASSUME NEW v \in 0..Len(Docs), NEW name
    PROVE  /\ Answered(get_cgr_dictamen(name, v), "dictamenes", name, v)
           /\ Answered(get_cgr_cuenta(name, v), "cuentas", name, v)
           /\ Answered(get_cgr_legislacion(name, v), "legislacion", name, v)
<1>1. Answered(get_cgr_dictamen(name, v), "dictamenes", name, v)
  <2>1. /\ Promised["dictamenes"] = {"ENyy", "LNyy", "XNyy"}
        /\ "dictamenes" \in Openable /\ Readable["dictamenes"] = 6
    BY DEF Promised, Openable, Readable
  <2>2. PICK answer : answer = Get("dictamenes", {"ENyy", "LNyy", "XNyy"}, 6, name, v)
    OBVIOUS
  <2>3. /\ name.form \in {"ENyy", "LNyy", "XNyy"}
              => Answers(answer, "dictamenes", name, v, 6)
        /\ name.form \notin {"ENyy", "LNyy", "XNyy"} => answer = Refused
    BY <2>1, <2>2, GetAnswers
  <2>4. answer = get_cgr_dictamen(name, v)
    BY <2>2 DEF get_cgr_dictamen, GetDictamen
  <2>5. QED
    BY <2>1, <2>3, <2>4 DEF Answered
<1>2. Answered(get_cgr_cuenta(name, v), "cuentas", name, v)
  <2>1. /\ Promised["cuentas"] = {"num", "num7"}
        /\ "cuentas" \in Openable /\ Readable["cuentas"] = 2
    BY DEF Promised, Openable, Readable
  <2>2. PICK answer : answer = Get("cuentas", {"num", "num7"}, 2, name, v)
    OBVIOUS
  <2>3. /\ name.form \in {"num", "num7"} => Answers(answer, "cuentas", name, v, 2)
        /\ name.form \notin {"num", "num7"} => answer = Refused
    BY <2>1, <2>2, GetAnswers
  <2>4. answer = get_cgr_cuenta(name, v)
    BY <2>2 DEF get_cgr_cuenta, GetCuenta
  <2>5. QED
    BY <2>1, <2>3, <2>4 DEF Answered
<1>3. Answered(get_cgr_legislacion(name, v), "legislacion", name, v)
  <2>1. /\ Promised["legislacion"] = {"RZA"}
        /\ "legislacion" \in Openable /\ Readable["legislacion"] = 6
    BY DEF Promised, Openable, Readable
  <2>2. PICK answer : answer = Get("legislacion", {"RZA"}, 6, name, v)
    OBVIOUS
  <2>3. /\ name.form \in {"RZA"} => Answers(answer, "legislacion", name, v, 6)
        /\ name.form \notin {"RZA"} => answer = Refused
    BY <2>1, <2>2, GetAnswers
  <2>4. answer = get_cgr_legislacion(name, v)
    BY <2>2 DEF get_cgr_legislacion, GetLegislacion
  <2>5. QED
    BY <2>1, <2>3, <2>4 DEF Answered
<1>4. QED
  BY <1>1, <1>2, <1>3

\* Those whose handler has one.
LEMMA CheckingTools ==
    ASSUME NEW v \in 0..Len(Docs), NEW name
    PROVE  /\ Answered(get_cgr_instructivo(name, v), "instructivos", name, v)
           /\ Answered(get_cgr_contable(name, v), "contable", name, v)
           /\ Answered(get_cgr_auditoria(name, v), "auditoria", name, v)
           /\ Answered(get_cgr_consolidado(name, v), "consolidados", name, v)
<1>1. Answered(get_cgr_instructivo(name, v), "instructivos", name, v)
  <2>1. /\ Promised["instructivos"] = {"ENyy", "LNyy"}
        /\ "instructivos" \in Openable /\ Readable["instructivos"] = 6
    BY DEF Promised, Openable, Readable
  <2>2. PICK answer : answer = GetInstructivo(name, v)
    OBVIOUS
  <2>3. name.form \in {"ENyy", "LNyy"} => Answers(answer, "instructivos", name, v, 6)
    BY <2>1, <2>2, GetAnswers DEF GetInstructivo
  <2>4. name.form \in {"ENyy", "LNyy"} => Shown(answer, name) = answer
    BY <2>3, ShownAnswers
  <2>5. get_cgr_instructivo(name, v) = IF name.form \in {"ENyy", "LNyy"}
                                       THEN Shown(answer, name) ELSE Refused
    BY <2>2 DEF get_cgr_instructivo
  <2>6. QED
    BY <2>1, <2>3, <2>4, <2>5 DEF Answered
<1>2. Answered(get_cgr_contable(name, v), "contable", name, v)
  <2>1. /\ Promised["contable"] = {"E", "OFE", "ENyy"}
        /\ "contable" \in Openable /\ Readable["contable"] = 2
    BY DEF Promised, Openable, Readable
  <2>2. PICK answer : answer = GetContable(name, v)
    OBVIOUS
  <2>3. name.form \in {"E", "OFE", "ENyy"} => Answers(answer, "contable", name, v, 2)
    <3>1. name.form \in {"E", "OFE", "ENyy", "LNyy", "XNyy"}
            => Answers(answer, "contable", name, v, 2)
      BY <2>1, <2>2, GetAnswers DEF GetContable
    <3>2. QED
      BY <3>1
  <2>4. name.form \in {"E", "OFE", "ENyy"} => Shown(answer, name) = answer
    BY <2>3, ShownAnswers
  <2>5. get_cgr_contable(name, v) = IF name.form \in {"E", "OFE", "ENyy"}
                                    THEN Shown(answer, name) ELSE Refused
    BY <2>2 DEF get_cgr_contable
  <2>6. QED
    BY <2>1, <2>3, <2>4, <2>5 DEF Answered
<1>3. Answered(get_cgr_auditoria(name, v), "auditoria", name, v)
  <2>1. /\ Promised["auditoria"] = {"n/yyyy", "ENyy", "LNyy", "XNyy", "num"}
        /\ "auditoria" \in Openable /\ Readable["auditoria"] = 6
    BY DEF Promised, Openable, Readable
  <2>2. PICK answer, other : /\ answer = GetAuditoria(name, v)
                             /\ other = IF answer.doc = 0 THEN name
                                        ELSE Or(numeroOf(answer.doc), name)
    OBVIOUS
  <2>3. name.form \in {"n/yyyy", "ENyy", "LNyy", "XNyy", "num"}
          => Answers(answer, "auditoria", name, v, 6)
    BY <2>1, <2>2, GetAnswers DEF GetAuditoria
  <2>4. name.form \in {"n/yyyy", "ENyy", "LNyy", "XNyy", "num"}
          => Shown(answer, other) = answer
    BY <2>3, ShownAnswers
  <2>5. get_cgr_auditoria(name, v) =
          IF name.form \in {"n/yyyy", "ENyy", "LNyy", "XNyy", "num"}
          THEN Shown(answer, other) ELSE Refused
    BY <2>2 DEF get_cgr_auditoria
  <2>6. QED
    BY <2>1, <2>3, <2>4, <2>5 DEF Answered
<1>4. Answered(get_cgr_consolidado(name, v), "consolidados", name, v)
  <2>1. /\ Promised["consolidados"] = {"CIC"}
        /\ "consolidados" \in Openable /\ Readable["consolidados"] = 2
    BY DEF Promised, Openable, Readable
  <2>2. PICK answer : answer = GetConsolidado(name, v)
    OBVIOUS
  <2>3. name.form = "CIC" => Answers(answer, "consolidados", name, v, 2)
    BY <2>2, ConsolidadoAnswers
  <2>4. name.form = "CIC" => Shown(answer, name) = answer
    BY <2>3, ShownAnswers
  <2>5. get_cgr_consolidado(name, v) = IF name.form = "CIC" THEN Shown(answer, name)
                                       ELSE Refused
    BY <2>2 DEF get_cgr_consolidado
  <2>6. QED
    BY <2>1, <2>3, <2>4, <2>5 DEF Answered
<1>5. QED
  BY <1>1, <1>2, <1>3, <1>4

\* So every listed name is answered by the tool that the answer says to use.
LEMMA OpenAnswered ==
    ASSUME NEW v \in 0..Len(Docs), NEW name, NEW source \in allowedSources
    PROVE  Answered(Open(source, name, v), Tool(source), name, v)
<1>1. PICK family : family = Tool(source)
  OBVIOUS
<1>2. family \in Openable
  BY <1>1, OpenableFamily
<1>3. CASE family = "dictamenes"
  BY <1>1, <1>3, PlainTools DEF Open
<1>4. CASE family = "instructivos"
  BY <1>1, <1>4, CheckingTools DEF Open
<1>5. CASE family = "contable"
  BY <1>1, <1>5, CheckingTools DEF Open
<1>6. CASE family = "auditoria"
  BY <1>1, <1>6, CheckingTools DEF Open
<1>7. CASE family = "consolidados"
  BY <1>1, <1>7, CheckingTools DEF Open
<1>8. CASE family = "cuentas"
  BY <1>1, <1>8, PlainTools DEF Open
<1>9. CASE family = "legislacion"
  BY <1>1, <1>9, PlainTools DEF Open
<1>10. QED
  BY <1>2, <1>3, <1>4, <1>5, <1>6, <1>7, <1>8, <1>9 DEF Openable

\* What a walk was shown summarizes documents that are published.
LEMMA ListedIsPublished ==
    ASSUME IInv, NEW i \in DOMAIN walk.got
    PROVE  /\ walk.got[i] = Summary(walk.source, walk.got[i].doc)
           /\ walk.got[i].doc \in Matching(walk.source, published)
<1>1. PICK source, order, m, got, from, size :
         /\ source = walk.source /\ order = walk.order /\ m = walk.moments
         /\ got = walk.got /\ from = walk.from /\ size = walk.size
  OBVIOUS
<1>2. /\ m \in Seq(Nat) /\ got \in Seq(SummaryType)
      /\ \A t \in 1..Len(m) : m[t] <= published
      /\ Traced(got, m, source, order, from, size)
  BY <1>1 DEF IInv, WalkKept, WalkRecord, Walked
<1>3. i \in 1..Len(got)
  BY <1>1, <1>2, LenProperties
<1>4. PICK t \in 1..Len(m) : /\ got[i] = Summary(source, got[i].doc)
                             /\ got[i].doc \in Matching(source, m[t])
  BY <1>2, <1>3 DEF Traced
<1>5. PICK u \in Nat, v \in Nat : u = m[t] /\ v = published /\ u <= v
  BY <1>2, PublishedTyped, ElementOfSeq
<1>6. got[i].doc \in Matching(source, v)
  <2>1. \A n \in 1..u : n \in 1..v
    BY <1>5
  <2>2. QED
    BY <1>4, <1>5, <2>1 DEF Matching
<1>7. QED
  BY <1>1, <1>4, <1>5, <1>6

\* A name is borne by no fewer documents later.
LEMMA BearersGrow ==
    ASSUME NEW family, NEW name, NEW v \in Nat, NEW w \in Nat, v <= w
    PROVE  Bearers(family, name, v) \subseteq Bearers(family, name, w)
<1>1. \A n \in 1..v : n \in 1..w
  OBVIOUS
<1>2. QED
  BY <1>1 DEF Bearers

\* What an answer to the name of the listed document n must be, at a moment
\* when v documents are published.
OpensListed(answer, n, family, name, v) ==
    /\ name \in NamesOf(n)
    /\ answer.kind = "document" => /\ answer.doc \in Bearers(family, name, v)
                                   /\ answer.id \in NamesOf(answer.doc)
    /\ answer.kind = "refused" => name.form \notin Promised[family]
    /\ Bearers(family, name, v) \ {n} = {} =>
         \/ answer.kind \in {"document", "refused"}
         \/ answer.kind = "too large" /\ Docs[n].MB > Readable[family]

\* A tool's answer is that, whether it is made now or was cached.
LEMMA OpeningOpens ==
    ASSUME NEW v \in 0..Len(Docs), NEW source \in allowedSources, NEW n \in 1..v,
           Docs[n].source = Tool(source), Kept(Docs[n].source, n),
           NEW name \in NamesToUse(source, Summary(source, n)),
           NEW answer \in Openings(source, name, v)
    PROVE  OpensListed(answer, n, Tool(source), name, v)
<1>1. PICK family, B : family = Tool(source) /\ B = Bearers(family, name, v)
  OBVIOUS
<1>2. v \in Nat /\ n \in DOMAIN Docs
  BY DocumentsAssumption, LenProperties
<1>3. name \in NamesOf(n)
  BY <1>2, UsedIsName
<1>4. n \in B
  BY <1>1, <1>3 DEF Bearers
<1>5. /\ Refused.kind = "refused"
      /\ \A kind : Failure(kind).kind = kind
  BY DEF Refused, Failure
<1>6. CASE answer = Open(source, name, v)
  <2>1. Answered(answer, family, name, v)
    BY <1>1, <1>6, OpenAnswered
  <2>2. CASE answer = Refused /\ name.form \notin Promised[family]
    BY <1>1, <1>3, <1>5, <2>2 DEF OpensListed
  <2>3. CASE Answers(answer, family, name, v, Readable[family])
    <3>1. ASSUME NEW m \in B, NEW id \in NamesOf(m),
                 answer = [kind |-> "document", doc |-> m, id |-> id]
          PROVE  OpensListed(answer, n, family, name, v)
      BY <1>1, <1>3, <3>1 DEF OpensListed
    <3>2. ASSUME NEW kind \in {"too large", "undecodable", "not found"},
                 answer = Failure(kind),
                 \A m : (B = {m} /\ Kept(family, m)) =>
                           kind = "too large" /\ Docs[m].MB > Readable[family]
          PROVE  OpensListed(answer, n, family, name, v)
      <4>1. answer.kind = kind /\ kind # "document" /\ kind # "refused"
        BY <1>5, <3>2
      <4>2. B \ {n} = {} => B = {n}
        BY <1>4
      <4>3. Kept(family, n)
        BY <1>1
      <4>4. QED
        BY <1>1, <1>3, <3>2, <4>1, <4>2, <4>3 DEF OpensListed
    <3>3. QED
      BY <1>1, <2>3, <3>1, <3>2 DEF Answers
  <2>4. QED
    BY <1>1, <2>1, <2>2, <2>3 DEF Answered
<1>7. CASE answer # Open(source, name, v)
  <2>1. PICK u \in 1..v : answer = Open(source, name, u) /\ answer.kind = "document"
    BY <1>7 DEF Openings
  <2>2. u \in 0..Len(Docs) /\ u \in Nat /\ u <= v
    BY <1>2, DocumentsAssumption, LenProperties
  <2>3. Answered(answer, family, name, u)
    BY <1>1, <2>1, <2>2, OpenAnswered
  <2>4. Answers(answer, family, name, u, Readable[family])
    BY <1>5, <2>1, <2>3 DEF Answered
  <2>5. PICK m \in Bearers(family, name, u) : \E id \in NamesOf(m) :
           answer = [kind |-> "document", doc |-> m, id |-> id]
    BY <1>5, <2>1, <2>4 DEF Answers
  <2>6. m \in B
    BY <1>1, <1>2, <2>2, <2>5, BearersGrow
  <2>7. answer.doc = m /\ answer.id \in NamesOf(m)
    BY <2>5
  <2>8. QED
    BY <1>1, <1>3, <2>1, <2>6, <2>7 DEF OpensListed
<1>8. QED
  BY <1>6, <1>7

\* Who opens a listed document as the answer says is shown a document of the
\* name used, under a name it has, and the listed one where it alone has the
\* name; or is told that it is over its family's limit; or is refused a form of
\* name that nothing promises: whatever was published since, and cached answers
\* included (search_cgr.go:270-288, cgr_client.go:404-560 and 612-1360).
THEOREM ListedIsAlwaysOpened == Spec => []ListedIsOpened
<1>1. Init => ListedIsOpened
  <2>1. opened = NothingOpened => opened.doc = 0
    BY DEF NothingOpened
  <2>2. QED
    BY <2>1 DEF Init, ListedIsOpened, OpenedOfOwnKind
<1>2. ListedIsOpened <=>
        (OpenedOfOwnKind =>
           OpensListed(opened.answer, opened.doc, Tool(opened.source), opened.name, published))
  BY DEF ListedIsOpened, OpensListed
<1>3. ASSUME IInv, ListedIsOpened, [Next]_vars
      PROVE  ListedIsOpened'
  <2>1. ListedIsOpened' <=>
          (OpenedOfOwnKind' =>
             OpensListed(opened'.answer, opened'.doc, Tool(opened'.source), opened'.name,
                         published'))
    BY DEF ListedIsOpened, OpensListed
  <2>2. published \in Nat /\ published \in 0..Len(Docs)
    BY <1>3, PublishedTyped
  <2>3. CASE UNCHANGED opened
    <3>1. published' = published \/ published' = published + 1
      BY <1>3 DEF Next, vars, Publish, RefuseSearch, StartSearch, StartLaws, CachedPage,
         FetchedPage, PageFails, LawPageAnswered, LawPageFails, OpenListed
    <3>2. PICK v \in Nat, w \in Nat : v = published /\ w = published' /\ v <= w
      BY <2>2, <3>1
    <3>3. PICK o : o = opened /\ o = opened'
      BY <2>3
    <3>4. SUFFICES ASSUME OpenedOfOwnKind
                   PROVE  OpensListed(o.answer, o.doc, Tool(o.source), o.name, w)
      BY <2>1, <3>2, <3>3 DEF OpenedOfOwnKind
    <3>5. OpensListed(o.answer, o.doc, Tool(o.source), o.name, v)
      BY <1>2, <1>3, <3>2, <3>3, <3>4
    <3>6. Bearers(Tool(o.source), o.name, v) \subseteq Bearers(Tool(o.source), o.name, w)
      BY <3>2, BearersGrow
    <3>7. QED
      BY <3>5, <3>6 DEF OpensListed
  <2>4. CASE opened' = NothingOpened
    BY <2>4 DEF NothingOpened, ListedIsOpened, OpenedOfOwnKind
  <2>5. ASSUME NEW i \in DOMAIN walk.got, OpenListed(walk.got[i])
        PROVE  ListedIsOpened'
    <3>1. PICK source, n, summary, v :
             /\ source = walk.source /\ summary = walk.got[i] /\ n = summary.doc
             /\ v = published
      OBVIOUS
    <3>2. /\ summary = Summary(source, n) /\ n \in Matching(source, v)
          /\ v \in 0..Len(Docs)
      BY <1>3, <2>2, <3>1, ListedIsPublished
    <3>3. PICK name \in NamesToUse(source, summary) :
             \E answer \in Openings(source, name, v) :
               opened' = [source |-> source, doc |-> n, name |-> name, answer |-> answer]
      BY <2>5, <3>1 DEF OpenListed
    <3>4. PICK answer \in Openings(source, name, v) :
             opened' = [source |-> source, doc |-> n, name |-> name, answer |-> answer]
      BY <3>3
    <3>5. source \in allowedSources /\ published' = v
      BY <1>3, <2>5, <3>1 DEF IInv, WalkKept, WalkRecord, OpenListed
    <3>6. n \in 1..v
      BY <3>2 DEF Matching
    <3>7. SUFFICES ASSUME Docs[n].source = Tool(source), Kept(Docs[n].source, n)
                   PROVE  OpensListed(answer, n, Tool(source), name, v)
      BY <2>1, <3>4, <3>5 DEF OpenedOfOwnKind
    <3>8. QED
      BY <3>2, <3>3, <3>4, <3>5, <3>6, <3>7, OpeningOpens
  <2>6. UNCHANGED opened \/ opened' = NothingOpened
           \/ \E i \in DOMAIN walk.got : OpenListed(walk.got[i])
    BY <1>3 DEF Next, vars, Publish, RefuseSearch, StartSearch, StartLaws, Begin, CachedPage,
       FetchedPage, PageFails, LawPageAnswered, LawPageFails
  <2>7. QED
    BY <2>3, <2>4, <2>5, <2>6
<1>4. QED
  BY <1>1, <1>3, Invariance, PTL DEF Spec

=============================================================================
