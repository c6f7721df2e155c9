-------------------------- MODULE LawDeliveryProofs -------------------------
(***************************************************************************)
(* What is delivered of a norm, for every norm, every budget and every     *)
(* bound on children, lines and matches: the sizes stated agree, a content *)
(* is whole or withheld, maps locate every article and lose no section,    *)
(* and a search lists its matches in order.                                *)
(*                                                                         *)
(* The argument is about the tree.  A norm in document order determines by *)
(* its depths alone what is inside a section; the three ways its length is *)
(* counted are sums over the same sections, one of them split along the    *)
(* children; and each of the three plans of a table of contents shows, for *)
(* every section in scope, itself or one it is inside.  What a reader can  *)
(* make of many answers follows from each answer on its own: the invariant *)
(* says what one declares and contains.                                    *)
(*                                                                         *)
(* Induction over sections and sets is by a least or greatest natural, and *)
(* by a smallest set, that would be a counterexample.                      *)
(***************************************************************************)
EXTENDS LawDelivery, FiniteSetTheorems, SequenceTheorems,
        WellFoundedInduction, TLAPS

\* What find_in_norm answers of the norm.
Found == [results |-> SubSeq(Ranked, 1, Min({maxResults, Len(Ranked)})),
          total |-> Len(Ranked)]

\* An answer declares the size and the articles of a section of the norm,
\* gives its table of contents, and its content when it was asked for and fits.
Faithful(a) ==
    /\ a.section \in 0..Len(norm)
    /\ a.chars = ContentCharCount(norm, a.section)
    /\ a.articles = countArticleParts(norm, a.section)
    /\ a.toc = TOC(norm, a.section)
    /\ ~a.only =>
         /\ a.degraded <=> a.chars > MaxContentChars
         /\ a.body = IF a.degraded THEN {} ELSE renderBlocks(norm, a.section)

IInv == /\ TypeOK
        /\ \A a \in answers : Faithful(a)
        /\ found \subseteq {Found}

-----------------------------------------------------------------------------
(* Naturals.                                                               *)

Less == {p \in Nat \X Nat : p[1] < p[2]}

\* A non-empty set of naturals has a least element: Min has a value.
LEMMA LeastNatural ==
    ASSUME NEW S \in SUBSET Nat, S # {}
    PROVE  \E m \in S : \A n \in S : m <= n
<1>1. IsWellFoundedOn(Less, Nat)
  BY NatLessThanWellFounded DEF OpToRel, Less
<1>2. PICK m \in S : \A n \in S : <<n, m>> \notin Less
  BY <1>1, WFMin
<1>3. ASSUME NEW n \in S
      PROVE  m <= n
  <2>1. m \in Nat /\ n \in Nat
    OBVIOUS
  <2>2. n < m => <<n, m>> \in Less
    BY <2>1 DEF Less
  <2>3. QED
    BY <1>2, <2>1, <2>2
<1>4. QED
  BY <1>3

\* A bounded one has a greatest: Max has a value.
LEMMA GreatestNatural ==
    ASSUME NEW S \in SUBSET Nat, S # {}, NEW b \in Nat, \A n \in S : n <= b
    PROVE  \E m \in S : \A n \in S : n <= m
<1> DEFINE T == {b - n : n \in S}
<1>1. T \in SUBSET Nat /\ T # {}
  <2>1. T # {}
    OBVIOUS
  <2>2. ASSUME NEW n \in S
        PROVE  b - n \in Nat
    BY n \in Nat, n <= b
  <2>3. QED
    BY <2>1, <2>2
<1>2. PICK t \in T : \A u \in T : t <= u
  BY <1>1, LeastNatural
<1>3. PICK m \in S : t = b - m
  OBVIOUS
<1>4. ASSUME NEW n \in S
      PROVE  n <= m
  <2>1. b - n \in T
    OBVIOUS
  <2>2. b - m <= b - n /\ n \in Nat /\ m \in Nat
    BY <1>2, <1>3, <2>1
  <2>3. QED
    BY <2>2
<1>5. QED
  BY <1>4

-----------------------------------------------------------------------------
(* Sums over finite sets.                                                  *)

\* Of finite sets one is smallest: what fails of a finite set fails of a
\* smallest one, and holds of that one less any element.
LEMMA SmallestSet ==
    ASSUME NEW S, IsFiniteSet(S), NEW F \in SUBSET (SUBSET S), F # {}
    PROVE  \E T \in F : /\ IsFiniteSet(T)
                        /\ \A x \in T : T \ {x} \notin F
<1>1. \A T \in F : IsFiniteSet(T) /\ Cardinality(T) \in Nat
  BY FS_Subset, FS_CardinalityType
<1> DEFINE sizes == {Cardinality(T) : T \in F}
<1>2. sizes \in SUBSET Nat /\ sizes # {}
  BY <1>1
<1>3. PICK k \in sizes : \A m \in sizes : k <= m
  BY <1>2, LeastNatural
<1>4. PICK T \in F : Cardinality(T) = k
  OBVIOUS
<1>5. ASSUME NEW x \in T, T \ {x} \in F
      PROVE  FALSE
  <2>1. Cardinality(T \ {x}) = Cardinality(T) - 1
    BY <1>1, FS_RemoveElement
  <2>2. Cardinality(T) <= Cardinality(T \ {x})
    BY <1>3, <1>4, <1>5
  <2>3. QED
    BY <1>1, <2>1, <2>2
<1>6. QED
  BY <1>1, <1>5

\* The element a sum takes next.
Taken(S) == CHOOSE x \in S : TRUE

\* g holds the sums of f over the subsets of S, each from a smaller one: what
\* the community modules' sum is the value of.
Sums(g, f, S) ==
    g = [t \in SUBSET S |->
           IF t = {} THEN 0
           ELSE LET x == Taken(t) IN f[x] + g[t \ {x}]]

\* The sum of the function f over S.
Total(f, S) == MapThenSumSet(LAMBDA x : f[x], S)

\* The sum of one element more is that of the others and the element.
LEMMA SumsStep ==
    ASSUME NEW g, NEW f, NEW S, Sums(g, f, S), NEW t \in SUBSET S
    PROVE  /\ t = {} => g[t] = 0
           /\ t # {} => /\ Taken(t) \in t
                        /\ t \ {Taken(t)} \in SUBSET S
                        /\ g[t] = f[Taken(t)] + g[t \ {Taken(t)}]
<1>1. g[t] = IF t = {} THEN 0
             ELSE LET x == Taken(t) IN f[x] + g[t \ {x}]
  BY DEF Sums
<1>2. t # {} => Taken(t) \in t
  BY DEF Taken
<1>3. QED
  BY <1>1, <1>2

\* A sum depends on the function and the subset alone.
LEMMA SumsAgree ==
    ASSUME NEW f, NEW S, NEW T \in SUBSET S, IsFiniteSet(S),
           NEW g, Sums(g, f, S), NEW h, Sums(h, f, T)
    PROVE  \A t \in SUBSET T : g[t] = h[t]
<1> DEFINE F == {t \in SUBSET T : g[t] # h[t]}
<1>1. SUFFICES ASSUME F # {}
               PROVE  FALSE
  OBVIOUS
<1>2. IsFiniteSet(T)
  BY FS_Subset
<1>3. PICK t \in F : \A x \in t : t \ {x} \notin F
  BY <1>1, <1>2, SmallestSet
<1>4. t \in SUBSET T /\ t \in SUBSET S
  OBVIOUS
<1>5. t # {}
  BY <1>3, <1>4, SumsStep
<1>6. /\ Taken(t) \in t
      /\ g[t] = f[Taken(t)] + g[t \ {Taken(t)}]
      /\ h[t] = f[Taken(t)] + h[t \ {Taken(t)}]
  BY <1>4, <1>5, SumsStep
<1>7. g[t \ {Taken(t)}] = h[t \ {Taken(t)}]
  BY <1>3, <1>4, <1>6
<1>8. QED
  BY <1>3, <1>6, <1>7

\* There are sums over every finite set.
LEMMA SumsExist ==
    ASSUME NEW f, NEW S, IsFiniteSet(S)
    PROVE  \E g : Sums(g, f, S)
<1> DEFINE F == {T \in SUBSET S : ~\E g : Sums(g, f, T)}
<1>1. SUFFICES ASSUME F # {}
               PROVE  FALSE
  OBVIOUS
<1>2. PICK T \in F : IsFiniteSet(T) /\ \A x \in T : T \ {x} \notin F
  BY <1>1, SmallestSet
<1> DEFINE h(t) == CHOOSE g : Sums(g, f, t)
           sum(t) == IF t = {} THEN 0
                     ELSE LET x == Taken(t) IN f[x] + h(t \ {x})[t \ {x}]
           g == [t \in SUBSET T |-> sum(t)]
<1>3. ASSUME NEW x \in T, NEW t \in SUBSET (T \ {x})
      PROVE  Sums(h(t), f, t)
  <2>1. PICK k : Sums(k, f, T \ {x})
    BY <1>2
  <2> DEFINE m == [u \in SUBSET t |-> k[u]]
  <2>2. ASSUME NEW u \in SUBSET t
        PROVE  m[u] = IF u = {} THEN 0
                      ELSE LET y == Taken(u) IN f[y] + m[u \ {y}]
    <3>1. u \in SUBSET (T \ {x}) /\ m[u] = k[u]
      OBVIOUS
    <3>2. CASE u = {}
      BY <2>1, <3>1, <3>2, SumsStep
    <3>3. CASE u # {}
      <4>1. k[u] = f[Taken(u)] + k[u \ {Taken(u)}]
        BY <2>1, <3>1, <3>3, SumsStep
      <4>2. m[u \ {Taken(u)}] = k[u \ {Taken(u)}]
        OBVIOUS
      <4>3. QED
        BY <3>1, <3>3, <4>1, <4>2
    <3>4. QED
      BY <3>2, <3>3
  <2>3. Sums(m, f, t)
    BY <2>2 DEF Sums
  <2>4. QED
    BY <2>3
<1>4. ASSUME NEW x \in T, NEW t \in SUBSET (T \ {x})
      PROVE  sum(t) = h(t)[t]
  <2>1. Sums(h(t), f, t) /\ IsFiniteSet(t)
    BY <1>2, <1>3, FS_Subset
  <2>2. CASE t = {}
    <3>1. PICK k : k = h(t)
      OBVIOUS
    <3>2. Sums(k, f, t) /\ t \in SUBSET t
      BY <2>1, <3>1
    <3>3. k[t] = 0
      BY <2>2, <3>2, SumsStep
    <3>4. QED
      BY <2>2, <3>1, <3>3
  <2>3. CASE t # {}
    <3> DEFINE u == t \ {Taken(t)}
    <3>1. u \in SUBSET (T \ {x}) /\ u \in SUBSET t
      OBVIOUS
    <3>2. Sums(h(u), f, u)
      BY <1>3, <3>1
    <3>3. h(t)[t] = f[Taken(t)] + h(t)[u]
      BY <2>1, <2>3, SumsStep
    <3>4. h(t)[u] = h(u)[u]
      BY <2>1, <3>1, <3>2, SumsAgree
    <3>5. QED
      BY <2>3, <3>3, <3>4
  <2>4. QED
    BY <2>2, <2>3
<1>5. ASSUME NEW t \in SUBSET T
      PROVE  g[t] = IF t = {} THEN 0
                    ELSE LET x == Taken(t) IN f[x] + g[t \ {x}]
  <2>1. CASE t = {}
    BY <2>1
  <2>2. CASE t # {}
    <3> DEFINE x == Taken(t)
               u == t \ {x}
    <3>1. x \in T /\ u \in SUBSET (T \ {x})
      BY <2>2 DEF Taken
    <3>2. g[u] = sum(u) /\ sum(u) = h(u)[u]
      BY <1>4, <3>1
    <3>3. g[t] = f[x] + h(u)[u]
      BY <2>2
    <3>4. QED
      BY <2>2, <3>2, <3>3
  <2>3. QED
    BY <2>1, <2>2
<1>6. Sums(g, f, T)
  <2> HIDE DEF sum
  <2>1. PICK k : k = g
    OBVIOUS
  <2>2. k = [t \in SUBSET T |-> k[t]]
    BY <2>1
  <2>3. k = [t \in SUBSET T |->
               IF t = {} THEN 0 ELSE LET x == Taken(t) IN f[x] + k[t \ {x}]]
    BY <1>5, <2>1, <2>2
  <2>4. QED
    BY <2>1, <2>3 DEF Sums
<1>7. QED
  BY <1>2, <1>6

\* A sum over a set is one element and the sum over the others.
LEMMA TotalStep ==
    ASSUME NEW f, NEW S, IsFiniteSet(S)
    PROVE  /\ S = {} => Total(f, S) = 0
           /\ S # {} => /\ Taken(S) \in S
                        /\ Total(f, S) = f[Taken(S)] + Total(f, S \ {Taken(S)})
<1> DEFINE h(t) == CHOOSE g : Sums(g, f, t)
<1>1. ASSUME NEW t \in SUBSET S
      PROVE  Sums(h(t), f, t) /\ Total(f, t) = h(t)[t]
  <2>1. Sums(h(t), f, t)
    BY SumsExist, FS_Subset
  <2>2. Total(f, t) = h(t)[t]
    BY DEF Total, MapThenSumSet, MapThenFoldSet, Sums, Taken
  <2>3. QED
    BY <2>1, <2>2
<1> HIDE DEF h
<1>2. CASE S = {}
  BY <1>1, <1>2, SumsStep
<1>3. CASE S # {}
  <2> DEFINE u == S \ {Taken(S)}
  <2>1. u \in SUBSET S /\ S \in SUBSET S
    OBVIOUS
  <2>2. PICK k : k = h(S)
    OBVIOUS
  <2>3. Taken(S) \in S /\ k[S] = f[Taken(S)] + k[u]
    <3>1. Sums(k, f, S)
      BY <1>1, <2>1, <2>2
    <3>2. QED
      BY <1>3, <2>1, <3>1, SumsStep
  <2>4. h(S)[u] = h(u)[u]
    BY <1>1, <2>1, SumsAgree
  <2>5. QED
    BY <1>1, <2>1, <2>2, <2>3, <2>4
<1>4. QED
  BY <1>2, <1>3

\* The fold of a sum over S is its total.
LEMMA SumsTotal ==
    ASSUME NEW f, NEW S, IsFiniteSet(S), NEW g, Sums(g, f, S)
    PROVE  g[S] = Total(f, S)
<1> DEFINE total == CHOOSE h : Sums(h, f, S)
<1>1. Total(f, S) = total[S]
  BY DEF Total, MapThenSumSet, MapThenFoldSet, Sums, Taken
<1>2. Sums(total, f, S)
  OBVIOUS
<1> HIDE DEF total
<1>3. QED
  BY <1>1, <1>2, SumsAgree

\* A sum over no element is zero.
LEMMA TotalEmpty ==
    ASSUME NEW f
    PROVE  Total(f, {}) = 0
<1>1. PICK S : S = {}
  OBVIOUS
<1>2. IsFiniteSet(S)
  BY <1>1, FS_EmptySet
<1>3. QED
  BY <1>1, <1>2, TotalStep

\* A sum of naturals is a natural.
LEMMA TotalNat ==
    ASSUME NEW f, NEW S, IsFiniteSet(S), \A x \in S : f[x] \in Nat
    PROVE  Total(f, S) \in Nat
<1> DEFINE F == {T \in SUBSET S : Total(f, T) \notin Nat}
<1>1. SUFFICES ASSUME F # {}
               PROVE  FALSE
  OBVIOUS
<1>2. PICK T \in F : IsFiniteSet(T) /\ \A x \in T : T \ {x} \notin F
  BY <1>1, SmallestSet
<1>3. CASE T = {}
  BY <1>2, <1>3, TotalEmpty
<1>4. CASE T # {}
  <2>1. /\ Taken(T) \in T
        /\ Total(f, T) = f[Taken(T)] + Total(f, T \ {Taken(T)})
    BY <1>2, <1>4, TotalStep
  <2>2. Total(f, T \ {Taken(T)}) \in Nat /\ f[Taken(T)] \in Nat
    BY <1>2, <2>1
  <2>3. QED
    BY <1>2, <2>1, <2>2
<1>5. QED
  BY <1>3, <1>4

\* Any element may come first.
LEMMA TotalRemove ==
    ASSUME NEW f, NEW S, IsFiniteSet(S), \A x \in S : f[x] \in Nat, NEW x \in S
    PROVE  Total(f, S) = f[x] + Total(f, S \ {x})
<1> DEFINE F == {T \in SUBSET S : \E y \in T :
                    Total(f, T) # f[y] + Total(f, T \ {y})}
<1>1. SUFFICES ASSUME F # {}
               PROVE  FALSE
  OBVIOUS
<1>2. PICK T \in F : IsFiniteSet(T) /\ \A y \in T : T \ {y} \notin F
  BY <1>1, SmallestSet
<1>3. PICK y \in T : Total(f, T) # f[y] + Total(f, T \ {y})
  OBVIOUS
<1>4. PICK z : z = Taken(T)
  OBVIOUS
<1>5. z \in T /\ Total(f, T) = f[z] + Total(f, T \ {z})
  BY <1>2, <1>4, TotalStep
<1>6. z # y
  BY <1>3, <1>5
<1>7. Total(f, T \ {z}) = f[y] + Total(f, (T \ {z}) \ {y})
  BY <1>2, <1>5, <1>6
<1>8. Total(f, T \ {y}) = f[z] + Total(f, (T \ {y}) \ {z})
  BY <1>2, <1>5, <1>6
<1>9. (T \ {z}) \ {y} = (T \ {y}) \ {z}
  OBVIOUS
<1>10. /\ f[y] \in Nat /\ f[z] \in Nat
       /\ Total(f, (T \ {y}) \ {z}) \in Nat
  <2>1. IsFiniteSet((T \ {y}) \ {z})
    BY <1>2, FS_Subset
  <2>2. QED
    BY <1>5, <2>1, TotalNat
<1>11. QED
  BY <1>3, <1>5, <1>7, <1>8, <1>9, <1>10

\* Sums over sets in bijection, with equal terms, are equal: r takes each
\* element of S to one of its own, with the same value.
LEMMA TotalMapped ==
    ASSUME NEW f, NEW g, NEW r, NEW S, IsFiniteSet(S),
           \A x \in S : f[x] \in Nat /\ g[r[x]] = f[x],
           \A x, y \in S : r[x] = r[y] => x = y
    PROVE  /\ IsFiniteSet({r[x] : x \in S})
           /\ Total(g, {r[x] : x \in S}) = Total(f, S)
<1> DEFINE image(T) == {r[x] : x \in T}
           F == {T \in SUBSET S : ~ /\ IsFiniteSet(image(T))
                                    /\ Total(g, image(T)) = Total(f, T)}
<1>1. SUFFICES ASSUME F # {}
               PROVE  FALSE
  OBVIOUS
<1>2. PICK T \in F : IsFiniteSet(T) /\ \A x \in T : T \ {x} \notin F
  BY <1>1, SmallestSet
<1>3. PICK I : I = image(T)
  OBVIOUS
<1>4. CASE T = {}
  <2>1. I = {}
    BY <1>3, <1>4
  <2>2. QED
    BY <1>2, <1>3, <1>4, <2>1, TotalEmpty, FS_EmptySet
<1>5. CASE T # {}
  <2>1. PICK x \in T : TRUE
    BY <1>5
  <2>2. PICK J : J = image(T \ {x})
    OBVIOUS
  <2>3. I = J \cup {r[x]} /\ I \ {r[x]} = J /\ r[x] \in I
    BY <1>3, <2>2
  <2>4. \A y \in I : g[y] \in Nat
    BY <1>3
  <2>5. IsFiniteSet(J) /\ Total(g, J) = Total(f, T \ {x})
    BY <1>2, <2>2
  <2>6. IsFiniteSet(I)
    BY <2>3, <2>5, FS_AddElement
  <2>7. Total(g, I) = g[r[x]] + Total(g, J)
    BY <2>3, <2>4, <2>6, TotalRemove
  <2>8. Total(f, T) = f[x] + Total(f, T \ {x})
    BY <1>2, TotalRemove
  <2>9. QED
    BY <1>2, <1>3, <2>5, <2>6, <2>7, <2>8
<1>6. QED
  BY <1>4, <1>5

\* Sums over the same set, with equal terms, are equal.
LEMMA TotalSame ==
    ASSUME NEW f, NEW g, NEW S, IsFiniteSet(S),
           \A x \in S : f[x] \in Nat /\ g[x] = f[x]
    PROVE  Total(g, S) = Total(f, S)
<1> DEFINE r == [x \in S |-> x]
<1>1. {r[x] : x \in S} = S
  OBVIOUS
<1>2. /\ \A x \in S : f[x] \in Nat /\ g[r[x]] = f[x]
      /\ \A x, y \in S : r[x] = r[y] => x = y
  OBVIOUS
<1> HIDE DEF r
<1>3. Total(g, {r[x] : x \in S}) = Total(f, S)
  BY <1>2, TotalMapped
<1>4. QED
  BY <1>1, <1>3

\* The sum over two disjoint sets is the sum of their sums.
LEMMA TotalUnion ==
    ASSUME NEW f, NEW A, NEW B, IsFiniteSet(A), IsFiniteSet(B), A \cap B = {},
           \A x \in A \cup B : f[x] \in Nat
    PROVE  Total(f, A \cup B) = Total(f, A) + Total(f, B)
<1> DEFINE F == {T \in SUBSET B : Total(f, A \cup T) # Total(f, A) + Total(f, T)}
<1>1. SUFFICES ASSUME F # {}
               PROVE  FALSE
  OBVIOUS
<1>2. PICK T \in F : IsFiniteSet(T) /\ \A x \in T : T \ {x} \notin F
  BY <1>1, SmallestSet
<1>3. Total(f, A) \in Nat
  BY TotalNat
<1>4. CASE T = {}
  <2>1. A \cup T = A /\ Total(f, T) = 0
    BY <1>4, TotalEmpty
  <2>2. QED
    BY <1>2, <1>3, <2>1
<1>5. CASE T # {}
  <2>1. PICK x \in T : TRUE
    BY <1>5
  <2>2. IsFiniteSet(A \cup T) /\ IsFiniteSet(T \ {x})
    BY <1>2, FS_Union, FS_RemoveElement
  <2>3. /\ x \in A \cup T /\ (A \cup T) \ {x} = A \cup (T \ {x})
        /\ f[x] \in Nat
    OBVIOUS
  <2>4. Total(f, A \cup T) = f[x] + Total(f, A \cup (T \ {x}))
    <3>1. \A y \in A \cup T : f[y] \in Nat
      OBVIOUS
    <3>2. QED
      BY <2>2, <2>3, <3>1, TotalRemove
  <2>5. Total(f, T) = f[x] + Total(f, T \ {x})
    BY <1>2, TotalRemove
  <2>6. Total(f, A \cup (T \ {x})) = Total(f, A) + Total(f, T \ {x})
    BY <1>2
  <2>7. Total(f, T \ {x}) \in Nat
    BY <2>2, TotalNat
  <2>8. QED
    BY <1>2, <1>3, <2>3, <2>4, <2>5, <2>6, <2>7
<1>6. QED
  BY <1>4, <1>5

\* A falls into the sets D[c], each element into one.
Splits(A, D, C) == /\ \A x : x \in A <=> \E c \in C : x \in D[c]
                   /\ \A c, d \in C : c # d => D[c] \cap D[d] = {}

\* The sum over a set that falls into others is the sum of their sums.
LEMMA TotalOfFamily ==
    ASSUME NEW f, NEW C, IsFiniteSet(C), NEW D, NEW g, NEW A,
           Splits(A, D, C),
           \A c \in C : /\ IsFiniteSet(D[c])
                        /\ g[c] = Total(f, D[c])
                        /\ \A x \in D[c] : f[x] \in Nat
    PROVE  IsFiniteSet(A) /\ Total(f, A) = Total(g, C)
<1> DEFINE all(T) == UNION {D[c] : c \in T}
           F == {T \in SUBSET C : ~ /\ IsFiniteSet(all(T))
                                    /\ Total(f, all(T)) = Total(g, T)}
<1>0. A = all(C)
  BY DEF Splits
<1>1. SUFFICES ASSUME F # {}
               PROVE  FALSE
  BY <1>0
<1>2. PICK T \in F : IsFiniteSet(T) /\ \A c \in T : T \ {c} \notin F
  BY <1>1, SmallestSet
<1>3. \A c \in C : g[c] \in Nat
  BY TotalNat
<1>4. PICK U : U = all(T)
  OBVIOUS
<1>5. CASE T = {}
  <2>1. U = {}
    BY <1>4, <1>5
  <2>2. QED
    BY <1>2, <1>4, <1>5, <2>1, TotalEmpty, FS_EmptySet
<1>6. CASE T # {}
  <2>1. PICK c \in T : TRUE
    BY <1>6
  <2>2. PICK V, W : V = all(T \ {c}) /\ W = D[c]
    OBVIOUS
  <2>3. U = V \cup W /\ V \cap W = {} /\ \A x \in V \cup W : f[x] \in Nat
    BY <1>4, <2>2 DEF Splits
  <2>4. /\ IsFiniteSet(V) /\ Total(f, V) = Total(g, T \ {c})
        /\ IsFiniteSet(W) /\ Total(f, W) = g[c]
    BY <1>2, <2>2
  <2>5. IsFiniteSet(U)
    BY <2>3, <2>4, FS_Union
  <2>6. Total(f, U) = Total(f, V) + Total(f, W)
    BY <2>3, <2>4, TotalUnion
  <2>7. Total(g, T) = g[c] + Total(g, T \ {c})
    <3>1. \A d \in T : g[d] \in Nat
      BY <1>3
    <3>2. IsFiniteSet(T) /\ c \in T
      BY <1>2
    <3>3. QED
      BY ONLY <3>1, <3>2, TotalRemove
  <2>8. Total(g, T \ {c}) \in Nat /\ g[c] \in Nat
    <3>1. IsFiniteSet(T \ {c})
      BY <1>2, FS_RemoveElement
    <3>2. QED
      BY <1>3, <3>1, TotalNat
  <2>9. Total(f, U) = Total(g, T)
    BY <2>4, <2>6, <2>7, <2>8
  <2>10. QED
    BY <1>2, <1>4, <2>5, <2>9
<1>7. QED
  BY <1>5, <1>6

-----------------------------------------------------------------------------
(* The tree.                                                               *)

\* What IsNorm says of the depths.
LEMMA NormDepths ==
    ASSUME NEW n, IsNorm(n)
    PROVE  /\ Len(n) \in Nat
           /\ \A i \in 1..Len(n) : n[i].depth \in Nat
           /\ Len(n) >= 1 => n[1].depth = 0
           /\ \A i \in 1..(Len(n) - 1) : n[i + 1].depth <= n[i].depth + 1
<1>1. n \in Seq(Section)
  BY DEF IsNorm
<1>2. Len(n) >= 1 => n # << >>
  BY <1>1
<1>3. \A i \in 1..Len(n) : n[i] \in Section
  BY <1>1
<1>4. \A i \in 1..Len(n) : n[i].depth \in Nat
  BY <1>3 DEF Section
<1>5. QED
  BY <1>1, <1>2, <1>4 DEF IsNorm

\* A section ends at the next one that is not deeper, or with the norm.
LEMMA RunEndProperties ==
    ASSUME NEW n, IsNorm(n), NEW i \in 1..Len(n)
    PROVE  /\ runEnd(n, i) \in (i + 1)..(Len(n) + 1)
           /\ \A j \in (i + 1)..(runEnd(n, i) - 1) : n[j].depth > n[i].depth
           /\ runEnd(n, i) <= Len(n) => n[runEnd(n, i)].depth <= n[i].depth
<1> DEFINE S == {j \in (i + 1)..Len(n) : n[j].depth <= n[i].depth}
                \cup {Len(n) + 1}
<1>1. Len(n) \in Nat /\ \A j \in 1..Len(n) : n[j].depth \in Nat
  BY NormDepths
<1>2. S \in SUBSET Nat /\ S # {}
  BY <1>1
<1>3. \E m \in S : \A j \in S : m <= j
  BY <1>2, LeastNatural
<1>4. PICK e : e = runEnd(n, i)
  OBVIOUS
<1>5. e \in S /\ \A j \in S : e <= j
  BY <1>3, <1>4 DEF runEnd, Min
<1>6. e \in (i + 1)..(Len(n) + 1)
  BY <1>1, <1>5
<1>7. ASSUME NEW j \in (i + 1)..(e - 1)
      PROVE  n[j].depth > n[i].depth
  <2>1. j \in 1..Len(n) /\ j < e /\ j \in (i + 1)..Len(n)
    BY <1>1, <1>6
  <2>2. j \notin S
    BY <2>1, <1>5, <1>6
  <2>3. QED
    BY <1>1, <2>1, <2>2
<1>8. e <= Len(n) => n[e].depth <= n[i].depth
  BY <1>1, <1>5
<1>9. QED
  BY <1>4, <1>6, <1>7, <1>8

\* What is inside a section: the sections that follow it as long as all are
\* deeper.
LEMMA InsideByDepth ==
    ASSUME NEW n, IsNorm(n), NEW i \in 1..Len(n), NEW k
    PROVE  k \in Inside(n, i) <=> /\ k \in (i + 1)..Len(n)
                                  /\ \A j \in (i + 1)..k : n[j].depth > n[i].depth
<1> DEFINE e == runEnd(n, i)
<1>1. Len(n) \in Nat /\ \A j \in 1..Len(n) : n[j].depth \in Nat
  BY NormDepths
<1>2. /\ e \in (i + 1)..(Len(n) + 1)
      /\ \A j \in (i + 1)..(e - 1) : n[j].depth > n[i].depth
      /\ e <= Len(n) => n[e].depth <= n[i].depth
  BY RunEndProperties
<1>3. Inside(n, i) = (i + 1)..(e - 1)
  BY DEF Inside
<1> HIDE DEF e
<1>4. ASSUME k \in (i + 1)..(e - 1)
      PROVE  /\ k \in (i + 1)..Len(n)
             /\ \A j \in (i + 1)..k : n[j].depth > n[i].depth
  BY <1>1, <1>2, <1>4
<1>5. ASSUME k \in (i + 1)..Len(n),
             \A j \in (i + 1)..k : n[j].depth > n[i].depth
      PROVE  k \in (i + 1)..(e - 1)
  <2>1. CASE e <= k
    <3>1. e \in (i + 1)..k /\ e \in 1..Len(n) /\ e <= Len(n)
      BY <1>2, <1>5, <2>1, <1>1
    <3>2. n[e].depth > n[i].depth /\ n[e].depth <= n[i].depth
      BY <1>2, <1>5, <3>1
    <3>3. n[e].depth \in Nat /\ n[i].depth \in Nat
      BY <1>1, <3>1
    <3>4. QED
      BY <3>2, <3>3
  <2>2. CASE e > k
    BY <1>1, <1>2, <1>5, <2>2
  <2>3. QED
    BY <1>1, <1>2, <1>5, <2>1, <2>2
<1>6. QED
  BY <1>3, <1>4, <1>5

\* What is inside a section inside another is inside the other.
LEMMA InsideTransitive ==
    ASSUME NEW n, IsNorm(n), NEW i \in 1..Len(n),
           NEW j \in Inside(n, i), NEW k \in Inside(n, j)
    PROVE  k \in Inside(n, i)
<1>1. Len(n) \in Nat /\ \A m \in 1..Len(n) : n[m].depth \in Nat
  BY NormDepths
<1>2. /\ j \in (i + 1)..Len(n)
      /\ \A m \in (i + 1)..j : n[m].depth > n[i].depth
  BY InsideByDepth
<1>3. j \in 1..Len(n)
  BY <1>1, <1>2
<1>4. /\ k \in (j + 1)..Len(n)
      /\ \A m \in (j + 1)..k : n[m].depth > n[j].depth
  BY <1>3, InsideByDepth
<1>5. k \in (i + 1)..Len(n)
  BY <1>1, <1>2, <1>4
<1>6. ASSUME NEW m \in (i + 1)..k
      PROVE  n[m].depth > n[i].depth
  <2>1. CASE m <= j
    BY <1>2, <2>1, <1>5
  <2>2. CASE m > j
    <3>1. m \in (j + 1)..k /\ m \in 1..Len(n) /\ j \in (i + 1)..j
      BY <1>1, <1>2, <1>4, <1>5, <2>2
    <3>2. n[m].depth > n[j].depth /\ n[j].depth > n[i].depth
      BY <1>2, <1>4, <3>1
    <3>3. n[m].depth \in Nat /\ n[j].depth \in Nat /\ n[i].depth \in Nat
      BY <1>1, <1>3, <3>1
    <3>4. QED
      BY <3>2, <3>3
  <2>3. QED
    BY <1>2, <1>5, <2>1, <2>2
<1>7. QED
  BY <1>5, <1>6, InsideByDepth

\* Of two sections around a third, the later is inside the earlier.
LEMMA InsideNested ==
    ASSUME NEW n, IsNorm(n), NEW i \in 1..Len(n), NEW j \in 1..Len(n), i < j,
           NEW k \in Inside(n, i), k \in Inside(n, j)
    PROVE  j \in Inside(n, i)
<1>1. Len(n) \in Nat
  BY NormDepths
<1>2. /\ k \in (i + 1)..Len(n)
      /\ \A m \in (i + 1)..k : n[m].depth > n[i].depth
  BY InsideByDepth
<1>3. k \in (j + 1)..Len(n)
  BY InsideByDepth
<1>4. j \in (i + 1)..Len(n) /\ \A m \in (i + 1)..j : m \in (i + 1)..k
  BY <1>1, <1>2, <1>3
<1>5. QED
  BY <1>2, <1>4, InsideByDepth

\* What a call may ask for.
Scopes(n) == 0..Len(n)

\* The depth of the sections at the top of its table of contents.
TopDepth(n, s) == IF s = 0 THEN 0 ELSE n[s].depth + 1

\* What a table of contents is about are the sections after s, all of them
\* at its top or deeper, one by one.
LEMMA BelowByDepth ==
    ASSUME NEW n, IsNorm(n), NEW s \in Scopes(n), NEW k
    PROVE  k \in Below(n, s) <=> /\ k \in (s + 1)..Len(n)
                                 /\ \A j \in (s + 1)..k : n[j].depth >= TopDepth(n, s)
<1>1. Len(n) \in Nat /\ \A m \in 1..Len(n) : n[m].depth \in Nat
  BY NormDepths
<1>2. CASE s = 0
  BY <1>1, <1>2 DEF Below, TopDepth
<1>3. CASE s # 0
  <2>1. s \in 1..Len(n)
    BY <1>1, <1>3 DEF Scopes
  <2>2. k \in Inside(n, s) <=> /\ k \in (s + 1)..Len(n)
                               /\ \A j \in (s + 1)..k : n[j].depth > n[s].depth
    BY <2>1, InsideByDepth
  <2>3. k \in (s + 1)..Len(n) =>
          \A j \in (s + 1)..k : /\ n[j].depth \in Nat
                                /\ n[s].depth \in Nat
    BY <1>1, <2>1
  <2>4. TopDepth(n, s) = n[s].depth + 1 /\ Below(n, s) = Inside(n, s)
    BY <1>3 DEF TopDepth, Below
  <2>5. k \in (s + 1)..Len(n) =>
          \A j \in (s + 1)..k : n[j].depth > n[s].depth
                                <=> n[j].depth >= TopDepth(n, s)
    BY <2>3, <2>4
  <2>6. QED
    BY <2>2, <2>4, <2>5
<1>4. QED
  BY <1>2, <1>3

\* No depth is skipped on the way down: a section in scope is, or is inside,
\* a section in scope of any depth from the top to its own.
LEMMA Ancestor ==
    ASSUME NEW n, IsNorm(n), NEW s \in Scopes(n), NEW i \in Below(n, s),
           NEW d \in TopDepth(n, s)..n[i].depth
    PROVE  \E j \in Below(n, s) : n[j].depth = d /\ (j = i \/ i \in Inside(n, j))
<1> DEFINE S == {j \in (s + 1)..i : n[j].depth <= d}
<1>1. /\ Len(n) \in Nat /\ \A m \in 1..Len(n) : n[m].depth \in Nat
      /\ Len(n) >= 1 => n[1].depth = 0
      /\ \A m \in 1..(Len(n) - 1) : n[m + 1].depth <= n[m].depth + 1
  BY NormDepths
<1>2. /\ i \in (s + 1)..Len(n)
      /\ \A j \in (s + 1)..i : n[j].depth >= TopDepth(n, s)
  BY BelowByDepth
<1>3. s \in Nat /\ i \in Nat /\ i \in 1..Len(n) /\ s < i /\ s <= Len(n) - 1
  BY <1>1, <1>2 DEF Scopes
<1>4. TopDepth(n, s) \in Nat
  BY <1>1, <1>3 DEF TopDepth, Scopes
<1>5. n[s + 1].depth <= TopDepth(n, s)
  <2>1. CASE s = 0
    BY <1>1, <1>3, <2>1 DEF TopDepth
  <2>2. CASE s # 0
    <3>1. s \in 1..(Len(n) - 1)
      BY <1>1, <1>3, <2>2
    <3>2. QED
      BY <1>1, <2>2, <3>1 DEF TopDepth
  <2>3. QED
    BY <2>1, <2>2
<1>6. d \in Nat
  BY <1>1, <1>3, <1>4
<1>7. s + 1 \in S
  <2>1. s + 1 \in (s + 1)..i /\ s + 1 \in 1..Len(n)
    BY <1>1, <1>3
  <2>2. n[s + 1].depth \in Nat
    BY <1>1, <2>1
  <2>3. n[s + 1].depth <= d
    BY <1>4, <1>5, <1>6, <2>2
  <2>4. QED
    BY <2>1, <2>3
<1>8. S \in SUBSET Nat /\ \A j \in S : j <= i
  BY <1>3
<1>9. PICK j \in S : \A k \in S : k <= j
  BY <1>3, <1>7, <1>8, GreatestNatural
<1>10. /\ j \in (s + 1)..i /\ j \in 1..Len(n) /\ n[j].depth <= d
       /\ n[j].depth \in Nat
  BY <1>1, <1>3, <1>9
<1>11. \A k \in (j + 1)..i : n[k].depth > d
  <2>1. ASSUME NEW k \in (j + 1)..i
        PROVE  n[k].depth > d
    <3>1. k \in (s + 1)..i /\ k \in 1..Len(n) /\ k > j
      BY <1>1, <1>3, <1>10
    <3>2. k \notin S
      BY <1>9, <1>10, <3>1
    <3>3. n[k].depth \in Nat
      BY <1>1, <3>1
    <3>4. QED
      BY <1>6, <3>1, <3>2, <3>3
  <2>2. QED
    BY <2>1
<1>12. n[j].depth = d
  <2>1. CASE j = i
    BY <1>6, <1>10, <2>1
  <2>2. CASE j # i
    <3>1. j + 1 \in (j + 1)..i /\ j \in 1..(Len(n) - 1) /\ j + 1 \in 1..Len(n)
      BY <1>1, <1>3, <1>10, <2>2
    <3>2. /\ n[j + 1].depth > d /\ n[j + 1].depth <= n[j].depth + 1
          /\ n[j + 1].depth \in Nat
      BY <1>1, <1>11, <3>1
    <3>3. QED
      BY <1>6, <1>10, <3>2
  <2>3. QED
    BY <2>1, <2>2
<1>13. j = i \/ i \in Inside(n, j)
  <2>1. CASE j # i
    <3>1. i \in (j + 1)..Len(n)
      BY <1>1, <1>3, <1>10, <2>1
    <3>2. \A k \in (j + 1)..i : n[k].depth > n[j].depth
      BY <1>11, <1>12
    <3>3. QED
      BY <1>10, <3>1, <3>2, InsideByDepth
  <2>2. QED
    BY <2>1
<1>14. j \in Below(n, s)
  <2>1. j \in (s + 1)..Len(n) /\ \A k \in (s + 1)..j : k \in (s + 1)..i
    BY <1>1, <1>3, <1>10
  <2>2. QED
    BY <1>2, <2>1, BelowByDepth
<1>15. QED
  BY <1>12, <1>13, <1>14

\* What is inside a section in scope is in scope.
LEMMA BelowClosed ==
    ASSUME NEW n, IsNorm(n), NEW s \in Scopes(n), NEW j \in Below(n, s),
           NEW k \in Inside(n, j)
    PROVE  k \in Below(n, s)
<1>1. Len(n) \in Nat /\ \A m \in 1..Len(n) : n[m].depth \in Nat
  BY NormDepths
<1>2. j \in (s + 1)..Len(n) /\ j \in 1..Len(n)
  BY <1>1, BelowByDepth DEF Scopes
<1>3. k \in (j + 1)..Len(n)
  BY <1>2, InsideByDepth
<1>4. CASE s = 0
  BY <1>1, <1>2, <1>3, <1>4 DEF Below
<1>5. CASE s # 0
  <2>1. s \in 1..Len(n) /\ Below(n, s) = Inside(n, s)
    BY <1>1, <1>5 DEF Scopes, Below
  <2>2. QED
    BY <2>1, InsideTransitive
<1>6. QED
  BY <1>4, <1>5

-----------------------------------------------------------------------------
(* Sizes.                                                                  *)

\* A child of a section is inside it.
LEMMA ChildInside ==
    ASSUME NEW n, IsNorm(n), NEW i \in 1..Len(n), NEW c \in Children(n, i)
    PROVE  /\ c \in Inside(n, i) /\ c \in 1..Len(n) /\ c > i
           /\ n[c].depth = n[i].depth + 1
<1>1. Len(n) \in Nat
  BY NormDepths
<1>2. c \in Inside(n, i) /\ n[c].depth = n[i].depth + 1
  BY DEF Children
<1>3. c \in (i + 1)..Len(n)
  BY <1>2, InsideByDepth
<1>4. QED
  BY <1>1, <1>2, <1>3

\* A section and what is inside it.
LEMMA SubtreeOfSection ==
    ASSUME NEW n, IsNorm(n), NEW i \in 1..Len(n)
    PROVE  /\ Subtree(n, i) = {i} \cup Inside(n, i)
           /\ i \notin Inside(n, i)
           /\ Subtree(n, i) \subseteq 1..Len(n)
           /\ IsFiniteSet(Subtree(n, i)) /\ IsFiniteSet(Inside(n, i))
           /\ IsFiniteSet(Children(n, i))
<1>1. Len(n) \in Nat /\ i \in Nat
  BY NormDepths
<1>2. PICK e : e = runEnd(n, i)
  OBVIOUS
<1>3. e \in (i + 1)..(Len(n) + 1)
  BY <1>2, RunEndProperties
<1>4. Subtree(n, i) = i..(e - 1) /\ Inside(n, i) = (i + 1)..(e - 1)
  BY <1>2 DEF Subtree, Inside
<1>5. e \in Int
  BY <1>1, <1>3
<1>6. IsFiniteSet(i..(e - 1)) /\ IsFiniteSet((i + 1)..(e - 1))
  <2>1. i \in Int /\ i + 1 \in Int /\ e - 1 \in Int
    BY <1>1, <1>5
  <2>2. \A a, b \in Int : IsFiniteSet(a..b)
    BY FS_Interval
  <2>3. QED
    BY <2>1, <2>2
<1>7. IsFiniteSet(Children(n, i))
  <2>1. Children(n, i) \in SUBSET Inside(n, i)
    BY DEF Children
  <2>2. QED
    BY <1>4, <1>6, <2>1, FS_Subset
<1>8. QED
  BY <1>1, <1>3, <1>4, <1>6, <1>7

\* What is inside a section falls into the subtrees of its children, each
\* section into one.
LEMMA InsideByChildren ==
    ASSUME NEW n, IsNorm(n), NEW i \in 1..Len(n)
    PROVE  /\ Inside(n, i) = UNION {Subtree(n, c) : c \in Children(n, i)}
           /\ \A c, d \in Children(n, i) :
                 c # d => Subtree(n, c) \cap Subtree(n, d) = {}
<1>1. Len(n) \in Nat /\ \A m \in 1..Len(n) : n[m].depth \in Nat
  BY NormDepths
<1>2. ASSUME NEW k \in Inside(n, i)
      PROVE  \E c \in Children(n, i) : k \in Subtree(n, c)
  <2>1. i \in Scopes(n) /\ i # 0
    BY <1>1 DEF Scopes
  <2>2. Below(n, i) = Inside(n, i) /\ TopDepth(n, i) = n[i].depth + 1
    BY <2>1 DEF Below, TopDepth
  <2>3. /\ k \in (i + 1)..Len(n)
        /\ \A j \in (i + 1)..k : n[j].depth > n[i].depth
    BY InsideByDepth
  <2>4. k \in 1..Len(n) /\ k \in (i + 1)..k
    BY <1>1, <2>3
  <2>5. n[k].depth > n[i].depth /\ n[k].depth \in Nat /\ n[i].depth \in Nat
    BY <1>1, <2>3, <2>4
  <2>6. n[i].depth + 1 \in TopDepth(n, i)..n[k].depth
    BY <2>2, <2>5
  <2>7. PICK c \in Inside(n, i) : /\ n[c].depth = n[i].depth + 1
                                  /\ c = k \/ k \in Inside(n, c)
    BY <2>1, <2>2, <2>6, Ancestor
  <2>8. c \in Children(n, i) /\ c \in 1..Len(n)
    BY <2>7, ChildInside DEF Children
  <2>9. QED
    BY <2>7, <2>8, SubtreeOfSection
<1>3. ASSUME NEW c \in Children(n, i), NEW k \in Subtree(n, c)
      PROVE  k \in Inside(n, i)
  <2>1. c \in Inside(n, i) /\ c \in 1..Len(n)
    BY ChildInside
  <2>2. k = c \/ k \in Inside(n, c)
    BY <2>1, SubtreeOfSection
  <2>3. QED
    BY <2>1, <2>2, InsideTransitive
<1>4. ASSUME NEW c \in Children(n, i), NEW d \in Children(n, i), c < d,
             NEW k \in Subtree(n, c)
      PROVE  k \notin Subtree(n, d)
  <2>1. SUFFICES ASSUME k \in Subtree(n, d)
                 PROVE  FALSE
    OBVIOUS
  <2>2. /\ c \in 1..Len(n) /\ d \in 1..Len(n)
        /\ n[c].depth = n[d].depth
    BY ChildInside
  <2>3. k = c \/ k \in Inside(n, c)
    BY <2>2, SubtreeOfSection
  <2>4. k = d \/ k \in Inside(n, d)
    BY <2>1, <2>2, SubtreeOfSection
  <2>5. k # c
    <3>1. c \notin (d + 1)..Len(n)
      BY <1>1, <1>4, <2>2
    <3>2. c \notin Inside(n, d)
      BY <2>2, <3>1, InsideByDepth
    <3>3. QED
      BY <1>4, <2>2, <2>4, <3>2
  <2>6. d \in Inside(n, c)
    <3>1. CASE k = d
      BY <2>3, <2>5, <3>1
    <3>2. CASE k # d
      BY <1>4, <2>2, <2>3, <2>4, <2>5, <3>2, InsideNested
    <3>3. QED
      BY <3>1, <3>2
  <2>7. /\ d \in (c + 1)..Len(n)
        /\ \A j \in (c + 1)..d : n[j].depth > n[c].depth
    BY <2>2, <2>6, InsideByDepth
  <2>8. d \in (c + 1)..d
    BY <2>2, <2>7
  <2>9. n[d].depth > n[c].depth /\ n[d].depth \in Nat
    BY <1>1, <2>2, <2>7, <2>8
  <2>10. QED
    BY <2>2, <2>9
<1>5. \A c, d \in Children(n, i) :
         c # d => Subtree(n, c) \cap Subtree(n, d) = {}
  <2>1. ASSUME NEW c \in Children(n, i), NEW d \in Children(n, i), c # d
        PROVE  Subtree(n, c) \cap Subtree(n, d) = {}
    <3>1. c \in Nat /\ d \in Nat
      BY <1>1, ChildInside
    <3>2. CASE c < d
      BY <1>4, <3>2
    <3>3. CASE d < c
      BY <1>4, <3>3
    <3>4. QED
      BY <2>1, <3>1, <3>2, <3>3
  <2>2. QED
    BY <2>1
<1>6. QED
  BY <1>2, <1>3, <1>5

\* What a section adds to the length of a rendering at a base depth.
SectionChars(n, base, i) ==
    HeadingChars(n, i, n[i].depth - base) + TextChars(n, i)

Chars(n, base, S) == [i \in S |-> SectionChars(n, base, i)]

\* It is a natural when the section is not above the base.
LEMMA SectionCharsNat ==
    ASSUME NEW n, IsNorm(n), NEW i \in 1..Len(n), NEW base \in Nat,
           base <= n[i].depth
    PROVE  SectionChars(n, base, i) \in Nat
<1>1. n[i] \in Section
  BY DEF IsNorm
<1>2. n[i].depth \in Nat /\ n[i].heading \in Nat /\ n[i].text \in Nat
  BY <1>1 DEF Section
<1>3. PICK d \in Nat : d = n[i].depth - base
  BY <1>2
<1>4. HeadingChars(n, i, d) \in Nat
  BY <1>2 DEF HeadingChars
<1>5. TextChars(n, i) \in Nat
  BY <1>2 DEF TextChars
<1>6. QED
  BY <1>3, <1>4, <1>5 DEF SectionChars

\* No section of a scope is above it.
LEMMA ScopeDepths ==
    ASSUME NEW n, IsNorm(n), NEW s \in Scopes(n)
    PROVE  /\ IsFiniteSet(Scope(n, s))
           /\ Depth(n, s) \in Nat
           /\ \A i \in Scope(n, s) : i \in 1..Len(n) /\ Depth(n, s) <= n[i].depth
<1>1. Len(n) \in Nat /\ \A m \in 1..Len(n) : n[m].depth \in Nat
  BY NormDepths
<1>2. CASE s = 0
  <2>1. Scope(n, s) = 1..Len(n) /\ Depth(n, s) = 0
    BY <1>2 DEF Scope, Depth
  <2>2. IsFiniteSet(1..Len(n))
    BY <1>1, FS_Interval
  <2>3. QED
    BY <1>1, <2>1, <2>2
<1>3. CASE s # 0
  <2>1. s \in 1..Len(n) /\ Scope(n, s) = Subtree(n, s) /\ Depth(n, s) = n[s].depth
    BY <1>1, <1>3 DEF Scope, Scopes, Depth
  <2>2. IsFiniteSet(Subtree(n, s)) /\ Subtree(n, s) \subseteq 1..Len(n)
    BY <2>1, SubtreeOfSection
  <2>3. ASSUME NEW i \in Subtree(n, s)
        PROVE  n[s].depth <= n[i].depth
    <3>1. CASE i = s
      BY <1>1, <2>1, <3>1
    <3>2. CASE i # s
      <4>1. i \in Inside(n, s)
        BY <2>1, <3>2, SubtreeOfSection
      <4>2. /\ i \in (s + 1)..Len(n)
            /\ \A j \in (s + 1)..i : n[j].depth > n[s].depth
        BY <2>1, <4>1, InsideByDepth
      <4>3. i \in (s + 1)..i /\ i \in 1..Len(n)
        BY <1>1, <2>1, <4>2
      <4>4. QED
        BY <1>1, <2>1, <4>2, <4>3
    <3>3. QED
      BY <3>1, <3>2
  <2>4. QED
    BY <1>1, <2>1, <2>2, <2>3
<1>4. QED
  BY <1>2, <1>3

\* ContentCharCount is a sum over its scope.
LEMMA ContentIsTotal ==
    ASSUME NEW n, IsNorm(n), NEW s \in Scopes(n)
    PROVE  ContentCharCount(n, s) =
              Total(Chars(n, Depth(n, s), Scope(n, s)), Scope(n, s))
<1> DEFINE S == Scope(n, s)
           H(i) == HeadingChars(n, i, n[i].depth - Depth(n, s)) + TextChars(n, i)
           f == Chars(n, Depth(n, s), S)
           Step(g) == [t \in SUBSET S |->
                         IF t = {} THEN 0
                         ELSE LET x == CHOOSE y \in t : TRUE
                              IN  H(x) + g[t \ {x}]]
           sum == CHOOSE g : g = Step(g)
<1>1. IsFiniteSet(S)
  BY ScopeDepths
<1>2. \A i \in S : f[i] = H(i)
  BY DEF Chars, SectionChars
<1>3. ContentCharCount(n, s) = sum[S]
  BY DEF ContentCharCount, MapThenSumSet, MapThenFoldSet
<1> HIDE DEF S, H, f
<1>4. ASSUME NEW g
      PROVE  g = Step(g) <=> Sums(g, f, S)
  <2>1. ASSUME NEW t \in SUBSET S
        PROVE  (IF t = {} THEN 0
                ELSE LET x == CHOOSE y \in t : TRUE IN H(x) + g[t \ {x}])
               = IF t = {} THEN 0
                 ELSE LET x == Taken(t) IN f[x] + g[t \ {x}]
    <3>1. CASE t = {}
      BY <3>1
    <3>2. CASE t # {}
      <4>1. Taken(t) \in S /\ Taken(t) = CHOOSE y \in t : TRUE
        BY <3>2 DEF Taken
      <4>2. f[Taken(t)] = H(Taken(t))
        BY <1>2, <4>1
      <4>3. QED
        BY <3>2, <4>1, <4>2
    <3>3. QED
      BY <3>1, <3>2
  <2>2. Step(g) = [t \in SUBSET S |->
                     IF t = {} THEN 0
                     ELSE LET x == Taken(t) IN f[x] + g[t \ {x}]]
    BY <2>1
  <2>3. QED
    BY <2>2 DEF Sums
<1>5. PICK k : Sums(k, f, S)
  BY <1>1, SumsExist
<1>6. Sums(sum, f, S)
  <2> HIDE DEF Step
  <2>1. k = Step(k)
    BY <1>4, <1>5
  <2>2. sum = Step(sum)
    BY <2>1
  <2>3. QED
    BY <1>4, <2>2
<1> HIDE DEF sum
<1>7. sum[S] = Total(f, S)
  BY <1>1, <1>6, SumsTotal
<1>8. QED
  BY <1>3, <1>7 DEF S, f

\* A subtree's length is that of its root and those of its children's.
LEMMA TotalOfSubtree ==
    ASSUME NEW n, IsNorm(n), NEW i \in 1..Len(n), NEW w, NEW g,
           \A k \in Subtree(n, i) : w[k] \in Nat,
           \A c \in Children(n, i) : g[c] = Total(w, Subtree(n, c))
    PROVE  /\ Total(w, Subtree(n, i)) = w[i] + Total(g, Children(n, i))
           /\ \A c \in Children(n, i) : g[c] \in Nat
<1> DEFINE C == Children(n, i)
           D == [c \in C |-> Subtree(n, c)]
<1>1. /\ Subtree(n, i) = {i} \cup Inside(n, i) /\ i \notin Inside(n, i)
      /\ IsFiniteSet(Subtree(n, i)) /\ IsFiniteSet(C)
  BY SubtreeOfSection
<1>2. Total(w, Subtree(n, i)) = w[i] + Total(w, Inside(n, i))
  <2>1. Subtree(n, i) \ {i} = Inside(n, i) /\ i \in Subtree(n, i)
    BY <1>1
  <2>2. QED
    BY <1>1, <2>1, TotalRemove
<1>3. Splits(Inside(n, i), D, C)
  BY InsideByChildren DEF Splits
<1>4. \A c \in C : /\ IsFiniteSet(D[c])
                   /\ g[c] = Total(w, D[c])
                   /\ \A x \in D[c] : w[x] \in Nat
  <2>1. ASSUME NEW c \in C
        PROVE  /\ IsFiniteSet(Subtree(n, c))
               /\ \A x \in Subtree(n, c) : w[x] \in Nat
    <3>1. c \in 1..Len(n)
      BY ChildInside
    <3>2. Subtree(n, c) \subseteq Inside(n, i)
      BY <1>3 DEF Splits
    <3>3. QED
      BY <1>1, <3>1, <3>2, SubtreeOfSection
  <2>2. QED
    BY <2>1
<1> HIDE DEF C, D
<1>5. Total(w, Inside(n, i)) = Total(g, C)
  BY <1>1, <1>3, <1>4, TotalOfFamily
<1>6. \A c \in C : g[c] \in Nat
  BY <1>4, TotalNat
<1>7. QED
  BY <1>2, <1>5, <1>6 DEF C

\* The size a table of contents gives for a section, computed from its
\* children's, is the length of its content, counted section by section:
\* what the code keeps "in sync" by hand.
THEOREM SizesAgree ==
    ASSUME NEW n, IsNorm(n), NEW i \in 1..Len(n)
    PROVE  subtreeSize(n, i) = ContentCharCount(n, i)
<1> DEFINE S == Subtree(n, i)
           H(j) == HeadingChars(n, j, n[j].depth - n[i].depth) + TextChars(n, j)
           w == Chars(n, n[i].depth, S)
           Step(f) == [j \in S |->
                         H(j) + MapThenSumSet(LAMBDA c : f[c], Children(n, j))]
           size == CHOOSE f : f = Step(f)
           g == [j \in S |-> Total(w, Subtree(n, j))]
<1>1. Len(n) \in Nat /\ i \in Nat /\ i # 0 /\ i \in Scopes(n)
  BY NormDepths DEF Scopes
<1>2. Scope(n, i) = S /\ Depth(n, i) = n[i].depth
  BY <1>1 DEF Scope, Depth
<1>3. ContentCharCount(n, i) = Total(w, S)
  BY <1>1, <1>2, ContentIsTotal
<1>4. subtreeSize(n, i) = size[i]
  BY DEF subtreeSize
<1>5. ASSUME NEW f
      PROVE  Step(f) = [j \in S |-> w[j] + Total(f, Children(n, j))]
  <2>1. \A j \in S : w[j] = H(j)
    BY DEF Chars, SectionChars
  <2>2. ASSUME NEW j
        PROVE  MapThenSumSet(LAMBDA c : f[c], Children(n, j)) =
               Total(f, Children(n, j))
    BY DEF Total
  <2>3. Step(f) = [j \in S |-> H(j) + Total(f, Children(n, j))]
    BY <2>2
  <2> HIDE DEF w, Step, S, H
  <2>4. QED
    BY <2>1, <2>3
<1>6. IsFiniteSet(S) /\ i \in S /\ S \subseteq 1..Len(n)
  BY SubtreeOfSection
<1>7. ASSUME NEW j \in S
      PROVE  Subtree(n, j) \subseteq S /\ Children(n, j) \subseteq S \ {j}
  <2>1. j = i \/ j \in Inside(n, i)
    BY SubtreeOfSection
  <2>2. j \in 1..Len(n)
    BY <1>6
  <2>3. \A k \in Inside(n, j) : k \in Inside(n, i)
    BY <2>1, InsideTransitive
  <2>4. Subtree(n, j) \subseteq S
    BY <2>1, <2>2, <2>3, SubtreeOfSection
  <2>5. \A c \in Children(n, j) : c \in Inside(n, j)
    BY <2>2, ChildInside
  <2>6. QED
    BY <2>2, <2>4, <2>5, SubtreeOfSection
<1>8. \A j \in S : w[j] \in Nat
  <2>1. ASSUME NEW j \in S
        PROVE  w[j] \in Nat
    <3>1. w[j] = SectionChars(n, n[i].depth, j)
      BY DEF Chars
    <3>2. n[i].depth \in Nat /\ n[i].depth <= n[j].depth /\ j \in 1..Len(n)
      BY <1>1, <1>2, ScopeDepths
    <3>3. QED
      BY <3>1, <3>2, SectionCharsNat
  <2>2. QED
    BY <2>1
<1> HIDE DEF S, w, H, Step
<1>9. ASSUME NEW j \in S
      PROVE  /\ g[j] = w[j] + Total(g, Children(n, j))
             /\ \A c \in Children(n, j) : g[c] \in Nat
  <2>1. j \in 1..Len(n) /\ \A k \in Subtree(n, j) : w[k] \in Nat
    BY <1>6, <1>7, <1>8
  <2>2. \A c \in Children(n, j) : g[c] = Total(w, Subtree(n, c))
    BY <1>7
  <2>3. g[j] = Total(w, Subtree(n, j))
    OBVIOUS
  <2> HIDE DEF g
  <2>4. QED
    BY <2>1, <2>2, <2>3, TotalOfSubtree
<1>10. size = [j \in S |-> w[j] + Total(size, Children(n, j))]
  <2>1. g = [j \in S |-> w[j] + Total(g, Children(n, j))]
    <3>1. PICK k : k = g
      OBVIOUS
    <3>2. k = [j \in S |-> k[j]]
      BY <3>1
    <3>3. k = [j \in S |-> w[j] + Total(k, Children(n, j))]
      BY <1>9, <3>1, <3>2
    <3>4. QED
      BY <3>1, <3>3
  <2> HIDE DEF g
  <2>2. g = Step(g)
    BY <1>5, <2>1
  <2>3. size = Step(size)
    BY <2>2
  <2>4. QED
    BY <1>5, <2>3
<1> HIDE DEF size
<1>11. ASSUME NEW j \in S, \A k \in S : k > j => size[k] = g[k]
       PROVE  size[j] = g[j]
  <2>1. size[j] = w[j] + Total(size, Children(n, j))
    BY <1>10
  <2>2. j \in 1..Len(n)
    BY <1>6
  <2>3. \A c \in Children(n, j) : g[c] \in Nat /\ size[c] = g[c]
    <3>1. ASSUME NEW c \in Children(n, j)
          PROVE  size[c] = g[c]
      <4>1. c \in S /\ c > j
        BY <1>7, <2>2, ChildInside
      <4>2. QED
        BY <1>11, <4>1
    <3>2. QED
      BY <1>9, <3>1
  <2>4. IsFiniteSet(Children(n, j))
    BY <2>2, SubtreeOfSection
  <2> HIDE DEF g
  <2>5. Total(size, Children(n, j)) = Total(g, Children(n, j))
    BY <2>3, <2>4, TotalSame
  <2>6. QED
    BY <1>9, <2>1, <2>5
<1>12. \A j \in S : size[j] = g[j]
  <2> DEFINE F == {j \in S : size[j] # g[j]}
  <2>1. SUFFICES ASSUME F # {}
                 PROVE  FALSE
    OBVIOUS
  <2>2. F \in SUBSET Nat /\ \A j \in F : j <= Len(n)
    <3>1. \A j \in S : j \in Nat /\ j <= Len(n)
      BY <1>1, <1>6
    <3>2. QED
      BY <3>1
  <2>3. PICK j \in F : \A k \in F : k <= j
    BY <1>1, <2>1, <2>2, GreatestNatural
  <2>4. \A k \in S : k > j => size[k] = g[k]
    <3>1. ASSUME NEW k \in S, k > j, k \in F
          PROVE  FALSE
      <4>1. k <= j /\ k \in Nat /\ j \in Nat
        BY <2>2, <2>3, <3>1
      <4>2. QED
        BY <3>1, <4>1
    <3>2. QED
      BY <3>1
  <2>5. QED
    BY <1>11, <2>3, <2>4
<1>13. size[i] = Total(w, S)
  BY <1>6, <1>12 DEF S
<1>14. QED
  BY <1>3, <1>4, <1>13

\* The rendering of a scope, added up block by block as it is written, has the
\* length that is counted without building it.
LEMMA RenderedSize ==
    ASSUME NEW n, IsNorm(n), NEW s \in Scopes(n)
    PROVE  /\ {p.id : p \in renderBlocks(n, s)} = Scope(n, s)
           /\ ContentCharCount(n, s) =
                MapThenSumSet(
                   LAMBDA p : HeadingChars(n, p.id, p.depth)
                              + (IF p.text THEN n[p.id].text + 2 ELSE 0),
                   renderBlocks(n, s))
<1> DEFINE S == Scope(n, s)
           B == renderBlocks(n, s)
           K(p) == HeadingChars(n, p.id, p.depth)
                   + (IF p.text THEN n[p.id].text + 2 ELSE 0)
           k == [p \in B |-> K(p)]
           f == Chars(n, Depth(n, s), S)
           r == [i \in S |-> [id |-> i, depth |-> n[i].depth - Depth(n, s),
                              text |-> IsLeaf(n, i)]]
           Step(g) == [t \in SUBSET B |->
                         IF t = {} THEN 0
                         ELSE LET x == CHOOSE y \in t : TRUE
                              IN  K(x) + g[t \ {x}]]
           sum == CHOOSE g : g = Step(g)
<1>1. B = {r[i] : i \in S} /\ \A i \in S : r[i].id = i
  BY DEF renderBlocks
<1>2. {p.id : p \in B} = S
  <2>1. \A p \in B : p.id \in S
    BY <1>1
  <2>2. ASSUME NEW i \in S
        PROVE  \E p \in B : p.id = i
    <3>1. r[i] \in B /\ r[i].id = i
      BY <1>1
    <3>2. QED
      BY <3>1
  <2>3. QED
    BY <2>1, <2>2
<1>3. MapThenSumSet(K, B) = sum[B]
  BY DEF MapThenSumSet, MapThenFoldSet
<1>4. IsFiniteSet(S) /\ \A i \in S : f[i] \in Nat
  <2>1. ASSUME NEW i \in S
        PROVE  f[i] \in Nat
    <3>1. f[i] = SectionChars(n, Depth(n, s), i)
      BY DEF Chars
    <3>2. Depth(n, s) \in Nat /\ Depth(n, s) <= n[i].depth /\ i \in 1..Len(n)
      BY ScopeDepths
    <3>3. QED
      BY <3>1, <3>2, SectionCharsNat
  <2>2. QED
    BY <2>1, ScopeDepths
<1>5. ASSUME NEW i \in S
      PROVE  k[r[i]] = f[i]
  <2>1. r[i] \in B
    BY <1>1
  <2>2. k[r[i]] = K(r[i])
    BY <2>1
  <2>3. r[i] = [id |-> i, depth |-> n[i].depth - Depth(n, s),
                text |-> IsLeaf(n, i)]
    OBVIOUS
  <2>4. K(r[i]) = HeadingChars(n, i, n[i].depth - Depth(n, s))
                  + (IF IsLeaf(n, i) THEN n[i].text + 2 ELSE 0)
    BY <2>3
  <2>5. f[i] = HeadingChars(n, i, n[i].depth - Depth(n, s)) + TextChars(n, i)
    BY DEF Chars, SectionChars
  <2>6. QED
    BY <2>2, <2>4, <2>5 DEF TextChars
<1>6. \A i, j \in S : r[i] = r[j] => i = j
  BY <1>1
<1> HIDE DEF S, B, K, f, r
<1>7. IsFiniteSet(B) /\ Total(k, B) = Total(f, S)
  <2> HIDE DEF k
  <2>1. QED
    BY <1>1, <1>4, <1>5, <1>6, TotalMapped
<1>8. ASSUME NEW g
      PROVE  g = Step(g) <=> Sums(g, k, B)
  <2>1. ASSUME NEW t \in SUBSET B
        PROVE  (IF t = {} THEN 0
                ELSE LET x == CHOOSE y \in t : TRUE IN K(x) + g[t \ {x}])
               = IF t = {} THEN 0
                 ELSE LET x == Taken(t) IN k[x] + g[t \ {x}]
    <3>1. CASE t = {}
      BY <3>1
    <3>2. CASE t # {}
      <4>1. Taken(t) \in B /\ Taken(t) = CHOOSE y \in t : TRUE
        BY <3>2 DEF Taken
      <4>2. k[Taken(t)] = K(Taken(t))
        BY <4>1
      <4>3. QED
        BY <3>2, <4>1, <4>2
    <3>3. QED
      BY <3>1, <3>2
  <2>2. Step(g) = [t \in SUBSET B |->
                     IF t = {} THEN 0
                     ELSE LET x == Taken(t) IN k[x] + g[t \ {x}]]
    BY <2>1
  <2>3. QED
    BY <2>2 DEF Sums
<1>9. Sums(sum, k, B)
  <2> HIDE DEF Step, k
  <2>1. PICK h : Sums(h, k, B)
    BY <1>7, SumsExist
  <2>2. h = Step(h)
    BY <1>8, <2>1
  <2>3. sum = Step(sum)
    BY <2>2
  <2>4. QED
    BY <1>8, <2>3
<1>10. sum[B] = Total(k, B)
  <2> HIDE DEF sum, k
  <2>1. QED
    BY <1>7, <1>9, SumsTotal
<1>11. ContentCharCount(n, s) = Total(f, S)
  BY ContentIsTotal DEF f, S
<1>12. QED
  BY <1>2, <1>3, <1>7, <1>10, <1>11 DEF S, B, K

\* The sizes stated are naturals.
LEMMA SizesNat ==
    ASSUME NEW n, IsNorm(n), NEW s \in Scopes(n)
    PROVE  /\ ContentCharCount(n, s) \in Nat
           /\ s # 0 => subtreeSize(n, s) \in Nat
           /\ countArticleParts(n, s) \in Nat
<1> DEFINE S == Scope(n, s)
           f == Chars(n, Depth(n, s), S)
<1>1. IsFiniteSet(S)
  BY ScopeDepths
<1>2. ASSUME NEW i \in S
      PROVE  f[i] \in Nat
  <2>1. f[i] = SectionChars(n, Depth(n, s), i)
    BY DEF Chars
  <2>2. Depth(n, s) \in Nat /\ Depth(n, s) <= n[i].depth /\ i \in 1..Len(n)
    BY ScopeDepths
  <2>3. QED
    BY <2>1, <2>2, SectionCharsNat
<1>3. ContentCharCount(n, s) = Total(f, S)
  BY ContentIsTotal
<1>4. countArticleParts(n, s) = Cardinality(Articles(n, S))
  BY DEF countArticleParts
<1>5. Articles(n, S) \in SUBSET S
  BY DEF Articles
<1> HIDE DEF S, f
<1>6. ContentCharCount(n, s) \in Nat
  BY <1>1, <1>2, <1>3, TotalNat
<1>7. countArticleParts(n, s) \in Nat
  BY <1>1, <1>4, <1>5, FS_Subset, FS_CardinalityType
<1>8. s # 0 => s \in 1..Len(n)
  BY NormDepths DEF Scopes
<1>9. QED
  BY <1>6, <1>7, <1>8, SizesAgree

\* A section has the articles inside it, and may be one itself.
LEMMA ArticlesOfSection ==
    ASSUME NEW n, IsNorm(n), NEW i \in 1..Len(n)
    PROVE  /\ IsFiniteSet(Articles(n, Inside(n, i)))
           /\ Cardinality(Articles(n, Inside(n, i))) \in Nat
           /\ countArticleParts(n, i)
                - Cardinality(Articles(n, Inside(n, i))) \in {0, 1}
<1>1. /\ Subtree(n, i) = {i} \cup Inside(n, i) /\ i \notin Inside(n, i)
      /\ IsFiniteSet(Inside(n, i))
  BY SubtreeOfSection
<1>2. i \in Nat /\ i # 0
  BY NormDepths
<1>3. PICK A : A = Articles(n, Inside(n, i))
  OBVIOUS
<1>4. A \in SUBSET Inside(n, i) /\ i \notin A
  BY <1>1, <1>3 DEF Articles
<1>5. IsFiniteSet(A) /\ Cardinality(A) \in Nat
  BY <1>1, <1>4, FS_Subset, FS_CardinalityType
<1>6. PICK B : B = Articles(n, Scope(n, i))
  OBVIOUS
<1>7. B = A \/ B = A \cup {i}
  BY <1>1, <1>2, <1>3, <1>6 DEF Articles, Scope
<1>8. Cardinality(A \cup {i}) = Cardinality(A) + 1
  BY <1>4, <1>5, FS_AddElement
<1>9. countArticleParts(n, i) = Cardinality(B)
  BY <1>6 DEF countArticleParts
<1>10. Cardinality(B) - Cardinality(A) \in {0, 1}
  <2>1. CASE B = A
    BY <1>5, <2>1
  <2>2. CASE B = A \cup {i}
    BY <1>5, <1>8, <2>2
  <2>3. QED
    BY <1>7, <2>1, <2>2
<1>11. QED
  BY <1>3, <1>5, <1>9, <1>10

-----------------------------------------------------------------------------
(* Tables of contents.                                                     *)

\* The plan behind the table of contents of s.
PlanOf(n, s) == Fitting(n, Below(n, s), TopDepth(n, s))

\* A plan shows sections of the scope.
LEMMA PlanShowsScope ==
    ASSUME NEW n, NEW s
    PROVE  /\ PlanOf(n, s).shown \subseteq Below(n, s)
           /\ \/ PlanOf(n, s) = foldNode(n, Below(n, s))
              \/ PlanOf(n, s) = compactNode(n, Below(n, s), TopDepth(n, s))
              \/ PlanOf(n, s) = topLine(n, Below(n, s), TopDepth(n, s))
BY DEF PlanOf, Fitting, foldNode, compactNode, topLine

\* Whatever the plan, a section of the scope is shown, or it is inside one
\* that is shown with a range: "each level keeps every section id reachable".
LEMMA PlanCovers ==
    ASSUME NEW n, IsNorm(n), NEW s \in Scopes(n), NEW i \in Below(n, s),
           i \notin PlanOf(n, s).shown
    PROVE  \E a \in PlanOf(n, s).shown \cap PlanOf(n, s).ranged :
              i \in Inside(n, a)
<1> DEFINE S == Below(n, s)
           base == TopDepth(n, s)
<1>1. Len(n) \in Nat /\ \A m \in 1..Len(n) : n[m].depth \in Nat
  BY NormDepths
<1>2. \A j \in S : j \in 1..Len(n) /\ n[j].depth >= base
  <2>1. ASSUME NEW j \in S
        PROVE  j \in 1..Len(n) /\ n[j].depth >= base
    <3>1. /\ j \in (s + 1)..Len(n)
          /\ \A k \in (s + 1)..j : n[k].depth >= base
      BY BelowByDepth
    <3>2. j \in (s + 1)..j /\ j \in 1..Len(n)
      BY <1>1, <3>1 DEF Scopes
    <3>3. QED
      BY <3>1, <3>2
  <2>2. QED
    BY <2>1
<1>3. base \in Nat
  BY <1>1 DEF TopDepth, Scopes
<1>4. CASE PlanOf(n, s) = foldNode(n, S)
  <2> DEFINE C == {a \in Collapsed(n, S) : i \in Inside(n, a)}
  <2>1. C \in SUBSET Nat /\ C # {}
    BY <1>2, <1>4 DEF foldNode, Collapsed
  <2>2. PICK a \in C : \A b \in C : a <= b
    BY <2>1, LeastNatural
  <2>3. a \in S /\ a \in 1..Len(n) /\ a \in Collapsed(n, S)
    BY <1>2, <2>2 DEF Collapsed
  <2>4. ASSUME NEW b \in Collapsed(n, S)
        PROVE  a \notin Inside(n, b)
    <3>1. SUFFICES ASSUME a \in Inside(n, b)
                   PROVE  FALSE
      OBVIOUS
    <3>2. b \in 1..Len(n)
      BY <1>2 DEF Collapsed
    <3>3. i \in Inside(n, b)
      BY <2>2, <3>1, <3>2, InsideTransitive
    <3>4. a <= b
      BY <2>2, <3>3
    <3>5. a \in (b + 1)..Len(n)
      BY <3>1, <3>2, InsideByDepth
    <3>6. QED
      BY <1>1, <2>3, <3>2, <3>4, <3>5
  <2>5. QED
    BY <1>4, <2>2, <2>3, <2>4 DEF foldNode
<1>5. CASE PlanOf(n, s) = compactNode(n, S, base)
  <2>1. n[i].depth # base /\ n[i].depth # base + 1
    BY <1>5 DEF compactNode
  <2>2. base + 1 \in base..n[i].depth
    BY <1>1, <1>2, <1>3, <2>1
  <2>3. PICK a \in S : n[a].depth = base + 1 /\ (a = i \/ i \in Inside(n, a))
    BY <2>2, Ancestor
  <2>4. QED
    BY <1>5, <2>1, <2>3 DEF compactNode
<1>6. CASE PlanOf(n, s) = topLine(n, S, base)
  <2>1. n[i].depth # base
    BY <1>6 DEF topLine
  <2>2. base \in base..n[i].depth
    BY <1>1, <1>2, <1>3
  <2>3. PICK a \in S : n[a].depth = base /\ (a = i \/ i \in Inside(n, a))
    BY <2>2, Ancestor
  <2>4. QED
    BY <1>6, <2>1, <2>3 DEF topLine
<1>7. QED
  BY <1>4, <1>5, <1>6, PlanShowsScope

\* Sections shown with a range have nothing in common: a number of an article
\* is in one range at most.
LEMMA RangesDisjoint ==
    ASSUME NEW n, IsNorm(n), NEW s \in Scopes(n),
           NEW a \in PlanOf(n, s).shown, a \in PlanOf(n, s).ranged,
           NEW b \in PlanOf(n, s).shown, b \in PlanOf(n, s).ranged,
           NEW i, i \in Inside(n, a), i \in Inside(n, b)
    PROVE  a = b
<1> DEFINE S == Below(n, s)
           base == TopDepth(n, s)
<1>1. Len(n) \in Nat /\ \A m \in 1..Len(n) : n[m].depth \in Nat
  BY NormDepths
<1>2. \A c \in PlanOf(n, s).shown : c \in S /\ c \in 1..Len(n)
  BY <1>1, PlanShowsScope, BelowByDepth DEF Scopes
<1>3. ASSUME NEW c \in PlanOf(n, s).shown, c \in PlanOf(n, s).ranged,
             NEW d \in PlanOf(n, s).shown, d \in PlanOf(n, s).ranged
      PROVE  d \notin Inside(n, c)
  <2>1. SUFFICES ASSUME d \in Inside(n, c)
                 PROVE  FALSE
    OBVIOUS
  <2>2. c \in 1..Len(n) /\ d \in 1..Len(n)
    BY <1>2, <1>3
  <2>3. n[d].depth > n[c].depth
    <3>1. /\ d \in (c + 1)..Len(n)
          /\ \A j \in (c + 1)..d : n[j].depth > n[c].depth
      BY <2>1, <2>2, InsideByDepth
    <3>2. d \in (c + 1)..d
      BY <2>2, <3>1
    <3>3. QED
      BY <3>1, <3>2
  <2>4. n[d].depth \in Nat /\ n[c].depth \in Nat
    BY <1>1, <2>2
  <2>5. CASE PlanOf(n, s) = foldNode(n, S)
    BY <1>3, <2>1, <2>5 DEF foldNode
  <2>6. CASE PlanOf(n, s) = compactNode(n, S, base)
    BY <1>3, <2>3, <2>4, <2>6 DEF compactNode
  <2>7. CASE PlanOf(n, s) = topLine(n, S, base)
    BY <1>3, <2>3, <2>4, <2>7 DEF topLine
  <2>8. QED
    BY <2>5, <2>6, <2>7, PlanShowsScope
<1>4. a \in 1..Len(n) /\ b \in 1..Len(n)
  BY <1>2
<1>5. CASE a < b
  BY <1>3, <1>4, <1>5, InsideNested
<1>6. CASE b < a
  BY <1>3, <1>4, <1>6, InsideNested
<1>7. QED
  BY <1>4, <1>5, <1>6

\* The range of a line runs from the first to the last article inside its
\* section: every number of an article there is in it, and every number of it
\* is inside the section.
LEMMA RangeOfLine ==
    ASSUME NEW n, IsNorm(n), NEW a \in 1..Len(n),
           Articles(n, Inside(n, a)) # {}
    PROVE  LET l == RangedLine(n, a) IN
           /\ l.id = a
           /\ l.first \in Articles(n, Inside(n, a))
           /\ l.last \in Articles(n, Inside(n, a))
           /\ \A i \in Articles(n, Inside(n, a)) : l.first <= i /\ i <= l.last
           /\ \A i \in Nat : l.first <= i /\ i <= l.last => i \in Inside(n, a)
<1> DEFINE arts == Articles(n, Inside(n, a))
<1>1. Len(n) \in Nat
  BY NormDepths
<1>2. runEnd(n, a) \in (a + 1)..(Len(n) + 1)
  BY RunEndProperties
<1>3. PICK e : e = runEnd(n, a)
  OBVIOUS
<1>4. Inside(n, a) = (a + 1)..(e - 1) /\ e \in Nat
  BY <1>1, <1>2, <1>3 DEF Inside
<1>5. arts \subseteq (a + 1)..(e - 1)
  BY <1>4 DEF Articles
<1> HIDE DEF arts
<1>6. arts \in SUBSET Nat /\ arts # {} /\ \A i \in arts : i <= e
  BY <1>4, <1>5 DEF arts
<1>7. \E m \in arts : \A i \in arts : m <= i
  BY <1>6, LeastNatural
<1>8. \E m \in arts : \A i \in arts : i <= m
  BY <1>4, <1>6, GreatestNatural
<1>9. Min(arts) \in arts /\ \A i \in arts : Min(arts) <= i
  BY <1>7 DEF Min
<1>10. Max(arts) \in arts /\ \A i \in arts : i <= Max(arts)
  <2>1. \E m \in arts : \A i \in arts : m >= i
    BY <1>6, <1>8
  <2>2. Max(arts) \in arts /\ \A i \in arts : Max(arts) >= i
    BY <2>1 DEF Max
  <2>3. QED
    BY <1>6, <2>2
<1>11. PICK l : l = RangedLine(n, a)
  OBVIOUS
<1>12. l.id = a /\ l.first = Min(arts) /\ l.last = Max(arts)
  BY <1>6, <1>11 DEF RangedLine, arts
<1>13. \A i \in Nat : Min(arts) <= i /\ i <= Max(arts) => i \in (a + 1)..(e - 1)
  <2>1. PICK lo, hi : lo = Min(arts) /\ hi = Max(arts)
    OBVIOUS
  <2>2. lo \in (a + 1)..(e - 1) /\ hi \in (a + 1)..(e - 1)
    BY <1>5, <1>9, <1>10, <2>1
  <2>3. \A i \in Nat : lo <= i /\ i <= hi => i \in (a + 1)..(e - 1)
    BY <1>4, <2>2
  <2>4. QED
    BY <2>1, <2>3
<1>14. QED
  BY <1>4, <1>9, <1>10, <1>11, <1>12, <1>13 DEF arts

\* A line without a range contains no number.
LEMMA LineWithoutRange ==
    ASSUME NEW n, NEW a
    PROVE  /\ PlainLine(n, a).id = a
           /\ PlainLine(n, a).first = 0
           /\ PlainLine(n, a).last = 0
           /\ Articles(n, Inside(n, a)) = {} => RangedLine(n, a) = PlainLine(n, a)
           /\ RangedLine(n, a).id = a
BY DEF PlainLine, RangedLine

\* The lines of a table of contents.
LEMMA LinesOfTOC ==
    ASSUME NEW n, NEW s
    PROVE  TOC(n, s) = {IF i \in PlanOf(n, s).ranged THEN RangedLine(n, i)
                        ELSE PlainLine(n, i) : i \in PlanOf(n, s).shown}
BY DEF TOC, renderTOCBounded, PlanOf, TopDepth

\* An article in scope is listed, or it is in the range of one line, and
\* inside the section of that line.
LEMMA TOCLocates ==
    ASSUME NEW n, IsNorm(n), NEW s \in Scopes(n),
           NEW i \in Articles(n, Below(n, s))
    PROVE  \/ \E l \in TOC(n, s) : l.id = i
           \/ \E l \in TOC(n, s) :
                 /\ l.first <= i /\ i <= l.last
                 /\ i \in Inside(n, l.id)
                 /\ \A m \in TOC(n, s) : m.first <= i /\ i <= m.last => m = l
<1> DEFINE shown == PlanOf(n, s).shown
           ranged == PlanOf(n, s).ranged
           line(j) == IF j \in ranged THEN RangedLine(n, j) ELSE PlainLine(n, j)
<1>1. Len(n) \in Nat
  BY NormDepths
<1>2. TOC(n, s) = {line(j) : j \in shown}
  BY LinesOfTOC
<1>3. i \in Below(n, s) /\ n[i].article
  BY DEF Articles
<1>4. \A j \in Below(n, s) : j \in 1..Len(n)
  BY <1>1, BelowByDepth DEF Scopes
<1>5. shown \subseteq Below(n, s)
  BY PlanShowsScope
<1>6. i \in Nat /\ i >= 1
  BY <1>1, <1>3, <1>4
<1>7. CASE i \in shown
  <2>1. line(i) \in TOC(n, s)
    BY <1>2, <1>7
  <2>2. line(i).id = i
    BY LineWithoutRange
  <2>3. QED
    BY <2>1, <2>2
<1>8. CASE i \notin shown
  <2>1. PICK a \in shown \cap ranged : i \in Inside(n, a)
    BY <1>3, <1>8, PlanCovers
  <2>2. a \in 1..Len(n)
    BY <1>4, <1>5
  <2>3. i \in Articles(n, Inside(n, a))
    BY <1>3, <2>1 DEF Articles
  <2>4. /\ RangedLine(n, a).id = a
        /\ RangedLine(n, a).first <= i /\ i <= RangedLine(n, a).last
    BY <2>2, <2>3, RangeOfLine
  <2>5. RangedLine(n, a) \in TOC(n, s)
    <3>1. line(a) = RangedLine(n, a) /\ a \in shown
      BY <2>1
    <3>2. QED
      BY <1>2, <3>1
  <2>6. ASSUME NEW m \in TOC(n, s), m.first <= i, i <= m.last
        PROVE  m = RangedLine(n, a)
    <3>1. PICK b \in shown : m = line(b)
      BY <1>2
    <3>2. b \in 1..Len(n)
      BY <1>4, <1>5
    <3>3. m # PlainLine(n, b)
      BY <1>6, <2>6, LineWithoutRange
    <3>4. b \in ranged /\ m = RangedLine(n, b)
      BY <3>1, <3>3
    <3>5. Articles(n, Inside(n, b)) # {}
      BY <3>3, <3>4, LineWithoutRange
    <3>6. i \in Inside(n, b)
      BY <1>6, <2>6, <3>2, <3>4, <3>5, RangeOfLine
    <3>7. a = b
      BY <2>1, <3>4, <3>6, RangesDisjoint
    <3>8. QED
      BY <3>4, <3>7
  <2>7. QED
    BY <2>1, <2>4, <2>5, <2>6
<1>9. QED
  BY <1>7, <1>8

\* A section in scope is shown, or it is inside one that is.
LEMMA TOCReaches ==
    ASSUME NEW n, IsNorm(n), NEW s \in Scopes(n), NEW i \in Below(n, s)
    PROVE  \E l \in TOC(n, s) : /\ l.id \in Below(n, s)
                                /\ i = l.id \/ i \in Inside(n, l.id)
<1> DEFINE shown == PlanOf(n, s).shown
           ranged == PlanOf(n, s).ranged
           line(j) == IF j \in ranged THEN RangedLine(n, j) ELSE PlainLine(n, j)
<1>1. TOC(n, s) = {line(j) : j \in shown}
  BY LinesOfTOC
<1>2. PICK a \in shown : i = a \/ i \in Inside(n, a)
  BY PlanCovers
<1>3. line(a) \in TOC(n, s) /\ line(a).id = a
  BY <1>1, <1>2, LineWithoutRange
<1>4. a \in Below(n, s)
  BY PlanShowsScope
<1>5. QED
  BY <1>2, <1>3, <1>4

\* A table of contents names sections of the norm, after the one it is of.
LEMMA TOCNamesSections ==
    ASSUME NEW n, IsNorm(n), NEW s \in Scopes(n), NEW l \in TOC(n, s)
    PROVE  l.id \in 1..Len(n) /\ l.id > s
<1>1. Len(n) \in Nat
  BY NormDepths
<1>2. PICK j \in PlanOf(n, s).shown :
         l = IF j \in PlanOf(n, s).ranged THEN RangedLine(n, j)
             ELSE PlainLine(n, j)
  BY LinesOfTOC
<1>3. l.id = j
  BY <1>2, LineWithoutRange
<1>4. j \in (s + 1)..Len(n)
  BY PlanShowsScope, BelowByDepth
<1>5. QED
  BY <1>1, <1>3, <1>4 DEF Scopes

\* What a line states: the length of the content of its section, and of the
\* articles inside it the number, the first and the last.
LEMMA LineStates ==
    ASSUME NEW n, IsNorm(n), NEW s \in Scopes(n), NEW l \in TOC(n, s)
    PROVE  /\ l \in Line
           /\ l.size = ContentCharCount(n, l.id)
           /\ l.arts # 0 =>
                LET arts == Articles(n, Inside(n, l.id)) IN
                /\ l.arts = Cardinality(arts)
                /\ l.first \in arts /\ l.last \in arts
                /\ \A i \in arts : l.first <= i /\ i <= l.last
<1> DEFINE arts == Articles(n, Inside(n, l.id))
<1>1. l.id \in 1..Len(n) /\ Len(n) \in Nat
  BY NormDepths, TOCNamesSections
<1>2. l.id \in Scopes(n) /\ l.id # 0 /\ l.id \in Nat
  BY <1>1 DEF Scopes
<1>3. PICK j \in PlanOf(n, s).shown :
         l = IF j \in PlanOf(n, s).ranged THEN RangedLine(n, j)
             ELSE PlainLine(n, j)
  BY LinesOfTOC
<1>4. l.id = j
  BY <1>3, LineWithoutRange
<1>5. subtreeSize(n, j) = ContentCharCount(n, j) /\ subtreeSize(n, j) \in Nat
  BY <1>1, <1>2, <1>4, SizesAgree, SizesNat
<1>6. CASE l = PlainLine(n, j)
  BY <1>2, <1>4, <1>5, <1>6 DEF PlainLine, Line
<1>7. CASE l = RangedLine(n, j) /\ arts # {}
  <2>1. /\ l.first \in arts /\ l.last \in arts
        /\ \A i \in arts : l.first <= i /\ i <= l.last
    BY <1>1, <1>4, <1>7, RangeOfLine
  <2>2. l = [id |-> j, size |-> subtreeSize(n, j), first |-> Min(arts),
             last |-> Max(arts), arts |-> Cardinality(arts)]
    BY <1>4, <1>7 DEF RangedLine
  <2>3. Cardinality(arts) \in Nat
    BY <1>1, ArticlesOfSection
  <2>4. l.first \in Nat /\ l.last \in Nat
    <3>1. arts \subseteq Inside(n, l.id)
      BY DEF Articles
    <3>2. \A i \in Inside(n, l.id) : i \in (l.id + 1)..Len(n)
      BY <1>1, InsideByDepth
    <3>3. QED
      BY <1>1, <2>1, <3>1, <3>2
  <2>5. l \in Line
    <3> HIDE DEF arts
    <3>1. QED
      BY <1>2, <1>4, <1>5, <2>2, <2>3, <2>4 DEF Line
  <2>6. QED
    BY <1>4, <1>5, <2>1, <2>2, <2>5
<1>8. QED
  BY <1>3, <1>4, <1>6, <1>7, LineWithoutRange

-----------------------------------------------------------------------------
(* The search.                                                             *)

\* How many of S come before i.
Before(S, i) == {j \in S : j < i}

\* A finite set of naturals is bounded.
LEMMA FiniteBounded ==
    ASSUME NEW S \in SUBSET Nat, IsFiniteSet(S)
    PROVE  \E b \in Nat : \A i \in S : i <= b
<1> DEFINE F == {T \in SUBSET S : ~ \E b \in Nat : \A i \in T : i <= b}
<1>1. SUFFICES ASSUME F # {}
               PROVE  FALSE
  OBVIOUS
<1>2. PICK T \in F : IsFiniteSet(T) /\ \A x \in T : T \ {x} \notin F
  BY <1>1, SmallestSet
<1>3. PICK x \in T : TRUE
  <2>1. 0 \in Nat /\ (T = {} => \A i \in T : i <= 0)
    OBVIOUS
  <2>2. QED
    BY <1>2, <2>1
<1>4. PICK b \in Nat : \A i \in T \ {x} : i <= b
  BY <1>2
<1>5. x \in Nat /\ b + x \in Nat
  OBVIOUS
<1>6. ASSUME NEW i \in T
      PROVE  i <= b + x
  <2>1. i \in Nat /\ (i = x \/ i <= b)
    BY <1>4
  <2>2. QED
    BY <1>5, <2>1
<1>7. QED
  BY <1>2, <1>5, <1>6

\* In a finite set of naturals there is one with k - 1 before it, for every
\* place k.
LEMMA Ranks ==
    ASSUME NEW S \in SUBSET Nat, IsFiniteSet(S), NEW k \in 1..Cardinality(S)
    PROVE  \E i \in S : Cardinality(Before(S, i)) = k - 1
<1> DEFINE F == {T \in SUBSET S : \E m \in 1..Cardinality(T) :
                    ~ \E i \in T : Cardinality(Before(T, i)) = m - 1}
<1>1. SUFFICES ASSUME F # {}
               PROVE  FALSE
  OBVIOUS
<1>2. PICK T \in F : IsFiniteSet(T) /\ \A x \in T : T \ {x} \notin F
  BY <1>1, SmallestSet
<1>3. PICK m \in 1..Cardinality(T) :
         ~ \E i \in T : Cardinality(Before(T, i)) = m - 1
  OBVIOUS
<1>4. Cardinality(T) \in Nat /\ T # {} /\ T \in SUBSET Nat
  BY <1>2, <1>3, FS_CardinalityType, FS_EmptySet
<1>5. PICK g \in T : \A i \in T : i <= g
  <2>1. PICK b \in Nat : \A i \in T : i <= b
    BY <1>2, <1>4, FiniteBounded
  <2>2. QED
    BY <1>4, <2>1, GreatestNatural
<1>6. PICK V : V = T \ {g}
  OBVIOUS
<1>7. IsFiniteSet(V) /\ Cardinality(V) = Cardinality(T) - 1 /\ V \notin F
  BY <1>2, <1>5, <1>6, FS_RemoveElement
<1>8. Before(T, g) = V
  <2>1. \A i \in T : i < g <=> i # g
    BY <1>4, <1>5
  <2>2. QED
    BY <1>6, <2>1 DEF Before
<1>9. CASE m = Cardinality(T)
  BY <1>3, <1>5, <1>7, <1>8, <1>9
<1>10. CASE m # Cardinality(T)
  <2>1. m \in 1..Cardinality(V)
    BY <1>3, <1>4, <1>7, <1>10
  <2>2. PICK i \in V : Cardinality(Before(V, i)) = m - 1
    BY <1>6, <1>7, <2>1
  <2>3. Before(V, i) = Before(T, i) /\ i \in T
    BY <1>4, <1>5, <1>6 DEF Before
  <2>4. QED
    BY <1>3, <2>2, <2>3
<1>11. QED
  BY <1>9, <1>10

\* A function on an initial segment is a sequence of that length.
LEMMA FunctionIsSeq ==
    ASSUME NEW M, NEW n \in Nat, NEW f \in [1..n -> M]
    PROVE  f \in Seq(M) /\ Len(f) = n
<1>1. f \in Seq(M)
  BY SeqDef
<1>2. QED
  BY <1>1, LenProperties

\* InOrder lists the elements of a set, the smaller the earlier.
LEMMA InOrderProperties ==
    ASSUME NEW S \in SUBSET Nat, IsFiniteSet(S)
    PROVE  /\ InOrder(S) \in Seq(S)
           /\ Len(InOrder(S)) = Cardinality(S)
           /\ \A k, m \in 1..Cardinality(S) :
                 k < m => InOrder(S)[k] < InOrder(S)[m]
<1> DEFINE at(k) == CHOOSE i \in S : Cardinality(Before(S, i)) = k - 1
<1>1. Cardinality(S) \in Nat
  BY FS_CardinalityType
<1>2. InOrder(S) = [k \in 1..Cardinality(S) |-> at(k)]
  BY DEF InOrder, Before
<1>3. ASSUME NEW k \in 1..Cardinality(S)
      PROVE  at(k) \in S /\ Cardinality(Before(S, at(k))) = k - 1
  BY Ranks
<1> HIDE DEF at
<1>4. ASSUME NEW k \in 1..Cardinality(S), NEW m \in 1..Cardinality(S), k < m
      PROVE  at(k) < at(m)
  <2>1. SUFFICES ASSUME at(m) <= at(k)
                 PROVE  FALSE
    <3>1. at(k) \in Nat /\ at(m) \in Nat
      BY <1>3
    <3>2. QED
      BY <3>1
  <2>2. Before(S, at(m)) \subseteq Before(S, at(k))
    <3>1. at(k) \in Nat /\ at(m) \in Nat
      BY <1>3
    <3>2. \A j \in S : j < at(m) => j < at(k)
      BY <2>1, <3>1
    <3>3. QED
      BY <3>2 DEF Before
  <2>3. PICK A, B : A = Before(S, at(m)) /\ B = Before(S, at(k))
    OBVIOUS
  <2>4. IsFiniteSet(B)
    BY <2>3, FS_Subset DEF Before
  <2>5. Cardinality(A) <= Cardinality(B)
    BY <2>2, <2>3, <2>4, FS_Subset
  <2>6. Cardinality(A) = m - 1 /\ Cardinality(B) = k - 1
    BY <1>3, <2>3
  <2>7. QED
    BY <1>1, <1>4, <2>5, <2>6
<1>5. InOrder(S) \in Seq(S)
  BY <1>1, <1>2, <1>3
<1>6. Len(InOrder(S)) = Cardinality(S)
  BY <1>1, <1>2
<1>7. QED
  BY <1>2, <1>4, <1>5, <1>6

\* The list of matches: those by name and then those by content, each in the
\* order of the norm.
LEMMA RankedEntries ==
    ASSUME IsNorm(norm)
    PROVE  LET N == NameMatches(norm)
               T == ContentMatches(norm)
               names == Cardinality(N)
               texts == Cardinality(T)
           IN  /\ names \in Nat /\ texts \in Nat
               /\ names + texts = Cardinality(N \cup T)
               /\ Ranked \in Seq(Match)
               /\ Len(Ranked) = names + texts
               /\ \A k \in 1..names : /\ InOrder(N)[k] \in N
                                      /\ Ranked[k] = MatchOf(InOrder(N)[k], FALSE)
               /\ \A k \in (names + 1)..(names + texts) :
                     /\ InOrder(T)[k - names] \in T
                     /\ Ranked[k] = MatchOf(InOrder(T)[k - names], TRUE)
<1> DEFINE N == NameMatches(norm)
           T == ContentMatches(norm)
           names == Cardinality(N)
           texts == Cardinality(T)
<1>1. Len(norm) \in Nat
  BY NormDepths
<1>2. N \subseteq 1..Len(norm) /\ T \subseteq 1..Len(norm) /\ N \cap T = {}
  BY DEF NameMatches, ContentMatches
<1>3. IsFiniteSet(1..Len(norm))
  BY <1>1, FS_Interval
<1>4. IsFiniteSet(N) /\ IsFiniteSet(T) /\ N \in SUBSET Nat /\ T \in SUBSET Nat
  <2>1. 1..Len(norm) \in SUBSET Nat
    BY <1>1
  <2>2. QED
    BY <1>2, <1>3, <2>1, FS_Subset
<1> HIDE DEF N, T
<1>5. names \in Nat /\ texts \in Nat
  BY <1>4, FS_CardinalityType
<1>6. names + texts = Cardinality(N \cup T)
  <2>1. Cardinality(N \cup T) = names + texts - Cardinality(N \cap T)
    BY <1>4, FS_Union
  <2>2. Cardinality(N \cap T) = 0
    BY <1>2, FS_EmptySet
  <2>3. QED
    BY <1>5, <2>1, <2>2
<1>7. ASSUME NEW i \in 1..Len(norm), NEW b \in BOOLEAN
      PROVE  MatchOf(i, b) \in Match
  <2>1. i \in Scopes(norm) /\ i # 0 /\ i \in Nat
    BY <1>1 DEF Scopes
  <2>2. QED
    BY <2>1, SizesNat DEF MatchOf, Match
<1> DEFINE A == InOrder(N)
           B == InOrder(T)
           RA == [k \in 1..Len(A) |-> MatchOf(A[k], FALSE)]
           RB == [k \in 1..Len(B) |-> MatchOf(B[k], TRUE)]
<1>8. A \in Seq(N) /\ Len(A) = names /\ B \in Seq(T) /\ Len(B) = texts
  BY <1>4, InOrderProperties
<1>9. Ranked = RA \o RB
  BY DEF Ranked, N, T
<1> HIDE DEF A, B, names, texts
<1>10. /\ \A k \in 1..names : A[k] \in N /\ A[k] \in 1..Len(norm)
       /\ \A k \in 1..texts : B[k] \in T /\ B[k] \in 1..Len(norm)
  <2>1. ASSUME NEW k \in 1..names
        PROVE  A[k] \in N
    BY <1>8, ElementOfSeq
  <2>2. ASSUME NEW k \in 1..texts
        PROVE  B[k] \in T
    BY <1>8, ElementOfSeq
  <2>3. QED
    BY <1>2, <2>1, <2>2
<1>11. RA \in Seq(Match) /\ Len(RA) = names /\ RB \in Seq(Match) /\ Len(RB) = texts
  <2>1. RA \in [1..names -> Match]
    BY <1>7, <1>8, <1>10
  <2>2. RB \in [1..texts -> Match]
    BY <1>7, <1>8, <1>10
  <2> HIDE DEF RA, RB
  <2>3. QED
    BY <1>5, <2>1, <2>2, FunctionIsSeq
<1>12. /\ \A k \in 1..names : RA[k] = MatchOf(A[k], FALSE)
       /\ \A k \in 1..texts : RB[k] = MatchOf(B[k], TRUE)
  BY <1>8
<1> HIDE DEF RA, RB
<1>13. /\ Ranked \in Seq(Match) /\ Len(Ranked) = names + texts
       /\ \A k \in 1..(names + texts) :
             Ranked[k] = IF k <= names THEN RA[k] ELSE RB[k - names]
  BY <1>9, <1>11, ConcatProperties
<1>14. ASSUME NEW k \in 1..names
       PROVE  A[k] \in N /\ Ranked[k] = MatchOf(A[k], FALSE)
  <2>1. k \in 1..(names + texts) /\ k <= names
    BY <1>5
  <2>2. QED
    BY <1>10, <1>12, <1>13, <2>1
<1>15. ASSUME NEW k \in (names + 1)..(names + texts)
       PROVE  B[k - names] \in T /\ Ranked[k] = MatchOf(B[k - names], TRUE)
  <2>1. k - names \in 1..texts
    BY <1>5
  <2>2. k \in 1..(names + texts) /\ ~(k <= names)
    BY <1>5
  <2>3. QED
    BY <1>10, <1>12, <1>13, <2>1, <2>2
<1>16. QED
  BY <1>5, <1>6, <1>13, <1>14, <1>15 DEF N, T, A, B, names, texts

\* It lists the first of the matches, as many as are allowed.
LEMMA FoundEntries ==
    ASSUME IsNorm(norm)
    PROVE  LET m == Min({maxResults, Len(Ranked)}) IN
           /\ Found \in Search
           /\ m \in Nat /\ m <= Len(Ranked)
           /\ Len(Found.results) = m
           /\ \A k \in 1..m : Found.results[k] = Ranked[k]
<1>1. Ranked \in Seq(Match) /\ Len(Ranked) \in Nat
  BY RankedEntries
<1>2. maxResults \in Nat
  BY LawDeliveryAssumption
<1>3. PICK m : m = Min({maxResults, Len(Ranked)})
  OBVIOUS
<1>4. m \in Nat /\ m <= Len(Ranked)
  <2>1. PICK a, b : a = maxResults /\ b = Len(Ranked)
    OBVIOUS
  <2>2. \E x \in {a, b} : \A y \in {a, b} : x <= y
    BY <1>1, <1>2, <2>1
  <2>3. Min({a, b}) \in {a, b} /\ \A y \in {a, b} : Min({a, b}) <= y
    BY <2>2 DEF Min
  <2>4. QED
    BY <1>1, <1>2, <1>3, <2>1, <2>3
<1>5. PICK r : r = SubSeq(Ranked, 1, m)
  OBVIOUS
<1>6. /\ r \in Seq(Match) /\ Len(r) = m
      /\ \A k \in 1..m : r[k] = Ranked[k]
  BY <1>1, <1>4, <1>5
<1>7. Found = [results |-> r, total |-> Len(Ranked)]
  BY <1>3, <1>5 DEF Found
<1>8. QED
  BY <1>1, <1>3, <1>4, <1>6, <1>7 DEF Search

\* Each match is of a section of the norm, in the order of its group; the ones
\* by name come first, and the ones by content have a section that has the
\* query in its text.
MatchAt(k, i, b) ==
    LET names == Cardinality(NameMatches(norm)) IN
    /\ Found.results[k] = MatchOf(i, b)
    /\ i \in 1..Len(norm)
    /\ ~b => k \in 1..names /\ i = InOrder(NameMatches(norm))[k]
    /\ b => /\ k - names \in 1..Cardinality(ContentMatches(norm))
            /\ i = InOrder(ContentMatches(norm))[k - names]
            /\ i \in ContentMatches(norm)

\* Every entry of the answer is such a match.
LEMMA FoundMatches ==
    ASSUME IsNorm(norm), NEW k \in 1..Len(Found.results)
    PROVE  \E i, b : b \in BOOLEAN /\ MatchAt(k, i, b)
<1>1. PICK N, T, m : /\ N = NameMatches(norm) /\ T = ContentMatches(norm)
                     /\ m = Min({maxResults, Len(Ranked)})
  OBVIOUS
<1>2. PICK names, texts : names = Cardinality(N) /\ texts = Cardinality(T)
  OBVIOUS
<1>3. /\ names \in Nat /\ texts \in Nat /\ Len(Ranked) = names + texts
      /\ \A j \in 1..names : /\ InOrder(N)[j] \in N
                             /\ Ranked[j] = MatchOf(InOrder(N)[j], FALSE)
      /\ \A j \in (names + 1)..(names + texts) :
            /\ InOrder(T)[j - names] \in T
            /\ Ranked[j] = MatchOf(InOrder(T)[j - names], TRUE)
  BY <1>1, <1>2, RankedEntries
<1>4. /\ m \in Nat /\ m <= names + texts /\ Len(Found.results) = m
      /\ \A j \in 1..m : Found.results[j] = Ranked[j]
  BY <1>1, <1>3, FoundEntries
<1>5. k \in 1..m /\ k \in 1..(names + texts)
  BY <1>3, <1>4
<1>6. N \subseteq 1..Len(norm) /\ T \subseteq 1..Len(norm)
  BY <1>1 DEF NameMatches, ContentMatches
<1>7. CASE k <= names
  <2>1. k \in 1..names
    BY <1>3, <1>5, <1>7
  <2>2. MatchAt(k, InOrder(N)[k], FALSE)
    BY <1>1, <1>2, <1>3, <1>4, <1>5, <1>6, <2>1 DEF MatchAt
  <2>3. QED
    BY <2>2
<1>8. CASE ~(k <= names)
  <2>1. k \in (names + 1)..(names + texts) /\ k - names \in 1..texts
    BY <1>3, <1>5, <1>8
  <2>2. MatchAt(k, InOrder(T)[k - names], TRUE)
    BY <1>1, <1>2, <1>3, <1>4, <1>5, <1>6, <2>1 DEF MatchAt
  <2>3. QED
    BY <2>2
<1>9. QED
  BY <1>7, <1>8

\* The lists of matches by name and by content rise.
LEMMA MatchesRise ==
    ASSUME IsNorm(norm), NEW S \in {NameMatches(norm), ContentMatches(norm)},
           NEW j \in 1..Cardinality(S), NEW k \in 1..Cardinality(S), j < k
    PROVE  InOrder(S)[j] < InOrder(S)[k]
<1>1. Len(norm) \in Nat
  BY NormDepths
<1>2. S \subseteq 1..Len(norm)
  BY DEF NameMatches, ContentMatches
<1>3. IsFiniteSet(S) /\ S \in SUBSET Nat
  <2>1. IsFiniteSet(1..Len(norm)) /\ 1..Len(norm) \in SUBSET Nat
    BY <1>1, FS_Interval, SMTT(20)
  <2>2. QED
    BY <1>2, <2>1, FS_Subset
<1>4. QED
  BY <1>3, InOrderProperties

\* The sections with the query, in their name or in a text of theirs.
LEMMA MatchesTotal ==
    ASSUME IsNorm(norm)
    PROVE  Len(Ranked) = Cardinality({i \in 1..Len(norm) :
                       \/ "name" \in norm[i].matches
                       \/ \E j \in Subtree(norm, i) : "text" \in norm[j].matches})
<1>1. NameMatches(norm) \cup ContentMatches(norm) =
        {i \in 1..Len(norm) :
            \/ "name" \in norm[i].matches
            \/ \E j \in Subtree(norm, i) : "text" \in norm[j].matches}
  BY DEF NameMatches, ContentMatches
<1>2. QED
  BY <1>1, RankedEntries

\* A match by content has a block with the query, in its text or in its name.
LEMMA MatchRendered ==
    ASSUME IsNorm(norm), NEW i \in ContentMatches(norm)
    PROVE  \E p \in renderBlocks(norm, i) :
              \/ p.text /\ "text" \in norm[p.id].matches
              \/ "name" \in norm[p.id].matches
<1>1. Len(norm) \in Nat
  BY NormDepths
<1>2. i \in 1..Len(norm) /\ \E j \in Subtree(norm, i) : "text" \in norm[j].matches
  BY DEF ContentMatches
<1>3. PICK j \in Subtree(norm, i) : "text" \in norm[j].matches
  BY <1>2
<1>4. i # 0
  BY <1>1, <1>2
<1>5. j \in Scope(norm, i) /\ j \in 1..Len(norm)
  BY <1>2, <1>4, SubtreeOfSection DEF Scope
<1>6. PICK p \in renderBlocks(norm, i) : p.id = j /\ p.text = IsLeaf(norm, j)
  <2>1. PICK d : d = norm[j].depth - Depth(norm, i)
    OBVIOUS
  <2>2. PICK p : p = [id |-> j, depth |-> d, text |-> IsLeaf(norm, j)]
    OBVIOUS
  <2>3. p \in renderBlocks(norm, i) /\ p.id = j /\ p.text = IsLeaf(norm, j)
    BY <1>5, <2>1, <2>2 DEF renderBlocks
  <2>4. QED
    BY <2>3
<1>7. ~IsLeaf(norm, j) => "name" \in norm[j].matches
  BY <1>3, <1>5 DEF IsNorm
<1>8. QED
  BY <1>3, <1>6, <1>7

-----------------------------------------------------------------------------
(* The reader.                                                             *)

\* The parts of an answer have their types.
LEMMA PartsTyped ==
    ASSUME IsNorm(norm), NEW s \in Scopes(norm), NEW only \in BOOLEAN,
           NEW degraded \in BOOLEAN
    PROVE  /\ TOC(norm, s) \subseteq Line
           /\ Estructura(s, only, degraded) \subseteq Nat
           /\ Body(s, only, degraded) \subseteq
                [id : Nat, depth : Nat, text : BOOLEAN]
<1>1. Len(norm) \in Nat
  BY NormDepths
<1>2. TOC(norm, s) \subseteq Line
  BY LineStates
<1>3. Estructura(s, only, degraded) \subseteq 1..Len(norm)
  <2>1. s \in 1..Len(norm) => Subtree(norm, s) \subseteq 1..Len(norm)
    BY SubtreeOfSection
  <2>2. s > 0 => s \in 1..Len(norm)
    BY <1>1 DEF Scopes
  <2>3. QED
    BY <2>1, <2>2 DEF Estructura
<1>4. ASSUME NEW i \in Scope(norm, s)
      PROVE  [id |-> i, depth |-> norm[i].depth - Depth(norm, s),
              text |-> IsLeaf(norm, i)] \in [id : Nat, depth : Nat, text : BOOLEAN]
  <2>1. /\ Depth(norm, s) \in Nat /\ Depth(norm, s) <= norm[i].depth
        /\ i \in 1..Len(norm)
    BY ScopeDepths
  <2>2. norm[i].depth \in Nat /\ i \in Nat
    BY <1>1, <2>1, NormDepths
  <2>3. norm[i].depth - Depth(norm, s) \in Nat
    BY <2>1, <2>2
  <2>4. IsLeaf(norm, i) \in BOOLEAN
    BY DEF IsLeaf
  <2>5. QED
    BY <2>2, <2>3, <2>4
<1>5. Body(s, only, degraded) \subseteq [id : Nat, depth : Nat, text : BOOLEAN]
  BY <1>4 DEF Body, renderBlocks
<1>6. QED
  BY <1>1, <1>2, <1>3, <1>5

\* What the invariant says of the norm and the refusals.
LEMMA InvNorm ==
    IInv => /\ IsNorm(norm) /\ Len(norm) \in Nat
            /\ \A a \in answers : Faithful(a) /\ a.section \in Scopes(norm)
            /\ refused \cap (0..Len(norm)) = {}
            /\ \A f \in found : f = Found
BY NormDepths DEF IInv, TypeOK, Faithful, Scopes

\* An action that adds one faithful, typed answer keeps the invariant.
LEMMA AnswerAdded ==
    ASSUME IInv, NEW new \in Answer, Faithful(new),
           answers' = answers \cup {new}, UNCHANGED <<norm, found, refused>>
    PROVE  IInv'
<1>1. TypeOK'
  BY DEF IInv, TypeOK
<1>2. \A a \in answers' : Faithful(a)'
  <2>1. \A a \in answers \cup {new} : Faithful(a)
    BY DEF IInv
  <2>2. QED
    BY <2>1 DEF Faithful
<1>3. found' \subseteq {Found'}
  BY DEF IInv, Found, Ranked, MatchOf
<1>4. QED
  BY <1>1, <1>2, <1>3 DEF IInv

\* Nothing has been answered at first.
LEMMA InitInv == Init => IInv
BY LawDeliveryAssumption DEF Init, IInv, TypeOK

\* Each answer is computed from the norm, which stays, and from the arguments
\* of its call.
LEMMA StepInv == IInv /\ [Next]_vars => IInv'
<1> SUFFICES ASSUME IInv, [Next]_vars
             PROVE  IInv'
  OBVIOUS
<1>1. IsNorm(norm) /\ Len(norm) \in Nat
  BY InvNorm
<1>2. CASE UNCHANGED vars
  <2>1. TypeOK' /\ \A a \in answers' : Faithful(a)'
    BY <1>2 DEF IInv, TypeOK, Faithful, vars
  <2>2. found' \subseteq {Found'}
    BY <1>2 DEF IInv, Found, Ranked, MatchOf, vars
  <2>3. QED
    BY <2>1, <2>2 DEF IInv
<1>3. ASSUME NEW s \in SectionIds, NEW only \in BOOLEAN, GetLaw(s, only)
      PROVE  IInv'
  <2> DEFINE chars == ContentCharCount(norm, s)
             degraded == ~only /\ chars > MaxContentChars
             new == [tool |-> "get_law", only |-> only, section |-> s,
                     chars |-> chars,
                     articles |-> countArticleParts(norm, s),
                     degraded |-> degraded,
                     toc |-> TOC(norm, s),
                     estructura |-> Estructura(s, only, degraded),
                     body |-> Body(s, only, degraded)]
  <2>1. answers' = answers \cup {new} /\ UNCHANGED <<norm, found, refused>>
    BY <1>3 DEF GetLaw, resolveScope
  <2>2. s \in 0..Len(norm) /\ s \in Scopes(norm)
    BY <1>1, <1>3 DEF GetLaw, Scopes
  <2>3. chars \in Nat /\ countArticleParts(norm, s) \in Nat /\ s \in Nat
    BY <1>1, <2>2, SizesNat
  <2>4. degraded \in BOOLEAN
    OBVIOUS
  <2>5. ~only => Body(s, only, degraded) =
                   IF degraded THEN {} ELSE renderBlocks(norm, s)
    BY DEF Body
  <2>6. Faithful(new)
    BY <2>2, <2>5 DEF Faithful
  <2>7. new \in Answer
    <3>1. /\ TOC(norm, s) \subseteq Line
          /\ Estructura(s, only, degraded) \subseteq Nat
          /\ Body(s, only, degraded) \subseteq
               [id : Nat, depth : Nat, text : BOOLEAN]
      BY <1>1, <2>2, <2>4, PartsTyped
    <3> HIDE DEF chars, degraded
    <3>2. QED
      BY <2>3, <2>4, <3>1 DEF Answer
  <2> HIDE DEF new
  <2>8. QED
    BY <2>1, <2>6, <2>7, AnswerAdded
<1>4. ASSUME NEW s \in SectionIds, SectionNotFound(s)
      PROVE  IInv'
  <2>1. s \notin 0..Len(norm) /\ refused' = refused \cup {s}
    BY <1>1, <1>4 DEF SectionNotFound
  <2>2. UNCHANGED <<norm, answers, found>>
    BY <1>4 DEF SectionNotFound
  <2>3. TypeOK' /\ \A a \in answers' : Faithful(a)'
    BY <2>1, <2>2 DEF IInv, TypeOK, Faithful
  <2>4. found' \subseteq {Found'}
    BY <2>2 DEF IInv, Found, Ranked, MatchOf
  <2>5. QED
    BY <2>3, <2>4 DEF IInv
<1>5. CASE GetLawSummary
  <2> DEFINE new == [tool |-> "get_law_summary", only |-> TRUE, section |-> 0,
                     chars |-> ContentCharCount(norm, 0),
                     articles |-> countArticleParts(norm, 0),
                     degraded |-> FALSE,
                     toc |-> TOC(norm, 0),
                     estructura |-> 1..Len(norm),
                     body |-> {}]
  <2>1. answers' = answers \cup {new} /\ UNCHANGED <<norm, found, refused>>
    BY <1>5 DEF GetLawSummary
  <2>2. 0 \in 0..Len(norm) /\ 0 \in Scopes(norm)
    BY <1>1 DEF Scopes
  <2>3. Faithful(new)
    BY <2>2 DEF Faithful
  <2>4. new \in Answer
    <3>1. TOC(norm, 0) \subseteq Line
      BY <1>1, <2>2, LineStates
    <3>2. ContentCharCount(norm, 0) \in Nat /\ countArticleParts(norm, 0) \in Nat
      BY <1>1, <2>2, SizesNat
    <3>3. 1..Len(norm) \subseteq Nat
      BY <1>1
    <3>4. QED
      BY <3>1, <3>2, <3>3 DEF Answer
  <2> HIDE DEF new
  <2>5. QED
    BY <2>1, <2>3, <2>4, AnswerAdded
<1>6. CASE FindInNorm
  <2>1. found' = {Found} /\ UNCHANGED <<norm, answers, refused>>
    BY <1>6 DEF FindInNorm, Found
  <2>2. Found \in Search
    BY <1>1, FoundEntries
  <2>3. TypeOK' /\ \A a \in answers' : Faithful(a)'
    BY <2>1, <2>2 DEF IInv, TypeOK, Faithful
  <2>4. found' \subseteq {Found'}
    BY <2>1 DEF Found, Ranked, MatchOf
  <2>5. QED
    BY <2>3, <2>4 DEF IInv
<1>7. QED
  BY <1>2, <1>3, <1>4, <1>5, <1>6 DEF Next

\* The invariant holds in every state.
LEMMA Invariance == Spec => []IInv
BY InitInv, StepInv, PTL DEF Spec

\* In every answer, an article is listed or in the range of exactly one line.
LEMMA InvLocates == IInv => ArticlesLocated
<1> SUFFICES ASSUME IInv, NEW a \in answers,
                    NEW i \in Articles(norm, Below(norm, a.section))
             PROVE  \/ \E l \in a.toc : l.id = i
                    \/ \E l \in a.toc :
                          /\ l.first <= i /\ i <= l.last
                          /\ i \in Inside(norm, l.id)
                          /\ \A m \in a.toc :
                                m.first <= i /\ i <= m.last => m = l
  BY DEF ArticlesLocated
<1>1. IsNorm(norm) /\ a.section \in Scopes(norm)
      /\ a.toc = TOC(norm, a.section)
  BY InvNorm DEF Faithful
<1>2. QED
  BY <1>1, TOCLocates

\* No section a reader was shown is refused; and who has asked for all it was
\* shown has read every text that fits.  Of the sections asked for that have
\* a given one in scope, consider the last: were its content withheld, its
\* table of contents would have shown a later one.
LEMMA InvNothingLost == IInv => NothingLost
<1> SUFFICES ASSUME IInv
             PROVE  NothingLost
  OBVIOUS
<1>1. IsNorm(norm) /\ \A a \in answers : Faithful(a)
  BY InvNorm
<1>2. Len(norm) \in Nat
  BY InvNorm
<1>3. Shown \subseteq 1..Len(norm)
  <2>1. ASSUME NEW a \in answers, NEW l \in a.toc
        PROVE  l.id \in 1..Len(norm)
    <3>1. a.section \in Scopes(norm) /\ l \in TOC(norm, a.section)
      BY <1>1, <2>1 DEF Faithful, Scopes
    <3>2. QED
      BY <1>1, <3>1, TOCNamesSections
  <2>2. QED
    BY <2>1 DEF Shown
<1>4. Shown \cap refused = {}
  <2>1. \A i \in 1..Len(norm) : i \in 0..Len(norm)
    BY <1>2
  <2>2. \A i \in 1..Len(norm) : i \notin refused
    BY <2>1, InvNorm
  <2>3. QED
    BY <1>3, <2>2
<1>5. ASSUME {0} \cup Shown \subseteq Asked,
             NEW i \in 1..Len(norm), IsLeaf(norm, i)
      PROVE  \/ i \in Read
             \/ /\ subtreeSize(norm, i) > MaxContentChars
                /\ i \in Asked
  <2> DEFINE S == {s \in Asked : i \in Scope(norm, s)}
  <2>1. \A s \in Asked : s \in 0..Len(norm)
    BY <1>1 DEF Asked, Faithful
  <2>2. 0 \in S
    BY <1>5 DEF Scope
  <2>3. S \in SUBSET Nat /\ \A s \in S : s <= Len(norm)
    BY <1>2, <2>1
  <2>4. PICK s \in S : \A t \in S : t <= s
    BY <1>2, <2>2, <2>3, GreatestNatural
  <2>5. PICK a \in answers : ~a.only /\ a.section = s
    BY <2>4 DEF Asked
  <2>6. /\ s \in Scopes(norm) /\ i \in Scope(norm, s)
        /\ a.toc = TOC(norm, s)
        /\ a.degraded <=> ContentCharCount(norm, s) > MaxContentChars
        /\ ~a.degraded => a.body = renderBlocks(norm, s)
    <3>1. Faithful(a)
      BY <1>1, <2>5
    <3>2. QED
      BY <2>4, <2>5, <3>1 DEF Faithful, Scopes
  <2>7. CASE ~a.degraded
    <3> DEFINE p == [id |-> i, depth |-> norm[i].depth - Depth(norm, s),
                     text |-> IsLeaf(norm, i)]
    <3>1. p \in a.body
      BY <2>6, <2>7 DEF renderBlocks
    <3>2. p \in UNION {b.body : b \in answers} /\ p.text /\ p.id = i
      BY <1>5, <3>1
    <3>3. QED
      BY <3>2 DEF Read
  <2>8. CASE a.degraded /\ s = i
    BY <1>1, <1>5, <2>4, <2>6, <2>8, SizesAgree
  <2>9. CASE a.degraded /\ s # i
    <3>1. i \in Below(norm, s)
      <4>1. CASE s = 0
        BY <4>1 DEF Below
      <4>2. CASE s # 0
        <5>1. s \in 1..Len(norm) /\ i \in Subtree(norm, s)
          BY <1>2, <2>6, <4>2 DEF Scope, Scopes
        <5>2. runEnd(norm, s) \in (s + 1)..(Len(norm) + 1)
          BY <1>1, <5>1, RunEndProperties
        <5>3. i \in Inside(norm, s)
          BY <1>2, <2>9, <5>1, <5>2 DEF Subtree, Inside
        <5>4. QED
          BY <4>2, <5>3 DEF Below
      <4>3. QED
        BY <4>1, <4>2
    <3>2. PICK l \in TOC(norm, s) : i = l.id \/ i \in Inside(norm, l.id)
      BY <1>1, <2>6, <3>1, TOCReaches
    <3>3. PICK t : t = l.id
      OBVIOUS
    <3>4. t \in 1..Len(norm) /\ t > s
      BY <1>1, <2>6, <3>3, TOCNamesSections
    <3>5. t \in Asked
      BY <1>5, <2>5, <2>6, <3>3 DEF Shown
    <3>6. i \in Scope(norm, t)
      <4>1. runEnd(norm, t) \in (t + 1)..(Len(norm) + 1)
        BY <1>1, <3>4, RunEndProperties
      <4>2. i \in Subtree(norm, t)
        BY <1>2, <3>2, <3>3, <3>4, <4>1 DEF Subtree, Inside
      <4>3. QED
        BY <1>2, <3>4, <4>2 DEF Scope
    <3>7. t <= s
      BY <2>4, <3>5, <3>6
    <3>8. QED
      BY <1>2, <2>6, <3>4, <3>7 DEF Scopes
  <2>10. QED
    BY <2>7, <2>8, <2>9
<1>6. QED
  BY <1>4, <1>5 DEF NothingLost

\* A line of a table, a match and an answer take the size of a section from
\* the same sum, and its articles from the same set.
LEMMA InvAgree == IInv => AnswersAgree
<1> SUFFICES ASSUME IInv, NEW a \in answers
             PROVE  /\ \A l \in UNION {b.toc : b \in answers} :
                          l.id = a.section =>
                            /\ l.size = a.chars
                            /\ l.arts # 0 =>
                                 LET arts == Articles(norm, Inside(norm, l.id)) IN
                                 /\ l.arts = Cardinality(arts)
                                 /\ {l.first, l.last} \subseteq arts
                                 /\ \A i \in arts : l.first <= i /\ i <= l.last
                                 /\ a.articles - l.arts \in {0, 1}
                    /\ \A f \in found : \A k \in 1..Len(f.results) :
                          f.results[k].id = a.section =>
                            /\ f.results[k].chars = a.chars
                            /\ f.results[k].articles = a.articles
  BY DEF AnswersAgree
<1>1. /\ IsNorm(norm) /\ Len(norm) \in Nat
      /\ a.chars = ContentCharCount(norm, a.section)
      /\ a.articles = countArticleParts(norm, a.section)
  BY InvNorm DEF Faithful
<1>2. ASSUME NEW b \in answers, NEW l \in b.toc, l.id = a.section
      PROVE  /\ l.size = a.chars
             /\ l.arts # 0 =>
                  LET arts == Articles(norm, Inside(norm, l.id)) IN
                  /\ l.arts = Cardinality(arts)
                  /\ {l.first, l.last} \subseteq arts
                  /\ \A i \in arts : l.first <= i /\ i <= l.last
                  /\ a.articles - l.arts \in {0, 1}
  <2>1. b.section \in Scopes(norm) /\ l \in TOC(norm, b.section)
    BY <1>2, InvNorm DEF Faithful
  <2>2. PICK arts : arts = Articles(norm, Inside(norm, l.id))
    OBVIOUS
  <2>3. /\ l.size = ContentCharCount(norm, l.id)
        /\ l.arts # 0 => /\ l.arts = Cardinality(arts)
                         /\ l.first \in arts /\ l.last \in arts
                         /\ \A i \in arts : l.first <= i /\ i <= l.last
    BY <1>1, <2>1, <2>2, LineStates
  <2>4. l.id \in 1..Len(norm)
    BY <1>1, <2>1, TOCNamesSections
  <2>5. countArticleParts(norm, l.id) - Cardinality(arts) \in {0, 1}
    BY <1>1, <2>2, <2>4, ArticlesOfSection
  <2>6. QED
    BY <1>1, <1>2, <2>2, <2>3, <2>5
<1>3. ASSUME NEW f \in found, NEW k \in 1..Len(f.results),
             f.results[k].id = a.section
      PROVE  /\ f.results[k].chars = a.chars
             /\ f.results[k].articles = a.articles
  <2>1. f = Found
    BY InvNorm
  <2>2. PICK i, b : b \in BOOLEAN /\ MatchAt(k, i, b)
    BY <1>1, <2>1, FoundMatches
  <2>3. f.results[k] = MatchOf(i, b) /\ i \in 1..Len(norm)
    BY <2>1, <2>2 DEF MatchAt
  <2>4. /\ f.results[k].id = i /\ f.results[k].chars = subtreeSize(norm, i)
        /\ f.results[k].articles = countArticleParts(norm, i)
    BY <2>3 DEF MatchOf
  <2>5. subtreeSize(norm, i) = ContentCharCount(norm, i)
    BY <1>1, <2>3, SizesAgree
  <2>6. QED
    BY <1>1, <1>3, <2>4, <2>5
<1>4. QED
  BY <1>2, <1>3

\* A content is delivered when it fits, and then every section of the scope is
\* in it and its blocks add up to the length declared.
LEMMA InvWhole == IInv => DeliveredWhole
<1> SUFFICES ASSUME IInv, NEW a \in answers, ~a.only
             PROVE  /\ a.degraded <=> a.chars > MaxContentChars
                    /\ a.degraded => a.body = {}
                    /\ ~a.degraded =>
                         /\ {p.id : p \in a.body} = Scope(norm, a.section)
                         /\ a.chars = MapThenSumSet(
                               LAMBDA p : HeadingChars(norm, p.id, p.depth)
                                          + (IF p.text THEN norm[p.id].text + 2
                                             ELSE 0),
                               a.body)
  BY DEF DeliveredWhole
<1>1. PICK s : s = a.section
  OBVIOUS
<1>2. /\ IsNorm(norm) /\ s \in Scopes(norm)
      /\ a.chars = ContentCharCount(norm, s)
      /\ a.degraded <=> a.chars > MaxContentChars
      /\ a.body = IF a.degraded THEN {} ELSE renderBlocks(norm, s)
  BY <1>1, InvNorm DEF Faithful
<1>3. /\ {p.id : p \in renderBlocks(norm, s)} = Scope(norm, s)
      /\ ContentCharCount(norm, s) =
           MapThenSumSet(
              LAMBDA p : HeadingChars(norm, p.id, p.depth)
                         + (IF p.text THEN norm[p.id].text + 2 ELSE 0),
              renderBlocks(norm, s))
  BY <1>2, RenderedSize
<1>4. QED
  BY <1>1, <1>2, <1>3

\* The answer of find_in_norm is a beginning of the matches, which are ordered
\* by group and place.
LEMMA InvOrdered == IInv => SearchIsOrdered
<1> SUFFICES ASSUME IInv, NEW f \in found
             PROVE  /\ Len(f.results) = Min({maxResults, f.total})
                    /\ f.total = Cardinality({i \in 1..Len(norm) :
                         \/ "name" \in norm[i].matches
                         \/ \E j \in Subtree(norm, i) :
                               "text" \in norm[j].matches})
                    /\ \A j, k \in 1..Len(f.results) : j < k =>
                          \/ ~f.results[j].inText /\ f.results[k].inText
                          \/ /\ f.results[j].inText = f.results[k].inText
                             /\ f.results[j].id < f.results[k].id
                    /\ \A k \in 1..Len(f.results) : f.results[k].inText =>
                          \E p \in renderBlocks(norm, f.results[k].id) :
                             \/ p.text /\ "text" \in norm[p.id].matches
                             \/ "name" \in norm[p.id].matches
  BY DEF SearchIsOrdered
<1>1. IsNorm(norm) /\ f = Found
  BY InvNorm
<1>2. f.total = Len(Ranked) /\ Len(f.results) = Min({maxResults, f.total})
  BY <1>1, FoundEntries DEF Found
<1>3. f.total = Cardinality({i \in 1..Len(norm) :
                  \/ "name" \in norm[i].matches
                  \/ \E j \in Subtree(norm, i) : "text" \in norm[j].matches})
  BY <1>1, <1>2, MatchesTotal
<1>4. PICK N, T : N = NameMatches(norm) /\ T = ContentMatches(norm)
  OBVIOUS
<1>5. Cardinality(N) \in Nat /\ Cardinality(T) \in Nat /\ Len(f.results) \in Nat
  BY <1>1, <1>4, RankedEntries, FoundEntries
<1>6. ASSUME NEW j \in 1..Len(f.results), NEW k \in 1..Len(f.results), j < k
      PROVE  \/ ~f.results[j].inText /\ f.results[k].inText
             \/ /\ f.results[j].inText = f.results[k].inText
                /\ f.results[j].id < f.results[k].id
  <2>1. PICK i, b : b \in BOOLEAN /\ MatchAt(j, i, b)
    BY <1>1, FoundMatches
  <2>2. PICK h, c : c \in BOOLEAN /\ MatchAt(k, h, c)
    BY <1>1, FoundMatches
  <2>3. /\ f.results[j].id = i /\ f.results[j].inText = b
        /\ f.results[k].id = h /\ f.results[k].inText = c
    BY <1>1, <2>1, <2>2 DEF MatchAt, MatchOf
  <2>4. CASE ~b /\ ~c
    <3>1. /\ j \in 1..Cardinality(N) /\ i = InOrder(N)[j]
          /\ k \in 1..Cardinality(N) /\ h = InOrder(N)[k]
      BY <1>4, <2>1, <2>2, <2>4 DEF MatchAt
    <3>2. i < h
      BY <1>1, <1>4, <1>6, <3>1, MatchesRise
    <3>3. QED
      BY <2>1, <2>2, <2>3, <2>4, <3>2
  <2>5. CASE b /\ c
    <3>1. PICK u, v : u = j - Cardinality(N) /\ v = k - Cardinality(N)
      OBVIOUS
    <3>2. /\ u \in 1..Cardinality(T) /\ i = InOrder(T)[u]
          /\ v \in 1..Cardinality(T) /\ h = InOrder(T)[v]
      BY <1>4, <2>1, <2>2, <2>5, <3>1 DEF MatchAt
    <3>3. u < v
      BY <1>5, <1>6, <3>1
    <3>4. i < h
      BY <1>1, <1>4, <3>2, <3>3, MatchesRise
    <3>5. QED
      BY <2>1, <2>2, <2>3, <2>5, <3>4
  <2>6. CASE ~b /\ c
    BY <2>3, <2>6
  <2>7. CASE b /\ ~c
    <3>1. j - Cardinality(N) \in 1..Cardinality(T) /\ k \in 1..Cardinality(N)
      BY <1>4, <2>1, <2>2, <2>7 DEF MatchAt
    <3>2. QED
      BY <1>5, <1>6, <3>1
  <2>8. QED
    BY <2>1, <2>2, <2>4, <2>5, <2>6, <2>7
<1>7. ASSUME NEW k \in 1..Len(f.results), f.results[k].inText
      PROVE  \E p \in renderBlocks(norm, f.results[k].id) :
                \/ p.text /\ "text" \in norm[p.id].matches
                \/ "name" \in norm[p.id].matches
  <2>1. PICK i, b : b \in BOOLEAN /\ MatchAt(k, i, b)
    BY <1>1, FoundMatches
  <2>2. f.results[k].id = i /\ f.results[k].inText = b
    BY <1>1, <2>1 DEF MatchAt, MatchOf
  <2>3. i \in ContentMatches(norm)
    BY <1>7, <2>1, <2>2 DEF MatchAt
  <2>4. QED
    BY <1>1, <2>2, <2>3, MatchRendered
<1>8. QED
  BY <1>2, <1>3, <1>6, <1>7

\* The reader's state has its type: the norm stays one, and each answer is made
\* of the lines, sections and blocks that its type names.
THEOREM LawTypeCorrect == Spec => []TypeOK
<1>1. IInv => TypeOK
  BY DEF IInv
<1>2. QED
  BY <1>1, Invariance, PTL

\* The answers about a norm agree on the size and the articles of a section,
\* wherever they state them: in a line, in a match or of the answer itself.
THEOREM AnswersAlwaysAgree == Spec => []AnswersAgree
BY Invariance, InvAgree, PTL

\* A content is delivered whole exactly when it fits the budget, and has then
\* the length declared; else nothing of it is.
THEOREM AlwaysDeliveredWhole == Spec => []DeliveredWhole
BY Invariance, InvWhole, PTL

\* A search lists the sections with the query in the order it promises, counts
\* all of them, and finds by content only what the reader can read.
THEOREM SearchAlwaysOrdered == Spec => []SearchIsOrdered
BY Invariance, InvOrdered, PTL

\* Every answer's table of contents locates every article in its scope: the
\* article is listed, or it is in the range of exactly one line and inside
\* the section of that line.
THEOREM ArticlesAlwaysLocated == Spec => []ArticlesLocated
BY Invariance, InvLocates, PTL

\* A reader who follows every map loses nothing: having asked for the norm
\* and for all it was shown, it has read every text but those that exceed the
\* budget on their own, and it was refused no section it was shown.
THEOREM NothingEverLost == Spec => []NothingLost
BY Invariance, InvNothingLost, PTL

=============================================================================
