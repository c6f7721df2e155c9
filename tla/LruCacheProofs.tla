--------------------------- MODULE LruCacheProofs ---------------------------
(***************************************************************************)
(* The map and the list of the LRU cache agree, and what it evicts is the  *)
(* least recently used, for every set of keys, every set of entries and    *)
(* every capacity.  The former is a theorem of LruCache, the latter needs  *)
(* to know how the cache was used, and is one of LruHistory.               *)
(***************************************************************************)
EXTENDS LruHistory, FiniteSetTheorems, TLAPS

\* The inductive invariant: the type invariant and the coherence together.
CacheInv == CacheTypeOK /\ CacheCoherent

NoDup(s) == \A i, j \in 1..Len(s) : s[i] = s[j] => i = j

\* A list without repetitions has as many members as places: what the map's
\* length says about the list's.
LEMMA MembersCardinality ==
    ASSUME NEW S, NEW s \in Seq(S), NoDup(s)
    PROVE  IsFiniteSet(Members(s)) /\ Cardinality(Members(s)) = Len(s)
<1> DEFINE n == Len(s)
           f == [i \in 1..n |-> s[i]]
<1>1. n \in Nat
  OBVIOUS
<1>2. IsFiniteSet(1..n) /\ Cardinality(1..n) = n
  BY <1>1, FS_Interval, SMTT(20)
<1>3. f \in Bijection(1..n, Members(s))
  BY DEF Members, NoDup, Bijection, Injection, Surjection, IsInjective
<1>4. ExistsBijection(1..n, Members(s))
  BY <1>3, Zenon DEF ExistsBijection
<1>5. QED
  BY <1>2, <1>4, FS_Bijection, Zenon

\* MoveToFront keeps the members of the list and repeats none.
LEMMA MoveToFrontProperties ==
    ASSUME NEW S, NEW s \in Seq(S), NoDup(s), NEW k \in Members(s)
    PROVE  /\ MoveToFront(s, k) \in Seq(S)
           /\ Len(MoveToFront(s, k)) = Len(s)
           /\ Members(MoveToFront(s, k)) = Members(s)
           /\ NoDup(MoveToFront(s, k))
<1> DEFINE n == Len(s)
           p == IndexOf(s, k)
           m == MoveToFront(s, k)
<1>1. p \in 1..n /\ s[p] = k
  BY DEF Members, IndexOf
<1>2. n \in Nat /\ \A i \in 1..n : s[i] \in S
  OBVIOUS
<1>3. m = [i \in 1..n |-> IF i = 1 THEN k
                          ELSE IF i <= p THEN s[i-1] ELSE s[i]]
  BY DEF MoveToFront
<1> HIDE DEF p, m
<1>4. \A i \in 1..n : m[i] \in S
  BY <1>1, <1>2, <1>3
<1>5. m \in Seq(S) /\ Len(m) = n
  BY <1>2, <1>3, <1>4
<1>6. NoDup(m)
  BY <1>1, <1>2, <1>3, <1>5 DEF NoDup
<1>7. ASSUME NEW i \in 1..n
      PROVE  \E j \in 1..n : m[i] = s[j]
  <2>1. CASE i = 1
    BY <1>1, <1>2, <1>3, <2>1
  <2>2. CASE i # 1 /\ i <= p
    <3>1. i - 1 \in 1..n /\ m[i] = s[i - 1]
      BY <1>1, <1>2, <1>3, <2>2
    <3>2. QED
      BY <3>1
  <2>3. CASE i # 1 /\ i > p
    BY <1>1, <1>2, <1>3, <2>3
  <2>4. QED
    BY <1>1, <2>1, <2>2, <2>3
<1>8. ASSUME NEW i \in 1..n
      PROVE  \E j \in 1..n : m[j] = s[i]
  <2>1. CASE i = p
    BY <1>1, <1>2, <1>3, <2>1
  <2>2. CASE i < p
    <3>1. i + 1 \in 1..n /\ m[i + 1] = s[i]
      BY <1>1, <1>2, <1>3, <2>2
    <3>2. QED
      BY <3>1
  <2>3. CASE i > p
    BY <1>1, <1>2, <1>3, <2>3
  <2>4. QED
    BY <1>1, <2>1, <2>2, <2>3
<1>9. Members(m) = Members(s)
  <2>1. \A i \in 1..n : m[i] \in Members(s)
    BY <1>7 DEF Members
  <2>2. \A i \in 1..n : s[i] \in Members(m)
    BY <1>5, <1>8 DEF Members
  <2>3. QED
    BY <1>5, <2>1, <2>2 DEF Members
<1>10. QED
  BY <1>5, <1>6, <1>9 DEF m

\* PushFront of a new key adds it at the front and repeats none.
LEMMA PushFrontProperties ==
    ASSUME NEW S, NEW s \in Seq(S), NoDup(s), NEW k \in S, k \notin Members(s)
    PROVE  /\ PushFront(s, k) \in Seq(S)
           /\ Len(PushFront(s, k)) = Len(s) + 1
           /\ Members(PushFront(s, k)) = Members(s) \cup {k}
           /\ NoDup(PushFront(s, k))
<1> DEFINE n == Len(s)
           m == PushFront(s, k)
<1>1. n \in Nat /\ \A i \in 1..n : s[i] \in S
  OBVIOUS
<1>2. m = [i \in 1..(n + 1) |-> IF i = 1 THEN k ELSE s[i-1]]
  BY DEF PushFront
<1> HIDE DEF m
<1>3. \A i \in 1..(n + 1) : m[i] \in S
  BY <1>1, <1>2
<1>4. m \in Seq(S) /\ Len(m) = n + 1
  BY <1>1, <1>2, <1>3
<1>5. NoDup(m)
  BY <1>1, <1>2, <1>4 DEF NoDup, Members
<1>6. Members(m) \subseteq Members(s) \cup {k}
  BY <1>1, <1>2, <1>4, SMTT(20) DEF Members
<1>7. ASSUME NEW i \in 1..n
      PROVE  i + 1 \in 1..(n + 1) /\ m[i + 1] = s[i]
  BY <1>1, <1>2
<1>8. 1 \in 1..(n + 1) /\ m[1] = k
  BY <1>1, <1>2
<1>9. Members(s) \cup {k} \subseteq Members(m)
  BY <1>4, <1>7, <1>8 DEF Members
<1>10. QED
  BY <1>4, <1>5, <1>6, <1>9 DEF m

\* DropBack of a list without repetitions loses its last key and no other.
LEMMA DropBackProperties ==
    ASSUME NEW S, NEW s \in Seq(S), NoDup(s), Len(s) > 0
    PROVE  /\ DropBack(s) \in Seq(S)
           /\ Len(DropBack(s)) = Len(s) - 1
           /\ Members(DropBack(s)) = Members(s) \ {s[Len(s)]}
           /\ NoDup(DropBack(s))
<1> DEFINE n == Len(s)
           m == DropBack(s)
<1>1. n \in Nat \ {0} /\ \A i \in 1..n : s[i] \in S
  OBVIOUS
<1>2. m = [i \in 1..(n - 1) |-> s[i]]
  BY DEF DropBack
<1> HIDE DEF m
<1>3. m \in Seq(S) /\ Len(m) = n - 1
  BY <1>1, <1>2
<1>4. NoDup(m)
  BY <1>1, <1>2, <1>3 DEF NoDup
<1>5. Members(m) = {s[i] : i \in 1..(n - 1)}
  BY <1>1, <1>2, <1>3 DEF Members
<1>6. {s[i] : i \in 1..(n - 1)} = Members(s) \ {s[n]}
  BY <1>1 DEF Members, NoDup
<1>7. QED
  BY <1>3, <1>4, <1>5, <1>6 DEF m

-----------------------------------------------------------------------------
\* An empty cache is coherent.
LEMMA InitCacheInv == CacheInit => CacheInv
<1> SUFFICES ASSUME CacheInit
             PROVE  CacheInv
  OBVIOUS
<1>1. Len(order) = 0 /\ DOMAIN entries = {} /\ order \in Seq(Key)
  BY DEF CacheInit
<1>2. Members(order) = {}
  BY <1>1 DEF Members
<1>3. entries \in [DOMAIN entries -> Entry]
  BY <1>1 DEF CacheInit
<1>4. QED
  BY <1>1, <1>2, <1>3, CacheMaxAssumption DEF CacheInv, CacheTypeOK, CacheCoherent

\* A hit only moves its key to the front of the list.
LEMMA GetHitInv ==
    ASSUME CacheInv, NEW k \in Key, GetHit(k)
    PROVE  CacheInv'
<1> USE DEF CacheInv, CacheTypeOK, CacheCoherent
<1>1. order \in Seq(Key) /\ NoDup(order) /\ k \in Members(order)
  BY DEF NoDup, GetHit, Hit
<1>2. order' = MoveToFront(order, k) /\ entries' = entries
  BY DEF GetHit
<1>3. /\ order' \in Seq(Key)
      /\ Len(order') = Len(order)
      /\ Members(order') = Members(order)
      /\ NoDup(order')
  BY <1>1, <1>2, MoveToFrontProperties
<1>4. QED
  BY <1>2, <1>3 DEF NoDup

\* A put of a resident key replaces its entry and moves it to the front.
LEMMA PutExistingInv ==
    ASSUME CacheInv, NEW k \in Key, NEW e \in Entry, PutExisting(k, e)
    PROVE  CacheInv'
<1> USE DEF CacheInv, CacheTypeOK, CacheCoherent
<1>1. order \in Seq(Key) /\ NoDup(order) /\ k \in Members(order)
  BY DEF NoDup, PutExisting, Hit
<1>2. order' = MoveToFront(order, k) /\ entries' = With(entries, k, e)
  BY DEF PutExisting
<1>3. /\ order' \in Seq(Key)
      /\ Len(order') = Len(order)
      /\ Members(order') = Members(order)
      /\ NoDup(order')
  BY <1>1, <1>2, MoveToFrontProperties
<1>4. DOMAIN entries' = DOMAIN entries /\ entries' \in [DOMAIN entries -> Entry]
  BY <1>1, <1>2 DEF With, PutExisting, Hit
<1>5. QED
  BY <1>3, <1>4 DEF NoDup

\* A put of a new key below the capacity adds it to both.
LEMMA PutNewInv ==
    ASSUME CacheInv, NEW k \in Key, NEW e \in Entry, PutNew(k, e)
    PROVE  CacheInv'
<1> USE DEF CacheInv, CacheTypeOK, CacheCoherent
<1>1. order \in Seq(Key) /\ NoDup(order) /\ k \notin Members(order)
  BY DEF NoDup, PutNew, Hit
<1>2. order' = PushFront(order, k) /\ entries' = With(entries, k, e)
  BY DEF PutNew
<1>3. /\ order' \in Seq(Key)
      /\ Len(order') = Len(order) + 1
      /\ Members(order') = Members(order) \cup {k}
      /\ NoDup(order')
  BY <1>1, <1>2, PushFrontProperties
<1>4. /\ DOMAIN entries' = DOMAIN entries \cup {k}
      /\ entries' \in [DOMAIN entries \cup {k} -> Entry]
  BY <1>2 DEF With
<1>5. Len(order) < cacheMax
  <2>1. Cardinality(DOMAIN entries) = Len(order)
    BY <1>1, MembersCardinality
  <2>2. Len(order) \in Nat /\ ~(Len(order) >= cacheMax)
    BY <1>1, <2>1 DEF PutNew, Full
  <2>3. QED
    BY <2>2, CacheMaxAssumption
<1>6. Len(order') <= cacheMax
  BY <1>1, <1>3, <1>5, CacheMaxAssumption
<1>7. QED
  BY <1>3, <1>4, <1>6 DEF NoDup

\* At the capacity the key at the back leaves both, and the new one enters.
LEMMA PutEvictingInv ==
    ASSUME CacheInv, NEW k \in Key, NEW e \in Entry, PutEvicting(k, e)
    PROVE  CacheInv'
<1> USE DEF CacheInv, CacheTypeOK, CacheCoherent
<1> DEFINE rest == DropBack(order)
<1>1. order \in Seq(Key) /\ NoDup(order) /\ k \notin Members(order)
  BY DEF NoDup, PutEvicting, Hit
<1>2. /\ order' = PushFront(rest, k)
      /\ entries' = With(Without(entries, Back), k, e)
  BY DEF PutEvicting
<1>3. Len(order) \in Nat /\ Len(order) > 0
  <2>1. Cardinality(DOMAIN entries) = Len(order)
    BY <1>1, MembersCardinality
  <2>2. Len(order) \in Nat /\ Len(order) >= cacheMax
    BY <1>1, <2>1 DEF PutEvicting, Full
  <2>3. QED
    BY <2>2, CacheMaxAssumption
<1>4. /\ rest \in Seq(Key)
      /\ Len(rest) = Len(order) - 1
      /\ Members(rest) = Members(order) \ {Back}
      /\ NoDup(rest)
  BY <1>1, <1>3, DropBackProperties DEF Back
<1> HIDE DEF rest
<1>5. /\ order' \in Seq(Key)
      /\ Len(order') = Len(rest) + 1
      /\ Members(order') = Members(rest) \cup {k}
      /\ NoDup(order')
  BY <1>1, <1>2, <1>4, PushFrontProperties
<1>6. /\ DOMAIN entries' = (DOMAIN entries \ {Back}) \cup {k}
      /\ entries' \in [(DOMAIN entries \ {Back}) \cup {k} -> Entry]
  BY <1>2 DEF With, Without
<1>7. Len(order') <= cacheMax
  BY <1>3, <1>4, <1>5
<1>8. Members(order') = DOMAIN entries'
  BY <1>4, <1>5, <1>6
<1>9. QED
  BY <1>5, <1>6, <1>7, <1>8 DEF NoDup

\* Every operation keeps map and list coherent.
LEMMA NextCacheInv == CacheInv /\ [CacheNext]_cacheVars => CacheInv'
<1> SUFFICES ASSUME CacheInv, [CacheNext]_cacheVars
             PROVE  CacheInv'
  OBVIOUS
<1>1. ASSUME NEW k \in Key, GetHit(k)
      PROVE  CacheInv'
  BY <1>1, GetHitInv
<1>2. ASSUME NEW k \in Key, NEW e \in Entry, Put(k, e)
      PROVE  CacheInv'
  BY <1>2, PutExistingInv, PutNewInv, PutEvictingInv DEF Put
<1>3. CASE UNCHANGED cacheVars
  BY <1>3 DEF CacheInv, CacheTypeOK, CacheCoherent, Members, cacheVars
<1>4. QED
  BY <1>1, <1>2, <1>3 DEF CacheNext, Get, GetMiss

\* Types: the list holds keys, the map takes keys to entries.
THEOREM CacheTypeCorrect == CacheSpec => []CacheTypeOK
<1>1. CacheInv => CacheTypeOK
  BY DEF CacheInv
<1>2. QED
  BY <1>1, InitCacheInv, NextCacheInv, PTL DEF CacheSpec

\* Whatever the sequence of get and put, the map and the list hold the same
\* keys, each once, and at most cacheMax of them (norma_cache.go, cache.go).
THEOREM CacheStaysCoherent == CacheSpec => []CacheCoherent
<1>1. CacheInv => CacheCoherent
  BY DEF CacheInv
<1>2. QED
  BY <1>1, InitCacheInv, NextCacheInv, PTL DEF CacheSpec

-----------------------------------------------------------------------------
(* What LruHistory adds: which keys the cache still holds, and with what.  *)

\* The keys in front of place i of a list.
Before(s, i) == {s[j] : j \in 1..(i - 1)}

\* The keys used after a resident key are those in front of it.
Recency == \A i \in 1..Len(order) : since[order[i]] = Before(order, i)

\* A key is forgotten only after cacheMax others were used.
Forgotten == \A k \in DOMAIN since \ DOMAIN entries :
                IsFiniteSet(since[k]) /\ Cardinality(since[k]) >= cacheMax

HistoryTyped == /\ DOMAIN since \subseteq Key /\ DOMAIN latest = DOMAIN since
                /\ DOMAIN entries \subseteq DOMAIN since
                /\ \A k \in DOMAIN since : since[k] \subseteq Key \ {k}
                /\ \A k \in DOMAIN latest : latest[k] \in Entry

HistoryInv == CacheInv /\ HistoryTyped /\ Recency /\ Forgotten /\ LatestValue

\* Moving a key to the front puts it in front of every other.
LEMMA BeforeMoveToFront ==
    ASSUME NEW S, NEW s \in Seq(S), NoDup(s), NEW k \in Members(s), NEW m,
           m = MoveToFront(s, k), NEW i \in 1..Len(s)
    PROVE  \/ m[i] = k /\ Before(m, i) = {}
           \/ \E j \in 1..Len(s) : /\ m[i] = s[j] /\ s[j] # k
                                   /\ Before(m, i) = Before(s, j) \cup {k}
<1>1. PICK n \in Nat : n = Len(s)
  OBVIOUS
<1>2. PICK p \in 1..n : p = IndexOf(s, k) /\ s[p] = k
  BY <1>1 DEF Members, IndexOf
<1>3. m = [j \in 1..n |-> IF j = 1 THEN k ELSE IF j <= p THEN s[j-1] ELSE s[j]]
  BY <1>1, <1>2 DEF MoveToFront
<1>4. \A j \in 1..n : s[j] = k => j = p
  BY <1>1, <1>2 DEF NoDup
<1>5. CASE i = 1
  BY <1>1, <1>3, <1>5 DEF Before
<1>6. CASE i # 1 /\ i <= p
  <2>1. i - 1 \in 1..n /\ m[i] = s[i - 1] /\ i - 1 # p
    BY <1>1, <1>2, <1>3, <1>6
  <2>2. \A j \in 1..(i - 1) : m[j] = IF j = 1 THEN k ELSE s[j - 1]
    BY <1>1, <1>2, <1>3, <1>6
  <2>3. Before(m, i) \subseteq Before(s, i - 1) \cup {k}
    <3>1. ASSUME NEW j \in 1..(i - 1)
          PROVE  m[j] \in Before(s, i - 1) \cup {k}
      <4>1. CASE j = 1
        BY <2>2, <4>1
      <4>2. CASE j # 1
        <5>1. j - 1 \in 1..(i - 1 - 1) /\ m[j] = s[j - 1]
          BY <1>1, <2>2, <4>2
        <5>2. QED
          BY <5>1 DEF Before
      <4>3. QED
        BY <4>1, <4>2
    <3>2. QED
      BY <3>1 DEF Before
  <2>4. Before(s, i - 1) \cup {k} \subseteq Before(m, i)
    <3>1. 1 \in 1..(i - 1) /\ m[1] = k
      BY <1>1, <1>3, <1>6
    <3>2. ASSUME NEW j \in 1..(i - 1 - 1)
          PROVE  s[j] \in Before(m, i)
      <4>1. j + 1 \in 1..(i - 1) /\ m[j + 1] = s[j]
        BY <1>1, <2>2
      <4>2. QED
        BY <4>1 DEF Before
    <3>3. QED
      BY <3>1, <3>2 DEF Before
  <2>5. s[i - 1] # k
    BY <1>4, <2>1
  <2>6. QED
    BY <1>1, <2>1, <2>3, <2>4, <2>5
<1>7. CASE i > p
  <2>1. m[i] = s[i] /\ i # p
    BY <1>1, <1>2, <1>3, <1>7
  <2>2. ASSUME NEW j \in 1..(i - 1)
        PROVE  m[j] \in Before(s, i) /\ s[j] \in Before(m, i)
    <3>1. CASE j > p
      <4>1. m[j] = s[j]
        BY <1>1, <1>2, <1>3, <3>1
      <4>2. QED
        BY <4>1 DEF Before
    <3>2. CASE j = p
      <4>1. 1 \in 1..(i - 1) /\ m[1] = s[j]
        BY <1>1, <1>2, <1>3, <1>7, <3>2
      <4>2. s[j] \in Before(m, i)
        BY <4>1 DEF Before
      <4>3. m[j] \in {k, s[j - 1]} /\ (j # 1 => j - 1 \in 1..(i - 1)) /\ (m[j] # k => j # 1)
        BY <1>1, <1>2, <1>3, <3>2
      <4>4. k \in Before(s, i)
        BY <1>2, <3>2 DEF Before
      <4>5. QED
        BY <4>2, <4>3, <4>4 DEF Before
    <3>3. CASE j < p
      <4>1. j + 1 \in 1..(i - 1) /\ m[j + 1] = s[j]
        BY <1>1, <1>2, <1>3, <1>7, <3>3
      <4>2. s[j] \in Before(m, i)
        BY <4>1 DEF Before
      <4>3. m[j] = IF j = 1 THEN k ELSE s[j - 1]
        BY <1>1, <1>2, <1>3, <3>3
      <4>4. p \in 1..(i - 1) /\ (j # 1 => j - 1 \in 1..(i - 1))
        BY <1>1, <1>2, <1>7
      <4>5. m[j] \in Before(s, i)
        BY <1>2, <4>3, <4>4 DEF Before
      <4>6. QED
        BY <4>2, <4>5
    <3>4. QED
      BY <1>1, <1>2, <3>1, <3>2, <3>3
  <2>3. Before(m, i) = Before(s, i)
    BY <2>2 DEF Before
  <2>4. k \in Before(s, i)
    <3>1. p \in 1..(i - 1)
      BY <1>1, <1>2, <1>7
    <3>2. QED
      BY <1>2, <3>1 DEF Before
  <2>5. s[i] # k
    BY <1>1, <1>4, <2>1
  <2>6. QED
    BY <2>1, <2>3, <2>4, <2>5
<1>8. QED
  BY <1>1, <1>2, <1>5, <1>6, <1>7

\* And so does adding one there.
LEMMA BeforePushFront ==
    ASSUME NEW S, NEW s \in Seq(S), NEW k, NEW m, m = PushFront(s, k),
           NEW i \in 1..(Len(s) + 1)
    PROVE  \/ m[i] = k /\ Before(m, i) = {}
           \/ /\ i - 1 \in 1..Len(s) /\ m[i] = s[i - 1]
              /\ Before(m, i) = Before(s, i - 1) \cup {k}
<1>1. PICK n \in Nat : n = Len(s)
  OBVIOUS
<1>2. m = [j \in 1..(n + 1) |-> IF j = 1 THEN k ELSE s[j-1]]
  BY <1>1 DEF PushFront
<1>3. CASE i = 1
  BY <1>1, <1>2, <1>3 DEF Before
<1>4. CASE i # 1
  <2>1. i - 1 \in 1..n /\ m[i] = s[i - 1]
    BY <1>1, <1>2, <1>4
  <2>2. ASSUME NEW j \in 1..(i - 1)
        PROVE  m[j] \in Before(s, i - 1) \cup {k}
    <3>1. CASE j = 1
      BY <1>1, <1>2, <3>1
    <3>2. CASE j # 1
      <4>1. j - 1 \in 1..(i - 1 - 1) /\ m[j] = s[j - 1]
        BY <1>1, <1>2, <3>2
      <4>2. QED
        BY <4>1 DEF Before
    <3>3. QED
      BY <3>1, <3>2
  <2>3. 1 \in 1..(i - 1) /\ m[1] = k
    BY <1>1, <1>2, <1>4
  <2>4. ASSUME NEW j \in 1..(i - 1 - 1)
        PROVE  s[j] \in Before(m, i)
    <3>1. j + 1 \in 1..(i - 1) /\ m[j + 1] = s[j]
      BY <1>1, <1>2
    <3>2. QED
      BY <3>1 DEF Before
  <2>5. Before(m, i) = Before(s, i - 1) \cup {k}
    BY <2>2, <2>3, <2>4 DEF Before
  <2>6. QED
    BY <1>1, <2>1, <2>5
<1>5. QED
  BY <1>3, <1>4

\* As many keys are in front of a place of a list that repeats none as there
\* are places.
LEMMA BeforeCardinality ==
    ASSUME NEW S, NEW s \in Seq(S), NoDup(s), NEW i \in 1..Len(s)
    PROVE  IsFiniteSet(Before(s, i)) /\ Cardinality(Before(s, i)) = i - 1
<1>1. PICK t : t = [j \in 1..(i - 1) |-> s[j]]
  OBVIOUS
<1>2. \A j \in 1..(i - 1) : t[j] \in S /\ t[j] = s[j]
  BY <1>1
<1>3. t \in Seq(S) /\ Len(t) = i - 1
  BY <1>1, <1>2
<1>4. NoDup(t)
  BY <1>2, <1>3 DEF NoDup
<1>5. Members(t) = Before(s, i)
  BY <1>2, <1>3 DEF Members, Before
<1>6. QED
  BY <1>3, <1>4, <1>5, MembersCardinality

\* A use of k is after every other key's last use, and restarts its own.
LEMMA UseEffect ==
    ASSUME HistoryTyped, NEW k \in Key, since' = Use(k)
    PROVE  /\ DOMAIN since' = DOMAIN since \cup {k} /\ DOMAIN since' \subseteq Key
           /\ since'[k] = {}
           /\ \A x \in DOMAIN since \ {k} : since'[x] = since[x] \cup {k}
           /\ \A x \in DOMAIN since' : since'[x] \subseteq Key \ {x}
BY DEF HistoryTyped, Use

\* One more use takes no forgotten key back.
LEMMA ForgottenGrows ==
    ASSUME NEW T, IsFiniteSet(T), Cardinality(T) >= cacheMax, NEW k
    PROVE  IsFiniteSet(T \cup {k}) /\ Cardinality(T \cup {k}) >= cacheMax
<1>1. /\ IsFiniteSet(T \cup {k})
      /\ Cardinality(T \cup {k}) = Cardinality(T)
         \/ Cardinality(T \cup {k}) = Cardinality(T) + 1
  BY FS_AddElement
<1>2. Cardinality(T) \in Nat /\ cacheMax \in Nat
  BY FS_CardinalityType, CacheMaxAssumption
<1>3. QED
  BY <1>1, <1>2

\* A get or a put of a resident key evicts nothing.
LEMMA RefreshInv ==
    ASSUME HistoryInv, NEW k \in Key, Hit(k), order' = MoveToFront(order, k),
           DOMAIN entries' = DOMAIN entries, since' = Use(k)
    PROVE  Recency' /\ Forgotten'
<1> USE DEF HistoryInv
<1>1. order \in Seq(Key) /\ NoDup(order) /\ k \in Members(order)
  BY DEF CacheInv, CacheTypeOK, CacheCoherent, NoDup, Hit
<1>2. Len(order') = Len(order)
  BY <1>1, MoveToFrontProperties
<1>3. /\ DOMAIN since' = DOMAIN since \cup {k} /\ since'[k] = {}
      /\ \A x \in DOMAIN since \ {k} : since'[x] = since[x] \cup {k}
  BY UseEffect
<1>4. \A j \in 1..Len(order) : order[j] \in DOMAIN since
  BY DEF CacheInv, CacheCoherent, Members, HistoryTyped
<1>5. ASSUME NEW i \in 1..Len(order)
      PROVE  since'[order'[i]] = Before(order', i)
  <2>1. CASE order'[i] = k /\ Before(order', i) = {}
    BY <1>3, <2>1
  <2>2. CASE \E j \in 1..Len(order) : /\ order'[i] = order[j] /\ order[j] # k
                                      /\ Before(order', i) = Before(order, j) \cup {k}
    BY <1>3, <1>4, <2>2 DEF Recency
  <2>3. QED
    BY <1>1, <2>1, <2>2, BeforeMoveToFront
<1>6. Recency'
  BY <1>2, <1>5 DEF Recency, Before
<1>7. Forgotten'
  <2>1. ASSUME NEW x \in DOMAIN since' \ DOMAIN entries'
        PROVE  IsFiniteSet(since'[x]) /\ Cardinality(since'[x]) >= cacheMax
    <3>1. x \in DOMAIN since \ DOMAIN entries /\ since'[x] = since[x] \cup {k}
      BY <1>3 DEF Hit
    <3>2. PICK T : T = since[x]
      OBVIOUS
    <3>3. IsFiniteSet(T) /\ Cardinality(T) >= cacheMax
      BY <3>1, <3>2 DEF Forgotten
    <3>4. IsFiniteSet(T \cup {k}) /\ Cardinality(T \cup {k}) >= cacheMax
      BY <3>3, ForgottenGrows
    <3>5. QED
      BY <3>1, <3>2, <3>4
  <2>2. QED
    BY <2>1 DEF Forgotten
<1>8. QED
  BY <1>6, <1>7

\* A full cache holds as many keys as it may.
LEMMA FullLength ==
    ASSUME CacheInv
    PROVE  /\ Len(order) \in Nat /\ Len(order) <= cacheMax
           /\ Full => Len(order) = cacheMax
<1>1. order \in Seq(Key) /\ NoDup(order) /\ Members(order) = DOMAIN entries
  BY DEF CacheInv, CacheTypeOK, CacheCoherent, NoDup
<1>2. Cardinality(DOMAIN entries) = Len(order)
  BY <1>1, MembersCardinality
<1>3. Len(order) \in Nat /\ Len(order) <= cacheMax
  BY <1>1 DEF CacheInv, CacheCoherent
<1>4. QED
  BY <1>2, <1>3, CacheMaxAssumption DEF Full

\* A put of a key that is not resident moves every key back one place; the
\* key that falls off the end is forgotten after cacheMax uses of others.
LEMMA InsertInv ==
    ASSUME HistoryInv, NEW k \in Key, NEW e \in Entry,
           PutNew(k, e) \/ PutEvicting(k, e), since' = Use(k)
    PROVE  Recency' /\ Forgotten'
<1> USE DEF HistoryInv
<1>1. order \in Seq(Key) /\ NoDup(order) /\ k \notin Members(order) /\ ~Hit(k)
  BY DEF CacheInv, CacheTypeOK, CacheCoherent, NoDup, Hit, PutNew, PutEvicting
<1>2. /\ DOMAIN since' = DOMAIN since \cup {k} /\ since'[k] = {}
      /\ \A x \in DOMAIN since \ {k} : since'[x] = since[x] \cup {k}
  BY UseEffect
<1>3. /\ Len(order) \in Nat /\ Len(order) <= cacheMax /\ cacheMax >= 1
      /\ cacheMax \in Nat /\ (Full => Len(order) = cacheMax)
  BY FullLength, CacheMaxAssumption
<1>4. \A j \in 1..Len(order) : order[j] \in DOMAIN since /\ order[j] # k
  BY <1>1 DEF CacheInv, CacheCoherent, Members, HistoryTyped
<1>5. PICK t \in Seq(Key) :
         /\ order' = PushFront(t, k) /\ Len(t) <= Len(order)
         /\ \A i \in 1..Len(t) : t[i] = order[i] /\ Before(t, i) = Before(order, i)
         /\ \A x \in DOMAIN entries \ DOMAIN entries' : x = Back /\ Full
         /\ k \in DOMAIN entries'
  <2>1. CASE PutNew(k, e)
    BY <1>1, <1>3, <2>1 DEF PutNew, With
  <2>2. CASE PutEvicting(k, e)
    <3>1. PICK t : t = DropBack(order)
      OBVIOUS
    <3>2. t \in Seq(Key) /\ Len(t) = Len(order) - 1
      BY <1>1, <1>3, <2>2, <3>1, DropBackProperties DEF PutEvicting
    <3>3. \A i \in 1..Len(t) : t[i] = order[i]
      BY <1>3, <3>1, <3>2 DEF DropBack
    <3>4. \A i \in 1..Len(t) : Before(t, i) = Before(order, i)
      BY <1>3, <3>2, <3>3 DEF Before
    <3>5. DOMAIN entries' = (DOMAIN entries \ {Back}) \cup {k} /\ order' = PushFront(t, k)
      BY <2>2, <3>1 DEF PutEvicting, With, Without
    <3>6. QED
      BY <1>3, <2>2, <3>2, <3>3, <3>4, <3>5 DEF PutEvicting
  <2>3. QED
    BY <2>1, <2>2
<1>6. Len(t) \in Nat /\ Len(order') = Len(t) + 1
  BY <1>5 DEF PushFront
<1>7. ASSUME NEW i \in 1..(Len(t) + 1)
      PROVE  since'[order'[i]] = Before(order', i)
  <2>1. CASE order'[i] = k /\ Before(order', i) = {}
    BY <1>2, <2>1
  <2>2. CASE /\ i - 1 \in 1..Len(t) /\ order'[i] = t[i - 1]
             /\ Before(order', i) = Before(t, i - 1) \cup {k}
    <3>1. i - 1 \in 1..Len(order)
      BY <1>3, <1>5, <1>6, <2>2
    <3>2. order'[i] = order[i - 1] /\ Before(order', i) = Before(order, i - 1) \cup {k}
      BY <1>5, <2>2
    <3>3. QED
      BY <1>2, <1>4, <3>1, <3>2 DEF Recency
  <2>3. QED
    BY <1>5, <2>1, <2>2, BeforePushFront
<1>8. Recency'
  BY <1>6, <1>7 DEF Recency, Before
<1>9. Forgotten'
  <2>1. ASSUME NEW x \in DOMAIN since' \ DOMAIN entries'
        PROVE  IsFiniteSet(since'[x]) /\ Cardinality(since'[x]) >= cacheMax
    <3>1. x \in DOMAIN since \ {k} /\ since'[x] = since[x] \cup {k}
      BY <1>2, <1>5
    <3>2. CASE x \notin DOMAIN entries
      <4>1. PICK T : T = since[x]
        OBVIOUS
      <4>2. IsFiniteSet(T) /\ Cardinality(T) >= cacheMax
        BY <3>1, <3>2, <4>1 DEF Forgotten
      <4>3. IsFiniteSet(T \cup {k}) /\ Cardinality(T \cup {k}) >= cacheMax
        BY <4>2, ForgottenGrows
      <4>4. QED
        BY <3>1, <4>1, <4>3
    <3>3. CASE x \in DOMAIN entries
      <4>1. Len(order) = cacheMax /\ cacheMax \in 1..Len(order) /\ x = order[cacheMax]
        BY <1>3, <1>5, <2>1, <3>3 DEF Back
      <4>2. since[x] = Before(order, cacheMax)
        BY <4>1 DEF Recency
      <4>3. IsFiniteSet(since[x]) /\ Cardinality(since[x]) = cacheMax - 1
        BY <1>1, <4>1, <4>2, BeforeCardinality
      <4>4. k \notin since[x]
        <5>1. \A j \in 1..(cacheMax - 1) : j \in 1..Len(order)
          BY <1>3, <4>1
        <5>2. QED
          BY <1>4, <4>2, <5>1 DEF Before
      <4>5. PICK T : T = since[x]
        OBVIOUS
      <4>6. IsFiniteSet(T) /\ Cardinality(T) = cacheMax - 1 /\ k \notin T
        BY <4>3, <4>4, <4>5
      <4>7. IsFiniteSet(T \cup {k}) /\ Cardinality(T \cup {k}) = cacheMax
        <5>1. IsFiniteSet(T \cup {k}) /\ Cardinality(T \cup {k}) = Cardinality(T) + 1
          BY <4>6, FS_AddElement
        <5>2. QED
          BY <1>3, <4>6, <5>1
      <4>8. QED
        BY <1>3, <3>1, <4>5, <4>7
    <3>4. QED
      BY <3>2, <3>3
  <2>2. QED
    BY <2>1 DEF Forgotten
<1>10. QED
  BY <1>8, <1>9

\* Of an empty cache nothing was used and nothing put.
LEMMA InitHistoryInv == Init => HistoryInv
<1> SUFFICES ASSUME Init
             PROVE  HistoryInv
  OBVIOUS
<1>1. CacheInv /\ Len(order) = 0 /\ DOMAIN entries = {}
  BY InitCacheInv DEF Init, CacheInit
<1>2. DOMAIN since = {} /\ DOMAIN latest = {}
  BY DEF Init
<1>3. QED
  BY <1>1, <1>2 DEF HistoryInv, HistoryTyped, Recency, Forgotten, LatestValue

\* Every operation keeps the record of use in step with the list.
LEMMA NextHistoryInv == HistoryInv /\ [Next]_vars => HistoryInv'
<1> SUFFICES ASSUME HistoryInv, [Next]_vars
             PROVE  HistoryInv'
  OBVIOUS
<1> USE DEF HistoryInv
<1>1. CASE UNCHANGED vars
  <2>1. UNCHANGED <<entries, order, since, latest>>
    BY <1>1 DEF vars, cacheVars, histVars
  <2>2. CacheInv'
    BY <2>1, NextCacheInv DEF cacheVars
  <2>3. HistoryTyped' /\ LatestValue'
    BY <2>1 DEF HistoryTyped, LatestValue
  <2>4. Recency' /\ Forgotten'
    BY <2>1 DEF Recency, Forgotten, Before
  <2>5. QED
    BY <2>2, <2>3, <2>4
<1>2. ASSUME NEW k \in Key, ReadMiss(k)
      PROVE  HistoryInv'
  <2>1. UNCHANGED <<entries, order, since, latest>>
    BY <1>2 DEF ReadMiss, GetMiss, cacheVars, histVars
  <2>2. CacheInv'
    BY <2>1, NextCacheInv DEF cacheVars
  <2>3. HistoryTyped' /\ LatestValue'
    BY <2>1 DEF HistoryTyped, LatestValue
  <2>4. Recency' /\ Forgotten'
    BY <2>1 DEF Recency, Forgotten, Before
  <2>5. QED
    BY <2>2, <2>3, <2>4
<1>3. ASSUME NEW k \in Key, ReadHit(k)
      PROVE  HistoryInv'
  <2>1. /\ Hit(k) /\ order' = MoveToFront(order, k) /\ since' = Use(k)
        /\ GetHit(k) /\ UNCHANGED <<entries, latest>>
    BY <1>3 DEF ReadHit, GetHit
  <2>2. CacheInv'
    BY <2>1, GetHitInv
  <2>3. HistoryTyped' /\ LatestValue'
    BY <2>1, UseEffect DEF HistoryTyped, Hit, LatestValue
  <2>4. QED
    BY <2>1, <2>2, <2>3, RefreshInv
<1>4. ASSUME NEW k \in Key, NEW e \in Entry, Store(k, e)
      PROVE  HistoryInv'
  <2>1. Put(k, e) /\ since' = Use(k) /\ latest' = With(latest, k, e)
    BY <1>4 DEF Store
  <2>2. CacheInv'
    BY <2>1, NextCacheInv DEF CacheNext
  <2>3. /\ DOMAIN entries' \subseteq DOMAIN entries \cup {k}
        /\ k \in DOMAIN entries' /\ entries'[k] = e
        /\ \A x \in DOMAIN entries' \ {k} : entries'[x] = entries[x]
    BY <2>1 DEF Put, PutExisting, PutNew, PutEvicting, With, Without, Hit
  <2>4. /\ DOMAIN latest' = DOMAIN latest \cup {k} /\ latest'[k] = e
        /\ \A x \in DOMAIN latest \ {k} : latest'[x] = latest[x]
    BY <2>1 DEF With
  <2>5. HistoryTyped'
    BY <2>1, <2>3, <2>4, UseEffect DEF HistoryTyped
  <2>6. LatestValue'
    BY <2>3, <2>4 DEF LatestValue, HistoryTyped
  <2>7. Recency' /\ Forgotten'
    <3>1. CASE PutExisting(k, e)
      <4>1. Hit(k) /\ order' = MoveToFront(order, k) /\ DOMAIN entries' = DOMAIN entries
        BY <3>1 DEF PutExisting, With, Hit
      <4>2. QED
        BY <2>1, <4>1, RefreshInv
    <3>2. CASE PutNew(k, e) \/ PutEvicting(k, e)
      BY <2>1, <3>2, InsertInv
    <3>3. QED
      BY <2>1, <3>1, <3>2 DEF Put
  <2>8. QED
    BY <2>2, <2>5, <2>6, <2>7
<1>5. QED
  BY <1>1, <1>2, <1>3, <1>4 DEF Next

\* The invariant holds in every state.
LEMMA HistoryInvariance == Spec => []HistoryInv
BY InitHistoryInv, NextHistoryInv, PTL DEF Spec

\* The cache evicts the least recently used: a key put once is resident
\* exactly as long as fewer than cacheMax others were used after it.
THEOREM CacheEvictsLeastRecent == Spec => []LruGuarantee
<1>1. ASSUME HistoryInv, NEW k \in DOMAIN since
      PROVE  Hit(k) <=> Cardinality(since[k]) < cacheMax
  <2>1. CASE Hit(k)
    <3>1. order \in Seq(Key) /\ NoDup(order) /\ Members(order) = DOMAIN entries
      BY <1>1 DEF HistoryInv, CacheInv, CacheTypeOK, CacheCoherent, NoDup
    <3>2. PICK i \in 1..Len(order) : k = order[i]
      BY <2>1, <3>1 DEF Hit, Members
    <3>3. Cardinality(since[k]) = i - 1
      BY <1>1, <3>1, <3>2, BeforeCardinality DEF HistoryInv, Recency
    <3>4. Len(order) \in Nat /\ Len(order) <= cacheMax /\ cacheMax \in Nat
      BY <1>1, FullLength, CacheMaxAssumption DEF HistoryInv
    <3>5. QED
      BY <2>1, <3>2, <3>3, <3>4
  <2>2. CASE ~Hit(k)
    <3>1. IsFiniteSet(since[k]) /\ Cardinality(since[k]) >= cacheMax
      BY <1>1, <2>2 DEF HistoryInv, Forgotten, Hit
    <3>2. Cardinality(since[k]) \in Nat /\ cacheMax \in Nat
      BY <3>1, FS_CardinalityType, CacheMaxAssumption
    <3>3. QED
      BY <2>2, <3>1, <3>2
  <2>3. QED
    BY <2>1, <2>2
<1>2. HistoryInv => LruGuarantee
  BY <1>1 DEF LruGuarantee
<1>3. QED
  BY <1>2, HistoryInvariance, PTL

\* A hit returns what was last put under its key.
THEOREM CacheReturnsLatest == Spec => []LatestValue
<1>1. HistoryInv => LatestValue
  BY DEF HistoryInv
<1>2. QED
  BY <1>1, HistoryInvariance, PTL

=============================================================================
