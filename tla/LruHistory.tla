----------------------------- MODULE LruHistory -----------------------------
(***************************************************************************)
(* LruCache with two history variables that record what its callers did:   *)
(* they let the properties say which keys a least-recently-used cache must *)
(* still hold and which value it must return for them.                     *)
(***************************************************************************)
EXTENDS LruCache

VARIABLES since,   \* for each key ever put: the other keys used after its last use
          latest   \* for each key ever put: the entry of its last put

histVars == <<since, latest>>

vars == <<cacheVars, histVars>>

Use(k) == [x \in DOMAIN since \cup {k} |->
              IF x = k THEN {} ELSE since[x] \cup {k}]

Init == /\ CacheInit
        /\ since = << >>
        /\ latest = << >>

ReadHit(k) == GetHit(k) /\ since' = Use(k) /\ UNCHANGED latest

ReadMiss(k) == GetMiss(k) /\ UNCHANGED histVars

Store(k, e) == /\ Put(k, e)
               /\ since' = Use(k)
               /\ latest' = With(latest, k, e)

Next == \E k \in Key :
            \/ ReadHit(k)
            \/ ReadMiss(k)
            \/ \E e \in Entry : Store(k, e)

Spec == Init /\ [][Next]_vars

-----------------------------------------------------------------------------
\* The history variables describe keys and entries the callers really used.
TypeOK == /\ CacheTypeOK
          /\ DOMAIN since = DOMAIN latest
          /\ \A k \in DOMAIN since : since[k] \subseteq Key \ {k}
          /\ \A k \in DOMAIN latest : latest[k] \in Entry

\* "eviction is LRU: every get moves the entry to the front, and overflow
\* evicts the back" (norma_cache.go): a key put once is still resident
\* exactly as long as fewer than cacheMax other keys were used after it.
LruGuarantee == \A k \in DOMAIN since :
                    Hit(k) <=> Cardinality(since[k]) < cacheMax

\* A hit returns the entry of the last put of that key, whatever evictions
\* and re-insertions happened between.
LatestValue == \A k \in DOMAIN entries : entries[k] = latest[k]

=============================================================================
