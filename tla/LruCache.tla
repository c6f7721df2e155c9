------------------------------ MODULE LruCache ------------------------------
(***************************************************************************)
(* The in-memory LRU cache both API clients keep: etagCache in             *)
(* internal/bcn/norma_cache.go and lruCache in internal/cgr/cache.go.      *)
(* Every method holds the mutex from its first to its last line, so each   *)
(* is one atomic action.  The Go map from key to list element and the list *)
(* itself are two structures that only agree because every method keeps    *)
(* them in step: `entries' stands for the map (with the value its element  *)
(* carries) and `order' for the keys of the list, front first.             *)
(***************************************************************************)
EXTENDS Integers, Sequences, FiniteSets

CONSTANTS Key,       \* cache keys, e.g. "<norm id>@<version date>"
          Entry,     \* cached values
          cacheMax   \* capacity: 100 for BCN, 100 or 20 per CGR family

ASSUME CacheMaxAssumption == cacheMax \in Nat \ {0}

VARIABLES entries,   \* a function from the resident keys to their entries
          order      \* the list of resident keys, most recently used first

cacheVars == <<entries, order>>

-----------------------------------------------------------------------------
\* List operations of container/list, on the list of keys.

Members(s) == {s[i] : i \in 1..Len(s)}

IndexOf(s, k) == CHOOSE i \in 1..Len(s) : s[i] = k

PushFront(s, k) == [i \in 1..(Len(s) + 1) |-> IF i = 1 THEN k ELSE s[i-1]]

\* Everything before k shifts back one place; what follows k stays.
MoveToFront(s, k) ==
    [i \in 1..Len(s) |-> IF i = 1 THEN k
                         ELSE IF i <= IndexOf(s, k) THEN s[i-1] ELSE s[i]]

DropBack(s) == [i \in 1..(Len(s) - 1) |-> s[i]]

Without(f, k) == [x \in DOMAIN f \ {k} |-> f[x]]

With(f, k, e) == [x \in DOMAIN f \cup {k} |-> IF x = k THEN e ELSE f[x]]

-----------------------------------------------------------------------------
CacheInit == entries = << >> /\ order = << >>

Hit(k) == k \in DOMAIN entries

\* A slip the LruGuarantee property must catch: a read that does not
\* refresh recency turns the cache into a FIFO.
GetHitFifo(k) == Hit(k) /\ UNCHANGED cacheVars

\* get of a resident key: the only effect is the refreshed recency.
GetHit(k) == /\ Hit(k)
             /\ order' = MoveToFront(order, k)
             /\ UNCHANGED entries

GetMiss(k) == ~Hit(k) /\ UNCHANGED cacheVars

Get(k) == GetHit(k) \/ GetMiss(k)

\* A slip: the element moves to the front but keeps its old value.
PutExistingStale(k, e) == GetHit(k)

PutExisting(k, e) == /\ Hit(k)
                     /\ entries' = With(entries, k, e)
                     /\ order' = MoveToFront(order, k)

Full == Cardinality(DOMAIN entries) >= cacheMax

Back == order[Len(order)]

PutNew(k, e) == /\ ~Hit(k)
                /\ ~Full
                /\ entries' = With(entries, k, e)
                /\ order' = PushFront(order, k)

\* A slip: the evicted element leaves the list and its key stays in the map.
PutEvictingListOnly(k, e) == /\ ~Hit(k)
                             /\ Full
                             /\ entries' = With(entries, k, e)
                             /\ order' = PushFront(DropBack(order), k)

\* Overflow: the back of the list leaves both structures before k enters.
PutEvicting(k, e) == /\ ~Hit(k)
                     /\ Full
                     /\ entries' = With(Without(entries, Back), k, e)
                     /\ order' = PushFront(DropBack(order), k)

Put(k, e) == PutExisting(k, e) \/ PutNew(k, e) \/ PutEvicting(k, e)

CacheNext == \E k \in Key : Get(k) \/ \E e \in Entry : Put(k, e)

CacheSpec == CacheInit /\ [][CacheNext]_cacheVars

-----------------------------------------------------------------------------
\* The two structures have the shapes the code gives them.
CacheTypeOK == /\ order \in Seq(Key)
               /\ DOMAIN entries \subseteq Key
               /\ entries \in [DOMAIN entries -> Entry]

\* Map and list never disagree: the list holds every resident key exactly
\* once and nothing else, and never more than cacheMax of them.  A key left
\* in only one of the two is a leak, or an element that can never be found.
CacheCoherent ==
    /\ Members(order) = DOMAIN entries
    /\ \A i, j \in 1..Len(order) : order[i] = order[j] => i = j
    /\ Len(order) <= cacheMax

=============================================================================
