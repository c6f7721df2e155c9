------------------------------ MODULE CgrFetch ------------------------------
(***************************************************************************)
(* How internal/cgr/cgr_client.go answers searches, counts and the seven   *)
(* kinds of documents of the Contraloria.  Every family has an LRU cache   *)
(* of its own and all share one singleflight group.  A call looks into its *)
(* cache BEFORE it enters the group, and nothing is ever revalidated: CGR  *)
(* sends no ETag.  Requests refused before any I/O (empty, malformed or    *)
(* overlong ids, unknown sources, pages out of range) touch no state and   *)
(* are left out.                                                           *)
(***************************************************************************)
EXTENDS Integers, Sequences, FiniteSets

CONSTANTS Caller,      \* tool invocations running concurrently
          Family,      \* searches, counts, and the kinds of documents
          Query,       \* what is asked for: a family and an id in it
          cacheMaxOf,  \* the capacity of each family's cache
          Heavy,       \* responses over 2 MB of the heavy search sources
          maxVersion,  \* bound: versions the upstream publishes of an answer
          None         \* no caller, no answer

Id == {q.id : q \in Query}

Version == 1..maxVersion

Document == [of : Query, version : Version]

ASSUME CgrAssumption == /\ \A q \in Query : q = [family |-> q.family, id |-> q.id]
                        /\ \A q \in Query : q.family \in Family
                        /\ Query # {}
                        /\ cacheMaxOf \in [Family -> Nat \ {0}]
                        /\ Heavy \subseteq Document
                        /\ maxVersion \in Nat \ {0}
                        /\ None \notin Caller \cup Document

VARIABLES published,  \* upstream: the version of each answer now in force
          entries,    \* the map of each family's cache ...
          order,      \* ... and its recency list
          group,      \* singleflight: the leader of the flight of each key
          calls,      \* where each caller is in its handler
          returned    \* history: the newest version ever returned of an answer

vars == <<published, entries, order, group, calls, returned>>

Cache(f) == INSTANCE LruCache WITH Key <- Id, Entry <- Document,
                                   cacheMax <- cacheMaxOf[f],
                                   entries <- entries[f], order <- order[f]

-----------------------------------------------------------------------------
\* A slip: ids of different families, which look alike, share a flight.
flightKeyOfId(q) == <<CHOOSE f \in Family : TRUE, q.id>>

\* "get:dictamenes:<id>", "get:contable:<id>", "search:...", "count:...".
flightKey(q) == <<q.family, q.id>>

Current(q) == [of |-> q, version |-> published[q]]

Newer(a, b) == IF a >= b THEN a ELSE b

CallRecord == [pc : {"idle", "peek", "enter", "fetch", "store", "deliver",
                     "wait", "return"},
               query : Query,
               leader : Caller \cup {None},
               reply : Document \cup {None},
               floor : Nat]

NoCall == [pc |-> "idle", query |-> CHOOSE q \in Query : TRUE,
           leader |-> None, reply |-> None, floor |-> 0]

QueryOf(c) == calls[c].query

KeyOf(c) == flightKey(QueryOf(c))

Leading(c) == calls[c].pc \in {"fetch", "store", "deliver"}

Answered(c, reply) == [calls[c] EXCEPT !.pc = "return", !.leader = None,
                                       !.reply = reply]

Goto(c, pc) == calls' = [calls EXCEPT ![c].pc = pc]

\* get of a resident key in the cache of family f: it becomes the newest.
Touch(f, k) ==
    /\ order' = [order EXCEPT ![f] = Cache(f)!MoveToFront(@, k)]
    /\ UNCHANGED entries

\* A slip: the key that is dropped from the list stays in the map.
PutLeavingEvicted(f, k, e) ==
    LET Evict == ~Cache(f)!Hit(k) /\ Cache(f)!Full
        kept  == IF Evict THEN Cache(f)!DropBack(order[f]) ELSE order[f]
    IN /\ entries' = [entries EXCEPT ![f] = Cache(f)!With(@, k, e)]
       /\ order' = [order EXCEPT ![f] = IF Cache(f)!Hit(k)
                                        THEN Cache(f)!MoveToFront(@, k)
                                        ELSE Cache(f)!PushFront(kept, k)]

\* put into the cache of family f: the least recently used entry makes room.
PutInto(f, k, e) ==
    LET Evict == ~Cache(f)!Hit(k) /\ Cache(f)!Full
        kept  == IF Evict THEN Cache(f)!DropBack(order[f]) ELSE order[f]
        map   == IF Evict THEN Cache(f)!Without(entries[f], Cache(f)!Back)
                 ELSE entries[f]
    IN /\ entries' = [entries EXCEPT ![f] = Cache(f)!With(map, k, e)]
       /\ order' = [order EXCEPT ![f] = IF Cache(f)!Hit(k)
                                        THEN Cache(f)!MoveToFront(@, k)
                                        ELSE Cache(f)!PushFront(kept, k)]

PutOf(q, e) == \E f \in Family : f = q.family /\ PutInto(f, q.id, e)

-----------------------------------------------------------------------------
Init == /\ published = [q \in Query |-> 1]
        /\ entries = [f \in Family |-> << >>]
        /\ order = [f \in Family |-> << >>]
        /\ group = [k \in Family \X Id |-> None]
        /\ calls = [c \in Caller |-> NoCall]
        /\ returned = [q \in Query |-> 0]

Publish(q) == /\ published[q] < maxVersion
              /\ published' = [published EXCEPT ![q] = @ + 1]
              /\ UNCHANGED <<entries, order, group, calls, returned>>

\* A validated request.
Start(c, q) ==
    /\ calls[c].pc = "idle"
    /\ calls' = [calls EXCEPT ![c] = [NoCall EXCEPT !.pc = "peek", !.query = q,
                                                    !.floor = returned[q]]]
    /\ UNCHANGED <<published, entries, order, group, returned>>

PeekHit(c) ==
    LET q == QueryOf(c) IN
    /\ calls[c].pc = "peek"
    /\ Cache(q.family)!Hit(q.id)
    /\ Touch(q.family, q.id)
    /\ calls' = [calls EXCEPT ![c] = Answered(c, entries[q.family][q.id])]
    /\ UNCHANGED <<published, group, returned>>

\* Between the miss and the flight another caller's flight may store the
\* very answer this one goes on to fetch.
PeekMiss(c) ==
    /\ calls[c].pc = "peek"
    /\ ~Cache(QueryOf(c).family)!Hit(QueryOf(c).id)
    /\ Goto(c, "enter")
    /\ UNCHANGED <<published, entries, order, group, returned>>

\* flights.Do, no flight for the key: c posts the request itself.
Lead(c) ==
    /\ calls[c].pc = "enter"
    /\ group[KeyOf(c)] = None
    /\ group' = [group EXCEPT ![KeyOf(c)] = c]
    /\ Goto(c, "fetch")
    /\ UNCHANGED <<published, entries, order, returned>>

\* A slip: a call that finds a flight under way starts its own as well.
JoinAlone(c) ==
    /\ calls[c].pc = "enter"
    /\ group[KeyOf(c)] # None
    /\ Goto(c, "fetch")
    /\ UNCHANGED <<published, entries, order, group, returned>>

\* flights.Do, a flight is under way: c waits for its leader.
Join(c) ==
    /\ calls[c].pc = "enter"
    /\ group[KeyOf(c)] # None
    /\ calls' = [calls EXCEPT ![c].pc = "wait",
                              ![c].leader = group[KeyOf(c)]]
    /\ UNCHANGED <<published, entries, order, group, returned>>

\* 200 with a first hit of the right index; its text is sanitized.
FullAnswer(c) ==
    /\ calls[c].pc = "fetch"
    /\ calls' = [calls EXCEPT ![c].pc = "store",
                              ![c].reply = Current(QueryOf(c))]
    /\ UNCHANGED <<published, entries, order, group, returned>>

\* Transport error, timeout, cancelled leader, failure status, body too
\* large or undecodable, no hits, a hit of another index: nothing is stored.
FetchError(c) ==
    /\ calls[c].pc = "fetch"
    /\ Goto(c, "deliver")
    /\ UNCHANGED <<published, entries, order, group, returned>>

Store(c) ==
    /\ calls[c].pc = "store"
    /\ calls[c].reply \notin Heavy
    /\ PutOf(QueryOf(c), calls[c].reply)
    /\ Goto(c, "deliver")
    /\ UNCHANGED <<published, group, returned>>

\* "Do not cache heavy responses": an older entry, if any, stays as it is.
SkipStore(c) ==
    /\ calls[c].pc = "store"
    /\ calls[c].reply \in Heavy
    /\ Goto(c, "deliver")
    /\ UNCHANGED <<published, entries, order, group, returned>>

WaitsFor(d, c) == calls[d].pc = "wait" /\ calls[d].leader = c

\* What the callers are left with when c's flight ends.
Released(c) == [d \in Caller |-> IF d = c \/ WaitsFor(d, c)
                                 THEN Answered(d, calls[c].reply)
                                 ELSE calls[d]]

\* A slip: the key stays in the group, and later calls join a dead flight.
DeliverKeepsFlight(c) ==
    /\ calls[c].pc = "deliver"
    /\ calls' = Released(c)
    /\ UNCHANGED <<published, entries, order, group, returned>>

\* The flight ends: its waiters get the leader's result, the key is free.
Deliver(c) ==
    /\ calls[c].pc = "deliver"
    /\ calls' = Released(c)
    /\ group' = [group EXCEPT ![KeyOf(c)] = None]
    /\ UNCHANGED <<published, entries, order, returned>>

\* The handler answers its client, with an error if there is no reply.
Return(c) ==
    /\ calls[c].pc = "return"
    /\ calls' = [calls EXCEPT ![c] = NoCall]
    /\ returned' = IF calls[c].reply = None THEN returned
                   ELSE [returned EXCEPT ![QueryOf(c)] =
                                             Newer(@, calls[c].reply.version)]
    /\ UNCHANGED <<published, entries, order, group>>

\* The steps of a call once begun: none of them waits for a client.
Progress(c) == \/ PeekHit(c) \/ PeekMiss(c) \/ Lead(c) \/ Join(c)
               \/ FullAnswer(c) \/ FetchError(c) \/ Store(c) \/ SkipStore(c)
               \/ Deliver(c) \/ Return(c)

Next == \/ \E q \in Query : Publish(q)
        \/ \E c \in Caller : \/ \E q \in Query : Start(c, q)
                             \/ Progress(c)

Spec == Init /\ [][Next]_vars

\* Every goroutine runs, and timeoutForSource bounds every upstream attempt.
FairSpec == Spec /\ \A c \in Caller : WF_vars(Progress(c))

-----------------------------------------------------------------------------
\* The variables have the shapes their Go counterparts give them.
TypeOK == /\ published \in [Query -> Version]
          /\ DOMAIN entries = Family /\ DOMAIN order = Family
          /\ \A f \in Family : Cache(f)!CacheTypeOK
          /\ group \in [Family \X Id -> Caller \cup {None}]
          /\ calls \in [Caller -> CallRecord]
          /\ returned \in [Query -> 0..maxVersion]

\* The answer of a call is what it asked for, of the family it asked for:
\* otherwise the type assertion on the flight's result would panic, or a
\* cache would hold another id's document.
RightAnswer ==
    /\ \A c \in Caller : calls[c].reply # None => calls[c].reply.of = QueryOf(c)
    /\ \A f \in Family : \A k \in DOMAIN entries[f] :
          entries[f][k].of = [family |-> f, id |-> k]

\* The answers of q are always cached.
Light(q) == \A d \in Heavy : d.of # q

\* Although nothing is revalidated and the cache is read outside the flight,
\* no client sees an answer go back to an older version than one returned,
\* to anyone, before its call began.  Heavy search pages are excepted: one
\* fetched by a call that raced past the cache is returned but not stored,
\* and the next call is answered with the older entry.
ReadsGoForward ==
    \A c \in Caller :
       calls[c].pc = "return" /\ calls[c].reply # None /\ Light(QueryOf(c))
       => calls[c].reply.version >= calls[c].floor

\* Each family's cache behaves as the LRU cache of LruCache, undisturbed by
\* the calls that run in the other families.
CachesAreLru ==
    /\ \A f \in Family : Cache(f)!CacheInit
    /\ [][\A f \in Family : \/ Cache(f)!CacheNext
                             \/ UNCHANGED <<entries[f], order[f]>>]_vars

\* Every call that begins is answered, whether it led, joined or hit.
EveryCallReturns == \A c \in Caller :
                       calls[c].pc # "idle" ~> calls[c].pc = "idle"

=============================================================================
