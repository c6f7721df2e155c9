----------------------------- MODULE NormaFetch -----------------------------
(***************************************************************************)
(* How internal/bcn/law_client.go answers get_law, find_in_norm and        *)
(* get_law_summary: concurrent calls for the same norm and version share   *)
(* one flight (singleflight), the flight revalidates the cached copy with  *)
(* its ETag, and the summary tool reads the cache without revalidating.    *)
(* One document version stands for its ETag and its converted content,     *)
(* which every response carries together.                                  *)
(***************************************************************************)
EXTENDS Integers, Sequences, FiniteSets

CONSTANTS Caller,      \* tool invocations running concurrently
          Norm,        \* norm ids
          Date,        \* version dates, "" among them
          cacheMax,    \* capacity of the norm cache
          maxVersion,  \* bound: versions the upstream publishes of a document
          None         \* no caller, no document

ASSUME NormaAssumption == /\ cacheMax \in Nat \ {0}
                          /\ maxVersion \in Nat \ {0}
                          /\ None \notin Caller
                          /\ Norm # {} /\ Date # {}

Query == [norm : Norm, date : Date]

Key == Norm \X Date

Version == 1..maxVersion

Document == [of : Query, version : Version]

ASSUME NoneAssumption == None \notin Document

VARIABLES published,  \* upstream: the version of each document now in force
          entries,    \* the norm cache, the map ...
          order,      \* ... and the recency list
          group,      \* singleflight: the leader of the flight of each key
          calls,      \* where each caller is in its handler
          returned    \* history: the newest version ever returned of a document

vars == <<published, entries, order, group, calls, returned>>

Cache == INSTANCE LruCache WITH Entry <- Document

-----------------------------------------------------------------------------
\* A slip: the version date left out of the key, so that every version of
\* a norm shares one entry and one flight.
keyWithoutDate(q) == <<q.norm, CHOOSE d \in Date : TRUE>>

normaCacheKey(q) == <<q.norm, q.date>>

Newer(a, b) == IF a >= b THEN a ELSE b

Current(q) == [of |-> q, version |-> published[q]]

\* leader, cached and reply are None while not meaningful; base is the
\* version in force when the flight that serves the call began (0: none),
\* floor the newest version anyone had been given when the call began.
CallRecord == [pc : {"idle", "peek", "enter", "lookup", "fetch", "store",
                     "deliver", "wait", "return"},
               query : Query,
               leader : Caller \cup {None},
               cached : Document \cup {None},
               reply : Document \cup {None},
               base : Nat,
               floor : Nat]

\* The record of a caller that has no call under way.
NoCall == [pc |-> "idle", query |-> CHOOSE q \in Query : TRUE,
           leader |-> None, cached |-> None, reply |-> None,
           base |-> 0, floor |-> 0]

\* Caller c is the leader of a flight: getNormaOnce is running in it.
Leading(c) == calls[c].pc \in {"lookup", "fetch", "store", "deliver"}

QueryOf(c) == calls[c].query

KeyOf(c) == normaCacheKey(QueryOf(c))

\* What is left of c's call once its answer is known.
Answered(c, reply) == [calls[c] EXCEPT !.pc = "return", !.leader = None,
                                       !.cached = None, !.reply = reply]

Goto(c, pc) == calls' = [calls EXCEPT ![c].pc = pc]

-----------------------------------------------------------------------------
Init == /\ published = [q \in Query |-> 1]
        /\ Cache!CacheInit
        /\ group = [k \in Key |-> None]
        /\ calls = [c \in Caller |-> NoCall]
        /\ returned = [q \in Query |-> 0]

\* The upstream replaces the document in force.
Publish(q) == /\ published[q] < maxVersion
              /\ published' = [published EXCEPT ![q] = @ + 1]
              /\ UNCHANGED <<entries, order, group, calls, returned>>

\* A tool handler begins: get_law and find_in_norm call GetNorma, the
\* summary tool calls GetNormaSummary, which peeks into the cache first.
Start(c, q, pc) ==
    /\ calls[c].pc = "idle"
    /\ calls' = [calls EXCEPT ![c] = [NoCall EXCEPT !.pc = pc, !.query = q,
                                                    !.floor = returned[q]]]
    /\ UNCHANGED <<published, entries, order, group, returned>>

\* GetNormaSummary, cache hit: the cached entry is the answer.
PeekHit(c) ==
    /\ calls[c].pc = "peek"
    /\ Cache!GetHit(KeyOf(c))
    /\ calls' = [calls EXCEPT ![c] = Answered(c, entries[KeyOf(c)])]
    /\ UNCHANGED <<published, group, returned>>

PeekMiss(c) ==
    /\ calls[c].pc = "peek"
    /\ Cache!GetMiss(KeyOf(c))
    /\ Goto(c, "enter")
    /\ UNCHANGED <<published, group, returned>>

\* A slip: the flight is not recorded, and the next caller starts its own.
LeadUnrecorded(c) ==
    /\ calls[c].pc = "enter"
    /\ group[KeyOf(c)] = None
    /\ calls' = [calls EXCEPT ![c].pc = "lookup",
                              ![c].base = published[QueryOf(c)]]
    /\ UNCHANGED <<published, entries, order, group, returned>>

\* flights.Do, no flight for the key: c leads a new one.
Lead(c) ==
    /\ calls[c].pc = "enter"
    /\ group[KeyOf(c)] = None
    /\ group' = [group EXCEPT ![KeyOf(c)] = c]
    /\ calls' = [calls EXCEPT ![c].pc = "lookup",
                              ![c].base = published[QueryOf(c)]]
    /\ UNCHANGED <<published, entries, order, returned>>

\* A slip: a call that finds a flight under way starts its own as well.
JoinAlone(c) ==
    /\ calls[c].pc = "enter"
    /\ group[KeyOf(c)] # None
    /\ calls' = [calls EXCEPT ![c].pc = "lookup",
                              ![c].base = published[QueryOf(c)]]
    /\ UNCHANGED <<published, entries, order, group, returned>>

\* flights.Do, a flight is under way: c waits for its leader, whatever
\* happens to c's own context.
Join(c) ==
    /\ calls[c].pc = "enter"
    /\ group[KeyOf(c)] # None
    /\ calls' = [calls EXCEPT ![c].pc = "wait",
                              ![c].leader = group[KeyOf(c)],
                              ![c].base = calls[group[KeyOf(c)]].base]
    /\ UNCHANGED <<published, entries, order, group, returned>>

\* getNormaOnce reads the cache to build the conditional request.
LookupHit(c) ==
    /\ calls[c].pc = "lookup"
    /\ Cache!GetHit(KeyOf(c))
    /\ calls' = [calls EXCEPT ![c].pc = "fetch",
                              ![c].cached = entries[KeyOf(c)]]
    /\ UNCHANGED <<published, group, returned>>

LookupMiss(c) ==
    /\ calls[c].pc = "lookup"
    /\ Cache!GetMiss(KeyOf(c))
    /\ Goto(c, "fetch")
    /\ UNCHANGED <<published, group, returned>>

\* A slip: the entry is served although the upstream moved on.
NotModifiedUnchecked(c) ==
    /\ calls[c].pc = "fetch"
    /\ calls[c].cached # None
    /\ calls' = [calls EXCEPT ![c].pc = "deliver", ![c].cached = None,
                              ![c].reply = calls[c].cached]
    /\ UNCHANGED <<published, entries, order, group, returned>>

\* 304: the cached copy, read before the request, is the document in force.
NotModified(c) ==
    /\ calls[c].pc = "fetch"
    /\ calls[c].cached = Current(QueryOf(c))
    /\ calls' = [calls EXCEPT ![c].pc = "deliver", ![c].cached = None,
                              ![c].reply = calls[c].cached]
    /\ UNCHANGED <<published, entries, order, group, returned>>

\* 200: the body is read, decoded and converted while others go on.
FullAnswer(c) ==
    /\ calls[c].pc = "fetch"
    /\ calls' = [calls EXCEPT ![c].pc = "store", ![c].cached = None,
                              ![c].reply = Current(QueryOf(c))]
    /\ UNCHANGED <<published, entries, order, group, returned>>

\* Transport error, cancelled leader, failure status, oversized or
\* undecodable body: the flight ends in an error and stores nothing.
FetchError(c) ==
    /\ calls[c].pc = "fetch"
    /\ calls' = [calls EXCEPT ![c].pc = "deliver", ![c].cached = None]
    /\ UNCHANGED <<published, entries, order, group, returned>>

\* A slip: the flight stores an entry without a document.
StoreNothing(c) ==
    /\ calls[c].pc = "store"
    /\ Cache!Put(KeyOf(c), None)
    /\ Goto(c, "deliver")
    /\ UNCHANGED <<published, group, returned>>

Store(c) ==
    /\ calls[c].pc = "store"
    /\ Cache!Put(KeyOf(c), calls[c].reply)
    /\ Goto(c, "deliver")
    /\ UNCHANGED <<published, group, returned>>

WaitsFor(d, c) == calls[d].pc = "wait" /\ calls[d].leader = c

\* A slip: the key stays in the group, and later calls join a dead flight.
DeliverKeepsFlight(c) ==
    /\ calls[c].pc = "deliver"
    /\ calls' = [d \in Caller |->
                   IF d = c \/ WaitsFor(d, c)
                   THEN Answered(d, calls[c].reply)
                   ELSE calls[d]]
    /\ UNCHANGED <<published, entries, order, group, returned>>

\* The flight ends: under one lock its waiters are released with the
\* leader's result and the key leaves the group.
Deliver(c) ==
    /\ calls[c].pc = "deliver"
    /\ calls' = [d \in Caller |->
                   IF d = c \/ WaitsFor(d, c)
                   THEN Answered(d, calls[c].reply)
                   ELSE calls[d]]
    /\ group' = [group EXCEPT ![KeyOf(c)] = None]
    /\ UNCHANGED <<published, entries, order, returned>>

\* The handler answers its client with a document, or with the error.
ReturnDocument(c) ==
    /\ calls[c].pc = "return"
    /\ calls[c].reply # None
    /\ LET v == calls[c].reply.version IN
       returned' = [returned EXCEPT ![QueryOf(c)] = Newer(@, v)]
    /\ calls' = [calls EXCEPT ![c] = NoCall]
    /\ UNCHANGED <<published, entries, order, group>>

ReturnError(c) ==
    /\ calls[c].pc = "return"
    /\ calls[c].reply = None
    /\ calls' = [calls EXCEPT ![c] = NoCall]
    /\ UNCHANGED <<published, entries, order, group, returned>>

Answer(c) == NotModified(c) \/ FullAnswer(c) \/ FetchError(c)

\* The steps of a call once begun: none of them waits for a client.
Progress(c) == \/ PeekHit(c) \/ PeekMiss(c) \/ Lead(c) \/ Join(c)
               \/ LookupHit(c) \/ LookupMiss(c) \/ Answer(c) \/ Store(c)
               \/ Deliver(c) \/ ReturnDocument(c) \/ ReturnError(c)

Next == \/ \E q \in Query : Publish(q)
        \/ \E c \in Caller : \/ \E q \in Query : \/ Start(c, q, "enter")
                                                 \/ Start(c, q, "peek")
                             \/ Progress(c)

Spec == Init /\ [][Next]_vars

\* Every goroutine runs, and an upstream attempt ends: the per-resource
\* timeout turns silence into an error.
FairSpec == Spec /\ \A c \in Caller : WF_vars(Progress(c))

-----------------------------------------------------------------------------
\* The variables have the shapes their Go counterparts give them.
TypeOK == /\ published \in [Query -> Version]
          /\ Cache!CacheTypeOK
          /\ group \in [Key -> Caller \cup {None}]
          /\ calls \in [Caller -> CallRecord]
          /\ returned \in [Query -> 0..maxVersion]

\* "they share ONE call to BCN": of all callers asking for a key, only the
\* leader the group records runs getNormaOnce.
SingleFlight == \A c \in Caller : Leading(c) <=> group[KeyOf(c)] = c

\* "a historical version must never receive another version's cached entry":
\* a call is answered with the document it asked for.
RightDocument == \A c \in Caller :
                    calls[c].reply # None => calls[c].reply.of = calls[c].query

\* Whichever of get_law, find_in_norm and get_law_summary a client uses, it
\* never sees a document go back to a version older than one that had been
\* returned, to anyone, before the call began.
MonotonicReads == \A c \in Caller :
                     calls[c].pc = "return" /\ calls[c].reply # None
                     => calls[c].reply.version >= calls[c].floor

\* "correctness comes from ETag revalidation": an answer that went through
\* the flight was in force upstream at some moment since the flight began.
Revalidated == \A c \in Caller :
                  calls[c].pc = "return" /\ calls[c].reply # None
                  => calls[c].reply.version \in
                        calls[c].base..published[calls[c].query]

\* While a document stays cached its entry is never replaced by an older
\* version: puts of one key happen only inside that key's flight.
CacheNeverRegresses ==
    [][\A k \in DOMAIN entries \cap DOMAIN entries' :
          entries'[k].version >= entries[k].version]_vars

\* Every call that begins is answered, whether it led, joined or peeked.
EveryCallReturns == \A c \in Caller :
                       calls[c].pc # "idle" ~> calls[c].pc = "idle"

\* Cache and coalescing are invisible: the tools offer VersionedReads.  A
\* call is a read, settled once its reply is known.
ReadOf(c) ==
    LET call == calls[c] IN
    IF call.pc = "idle" THEN [phase |-> "none"]
    ELSE IF call.pc # "return"
         THEN [phase |-> "reading", query |-> call.query, floor |-> call.floor]
    ELSE IF call.reply = None THEN [phase |-> "failed"]
    ELSE [phase |-> "got", query |-> call.query, version |-> call.reply.version]

Reads == INSTANCE VersionedReads WITH reads <- [c \in Caller |-> ReadOf(c)]

ImplementsReads == Reads!ReadSpec

=============================================================================
