-------------------------- MODULE NormaFetchProofs --------------------------
(***************************************************************************)
(* Safety of NormaFetch for every set of callers, norms and dates, every   *)
(* cache capacity and every number of published versions.                  *)
(***************************************************************************)
EXTENDS NormaFetch, TLAPS

\* Types of everything but the recency list, which decides only what is
\* evicted: the arguments below hold whatever the cache evicts.
Typed == /\ published \in [Query -> Version]
         /\ DOMAIN entries \subseteq Key
         /\ \A k \in DOMAIN entries : entries[k] \in Document
         /\ group \in [Key -> Caller \cup {None}]
         /\ calls \in [Caller -> CallRecord]
         /\ returned \in [Query -> 0..maxVersion]

\* Only some phases of a call hold a reply or a cached copy.
Phases ==
    \A c \in Caller :
       /\ calls[c].pc \notin {"store", "deliver", "return"} => calls[c].reply = None
       /\ calls[c].pc = "store" => calls[c].reply # None
       /\ calls[c].pc # "fetch" => calls[c].cached = None
       /\ calls[c].pc = "peek" => calls[c].base = 0

\* The group and the callers agree on who leads, and a caller that waits
\* does so for the leader its key has in the group, since that one's base.
Flights == /\ \A c \in Caller : Leading(c) => group[KeyOf(c)] = c
           /\ \A k \in Key : group[k] # None =>
                 Leading(group[k]) /\ KeyOf(group[k]) = k
           /\ \A c \in Caller : calls[c].pc = "wait" =>
                 /\ group[KeyOf(c)] # None
                 /\ calls[c].leader = group[KeyOf(c)]
                 /\ calls[c].base = calls[calls[c].leader].base

InCache(q) == normaCacheKey(q) \in DOMAIN entries

CachedCopy(q) == entries[normaCacheKey(q)]

\* Every copy of a document carries the query it was fetched for.
Labels == /\ \A c \in Caller :
                /\ calls[c].reply # None => calls[c].reply.of = calls[c].query
                /\ calls[c].cached # None => calls[c].cached.of = calls[c].query
          /\ \A q \in Query : InCache(q) => CachedCopy(q).of = q

\* A cached copy is as new as all that was returned of its document, and
\* no newer than upstream: eviction loses it, nothing makes it older.
CacheBounds == \A q \in Query :
                  /\ returned[q] <= published[q]
                  /\ InCache(q) => /\ returned[q] <= CachedCopy(q).version
                                   /\ CachedCopy(q).version <= published[q]

CallBounds == \A c \in Caller : calls[c].pc # "idle" =>
                 /\ calls[c].floor <= returned[calls[c].query]
                 /\ calls[c].base <= published[calls[c].query]

\* While a flight waits for the upstream nobody else puts its key.
Fetching == \A c \in Caller :
               calls[c].pc = "fetch" /\ InCache(calls[c].query)
               => calls[c].cached = CachedCopy(calls[c].query)

\* Flights about to store or to deliver, and calls about to return.
Landing(c) == calls[c].pc \in {"store", "deliver"} /\ calls[c].reply # None

Leaving(c) == calls[c].pc = "return" /\ calls[c].reply # None

\* What a flight carries is as new as all there is of its document here:
\* what was returned, what is about to be, and what is cached.
LandingNewest ==
    \A c \in Caller : Landing(c) =>
       LET q == calls[c].query   v == calls[c].reply.version IN
       /\ calls[c].base <= v
       /\ v <= published[q]
       /\ returned[q] <= v
       /\ \A d \in Caller : Leaving(d) /\ calls[d].query = q
                               => calls[d].reply.version <= v
       /\ InCache(q) => CachedCopy(q).version <= v
       /\ InCache(q) /\ calls[c].pc = "deliver" => CachedCopy(q).version = v

LeavingBounds ==
    \A c \in Caller : Leaving(c) =>
       LET q == calls[c].query   v == calls[c].reply.version IN
       /\ calls[c].floor <= v
       /\ calls[c].base <= v
       /\ v <= published[q]
       /\ InCache(q) => v <= CachedCopy(q).version

IInv == /\ Typed /\ Phases /\ Flights /\ Labels /\ CacheBounds /\ CallBounds
        /\ Fetching /\ LandingNewest /\ LeavingBounds

-----------------------------------------------------------------------------
\* A step after which c's record has these fields, and no other has changed.
Moves(c, pc, q, leader, cached, reply, base, floor) ==
    /\ calls' \in [Caller -> CallRecord]
    /\ calls'[c].pc = pc /\ calls'[c].query = q /\ calls'[c].leader = leader
    /\ calls'[c].cached = cached /\ calls'[c].reply = reply
    /\ calls'[c].base = base /\ calls'[c].floor = floor
    /\ \A d \in Caller \ {c} : calls'[d] = calls[d]

\* The same, for a step that leaves the query, the leader and the floor.
Settles(c, pc, cached, reply, base) ==
    Moves(c, pc, calls[c].query, calls[c].leader, cached, reply, base, calls[c].floor)

\* The cache key tells queries apart.
LEMMA KeyInjective ==
    /\ \A q \in Query : normaCacheKey(q) \in Key
    /\ \A p, q \in Query : normaCacheKey(p) = normaCacheKey(q) => p = q
BY DEF Query, Key, normaCacheKey

\* An idle caller's record names some query.
LEMMA AnyQuery == (CHOOSE q \in Query : TRUE) \in Query
<1>1. PICK n \in Norm, d \in Date : TRUE
  BY NormaAssumption
<1>2. [norm |-> n, date |-> d] \in Query
  BY DEF Query
<1>3. QED
  BY <1>2

\* After a put the key holds the document; every other resident key was
\* resident before, with the same document.
LEMMA PutEffect ==
    ASSUME NEW k, NEW d, Cache!Put(k, d)
    PROVE  /\ k \in DOMAIN entries' /\ entries'[k] = d
           /\ \A x \in DOMAIN entries' \ {k} :
                 x \in DOMAIN entries /\ entries'[x] = entries[x]
BY DEF Cache!Put, Cache!PutExisting, Cache!PutNew, Cache!PutEvicting,
       Cache!With, Cache!Without

\* What the steps of a call make of its record.
LEMMA StartEffect ==
    ASSUME Typed, NEW c \in Caller, NEW q \in Query,
           NEW pc \in {"enter", "peek"}, Start(c, q, pc)
    PROVE  Moves(c, pc, q, None, None, None, 0, returned[q])
<1>1. returned[q] \in Nat
  BY NormaAssumption DEF Typed
<1>2. QED
  BY <1>1 DEF Typed, Moves, CallRecord, Start, NoCall

\* GetNormaSummary's hit hands out the cached copy.
LEMMA PeekHitEffect ==
    ASSUME Typed, NEW c \in Caller, PeekHit(c)
    PROVE  Moves(c, "return", calls[c].query, None, None,
                 CachedCopy(calls[c].query), calls[c].base, calls[c].floor)
<1>1. CachedCopy(calls[c].query) \in Document
  BY KeyInjective DEF PeekHit, Cache!GetHit, Cache!Hit, CachedCopy, KeyOf,
     QueryOf, Typed, CallRecord
<1>2. QED
  BY <1>1 DEF Typed, Moves, CallRecord, PeekHit, QueryOf, KeyOf, CachedCopy, Answered

\* A leader's base is the version in force as its flight begins.
LEMMA LeadEffect ==
    ASSUME Typed, NEW c \in Caller, Lead(c)
    PROVE  Settles(c, "lookup", calls[c].cached, calls[c].reply,
                   published[calls[c].query])
<1>1. published[calls[c].query] \in Nat
  BY NormaAssumption DEF Version, Typed, CallRecord
<1>2. PICK b \in Nat : b = published[QueryOf(c)]
  BY <1>1 DEF QueryOf
<1>3. calls' = [calls EXCEPT ![c].pc = "lookup", ![c].base = b]
  BY <1>2 DEF Lead
<1>4. Settles(c, "lookup", calls[c].cached, calls[c].reply, b)
  BY <1>3 DEF Typed, Moves, Settles, CallRecord
<1>5. QED
  BY <1>2, <1>4 DEF QueryOf

\* A caller that joins a flight takes over the base of its leader.
LEMMA JoinEffect ==
    ASSUME Typed, NEW c \in Caller, Join(c)
    PROVE  Moves(c, "wait", calls[c].query, group[KeyOf(c)], calls[c].cached,
                 calls[c].reply, calls[group[KeyOf(c)]].base, calls[c].floor)
<1>1. group[KeyOf(c)] \in Caller
  BY KeyInjective DEF Join, KeyOf, QueryOf, Typed, CallRecord
<1>2. QED
  BY <1>1, ZenonT(40) DEF Typed, Moves, CallRecord, Join

\* getNormaOnce's lookup keeps the cached copy for the conditional request.
LEMMA LookupHitEffect ==
    ASSUME Typed, NEW c \in Caller, LookupHit(c)
    PROVE  Settles(c, "fetch", CachedCopy(calls[c].query), calls[c].reply, calls[c].base)
<1>1. CachedCopy(calls[c].query) \in Document
  BY KeyInjective DEF LookupHit, Cache!GetHit, Cache!Hit, CachedCopy, KeyOf,
     QueryOf, Typed, CallRecord
<1>2. QED
  BY <1>1 DEF Typed, Moves, Settles, CallRecord, LookupHit, QueryOf, KeyOf, CachedCopy

\* A full answer replaces the copy by the document now in force.
LEMMA FullAnswerEffect ==
    ASSUME Typed, NEW c \in Caller, FullAnswer(c)
    PROVE  Settles(c, "store", None, Current(calls[c].query), calls[c].base)
<1>1. Current(calls[c].query) \in Document
  BY DEF Current, Document, Typed, CallRecord
<1>2. QED
  BY <1>1, ZenonT(40) DEF Typed, Moves, Settles, CallRecord, FullAnswer, QueryOf

\* The steps that set no field to a computed value.
LEMMA SimpleEffects ==
    ASSUME Typed, NEW c \in Caller
    PROVE  /\ NotModified(c) => Settles(c, "deliver", None, calls[c].cached, calls[c].base)
           /\ FetchError(c) => Settles(c, "deliver", None, calls[c].reply, calls[c].base)
           /\ PeekMiss(c) => Settles(c, "enter", calls[c].cached, calls[c].reply, calls[c].base)
           /\ LookupMiss(c) => Settles(c, "fetch", calls[c].cached, calls[c].reply, calls[c].base)
           /\ Store(c) => Settles(c, "deliver", calls[c].cached, calls[c].reply, calls[c].base)
BY DEF Typed, Moves, Settles, CallRecord, NotModified, FetchError, PeekMiss,
       LookupMiss, Store, Goto

\* A call that ended leaves its caller's record as it was before.
LEMMA ReturnEffect ==
    ASSUME Typed, NEW c \in Caller, ReturnDocument(c) \/ ReturnError(c)
    PROVE  Moves(c, "idle", NoCall.query, None, None, None, 0, 0)
<1>1. NoCall \in CallRecord
  BY AnyQuery DEF NoCall, CallRecord
<1>2. /\ NoCall.pc = "idle" /\ NoCall.leader = None /\ NoCall.cached = None
      /\ NoCall.reply = None /\ NoCall.base = 0 /\ NoCall.floor = 0
  BY DEF NoCall
<1>3. QED
  BY <1>1, <1>2 DEF Typed, Moves, ReturnDocument, ReturnError

\* The end of a flight gives its leader and all its waiters the same reply.
LEMMA DeliverEffect ==
    ASSUME Typed, NEW c \in Caller, Deliver(c)
    PROVE  /\ calls' \in [Caller -> CallRecord]
           /\ \A d \in Caller : d = c \/ WaitsFor(d, c) =>
                 /\ calls'[d].pc = "return" /\ calls'[d].query = calls[d].query
                 /\ calls'[d].leader = None /\ calls'[d].cached = None
                 /\ calls'[d].reply = calls[c].reply
                 /\ calls'[d].base = calls[d].base /\ calls'[d].floor = calls[d].floor
           /\ \A d \in Caller : d # c /\ ~WaitsFor(d, c) => calls'[d] = calls[d]
<1> DEFINE next(d) == IF d = c \/ WaitsFor(d, c)
                      THEN Answered(d, calls[c].reply)
                      ELSE calls[d]
<1>1. calls \in [Caller -> CallRecord]
  BY DEF Typed
<1>2. calls' = [d \in Caller |-> next(d)]
  BY DEF Deliver
<1>3. PICK r : r = calls[c].reply
  OBVIOUS
<1>4. r \in Document \cup {None}
  BY <1>1, <1>3 DEF CallRecord
<1>5. ASSUME NEW d \in Caller
      PROVE  LET a == Answered(d, r) IN
             /\ a \in CallRecord
             /\ a.pc = "return" /\ a.query = calls[d].query
             /\ a.leader = None /\ a.cached = None /\ a.reply = r
             /\ a.base = calls[d].base /\ a.floor = calls[d].floor
  <2>1. calls[d] \in CallRecord
    BY <1>1
  <2>2. QED
    BY <1>4, <2>1 DEF CallRecord, Answered
<1>6. ASSUME NEW d \in Caller
      PROVE  next(d) \in CallRecord
  BY <1>1, <1>3, <1>5
<1>7. calls' \in [Caller -> CallRecord] /\ \A d \in Caller : calls'[d] = next(d)
  <2> HIDE DEF next
  <2>1. QED
    BY <1>2, <1>6
<1>8. QED
  BY <1>3, <1>5, <1>7

\* Numbers are numbers and copies are documents, whatever state they are in.
LEMMA Numbers ==
    ASSUME Typed
    PROVE  /\ \A q \in Query :
                 /\ published[q] \in Nat /\ returned[q] \in Nat
                 /\ InCache(q) => CachedCopy(q) \in Document
           /\ \A c \in Caller :
                 /\ calls[c].query \in Query
                 /\ calls[c].base \in Nat /\ calls[c].floor \in Nat
                 /\ calls[c].reply # None => calls[c].reply \in Document
                 /\ calls[c].cached # None => calls[c].cached \in Document
           /\ \A x \in Document : x # None /\ x.version \in Nat
<1>1. \A q \in Query : published[q] \in Nat /\ returned[q] \in Nat
  BY NormaAssumption DEF Typed, Version
<1>2. \A q \in Query : InCache(q) => CachedCopy(q) \in Document
  BY DEF Typed, InCache, CachedCopy
<1>3. \A c \in Caller :
                 /\ calls[c].query \in Query
                 /\ calls[c].base \in Nat /\ calls[c].floor \in Nat
                 /\ calls[c].reply # None => calls[c].reply \in Document
                 /\ calls[c].cached # None => calls[c].cached \in Document
  BY DEF Typed, CallRecord
<1>4. \A x \in Document : x # None /\ x.version \in Nat
  BY NoneAssumption, NormaAssumption DEF Document, Version
<1>5. QED
  BY <1>1, <1>2, <1>3, <1>4

\* A step of one call within its flight, or outside any, leaves the flights.
LEMMA FlightsKept ==
    ASSUME Typed, Flights, NEW c \in Caller, UNCHANGED group,
           calls' \in [Caller -> CallRecord],
           \A d \in Caller \ {c} : calls'[d] = calls[d],
           \/ /\ Leading(c) /\ Leading(c)'
              /\ calls'[c].query = calls[c].query /\ calls'[c].base = calls[c].base
           \/ ~Leading(c) /\ ~Leading(c)' /\ calls'[c].pc # "wait"
    PROVE  Flights'
<1>1. \A d \in Caller : KeyOf(d) \in Key /\ KeyOf(d)' \in Key
  BY KeyInjective DEF Typed, CallRecord, KeyOf, QueryOf
<1>2. \A d \in Caller : d # c \/ Leading(c) => KeyOf(d)' = KeyOf(d)
  BY DEF KeyOf, QueryOf
<1>3. \A d \in Caller : Leading(d)' <=> Leading(d)
  BY DEF Leading
<1>4. \A d \in Caller : Leading(d)' => group'[KeyOf(d)'] = d
  BY <1>1, <1>2, <1>3 DEF Flights
<1>5. ASSUME NEW k \in Key, group'[k] # None
      PROVE  (Leading(group[k]) /\ KeyOf(group[k]) = k)'
  <2>1. PICK d \in Caller : d = group[k] /\ Leading(d) /\ KeyOf(d) = k
    BY <1>5 DEF Flights, Typed
  <2>2. Leading(d)' /\ KeyOf(d)' = k
    BY <2>1, <1>2, <1>3
  <2>3. QED
    BY <2>1, <2>2 DEF Leading, KeyOf, QueryOf
<1>6. ASSUME NEW d \in Caller, calls'[d].pc = "wait"
      PROVE  /\ group'[KeyOf(d)'] # None
             /\ calls'[d].leader = group'[KeyOf(d)']
             /\ calls'[d].base = calls'[calls'[d].leader].base
  <2>1. d # c
    BY <1>6 DEF Leading
  <2>2. /\ calls'[d] = calls[d] /\ KeyOf(d)' = KeyOf(d) /\ group[KeyOf(d)] # None
        /\ calls[d].leader = group[KeyOf(d)] /\ calls[d].base = calls[calls[d].leader].base
    BY <2>1, <1>6, <1>2 DEF Flights
  <2>3. Leading(calls[d].leader) /\ calls[d].leader \in Caller
    BY <2>2, <1>1 DEF Flights, Typed
  <2>4. calls'[calls[d].leader].base = calls[calls[d].leader].base
    BY <2>3
  <2>5. QED
    BY <2>2, <2>4
<1>7. QED
  BY <1>4, <1>5, <1>6 DEF Flights

\* A document has at most one flight, and its waiters asked for it too.
LEMMA OneFlight ==
    ASSUME Typed, Flights, NEW c \in Caller, Leading(c), NEW d \in Caller
    PROVE  /\ Leading(d) /\ calls[d].query = calls[c].query => d = c
           /\ WaitsFor(d, c) => /\ calls[d].query = calls[c].query
                                /\ calls[d].base = calls[c].base
<1>1. KeyOf(c) \in Key /\ KeyOf(d) \in Key
  BY KeyInjective DEF Typed, CallRecord, KeyOf, QueryOf
<1>2. Leading(d) /\ calls[d].query = calls[c].query => d = c
  BY DEF Flights, KeyOf, QueryOf
<1>3. ASSUME WaitsFor(d, c)
      PROVE  calls[d].query = calls[c].query /\ calls[d].base = calls[c].base
  <2>1. KeyOf(c) = KeyOf(d)
    BY <1>1, <1>3 DEF Flights, WaitsFor
  <2>2. QED
    BY <1>3, <2>1, KeyInjective DEF Flights, WaitsFor, Typed, CallRecord, KeyOf, QueryOf
<1>4. QED
  BY <1>2, <1>3

\* The newer of two versions is one of them.
LEMMA NewerBounds ==
    ASSUME NEW a \in Nat, NEW b \in Nat
    PROVE  a <= Newer(a, b) /\ Newer(a, b) \in {a, b}
BY DEF Newer

-----------------------------------------------------------------------------
\* Each step of a call preserves the invariant, conjunct by conjunct.
LEMMA StartInv ==
    ASSUME IInv, NEW c \in Caller, NEW q \in Query, NEW pc \in {"enter", "peek"},
           Start(c, q, pc)
    PROVE  IInv'
<1> USE DEF IInv
<1>1. Moves(c, pc, q, None, None, None, 0, returned[q])
  BY StartEffect
<1>2. /\ calls[c].pc = "idle" /\ UNCHANGED <<published, entries, group, returned>>
  BY DEF Start
<1> USE <1>1, <1>2 DEF Moves, Settles
<1>3. Typed'
  BY DEF Typed
<1>4. Phases'
  BY DEF Phases
<1>5. Flights'
  BY FlightsKept DEF Leading
<1>6. Labels'
  BY Numbers DEF Labels, InCache, CachedCopy
<1>7. CacheBounds'
  BY DEF CacheBounds, InCache, CachedCopy
<1>8. CallBounds'
  BY Numbers DEF CallBounds
<1>9. Fetching'
  BY Numbers DEF Fetching, InCache, CachedCopy
<1>10. LandingNewest'
  BY Numbers DEF LandingNewest, Landing, Leaving, InCache, CachedCopy
<1>11. LeavingBounds'
  BY DEF LeavingBounds, Leaving, InCache, CachedCopy
<1>12. QED
  BY <1>3, <1>4, <1>5, <1>6, <1>7, <1>8, <1>9, <1>10, <1>11

\* The peeked copy is at least as new as all that was returned before.
LEMMA PeekHitInv ==
    ASSUME IInv, NEW c \in Caller, PeekHit(c)
    PROVE  IInv'
<1> USE DEF IInv
<1>1. Moves(c, "return", calls[c].query, None, None, CachedCopy(calls[c].query),
           calls[c].base, calls[c].floor)
  BY PeekHitEffect
<1>2. calls[c].pc = "peek" /\ InCache(calls[c].query)
      /\ UNCHANGED <<published, entries, group, returned>>
  BY DEF PeekHit, Cache!GetHit, Cache!Hit, InCache, KeyOf, QueryOf
<1> USE <1>1, <1>2 DEF Moves, Settles
<1>3. Typed'
  BY DEF Typed
<1>4. Phases'
  BY DEF Phases
<1>5. Flights'
  BY FlightsKept DEF Leading
<1>6. Labels'
  BY Numbers DEF Labels, InCache, CachedCopy
<1>7. CacheBounds'
  BY DEF CacheBounds, InCache, CachedCopy
<1>8. CallBounds'
  BY Numbers DEF CallBounds
<1>9. Fetching'
  BY Numbers DEF Fetching, InCache, CachedCopy
<1>10. LandingNewest'
  BY Numbers DEF LandingNewest, CacheBounds, Landing, Leaving, InCache, CachedCopy
<1>11. LeavingBounds'
  <2>1. ASSUME NEW d \in Caller \ {c}, Leaving(d)'
        PROVE  Leaving(d) /\ calls'[d] = calls[d]
    BY <2>1 DEF Leaving
  <2>2. LET v == CachedCopy(calls[c].query).version IN
        /\ calls[c].floor <= v /\ calls[c].base <= v
        /\ v <= published[calls[c].query] /\ v \in Nat
    BY Numbers DEF CacheBounds, CallBounds, Phases
  <2>3. QED
    BY <2>1, <2>2 DEF LeavingBounds, Leaving, InCache, CachedCopy
<1>12. QED
  BY <1>3, <1>4, <1>5, <1>6, <1>7, <1>8, <1>9, <1>10, <1>11

\* A peek that misses goes on as an ordinary call.
LEMMA PeekMissInv ==
    ASSUME IInv, NEW c \in Caller, PeekMiss(c)
    PROVE  IInv'
<1> USE DEF IInv
<1>1. Settles(c, "enter", calls[c].cached, calls[c].reply, calls[c].base)
  BY SimpleEffects
<1>2. calls[c].pc = "peek" /\ UNCHANGED <<published, entries, group, returned>>
  BY DEF PeekMiss, Cache!GetMiss, Cache!cacheVars
<1> USE <1>1, <1>2 DEF Moves, Settles
<1>3. Typed'
  BY DEF Typed
<1>4. Phases'
  BY DEF Phases
<1>5. Flights'
  BY FlightsKept DEF Leading
<1>6. Labels'
  BY Numbers DEF Labels, InCache, CachedCopy
<1>7. CacheBounds'
  BY DEF CacheBounds, InCache, CachedCopy
<1>8. CallBounds'
  BY Numbers DEF CallBounds
<1>9. Fetching'
  BY Numbers DEF Fetching, InCache, CachedCopy
<1>10. LandingNewest'
  BY Numbers DEF LandingNewest, Landing, Leaving, InCache, CachedCopy
<1>11. LeavingBounds'
  BY DEF LeavingBounds, Leaving, InCache, CachedCopy
<1>12. QED
  BY <1>3, <1>4, <1>5, <1>6, <1>7, <1>8, <1>9, <1>10, <1>11

\* A new flight is recorded for a key that had none.
LEMMA LeadInv ==
    ASSUME IInv, NEW c \in Caller, Lead(c)
    PROVE  IInv'
<1> USE DEF IInv
<1>1. Settles(c, "lookup", calls[c].cached, calls[c].reply, published[calls[c].query])
  BY LeadEffect
<1>2. /\ calls[c].pc = "enter" /\ group[KeyOf(c)] = None /\ KeyOf(c) \in Key
      /\ group' = [group EXCEPT ![KeyOf(c)] = c]
      /\ UNCHANGED <<published, entries, returned>>
  BY KeyInjective DEF Lead, Typed, CallRecord, KeyOf, QueryOf
<1> USE <1>1, <1>2 DEF Moves, Settles
<1>3. Typed'
  BY DEF Typed
<1>4. Phases'
  BY DEF Phases
<1>5. Flights'
  <2>1. \A d \in Caller : KeyOf(d)' = KeyOf(d) /\ KeyOf(d) \in Key
    BY KeyInjective DEF Typed, CallRecord, KeyOf, QueryOf
  <2>2. \A d \in Caller : Leading(d)' => group'[KeyOf(d)'] = d
    BY <2>1, NormaAssumption DEF Flights, Leading, Typed
  <2>3. ASSUME NEW k \in Key, group'[k] # None
        PROVE  (Leading(group[k]) /\ KeyOf(group[k]) = k)'
    <3>1. CASE k = KeyOf(c)
      BY <3>1, <2>1 DEF Leading, Typed
    <3>2. CASE k # KeyOf(c)
      <4>1. PICK d \in Caller : /\ d = group[k] /\ d = group'[k] /\ d # c
                                /\ Leading(d) /\ KeyOf(d) = k
        BY <2>3, <3>2 DEF Flights, Typed, Leading
      <4>2. QED
        BY <4>1, <2>1 DEF Leading, KeyOf, QueryOf
    <3>3. QED
      BY <3>1, <3>2
  <2>4. ASSUME NEW d \in Caller, calls'[d].pc = "wait"
        PROVE  /\ group'[KeyOf(d)'] # None
               /\ calls'[d].leader = group'[KeyOf(d)']
               /\ calls'[d].base = calls'[calls'[d].leader].base
    <3>1. d # c /\ calls'[d] = calls[d]
      BY <2>4
    <3>2. PICK e \in Caller : e = group[KeyOf(d)] /\ Leading(e) /\ e = calls[d].leader
      BY <3>1, <2>4, <2>1 DEF Flights, Typed
    <3>3. e # c /\ KeyOf(d) # KeyOf(c)
      BY <3>2, NormaAssumption DEF Leading
    <3>4. QED
      BY <3>1, <3>2, <3>3, <2>1, <2>4, NormaAssumption DEF Flights, Typed
  <2>5. QED
    BY <2>2, <2>3, <2>4 DEF Flights
<1>6. Labels'
  BY Numbers DEF Labels, InCache, CachedCopy
<1>7. CacheBounds'
  BY DEF CacheBounds, InCache, CachedCopy
<1>8. CallBounds'
  BY Numbers DEF CallBounds
<1>9. Fetching'
  BY Numbers DEF Fetching, InCache, CachedCopy
<1>10. LandingNewest'
  BY Numbers DEF LandingNewest, Landing, Leaving, InCache, CachedCopy
<1>11. LeavingBounds'
  BY DEF LeavingBounds, Leaving, InCache, CachedCopy
<1>12. QED
  BY <1>3, <1>4, <1>5, <1>6, <1>7, <1>8, <1>9, <1>10, <1>11

\* A caller that joins takes the leader its key has in the group.
LEMMA JoinInv ==
    ASSUME IInv, NEW c \in Caller, Join(c)
    PROVE  IInv'
<1> USE DEF IInv
<1>1. Moves(c, "wait", calls[c].query, group[KeyOf(c)], calls[c].cached, calls[c].reply,
           calls[group[KeyOf(c)]].base, calls[c].floor)
  BY JoinEffect
<1>2. /\ calls[c].pc = "enter" /\ group[KeyOf(c)] # None
      /\ UNCHANGED <<published, entries, group, returned>>
  BY DEF Join
<1> USE <1>1, <1>2 DEF Moves, Settles
<1>3. \A d \in Caller : KeyOf(d)' = KeyOf(d) /\ KeyOf(d) \in Key
  BY KeyInjective DEF Typed, CallRecord, KeyOf, QueryOf
<1>4. PICK e \in Caller : /\ e = group[KeyOf(c)] /\ e # c /\ Leading(e)
                           /\ calls[e].query = calls[c].query
  BY <1>3, KeyInjective DEF Flights, Typed, CallRecord, Leading, KeyOf, QueryOf
<1>5. Typed'
  BY DEF Typed
<1>6. Phases'
  BY DEF Phases
<1>7. Flights'
  <2>1. \A d \in Caller : Leading(d)' <=> Leading(d)
    BY DEF Leading
  <2>2. \A d \in Caller : Leading(d)' => group'[KeyOf(d)'] = d
    BY <2>1, <1>3 DEF Flights
  <2>3. ASSUME NEW k \in Key, group'[k] # None
        PROVE  (Leading(group[k]) /\ KeyOf(group[k]) = k)'
    <3>1. PICK d \in Caller : d = group[k] /\ Leading(d) /\ KeyOf(d) = k
      BY <2>3 DEF Flights, Typed
    <3>2. QED
      BY <3>1, <2>1, <1>3 DEF Leading, KeyOf, QueryOf
  <2>4. ASSUME NEW d \in Caller, calls'[d].pc = "wait"
        PROVE  /\ group'[KeyOf(d)'] # None
               /\ calls'[d].leader = group'[KeyOf(d)']
               /\ calls'[d].base = calls'[calls'[d].leader].base
    <3>1. CASE d = c
      BY <3>1, <1>3, <1>4
    <3>2. CASE d # c
      <4>1. PICK x \in Caller : x = group[KeyOf(d)] /\ Leading(x) /\ x = calls[d].leader
        BY <3>2, <2>4, <1>3 DEF Flights, Typed
      <4>2. x # c
        BY <4>1 DEF Leading
      <4>3. QED
        BY <3>2, <4>1, <4>2, <1>3, <2>4 DEF Flights
    <3>3. QED
      BY <3>1, <3>2
  <2>5. QED
    BY <2>2, <2>3, <2>4 DEF Flights
<1>8. Labels'
  BY Numbers DEF Labels, InCache, CachedCopy
<1>9. CacheBounds'
  BY DEF CacheBounds, InCache, CachedCopy
<1>10. CallBounds'
  BY <1>4, Numbers DEF CallBounds, Leading
<1>11. Fetching'
  BY Numbers DEF Fetching, InCache, CachedCopy
<1>12. LandingNewest'
  BY Numbers DEF LandingNewest, Landing, Leaving, InCache, CachedCopy
<1>13. LeavingBounds'
  BY DEF LeavingBounds, Leaving, InCache, CachedCopy
<1>14. QED
  BY <1>5, <1>6, <1>7, <1>8, <1>9, <1>10, <1>11, <1>12, <1>13

\* The copy kept for the request is the one cached.
LEMMA LookupHitInv ==
    ASSUME IInv, NEW c \in Caller, LookupHit(c)
    PROVE  IInv'
<1> USE DEF IInv
<1>1. Settles(c, "fetch", CachedCopy(calls[c].query), calls[c].reply, calls[c].base)
  BY LookupHitEffect
<1>2. calls[c].pc = "lookup" /\ InCache(calls[c].query)
      /\ UNCHANGED <<published, entries, group, returned>>
  BY DEF LookupHit, Cache!GetHit, Cache!Hit, InCache, KeyOf, QueryOf
<1> USE <1>1, <1>2 DEF Moves, Settles
<1>3. Typed'
  BY DEF Typed
<1>4. Phases'
  BY DEF Phases
<1>5. Flights'
  BY FlightsKept DEF Leading
<1>6. Labels'
  BY Numbers DEF Labels, InCache, CachedCopy
<1>7. CacheBounds'
  BY DEF CacheBounds, InCache, CachedCopy
<1>8. CallBounds'
  BY Numbers DEF CallBounds
<1>9. Fetching'
  BY Numbers DEF Fetching, InCache, CachedCopy
<1>10. LandingNewest'
  BY Numbers DEF LandingNewest, Landing, Leaving, InCache, CachedCopy
<1>11. LeavingBounds'
  BY DEF LeavingBounds, Leaving, InCache, CachedCopy
<1>12. QED
  BY <1>3, <1>4, <1>5, <1>6, <1>7, <1>8, <1>9, <1>10, <1>11

\* With nothing cached there is nothing to keep.
LEMMA LookupMissInv ==
    ASSUME IInv, NEW c \in Caller, LookupMiss(c)
    PROVE  IInv'
<1> USE DEF IInv
<1>1. Settles(c, "fetch", calls[c].cached, calls[c].reply, calls[c].base)
  BY SimpleEffects
<1>2. calls[c].pc = "lookup" /\ ~InCache(calls[c].query)
      /\ UNCHANGED <<published, entries, group, returned>>
  BY DEF LookupMiss, Cache!GetMiss, Cache!cacheVars, Cache!Hit, InCache, KeyOf, QueryOf
<1> USE <1>1, <1>2 DEF Moves, Settles
<1>3. Typed'
  BY DEF Typed
<1>4. Phases'
  BY DEF Phases
<1>5. Flights'
  BY FlightsKept DEF Leading
<1>6. Labels'
  BY Numbers DEF Labels, InCache, CachedCopy
<1>7. CacheBounds'
  BY DEF CacheBounds, InCache, CachedCopy
<1>8. CallBounds'
  BY Numbers DEF CallBounds
<1>9. Fetching'
  BY Numbers DEF Fetching, InCache, CachedCopy
<1>10. LandingNewest'
  BY Numbers DEF LandingNewest, Landing, Leaving, InCache, CachedCopy
<1>11. LeavingBounds'
  BY DEF LeavingBounds, Leaving, InCache, CachedCopy
<1>12. QED
  BY <1>3, <1>4, <1>5, <1>6, <1>7, <1>8, <1>9, <1>10, <1>11

\* A copy still in force upstream is as new as anything seen here.
LEMMA NotModifiedInv ==
    ASSUME IInv, NEW c \in Caller, NotModified(c)
    PROVE  IInv'
<1> USE DEF IInv
<1>1. Settles(c, "deliver", None, calls[c].cached, calls[c].base)
  BY SimpleEffects
<1>2. /\ calls[c].pc = "fetch" /\ calls[c].cached = Current(calls[c].query)
      /\ UNCHANGED <<published, entries, group, returned>>
  BY DEF NotModified, QueryOf
<1> USE <1>1, <1>2 DEF Moves, Settles
<1>3. Typed'
  BY DEF Typed
<1>4. Phases'
  BY DEF Phases
<1>5. Flights'
  BY FlightsKept DEF Leading
<1>6. Labels'
  BY Numbers DEF Labels, InCache, CachedCopy
<1>7. CacheBounds'
  BY DEF CacheBounds, InCache, CachedCopy
<1>8. CallBounds'
  BY Numbers DEF CallBounds
<1>9. Fetching'
  BY Numbers DEF Fetching, InCache, CachedCopy
<1>10. LandingNewest'
  <2>1. ASSUME NEW d \in Caller, Landing(d)', d # c
        PROVE  Landing(d) /\ calls'[d] = calls[d]
    BY <2>1 DEF Landing
  <2>2. ~Leaving(c)' /\ \A d \in Caller \ {c} : Leaving(d)' <=> Leaving(d)
    BY DEF Leaving
  <2>3. /\ calls[c].base <= calls'[c].reply.version
        /\ calls'[c].reply.version <= published[calls[c].query]
        /\ returned[calls[c].query] <= calls'[c].reply.version
        /\ \A d \in Caller : Leaving(d) /\ calls[d].query = calls[c].query
                                => calls[d].reply.version <= calls'[c].reply.version
        /\ InCache(calls[c].query) =>
              /\ CachedCopy(calls[c].query).version <= calls'[c].reply.version
              /\ calls'[c].pc = "deliver" =>
                    CachedCopy(calls[c].query).version = calls'[c].reply.version
    BY Numbers DEF Current, CallBounds, CacheBounds, LeavingBounds, Fetching, Leaving
  <2>4. QED
    BY <2>1, <2>2, <2>3 DEF LandingNewest, InCache, CachedCopy
<1>11. LeavingBounds'
  BY DEF LeavingBounds, Leaving, InCache, CachedCopy
<1>12. QED
  BY <1>3, <1>4, <1>5, <1>6, <1>7, <1>8, <1>9, <1>10, <1>11

\* The document in force is as new as anything seen here.
LEMMA FullAnswerInv ==
    ASSUME IInv, NEW c \in Caller, FullAnswer(c)
    PROVE  IInv'
<1> USE DEF IInv
<1>1. /\ Settles(c, "store", None, Current(calls[c].query), calls[c].base)
      /\ Current(calls[c].query) # None
  BY FullAnswerEffect, Numbers DEF Current, Document, Typed
<1>2. calls[c].pc = "fetch" /\ UNCHANGED <<published, entries, group, returned>>
  BY DEF FullAnswer
<1> USE <1>1, <1>2 DEF Moves, Settles
<1>3. Typed'
  BY DEF Typed
<1>4. Phases'
  BY DEF Phases
<1>5. Flights'
  BY FlightsKept DEF Leading
<1>6. Labels'
  BY Numbers DEF Labels, InCache, CachedCopy, Current
<1>7. CacheBounds'
  BY DEF CacheBounds, InCache, CachedCopy
<1>8. CallBounds'
  BY Numbers DEF CallBounds
<1>9. Fetching'
  BY Numbers DEF Fetching, InCache, CachedCopy
<1>10. LandingNewest'
  <2>1. ASSUME NEW d \in Caller, Landing(d)', d # c
        PROVE  Landing(d) /\ calls'[d] = calls[d]
    BY <2>1 DEF Landing
  <2>2. ~Leaving(c)' /\ \A d \in Caller \ {c} : Leaving(d)' <=> Leaving(d)
    BY DEF Leaving
  <2>3. /\ calls[c].base <= calls'[c].reply.version
        /\ calls'[c].reply.version <= published[calls[c].query]
        /\ returned[calls[c].query] <= calls'[c].reply.version
        /\ \A d \in Caller : Leaving(d) /\ calls[d].query = calls[c].query
                                => calls[d].reply.version <= calls'[c].reply.version
        /\ InCache(calls[c].query) =>
              /\ CachedCopy(calls[c].query).version <= calls'[c].reply.version
              /\ calls'[c].pc = "deliver" =>
                    CachedCopy(calls[c].query).version = calls'[c].reply.version
    BY Numbers DEF Current, CallBounds, CacheBounds, LeavingBounds, Leaving
  <2>4. QED
    BY <2>1, <2>2, <2>3 DEF LandingNewest, InCache, CachedCopy
<1>11. LeavingBounds'
  BY DEF LeavingBounds, Leaving, InCache, CachedCopy
<1>12. QED
  BY <1>3, <1>4, <1>5, <1>6, <1>7, <1>8, <1>9, <1>10, <1>11

\* A failed flight carries no document.
LEMMA FetchErrorInv ==
    ASSUME IInv, NEW c \in Caller, FetchError(c)
    PROVE  IInv'
<1> USE DEF IInv
<1>1. Settles(c, "deliver", None, calls[c].reply, calls[c].base)
  BY SimpleEffects
<1>2. calls[c].pc = "fetch" /\ calls[c].reply = None
      /\ UNCHANGED <<published, entries, group, returned>>
  BY DEF FetchError, Phases
<1> USE <1>1, <1>2 DEF Moves, Settles
<1>3. Typed'
  BY DEF Typed
<1>4. Phases'
  BY DEF Phases
<1>5. Flights'
  BY FlightsKept DEF Leading
<1>6. Labels'
  BY Numbers DEF Labels, InCache, CachedCopy
<1>7. CacheBounds'
  BY DEF CacheBounds, InCache, CachedCopy
<1>8. CallBounds'
  BY Numbers DEF CallBounds
<1>9. Fetching'
  BY Numbers DEF Fetching, InCache, CachedCopy
<1>10. LandingNewest'
  BY Numbers DEF LandingNewest, Landing, Leaving, InCache, CachedCopy
<1>11. LeavingBounds'
  BY DEF LeavingBounds, Leaving, InCache, CachedCopy
<1>12. QED
  BY <1>3, <1>4, <1>5, <1>6, <1>7, <1>8, <1>9, <1>10, <1>11

\* A put moves its key forward, and touches no other flight's key.
LEMMA StoreInv ==
    ASSUME IInv, NEW c \in Caller, Store(c)
    PROVE  IInv'
<1> USE DEF IInv
<1>1. Settles(c, "deliver", calls[c].cached, calls[c].reply, calls[c].base)
  BY SimpleEffects
<1>2. /\ calls[c].pc = "store" /\ UNCHANGED <<published, group, returned>>
      /\ Cache!Put(normaCacheKey(calls[c].query), calls[c].reply)
  BY DEF Store, KeyOf, QueryOf
<1> USE <1>1, <1>2 DEF Moves, Settles
<1>3. calls[c].reply # None /\ calls[c].reply \in Document /\ calls[c].query \in Query
  BY Numbers DEF Phases
<1>4. ASSUME NEW q \in Query, InCache(q)'
       PROVE  /\ q = calls[c].query => CachedCopy(q)' = calls[c].reply
              /\ q # calls[c].query => InCache(q) /\ CachedCopy(q)' = CachedCopy(q)
  BY <1>4, PutEffect, KeyInjective, <1>3 DEF InCache, CachedCopy
<1>5. Landing(c)
  BY <1>3 DEF Landing
<1>6. \A d \in Caller : Leading(d) /\ calls[d].query = calls[c].query => d = c
  BY OneFlight DEF Leading
<1>7. Typed'
  BY PutEffect, KeyInjective, <1>3 DEF Typed
<1>8. Phases'
  BY DEF Phases
<1>9. Flights'
  BY FlightsKept DEF Leading
<1>10. Labels'
  BY <1>4, <1>3, Numbers DEF Labels
<1>11. CacheBounds'
  BY <1>4, <1>5 DEF CacheBounds, LandingNewest
<1>12. CallBounds'
  BY Numbers DEF CallBounds
<1>13. Fetching'
  BY <1>4, <1>6, Numbers DEF Fetching, Leading
<1>14. LandingNewest'
  BY <1>4, <1>5, <1>6, Numbers DEF LandingNewest, Landing, Leaving, Leading
<1>15. LeavingBounds'
  BY <1>4, <1>5, Numbers DEF LeavingBounds, LandingNewest, Leaving
<1>16. QED
  BY <1>7, <1>8, <1>9, <1>10, <1>11, <1>12, <1>13, <1>14, <1>15

\* The leader and its waiters, and they alone, leave with the reply.
LEMMA DeliverInv ==
    ASSUME IInv, NEW c \in Caller, Deliver(c)
    PROVE  IInv'
<1> USE DEF IInv
<1>1. /\ calls' \in [Caller -> CallRecord]
      /\ \A d \in Caller : d = c \/ WaitsFor(d, c) =>
              /\ calls'[d].pc = "return" /\ calls'[d].query = calls[d].query
              /\ calls'[d].leader = None /\ calls'[d].cached = None
              /\ calls'[d].reply = calls[c].reply
              /\ calls'[d].base = calls[d].base /\ calls'[d].floor = calls[d].floor
      /\ \A d \in Caller : d # c /\ ~WaitsFor(d, c) => calls'[d] = calls[d]
  BY DeliverEffect
<1>2. /\ calls[c].pc = "deliver" /\ group' = [group EXCEPT ![KeyOf(c)] = None]
      /\ UNCHANGED <<published, entries, returned>>
  BY DEF Deliver
<1> USE <1>1, <1>2 DEF Moves, Settles
<1>3. Leading(c) /\ \A d \in Caller : KeyOf(d)' = KeyOf(d) /\ KeyOf(d) \in Key
  BY KeyInjective DEF Typed, CallRecord, KeyOf, QueryOf, Leading
<1>4. \A d \in Caller : d = c \/ WaitsFor(d, c) =>
          calls[d].query = calls[c].query /\ calls[d].base = calls[c].base
  BY <1>3, OneFlight
<1>5. \A d \in Caller : Leading(d) => ~WaitsFor(d, c)
  BY DEF Leading, WaitsFor
<1>6. \A d \in Caller : Leading(d) /\ calls[d].query = calls[c].query => d = c
  BY <1>3, OneFlight
<1>7. \A d \in Caller : Leading(d)' => d # c /\ Leading(d) /\ calls'[d] = calls[d]
  BY DEF Leading
<1>8. Typed'
  BY DEF Typed
<1>9. Phases'
  BY DEF Phases
<1>10. Flights'
  <2>2. \A d \in Caller : Leading(d)' => group'[KeyOf(d)'] = d
    BY <1>7, <1>3 DEF Flights, Typed
  <2>3. ASSUME NEW k \in Key, group'[k] # None
        PROVE  (Leading(group[k]) /\ KeyOf(group[k]) = k)'
    <3>1. PICK d \in Caller : /\ d = group[k] /\ d = group'[k]
                              /\ Leading(d) /\ KeyOf(d) = k /\ d # c
      BY <2>3, <1>3 DEF Flights, Typed
    <3>2. calls'[d] = calls[d]
      BY <3>1, <1>5
    <3>3. QED
      BY <3>1, <3>2 DEF Leading, KeyOf, QueryOf
  <2>4. ASSUME NEW d \in Caller, calls'[d].pc = "wait"
        PROVE  /\ group'[KeyOf(d)'] # None
               /\ calls'[d].leader = group'[KeyOf(d)']
               /\ calls'[d].base = calls'[calls'[d].leader].base
    <3>1. d # c /\ ~WaitsFor(d, c) /\ calls'[d] = calls[d]
      BY <2>4
    <3>2. PICK e \in Caller : /\ e = group[KeyOf(d)] /\ Leading(e)
                              /\ e = calls[d].leader /\ e # c
                              /\ calls[d].base = calls[e].base
      BY <3>1, <2>4, <1>3 DEF Flights, Typed, WaitsFor
    <3>3. KeyOf(d) # KeyOf(c) /\ calls'[e] = calls[e]
      BY <3>2, <1>3, <1>5 DEF Flights
    <3>4. group'[KeyOf(d)] = e /\ e # None
      BY <3>2, <3>3, <1>3, NormaAssumption DEF Typed
    <3>5. QED
      BY <3>1, <3>2, <3>3, <3>4, <1>3
  <2>5. QED
    BY <2>2, <2>3, <2>4 DEF Flights
<1>11. Labels'
  BY <1>4 DEF Labels, InCache, CachedCopy
<1>12. CacheBounds'
  BY DEF CacheBounds, InCache, CachedCopy
<1>13. CallBounds'
  <2>1. \A d \in Caller : /\ calls'[d].pc # "idle" => calls[d].pc # "idle"
                          /\ calls'[d].query = calls[d].query
                          /\ calls'[d].base = calls[d].base
                          /\ calls'[d].floor = calls[d].floor
    BY DEF WaitsFor
  <2>2. QED
    BY <2>1 DEF CallBounds
<1>14. Fetching'
  BY DEF Fetching, InCache, CachedCopy
<1>15. LandingNewest'
  <2>1. ASSUME NEW d \in Caller, Landing(d)'
        PROVE  /\ Landing(d) /\ calls'[d] = calls[d] /\ calls[d].query # calls[c].query
    BY <2>1, <1>6, <1>7 DEF Landing, Leading
  <2>2. ASSUME NEW d \in Caller, Leaving(d)', calls'[d].query # calls[c].query
        PROVE  Leaving(d) /\ calls'[d] = calls[d]
    BY <2>2, <1>4 DEF Leaving
  <2>3. QED
    BY <2>1, <2>2 DEF LandingNewest, InCache, CachedCopy
<1>16. LeavingBounds'
  <2>1. ASSUME NEW d \in Caller, d = c \/ WaitsFor(d, c), Leaving(d)'
        PROVE  /\ Landing(c) /\ calls'[d].reply = calls[c].reply
               /\ calls[d].floor <= returned[calls[c].query]
    BY <2>1, <1>4 DEF Leaving, Landing, CallBounds, WaitsFor
  <2>2. ASSUME NEW d \in Caller, d # c /\ ~WaitsFor(d, c), Leaving(d)'
        PROVE  Leaving(d) /\ calls'[d] = calls[d]
    BY <2>2 DEF Leaving
  <2>3. ASSUME NEW d \in Caller, d = c \/ WaitsFor(d, c), Leaving(d)'
        PROVE  LET q == calls'[d].query   v == calls'[d].reply.version IN
               /\ calls'[d].floor <= v /\ calls'[d].base <= v /\ v <= published[q]
               /\ InCache(q) => v <= CachedCopy(q).version
    <3>1. /\ calls'[d].query = calls[c].query /\ calls'[d].base = calls[c].base
          /\ calls'[d].floor = calls[d].floor
      BY <2>3, <1>4
    <3>2. LET v == calls[c].reply.version IN
          /\ calls[c].base <= v /\ v <= published[calls[c].query]
          /\ returned[calls[c].query] <= v
          /\ InCache(calls[c].query) => v = CachedCopy(calls[c].query).version
      BY <2>1, <2>3 DEF LandingNewest
    <3>3. calls[c].reply \in Document
      BY <2>1, <2>3, Numbers DEF Landing
    <3>4. QED
      BY <2>1, <2>3, <3>1, <3>2, <3>3, Numbers
  <2>4. QED
    BY <2>2, <2>3 DEF LeavingBounds, InCache, CachedCopy
<1>17. QED
  BY <1>8, <1>9, <1>10, <1>11, <1>12, <1>13, <1>14, <1>15, <1>16

\* What is returned is no newer than the cached copy.
LEMMA ReturnDocumentInv ==
    ASSUME IInv, NEW c \in Caller, ReturnDocument(c)
    PROVE  IInv'
<1> USE DEF IInv
<1>1. Moves(c, "idle", NoCall.query, None, None, None, 0, 0)
  BY ReturnEffect
<1>2. /\ Leaving(c) /\ UNCHANGED <<published, entries, group>>
      /\ returned' = [returned EXCEPT ![calls[c].query] =
                        Newer(@, calls[c].reply.version)]
  BY DEF ReturnDocument, Leaving, QueryOf
<1> USE <1>1, <1>2 DEF Moves, Settles
<1>3. /\ calls[c].reply \in Document /\ calls[c].query \in Query
      /\ calls[c].reply.version \in Version
  BY Numbers DEF Leaving, Document
<1>4. ASSUME NEW q \in Query
       PROVE  /\ returned[q] <= returned'[q]
              /\ returned'[q] = returned[q]
                 \/ (q = calls[c].query /\ returned'[q] = calls[c].reply.version)
  <2>1. /\ returned \in [Query -> 0..maxVersion]
        /\ returned[q] \in Nat /\ calls[c].reply.version \in Nat
    BY <1>3, Numbers DEF Typed
  <2>2. returned'[q] = IF q = calls[c].query
                       THEN Newer(returned[q], calls[c].reply.version)
                       ELSE returned[q]
    BY <2>1, <1>3
  <2>3. /\ returned[q] <= Newer(returned[q], calls[c].reply.version)
        /\ Newer(returned[q], calls[c].reply.version)
              \in {returned[q], calls[c].reply.version}
    BY <2>1, NewerBounds
  <2>4. QED
    BY <2>1, <2>2, <2>3
<1>5. Typed'
  BY <1>3, NormaAssumption DEF Typed, Version, Newer
<1>6. Phases'
  BY DEF Phases
<1>7. Flights'
  BY FlightsKept DEF Leading, Leaving
<1>8. Labels'
  BY Numbers DEF Labels, InCache, CachedCopy
<1>9. CacheBounds'
  BY <1>4, Numbers DEF CacheBounds, LeavingBounds, Leaving, InCache, CachedCopy
<1>10. CallBounds'
  <2>1. \A d \in Caller : calls'[d].pc # "idle" => d # c /\ calls'[d] = calls[d]
    OBVIOUS
  <2>2. \A q \in Query : returned'[q] \in Nat
    BY <1>5, NormaAssumption DEF Typed
  <2>3. QED
    BY <1>4, <2>1, <2>2, Numbers DEF CallBounds
<1>11. Fetching'
  BY Numbers DEF Fetching, InCache, CachedCopy
<1>12. LandingNewest'
  BY <1>4, Numbers DEF LandingNewest, Landing, Leaving, InCache, CachedCopy
<1>13. LeavingBounds'
  BY DEF LeavingBounds, Leaving, InCache, CachedCopy
<1>14. QED
  BY <1>5, <1>6, <1>7, <1>8, <1>9, <1>10, <1>11, <1>12, <1>13

\* An error returns nothing.
LEMMA ReturnErrorInv ==
    ASSUME IInv, NEW c \in Caller, ReturnError(c)
    PROVE  IInv'
<1> USE DEF IInv
<1>1. Moves(c, "idle", NoCall.query, None, None, None, 0, 0)
  BY ReturnEffect
<1>2. calls[c].pc = "return" /\ UNCHANGED <<published, entries, group, returned>>
  BY DEF ReturnError
<1> USE <1>1, <1>2 DEF Moves, Settles
<1>3. Typed'
  BY DEF Typed
<1>4. Phases'
  BY DEF Phases
<1>5. Flights'
  BY FlightsKept DEF Leading
<1>6. Labels'
  BY Numbers DEF Labels, InCache, CachedCopy
<1>7. CacheBounds'
  BY DEF CacheBounds, InCache, CachedCopy
<1>8. CallBounds'
  BY Numbers DEF CallBounds
<1>9. Fetching'
  BY Numbers DEF Fetching, InCache, CachedCopy
<1>10. LandingNewest'
  BY Numbers DEF LandingNewest, Landing, Leaving, InCache, CachedCopy
<1>11. LeavingBounds'
  BY DEF LeavingBounds, Leaving, InCache, CachedCopy
<1>12. QED
  BY <1>3, <1>4, <1>5, <1>6, <1>7, <1>8, <1>9, <1>10, <1>11

\* A newer version upstream leaves every bound in place.
LEMMA PublishInv ==
    ASSUME IInv, NEW q \in Query, Publish(q)
    PROVE  IInv'
<1> USE DEF IInv
<1>1. UNCHANGED <<entries, group, calls, returned>>
  BY DEF Publish
<1>2. /\ published' \in [Query -> Version]
      /\ \A p \in Query : published[p] <= published'[p] /\ published'[p] \in Nat
  BY Numbers, NormaAssumption DEF Publish, Typed, Version
<1> USE <1>1
<1>3. Typed' /\ Phases'
  BY <1>2 DEF Typed, Phases
<1>4. Flights' /\ Labels' /\ Fetching'
  BY DEF Flights, Leading, KeyOf, QueryOf, Labels, Fetching, InCache, CachedCopy
<1>5. CacheBounds'
  BY <1>2, Numbers DEF CacheBounds, InCache, CachedCopy
<1>6. CallBounds'
  BY <1>2, Numbers DEF CallBounds
<1>7. LandingNewest'
  BY <1>2, Numbers DEF LandingNewest, Landing, Leaving, InCache, CachedCopy
<1>8. LeavingBounds'
  BY <1>2, Numbers DEF LeavingBounds, Leaving, InCache, CachedCopy
<1>9. QED
  BY <1>3, <1>4, <1>5, <1>6, <1>7, <1>8

\* The invariant holds of a client just built.
LEMMA InitInv == Init => IInv
<1> SUFFICES ASSUME Init PROVE IInv
  OBVIOUS
<1>1. DOMAIN entries = {}
  BY DEF Init, Cache!CacheInit
<1>2. /\ NoCall \in CallRecord /\ NoCall.pc = "idle" /\ NoCall.leader = None
      /\ NoCall.cached = None /\ NoCall.reply = None
  BY AnyQuery DEF NoCall, CallRecord
<1>3. \A c \in Caller : calls[c] = NoCall
  BY DEF Init
<1>4. Typed
  BY <1>1, <1>2, NormaAssumption DEF Init, Typed, Version
<1>5. Phases /\ Flights /\ Labels
  BY <1>1, <1>2, <1>3 DEF Phases, Flights, Leading, Labels, InCache, Init
<1>6. CacheBounds /\ CallBounds
  BY <1>1, <1>2, <1>3 DEF CacheBounds, CallBounds, InCache, Init
<1>7. Fetching /\ LandingNewest /\ LeavingBounds
  BY <1>2, <1>3 DEF Fetching, LandingNewest, LeavingBounds, Landing, Leaving
<1>8. QED
  BY <1>4, <1>5, <1>6, <1>7 DEF IInv

\* Nothing but these variables matters.
LEMMA StutterInv == IInv /\ UNCHANGED vars => IInv'
BY DEF vars, IInv, Typed, Phases, Flights, Leading, KeyOf, QueryOf, Labels,
       CacheBounds, CallBounds, Fetching, LandingNewest, LeavingBounds,
       Landing, Leaving, InCache, CachedCopy

\* The invariant is inductive.
LEMMA NextInv == IInv /\ [Next]_vars => IInv'
<1> SUFFICES ASSUME IInv, Next PROVE IInv'
  BY StutterInv
<1>1. CASE \E q \in Query : Publish(q)
  BY <1>1, PublishInv
<1>2. ASSUME NEW c \in Caller, NEW q \in Query,
             Start(c, q, "enter") \/ Start(c, q, "peek")
      PROVE  IInv'
  BY <1>2, StartInv
<1>3. ASSUME NEW c \in Caller, Progress(c)
      PROVE  IInv'
  BY <1>3, PeekHitInv, PeekMissInv, LeadInv, JoinInv, LookupHitInv,
     LookupMissInv, NotModifiedInv, FullAnswerInv, FetchErrorInv, StoreInv,
     DeliverInv, ReturnDocumentInv, ReturnErrorInv DEF Progress, Answer
<1>4. QED
  BY <1>1, <1>2, <1>3 DEF Next

\* The invariant the theorems below rest on.
THEOREM Invariance == Spec => []IInv
<1>1. Init => IInv
  BY InitInv
<1>2. IInv /\ [Next]_vars => IInv'
  BY NextInv
<1>3. QED
  BY <1>1, <1>2, PTL DEF Spec

-----------------------------------------------------------------------------
\* However many callers ask for a key at once, only the leader the
\* singleflight group records is inside getNormaOnce.
THEOREM OneFlightPerKey == Spec => []SingleFlight
<1>1. IInv => SingleFlight
  <2> SUFFICES ASSUME IInv, NEW c \in Caller
               PROVE  Leading(c) <=> group[KeyOf(c)] = c
    BY DEF SingleFlight
  <2>1. KeyOf(c) \in Key /\ c # None
    BY KeyInjective, NormaAssumption DEF IInv, Typed, CallRecord, KeyOf, QueryOf
  <2>2. QED
    BY <2>1 DEF IInv, Flights
<1>2. QED
  BY <1>1, Invariance, PTL

\* GetNorma and GetNormaSummary never hand out another norm, or another
\* version date, than the one asked for.
THEOREM AnswersMatchQueries == Spec => []RightDocument
<1>1. IInv => RightDocument
  BY DEF IInv, Labels, RightDocument
<1>2. QED
  BY <1>1, Invariance, PTL

\* No interleaving of revalidation, eviction, coalescing and the summary's
\* unrevalidated peek lets a client see a document go back in time.
THEOREM ReadsNeverGoBack == Spec => []MonotonicReads
<1>1. IInv => MonotonicReads
  <2> SUFFICES ASSUME IInv, NEW c \in Caller,
                      calls[c].pc = "return", calls[c].reply # None
               PROVE  calls[c].reply.version >= calls[c].floor
    BY DEF MonotonicReads
  <2>1. calls[c].floor <= calls[c].reply.version
    BY DEF IInv, LeavingBounds, Leaving
  <2>2. calls[c].floor \in Nat /\ calls[c].reply.version \in Nat
    BY Numbers DEF IInv
  <2>3. QED
    BY <2>1, <2>2
<1>2. QED
  BY <1>1, Invariance, PTL

\* An answer that went through a flight was in force after the flight began.
THEOREM AnswersWereInForce == Spec => []Revalidated
<1>1. IInv => Revalidated
  <2> SUFFICES ASSUME IInv, NEW c \in Caller,
                      calls[c].pc = "return", calls[c].reply # None
               PROVE  calls[c].reply.version \in
                         calls[c].base..published[calls[c].query]
    BY DEF Revalidated
  <2>1. /\ calls[c].base <= calls[c].reply.version
        /\ calls[c].reply.version <= published[calls[c].query]
    BY DEF IInv, LeavingBounds, Leaving
  <2>2. /\ calls[c].base \in Nat /\ calls[c].reply.version \in Nat
        /\ published[calls[c].query] \in Nat
    BY Numbers DEF IInv
  <2>3. QED
    BY <2>1, <2>2
<1>2. QED
  BY <1>1, Invariance, PTL

\* A put never replaces a cached document by an older version of it.
THEOREM CacheGoesForward == Spec => CacheNeverRegresses
<1> DEFINE Forward == \A k \in DOMAIN entries \cap DOMAIN entries' :
                         entries'[k].version >= entries[k].version
<1>1. IInv /\ [Next]_vars => [Forward]_vars
  <2> SUFFICES ASSUME IInv, Next PROVE Forward
    OBVIOUS
  <2>1. \A k \in DOMAIN entries : entries[k].version \in Nat
    BY Numbers DEF IInv, Typed
  <2>2. CASE entries' = entries
    BY <2>1, <2>2
  <2>3. ASSUME NEW c \in Caller, Store(c)
        PROVE  Forward
    <3>1. /\ calls[c].pc = "store" /\ calls[c].query \in Query
          /\ calls[c].reply \in Document
      BY <2>3, Numbers DEF Store, IInv, Phases
    <3>2. InCache(calls[c].query) =>
             CachedCopy(calls[c].query).version <= calls[c].reply.version
      BY <3>1, Numbers DEF IInv, LandingNewest, Landing
    <3>3. Cache!Put(normaCacheKey(calls[c].query), calls[c].reply)
      BY <2>3 DEF Store, KeyOf, QueryOf
    <3>4. calls[c].reply.version \in Nat
      BY <3>1, Numbers DEF IInv
    <3>5. QED
      BY <2>1, <3>2, <3>3, <3>4, PutEffect DEF InCache, CachedCopy
  <2>4. QED
    BY <2>2, <2>3 DEF Next, Publish, Start, Progress, Answer, PeekHit, PeekMiss,
       Lead, Join, LookupHit, LookupMiss, NotModified, FullAnswer, FetchError,
       Deliver, ReturnDocument, ReturnError, Cache!GetHit, Cache!GetMiss, Cache!cacheVars
<1>2. QED
  BY <1>1, Invariance, PTL DEF Spec, CacheNeverRegresses

-----------------------------------------------------------------------------
\* Refinement of VersionedReads.
ReadsNow == [c \in Caller |-> ReadOf(c)]

\* The read of a call under way depends on its query and its floor alone.
LEMMA ReadKept ==
    ASSUME NEW d \in Caller, calls[d].pc \notin {"idle", "return"},
           calls'[d].pc \notin {"idle", "return"},
           calls'[d].query = calls[d].query, calls'[d].floor = calls[d].floor
    PROVE  ReadOf(d)' = ReadOf(d)
BY DEF ReadOf

\* A step of one caller moves at most its own read.
LEMMA ReadMoved ==
    ASSUME NEW c \in Caller, \A d \in Caller \ {c} : calls'[d] = calls[d]
    PROVE  ReadsNow' = [ReadsNow EXCEPT ![c] = ReadOf(c)']
<1>1. \A d \in Caller \ {c} : ReadOf(d)' = ReadOf(d)
  BY DEF ReadOf
<1>2. QED
  BY <1>1 DEF ReadsNow

\* A call whose reply becomes known has settled its read: the invariant
\* bounds the version of what it is about to hand out.
LEMMA ReadSettles ==
    ASSUME IInv, IInv', UNCHANGED <<published, returned>>, NEW d \in Caller,
           calls[d].pc \notin {"idle", "return"}, calls'[d].pc = "return",
           calls'[d].query = calls[d].query, calls'[d].floor = calls[d].floor
    PROVE  /\ ReadOf(d).phase = "reading"
           /\ \/ ReadOf(d)' = Reads!Failed
              \/ \E v \in ReadOf(d).floor..published[ReadOf(d).query] :
                    ReadOf(d)' = Reads!Got(ReadOf(d).query, v)
<1> DEFINE q == calls[d].query
<1>1. /\ ReadOf(d).phase = "reading" /\ ReadOf(d).query = q
      /\ ReadOf(d).floor = calls[d].floor
  BY DEF ReadOf
<1>2. CASE calls'[d].reply = None
  BY <1>1, <1>2 DEF ReadOf, Reads!Failed
<1>3. CASE calls'[d].reply # None
  <2>1. PICK v : v = calls'[d].reply.version
    OBVIOUS
  <2>2. calls[d].floor <= v /\ v <= published[q]
    BY <1>3, <2>1 DEF IInv, LeavingBounds, Leaving
  <2>3. /\ calls[d].floor \in Nat /\ published[q] \in Nat
        /\ calls'[d].reply \in Document
    BY <1>3, Numbers DEF IInv, Typed, CallRecord
  <2>4. v \in calls[d].floor..published[q]
    BY <2>1, <2>2, <2>3, NormaAssumption DEF Document, Version
  <2>5. ReadOf(d)' = Reads!Got(q, v)
    BY <1>3, <2>1 DEF ReadOf, Reads!Got
  <2>6. QED
    BY <1>1, <2>4, <2>5
<1>4. QED
  BY <1>2, <1>3

\* Initial states map to initial states.
LEMMA InitRefines == Init => Reads!ReadInit
<1> SUFFICES ASSUME Init PROVE Reads!ReadInit
  OBVIOUS
<1>1. \A c \in Caller : ReadOf(c) = Reads!NoRead
  BY DEF Init, NoCall, ReadOf, Reads!NoRead
<1>2. QED
  BY <1>1 DEF Init, Reads!ReadInit

\* Every step maps to a step or a stutter.
LEMMA StepRefines == IInv /\ [Next]_vars => [Reads!ReadNext]_(Reads!readVars)
<1> SUFFICES ASSUME IInv, [Next]_vars
             PROVE  Reads!ReadNext \/ UNCHANGED <<published, returned, ReadsNow>>
  BY DEF Reads!readVars, ReadsNow
<1>0. IInv'
  BY NextInv
<1>1. ASSUME NEW q \in Query, Publish(q)
      PROVE  Reads!Publish(q)
  <2>1. ReadsNow' = ReadsNow
    BY <1>1 DEF Publish, ReadsNow, ReadOf
  <2>2. QED
    BY <1>1, <2>1 DEF Publish, Reads!Publish, ReadsNow
<1>2. ASSUME NEW c \in Caller, NEW q \in Query, NEW pc \in {"enter", "peek"},
             Start(c, q, pc)
      PROVE  Reads!Begin(c, q)
  <2>1. Moves(c, pc, q, None, None, None, 0, returned[q])
    BY <1>2, StartEffect DEF IInv
  <2>2. ReadOf(c)' = Reads!Reading(q, returned[q])
    BY <2>1 DEF Moves, ReadOf, Reads!Reading
  <2>3. ReadsNow' = [ReadsNow EXCEPT ![c] = Reads!Reading(q, returned[q])]
    BY <2>1, <2>2, ReadMoved DEF Moves
  <2>4. ReadsNow[c] = Reads!NoRead
    BY <1>2 DEF Start, ReadsNow, ReadOf, Reads!NoRead
  <2>5. QED
    BY <1>2, <2>3, <2>4 DEF Start, Reads!Begin, ReadsNow
<1>3. ASSUME NEW c \in Caller,
             \/ PeekMiss(c) \/ Lead(c) \/ Join(c)
             \/ LookupHit(c) \/ LookupMiss(c) \/ Answer(c) \/ Store(c)
      PROVE  UNCHANGED <<published, returned, ReadsNow>>
  <2>1. /\ calls[c].pc \notin {"idle", "return"}
        /\ calls'[c].pc \notin {"idle", "return"}
        /\ calls'[c].query = calls[c].query /\ calls'[c].floor = calls[c].floor
        /\ \A d \in Caller \ {c} : calls'[d] = calls[d]
    BY <1>3, LeadEffect, JoinEffect, LookupHitEffect, FullAnswerEffect, SimpleEffects
       DEF IInv, PeekMiss, Lead, Join, LookupHit, LookupMiss, Answer,
           NotModified, FullAnswer, FetchError, Store, Settles, Moves
  <2>2. ReadOf(c)' = ReadOf(c)
    BY <2>1, ReadKept
  <2>3. ReadsNow' = ReadsNow
    BY <2>1, <2>2, ReadMoved DEF ReadsNow
  <2>4. UNCHANGED <<published, returned>>
    BY <1>3 DEF PeekMiss, Lead, Join, LookupHit, LookupMiss, Answer,
           NotModified, FullAnswer, FetchError, Store
  <2>5. QED
    BY <2>3, <2>4
<1>4. ASSUME NEW c \in Caller, PeekHit(c) \/ Deliver(c)
      PROVE  Reads!Settle
  <2>1. UNCHANGED <<published, returned>>
    BY <1>4 DEF PeekHit, Deliver
  <2>2. ASSUME NEW d \in Caller
        PROVE  \/ calls'[d] = calls[d]
               \/ /\ calls[d].pc \notin {"idle", "return"} /\ calls'[d].pc = "return"
                  /\ calls'[d].query = calls[d].query
                  /\ calls'[d].floor = calls[d].floor
    BY <1>4, PeekHitEffect, DeliverEffect DEF IInv, PeekHit, Deliver, WaitsFor, Moves
  <2>3. ASSUME NEW d \in Caller
        PROVE  Reads!Settled(d) \/ ReadsNow'[d] = ReadsNow[d]
    <3>1. CASE calls'[d] = calls[d]
      BY <3>1 DEF ReadsNow, ReadOf
    <3>2. CASE /\ calls[d].pc \notin {"idle", "return"} /\ calls'[d].pc = "return"
               /\ calls'[d].query = calls[d].query /\ calls'[d].floor = calls[d].floor
      <4>1. /\ ReadOf(d).phase = "reading"
            /\ \/ ReadOf(d)' = Reads!Failed
               \/ \E v \in ReadOf(d).floor..published[ReadOf(d).query] :
                     ReadOf(d)' = Reads!Got(ReadOf(d).query, v)
        BY <1>0, <2>1, <3>2, ReadSettles
      <4>2. QED
        BY <4>1 DEF Reads!Settled
    <3>3. QED
      BY <2>2, <3>1, <3>2
  <2>4. QED
    BY <2>1, <2>3 DEF Reads!Settle, ReadsNow
<1>5. ASSUME NEW c \in Caller, ReturnDocument(c)
      PROVE  Reads!Return(c)
  <2>1. /\ Moves(c, "idle", NoCall.query, None, None, None, 0, 0)
        /\ calls[c].pc = "return" /\ calls[c].reply # None
    BY <1>5, ReturnEffect DEF ReturnDocument, IInv
  <2>2. ReadsNow[c] = Reads!Got(calls[c].query, calls[c].reply.version)
    BY <2>1 DEF ReadsNow, ReadOf, Reads!Got
  <2>3. ReadsNow' = [ReadsNow EXCEPT ![c] = Reads!NoRead]
    BY <2>1, ReadMoved DEF Moves, ReadOf, Reads!NoRead
  <2>4. /\ returned' = [returned EXCEPT ![calls[c].query] =
                            Reads!Newer(@, calls[c].reply.version)]
        /\ UNCHANGED published
    BY <1>5 DEF ReturnDocument, QueryOf, Newer, Reads!Newer
  <2>5. /\ ReadsNow[c].phase = "got" /\ ReadsNow[c].query = calls[c].query
        /\ ReadsNow[c].version = calls[c].reply.version
    BY <2>2 DEF Reads!Got
  <2>6. QED
    BY <2>3, <2>4, <2>5 DEF Reads!Return, ReadsNow
<1>6. ASSUME NEW c \in Caller, ReturnError(c)
      PROVE  Reads!ReturnFailure(c)
  <2>1. Moves(c, "idle", NoCall.query, None, None, None, 0, 0)
    BY <1>6, ReturnEffect DEF IInv
  <2>2. ReadsNow[c] = Reads!Failed
    BY <1>6 DEF ReturnError, ReadsNow, ReadOf, Reads!Failed
  <2>3. ReadsNow' = [ReadsNow EXCEPT ![c] = Reads!NoRead]
    BY <2>1, ReadMoved DEF Moves, ReadOf, Reads!NoRead
  <2>4. QED
    BY <1>6, <2>2, <2>3 DEF ReturnError, Reads!ReturnFailure, ReadsNow
<1>7. CASE UNCHANGED vars
  BY <1>7 DEF vars, ReadsNow, ReadOf
<1>8. QED
  BY <1>1, <1>2, <1>3, <1>4, <1>5, <1>6, <1>7
     DEF Next, Progress, Reads!ReadNext

\* Coalescing, revalidation, eviction and the summary's peek together are
\* invisible: the three BCN tools offer the reads of VersionedReads.
THEOREM NormaRefinesReads == Spec => ImplementsReads
<1>1. Init => Reads!ReadInit
  BY InitRefines
<1>2. IInv /\ [Next]_vars => [Reads!ReadNext]_(Reads!readVars)
  BY StepRefines
<1>3. QED
  BY <1>1, <1>2, Invariance, PTL DEF Spec, ImplementsReads, Reads!ReadSpec

-----------------------------------------------------------------------------
\* The client uses its cache through get and put alone, so what is proved
\* of LruCache holds of the norm cache; no history of its uses is kept.
CacheProofs == INSTANCE LruCacheProofs WITH Entry <- Document,
                                            since <- << >>, latest <- << >>

\* Every step is a get, a put, or leaves the cache alone.
LEMMA StepUsesCache ==
    IInv /\ [Next]_vars => [CacheProofs!CacheNext]_(CacheProofs!cacheVars)
<1> SUFFICES ASSUME IInv, Next
             PROVE  CacheProofs!CacheNext \/ UNCHANGED <<entries, order>>
  BY DEF CacheProofs!cacheVars, vars
<1>1. ASSUME NEW c \in Caller, PeekHit(c) \/ PeekMiss(c) \/ LookupHit(c) \/ LookupMiss(c)
      PROVE  CacheProofs!CacheNext \/ UNCHANGED <<entries, order>>
  <2>1. KeyOf(c) \in Key
    BY KeyInjective, Numbers DEF IInv, KeyOf, QueryOf
  <2>2. Cache!GetHit(KeyOf(c)) \/ Cache!GetMiss(KeyOf(c))
    BY <1>1 DEF PeekHit, PeekMiss, LookupHit, LookupMiss
  <2>3. CASE Cache!GetHit(KeyOf(c))
    <3>1. CacheProofs!Get(KeyOf(c))
      BY <2>3 DEF Cache!GetHit, Cache!Hit, Cache!MoveToFront, Cache!IndexOf,
         CacheProofs!Get, CacheProofs!GetHit, CacheProofs!Hit,
         CacheProofs!MoveToFront, CacheProofs!IndexOf
    <3>2. QED
      BY <2>1, <3>1 DEF CacheProofs!CacheNext
  <2>4. CASE Cache!GetMiss(KeyOf(c))
    BY <2>4 DEF Cache!GetMiss, Cache!cacheVars
  <2>5. QED
    BY <2>2, <2>3, <2>4
<1>2. ASSUME NEW c \in Caller, Store(c)
      PROVE  CacheProofs!CacheNext
  <2>1. KeyOf(c) \in Key /\ calls[c].reply \in Document
    BY <1>2, KeyInjective, Numbers DEF Store, IInv, Phases, KeyOf, QueryOf
  <2>2. Cache!Full <=> CacheProofs!Full
    BY DEF Cache!Full, CacheProofs!Full, Cache!Cardinality, CacheProofs!Cardinality
  <2>3. CacheProofs!Put(KeyOf(c), calls[c].reply)
    BY <1>2, <2>2 DEF Store, Cache!Put, Cache!PutExisting, Cache!PutNew, Cache!PutEvicting,
       Cache!Hit, Cache!Back, Cache!With, Cache!Without,
       Cache!MoveToFront, Cache!IndexOf, Cache!PushFront, Cache!DropBack,
       CacheProofs!Put, CacheProofs!PutExisting, CacheProofs!PutNew,
       CacheProofs!PutEvicting, CacheProofs!Hit, CacheProofs!Back,
       CacheProofs!With, CacheProofs!Without, CacheProofs!MoveToFront,
       CacheProofs!IndexOf, CacheProofs!PushFront, CacheProofs!DropBack
  <2>4. QED
    BY <2>1, <2>3 DEF CacheProofs!CacheNext
<1>3. QED
  BY <1>1, <1>2 DEF Next, Publish, Start, Progress, Answer, Lead, Join,
     NotModified, FullAnswer, FetchError, Deliver, ReturnDocument, ReturnError

\* The norm cache keeps the invariant of LruCache.
LEMMA CacheInvariance == Spec => []CacheProofs!CacheInv
<1>1. CacheProofs!CacheMaxAssumption
  BY NormaAssumption DEF CacheProofs!CacheMaxAssumption
<1>2. Init => CacheProofs!CacheInv
  BY <1>1, CacheProofs!InitCacheInv DEF Init, Cache!CacheInit, CacheProofs!CacheInit
<1>3. CacheProofs!CacheInv /\ [CacheProofs!CacheNext]_(CacheProofs!cacheVars)
      => CacheProofs!CacheInv'
  BY <1>1, CacheProofs!NextCacheInv
<1>4. QED
  BY <1>2, <1>3, StepUsesCache, Invariance, PTL DEF Spec

\* The variables keep their types in every reachable state.
THEOREM NormaTypeCorrect == Spec => []TypeOK
<1>1. IInv /\ CacheProofs!CacheInv => TypeOK
  BY DEF IInv, Typed, CacheProofs!CacheInv, CacheProofs!CacheTypeOK,
     TypeOK, Cache!CacheTypeOK
<1>2. QED
  BY <1>1, Invariance, CacheInvariance, PTL

=============================================================================
