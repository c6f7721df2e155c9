--------------------------- MODULE CgrFetchProofs ---------------------------
(***************************************************************************)
(* The CGR client gives every call the answer it asked for, and never one  *)
(* older than its caller could have seen, for every set of callers and of  *)
(* queries, every capacity of the caches, every set of heavy responses and *)
(* every number of published versions.                                     *)
(***************************************************************************)
EXTENDS CgrFetch, TLAPS

\* Types of everything but the recency lists, which decide only what is
\* evicted: the arguments below hold whatever the caches evict.
Typed == /\ published \in [Query -> Version]
         /\ DOMAIN entries = Family
         /\ group \in [Family \X Id -> Caller \cup {None}]
         /\ calls \in [Caller -> CallRecord]
         /\ returned \in [Query -> 0..maxVersion]

\* Only some phases of a call hold a reply.
Phases == \A c \in Caller :
             /\ calls[c].pc \notin {"store", "deliver", "return"} => calls[c].reply = None
             /\ calls[c].pc = "store" => calls[c].reply # None

\* The group and the callers agree on who leads, and a caller that waits
\* does so for the leader its key has in the group.
Flights == /\ \A c \in Caller : Leading(c) => group[KeyOf(c)] = c
           /\ \A k \in Family \X Id : group[k] # None =>
                 Leading(group[k]) /\ KeyOf(group[k]) = k
           /\ \A c \in Caller : calls[c].pc = "wait" =>
                 /\ group[KeyOf(c)] # None
                 /\ calls[c].leader = group[KeyOf(c)]

InCache(q) == q.id \in DOMAIN entries[q.family]

CachedCopy(q) == entries[q.family][q.id]

\* Every copy of an answer carries the query it was fetched for.
CopiesLabelled == \A f \in Family : \A k \in DOMAIN entries[f] :
                     /\ entries[f][k] \in Document
                     /\ entries[f][k].of = [family |-> f, id |-> k]

RepliesLabelled ==
    \A c \in Caller : calls[c].reply # None => calls[c].reply.of = QueryOf(c)

\* Nothing here is newer than what is published.
Published ==
    \A q \in Query : /\ returned[q] <= published[q]
                     /\ InCache(q) => CachedCopy(q).version <= published[q]

\* A call's mark lies in the past.
Floors == \A c \in Caller : calls[c].floor <= returned[QueryOf(c)]

\* A version of q as new as all that has been, or is about to be, returned.
Newest(q, v) ==
    /\ returned[q] <= v
    /\ \A d \in Caller : /\ calls[d].pc = "return" /\ calls[d].reply # None
                         /\ QueryOf(d) = q
                         => calls[d].reply.version <= v

\* What is cached of a light answer is that new: eviction loses it, and
\* only the flight that fetched a newer one replaces it.
CachedNewest ==
    \A q \in Query : Light(q) /\ InCache(q) => Newest(q, CachedCopy(q).version)

\* And so is what a flight carries; by the time it delivers, a cached copy
\* is the one it carries.
CarriedNewest ==
    \A c \in Caller : Leading(c) /\ calls[c].reply # None =>
       LET q == QueryOf(c)   v == calls[c].reply.version IN
       /\ v <= published[q]
       /\ Light(q) =>
             /\ Newest(q, v)
             /\ InCache(q) => CachedCopy(q).version <= v
             /\ InCache(q) /\ calls[c].pc = "deliver" => CachedCopy(q).version = v

\* What is about to be returned is published.
LeavingPublished ==
    \A c \in Caller : calls[c].pc = "return" /\ calls[c].reply # None
                      => calls[c].reply.version <= published[QueryOf(c)]

IInv == /\ Typed /\ Phases /\ Flights /\ CopiesLabelled /\ RepliesLabelled
        /\ Published /\ Floors /\ CachedNewest /\ CarriedNewest
        /\ LeavingPublished /\ ReadsGoForward

-----------------------------------------------------------------------------
\* A step of c alone that leaves its record with these fields.
Moves(c, pc, q, leader, reply, floor) ==
    /\ calls' \in [Caller -> CallRecord]
    /\ calls'[c].pc = pc /\ calls'[c].query = q /\ calls'[c].leader = leader
    /\ calls'[c].reply = reply /\ calls'[c].floor = floor
    /\ \A d \in Caller \ {c} : calls'[d] = calls[d]

\* The same, for a step that leaves the query, the leader and the floor.
Settles(c, pc, reply) ==
    Moves(c, pc, calls[c].query, calls[c].leader, reply, calls[c].floor)

\* A query is its family and its id, and the flight's key tells both apart.
LEMMA KeyInjective ==
    /\ \A q \in Query : /\ q.family \in Family /\ q.id \in Id
                        /\ flightKey(q) \in Family \X Id
                        /\ q = [family |-> q.family, id |-> q.id]
    /\ \A p, q \in Query : flightKey(p) = flightKey(q) => p = q
    /\ \A p, q \in Query : p.family = q.family /\ p.id = q.id => p = q
<1>1. \A q \in Query : /\ q.family \in Family /\ q.id \in Id
                       /\ q = [family |-> q.family, id |-> q.id]
  BY CgrAssumption DEF Id
<1>2. \A p, q \in Query : p.family = q.family /\ p.id = q.id => p = q
  BY <1>1
<1>3. QED
  BY <1>1, <1>2 DEF flightKey

\* Numbers are numbers and copies are documents, whatever state they are in.
LEMMA Numbers ==
    ASSUME Typed, CopiesLabelled
    PROVE  /\ \A q \in Query :
                 /\ published[q] \in Nat /\ published[q] >= 1
                 /\ returned[q] \in Nat
                 /\ InCache(q) => /\ CachedCopy(q) \in Document
                                  /\ CachedCopy(q).of = q
           /\ \A c \in Caller :
                 /\ QueryOf(c) \in Query /\ KeyOf(c) \in Family \X Id
                 /\ calls[c].floor \in Nat
                 /\ calls[c].reply # None => calls[c].reply \in Document
           /\ \A x \in Document : x # None /\ x.of \in Query /\ x.version \in Nat
<1>1. \A q \in Query : /\ published[q] \in Nat /\ published[q] >= 1
                       /\ returned[q] \in Nat
  BY CgrAssumption DEF Typed, Version
<1>2. \A q \in Query : InCache(q) => CachedCopy(q) \in Document /\ CachedCopy(q).of = q
  BY KeyInjective DEF CopiesLabelled, InCache, CachedCopy
<1>3. \A c \in Caller : /\ calls[c].query \in Query /\ calls[c].floor \in Nat
                        /\ calls[c].reply # None => calls[c].reply \in Document
  BY DEF Typed, CallRecord
<1>4. \A x \in Document : x # None
  BY CgrAssumption
<1>5. \A x \in Document : x.of \in Query /\ x.version \in Nat
  BY CgrAssumption DEF Document, Version
<1>6. \A c \in Caller : QueryOf(c) \in Query /\ KeyOf(c) \in Family \X Id
  BY <1>3, KeyInjective DEF QueryOf, KeyOf
<1>7. QED
  BY <1>1, <1>2, <1>3, <1>4, <1>5, <1>6

\* The record of a caller that asks for nothing.
LEMMA NoCallSound ==
    /\ NoCall \in CallRecord
    /\ NoCall.pc = "idle" /\ NoCall.leader = None /\ NoCall.reply = None
    /\ NoCall.floor = 0
<1>1. (CHOOSE q \in Query : TRUE) \in Query
  BY CgrAssumption
<1>2. QED
  BY <1>1 DEF NoCall, CallRecord

\* After a put the key holds the answer; every other resident key was
\* resident before, with the same answer, and other families are left alone.
LEMMA PutEffect ==
    ASSUME DOMAIN entries = Family, NEW f \in Family, NEW k, NEW e, PutInto(f, k, e)
    PROVE  /\ DOMAIN entries' = Family
           /\ k \in DOMAIN entries'[f] /\ entries'[f][k] = e
           /\ \A x \in DOMAIN entries'[f] \ {k} :
                 x \in DOMAIN entries[f] /\ entries'[f][x] = entries[f][x]
           /\ \A g \in Family \ {f} : entries'[g] = entries[g]
BY DEF PutInto, Cache!With, Cache!Without, Cache!Hit, Cache!Full

\* What the steps of one call make of its record.
LEMMA StepEffects ==
    ASSUME Typed, CopiesLabelled, NEW c \in Caller
    PROVE  /\ \A q \in Query :
                 Start(c, q) => Moves(c, "peek", q, None, None, returned[q])
           /\ PeekHit(c) => Moves(c, "return", QueryOf(c), None,
                                  CachedCopy(QueryOf(c)), calls[c].floor)
           /\ PeekMiss(c) => Settles(c, "enter", calls[c].reply)
           /\ Lead(c) => Settles(c, "fetch", calls[c].reply)
           /\ Join(c) => Moves(c, "wait", QueryOf(c), group[KeyOf(c)],
                               calls[c].reply, calls[c].floor)
           /\ FullAnswer(c) => Settles(c, "store", Current(QueryOf(c)))
           /\ FetchError(c) => Settles(c, "deliver", calls[c].reply)
           /\ Store(c) => Settles(c, "deliver", calls[c].reply)
           /\ SkipStore(c) => Settles(c, "deliver", calls[c].reply)
           /\ Return(c) => Moves(c, "idle", NoCall.query, None, None, 0)
<1>1. ASSUME NEW q \in Query, Start(c, q)
      PROVE  Moves(c, "peek", q, None, None, returned[q])
  <2>1. returned[q] \in Nat
    BY Numbers
  <2>2. QED
    BY <1>1, <2>1, NoCallSound DEF Typed, Moves, CallRecord, Start
<1>2. ASSUME PeekHit(c)
      PROVE  Moves(c, "return", QueryOf(c), None, CachedCopy(QueryOf(c)), calls[c].floor)
  <2>1. CachedCopy(QueryOf(c)) \in Document
    BY <1>2, Numbers DEF PeekHit, Cache!Hit, InCache
  <2>2. calls' = [calls EXCEPT ![c] = Answered(c, CachedCopy(QueryOf(c)))]
    BY <1>2 DEF PeekHit, CachedCopy
  <2>3. QED
    BY <2>1, <2>2 DEF Typed, Moves, CallRecord, Answered, QueryOf
<1>3. ASSUME FullAnswer(c)
      PROVE  Settles(c, "store", Current(QueryOf(c)))
  <2>1. Current(QueryOf(c)) \in Document
    BY Numbers DEF Current, Document, Typed
  <2>2. QED
    BY <1>3, <2>1 DEF Typed, Moves, Settles, CallRecord, FullAnswer
<1>4. ASSUME Join(c)
      PROVE  Moves(c, "wait", QueryOf(c), group[KeyOf(c)], calls[c].reply, calls[c].floor)
  <2>1. group[KeyOf(c)] \in Caller
    BY <1>4, Numbers DEF Join, Typed
  <2>2. QED
    BY <1>4, <2>1 DEF Typed, Moves, CallRecord, Join, QueryOf
<1>5. /\ PeekMiss(c) => Settles(c, "enter", calls[c].reply)
      /\ Lead(c) => Settles(c, "fetch", calls[c].reply)
      /\ FetchError(c) => Settles(c, "deliver", calls[c].reply)
      /\ Store(c) => Settles(c, "deliver", calls[c].reply)
      /\ SkipStore(c) => Settles(c, "deliver", calls[c].reply)
  BY DEF Typed, Moves, Settles, CallRecord, PeekMiss, Lead, FetchError, Store,
         SkipStore, Goto
<1>6. Return(c) => Moves(c, "idle", NoCall.query, None, None, 0)
  BY NoCallSound DEF Typed, Moves, Return
<1>7. QED
  BY <1>1, <1>2, <1>3, <1>4, <1>5, <1>6

\* A step of one call within its flight, or outside any, leaves the flights.
LEMMA FlightsKept ==
    ASSUME Typed, CopiesLabelled, Flights, NEW c \in Caller, UNCHANGED group,
           calls' \in [Caller -> CallRecord],
           \A d \in Caller \ {c} : calls'[d] = calls[d],
           \/ /\ Leading(c) /\ Leading(c)'
              /\ calls'[c].query = calls[c].query
           \/ ~Leading(c) /\ ~Leading(c)' /\ calls'[c].pc # "wait"
    PROVE  Flights'
<1>1. \A d \in Caller : d # c \/ Leading(c) => KeyOf(d)' = KeyOf(d)
  BY DEF KeyOf, QueryOf
<1>2. \A d \in Caller : Leading(d)' <=> Leading(d)
  BY DEF Leading
<1>3. \A d \in Caller : Leading(d)' => group'[KeyOf(d)'] = d
  BY <1>1, <1>2 DEF Flights
<1>4. ASSUME NEW k \in Family \X Id, group'[k] # None
      PROVE  (Leading(group[k]) /\ KeyOf(group[k]) = k)'
  <2>1. PICK d \in Caller : d = group[k] /\ Leading(d) /\ KeyOf(d) = k
    BY <1>4 DEF Flights, Typed
  <2>2. Leading(d)' /\ KeyOf(d)' = k
    BY <2>1, <1>1, <1>2
  <2>3. QED
    BY <2>1, <2>2 DEF Leading, KeyOf, QueryOf
<1>5. ASSUME NEW d \in Caller, calls'[d].pc = "wait"
      PROVE  group'[KeyOf(d)'] # None /\ calls'[d].leader = group'[KeyOf(d)']
  <2>1. d # c
    BY <1>5 DEF Leading
  <2>2. calls'[d] = calls[d] /\ KeyOf(d)' = KeyOf(d)
    BY <2>1, <1>1
  <2>3. QED
    BY <1>5, <2>2 DEF Flights
<1>6. QED
  BY <1>3, <1>4, <1>5 DEF Flights

\* A query has at most one flight, and its waiters asked for the same.
LEMMA OneFlight ==
    ASSUME Typed, CopiesLabelled, Flights, NEW c \in Caller, Leading(c),
           NEW d \in Caller
    PROVE  /\ Leading(d) /\ QueryOf(d) = QueryOf(c) => d = c
           /\ WaitsFor(d, c) => QueryOf(d) = QueryOf(c)
<1>1. KeyOf(c) \in Family \X Id /\ KeyOf(d) \in Family \X Id
  BY Numbers
<1>2. Leading(d) /\ QueryOf(d) = QueryOf(c) => d = c
  BY DEF Flights, KeyOf
<1>3. ASSUME WaitsFor(d, c)
      PROVE  QueryOf(d) = QueryOf(c)
  <2>1. KeyOf(c) = KeyOf(d)
    BY <1>1, <1>3 DEF Flights, WaitsFor
  <2>2. QED
    BY <2>1, Numbers, KeyInjective DEF KeyOf
<1>4. QED
  BY <1>2, <1>3

\* A flight begins where there was none.
LEMMA LeadFlights ==
    ASSUME IInv, NEW c \in Caller, Lead(c)
    PROVE  Flights'
<1> USE DEF IInv
<1>1. /\ Settles(c, "fetch", calls[c].reply) /\ calls[c].pc = "enter"
      /\ group[KeyOf(c)] = None
      /\ group' = [group EXCEPT ![KeyOf(c)] = c]
  BY StepEffects DEF Lead
<1>2. \A d \in Caller : KeyOf(d)' = KeyOf(d) /\ KeyOf(d) \in Family \X Id
  BY <1>1, Numbers DEF Settles, Moves, KeyOf, QueryOf
<1>3. \A d \in Caller : Leading(d)' <=> d = c \/ Leading(d)
  BY <1>1 DEF Leading, Settles, Moves
<1>4. c # None /\ None \notin Caller
  BY CgrAssumption
<1>5. ASSUME NEW d \in Caller, Leading(d)'
      PROVE  group'[KeyOf(d)'] = d
  BY <1>1, <1>2, <1>3, <1>4, <1>5 DEF Flights, Typed
<1>6. ASSUME NEW k \in Family \X Id, group'[k] # None
      PROVE  (Leading(group[k]) /\ KeyOf(group[k]) = k)'
  <2>1. PICK d \in Caller : d = group'[k] /\ KeyOf(d) = k /\ Leading(d)'
    BY <1>1, <1>2, <1>3, <1>6 DEF Flights, Typed
  <2>2. KeyOf(d)' = k
    BY <2>1, <1>2
  <2>3. QED
    BY <2>1, <2>2 DEF Leading, KeyOf, QueryOf
<1>7. ASSUME NEW d \in Caller, calls'[d].pc = "wait"
      PROVE  group'[KeyOf(d)'] # None /\ calls'[d].leader = group'[KeyOf(d)']
  <2>1. d # c /\ calls'[d] = calls[d]
    BY <1>1, <1>7 DEF Settles, Moves
  <2>2. group[KeyOf(d)] # None /\ calls[d].leader = group[KeyOf(d)]
    BY <1>7, <2>1 DEF Flights
  <2>3. KeyOf(d) # KeyOf(c)
    BY <1>1, <2>2
  <2>4. QED
    BY <1>1, <1>2, <2>1, <2>2, <2>3 DEF Typed
<1>8. QED
  BY <1>5, <1>6, <1>7 DEF Flights

\* A caller that joins waits for the leader of its key.
LEMMA JoinFlights ==
    ASSUME IInv, NEW c \in Caller, Join(c)
    PROVE  Flights'
<1> USE DEF IInv
<1>1. /\ Moves(c, "wait", QueryOf(c), group[KeyOf(c)], calls[c].reply, calls[c].floor)
      /\ calls[c].pc = "enter" /\ group[KeyOf(c)] # None /\ UNCHANGED group
  BY StepEffects DEF Join
<1>2. \A d \in Caller : KeyOf(d)' = KeyOf(d)
  BY <1>1 DEF Moves, KeyOf, QueryOf
<1>3. \A d \in Caller : Leading(d)' <=> Leading(d)
  BY <1>1 DEF Leading, Moves
<1>4. ASSUME NEW k \in Family \X Id, group'[k] # None
      PROVE  (Leading(group[k]) /\ KeyOf(group[k]) = k)'
  <2>1. PICK d \in Caller : d = group[k] /\ Leading(d) /\ KeyOf(d) = k
    BY <1>1, <1>4 DEF Flights, Typed
  <2>2. Leading(d)' /\ KeyOf(d)' = k
    BY <2>1, <1>2, <1>3
  <2>3. QED
    BY <1>1, <2>1, <2>2 DEF Leading, KeyOf, QueryOf
<1>5. ASSUME NEW d \in Caller, calls'[d].pc = "wait"
      PROVE  group'[KeyOf(d)'] # None /\ calls'[d].leader = group'[KeyOf(d)']
  <2>1. CASE d = c
    BY <1>1, <1>2, <2>1 DEF Moves
  <2>2. CASE d # c
    BY <1>1, <1>2, <1>5, <2>2 DEF Moves, Flights
  <2>3. QED
    BY <2>1, <2>2
<1>6. QED
  BY <1>1, <1>2, <1>3, <1>4, <1>5 DEF Flights

-----------------------------------------------------------------------------
\* A step of one call that touches no cache and holds no reply after it.
LEMMA QuietStep ==
    ASSUME IInv, NEW c \in Caller, calls' \in [Caller -> CallRecord],
           \A d \in Caller \ {c} : calls'[d] = calls[d],
           calls'[c].reply = None, calls'[c].pc # "store",
           calls'[c].floor <= returned[calls'[c].query],
           UNCHANGED <<published, entries, returned>>,
           group' \in [Family \X Id -> Caller \cup {None}], Flights'
    PROVE  IInv'
<1> USE DEF IInv
<1>1. \A d \in Caller \ {c} : QueryOf(d)' = QueryOf(d) /\ Leading(d)' = Leading(d)
  BY DEF QueryOf, Leading
<1>2. Typed' /\ CopiesLabelled' /\ Published'
  BY DEF Typed, CopiesLabelled, Published, InCache, CachedCopy
<1>3. Phases'
  BY DEF Phases
<1>4. RepliesLabelled'
  BY <1>1 DEF RepliesLabelled
<1>5. Floors'
  BY <1>1 DEF Floors, QueryOf
<1>6. ASSUME NEW q \in Query, NEW v, Newest(q, v)
      PROVE  Newest(q, v)'
  BY <1>1, <1>6 DEF Newest
<1>7. CachedNewest'
  BY <1>6 DEF CachedNewest, InCache, CachedCopy, Newest
<1>8. CarriedNewest'
  <2>1. ASSUME NEW d \in Caller, Leading(d)', calls'[d].reply # None
        PROVE  /\ Leading(d) /\ calls'[d] = calls[d] /\ QueryOf(d)' = QueryOf(d)
               /\ QueryOf(d) \in Query
    BY <1>1, <2>1, Numbers
  <2>2. QED
    BY <1>6, <2>1, SMTT(20) DEF CarriedNewest, InCache, CachedCopy, Newest
<1>9. LeavingPublished' /\ ReadsGoForward'
  BY <1>1 DEF LeavingPublished, ReadsGoForward
<1>10. QED
  BY <1>2, <1>3, <1>4, <1>5, <1>7, <1>8, <1>9

\* A call that begins, misses, joins, leads or fails holds no reply.
LEMMA QuietInv ==
    ASSUME IInv, NEW c \in Caller,
           \/ \E q \in Query : Start(c, q)
           \/ PeekMiss(c) \/ Lead(c) \/ Join(c) \/ FetchError(c)
    PROVE  IInv'
<1> USE DEF IInv
<1>1. ASSUME NEW q \in Query, Start(c, q)
      PROVE  IInv'
  <2>1. /\ Moves(c, "peek", q, None, None, returned[q]) /\ calls[c].pc = "idle"
        /\ UNCHANGED <<published, entries, group, returned>>
    BY <1>1, StepEffects DEF Start
  <2>2. Flights'
    BY <2>1, FlightsKept DEF Moves, Leading
  <2>3. QED
    BY <2>1, <2>2, Numbers, QuietStep DEF Moves, Typed
<1>2. ASSUME PeekMiss(c) \/ FetchError(c)
      PROVE  IInv'
  <2>1. PICK pc \in {"enter", "deliver"} :
           /\ Settles(c, pc, calls[c].reply)
           /\ \/ pc = "enter" /\ calls[c].pc = "peek"
              \/ pc = "deliver" /\ calls[c].pc = "fetch"
           /\ UNCHANGED <<published, entries, group, returned>>
    <3>1. CASE PeekMiss(c)
      BY <3>1, StepEffects DEF PeekMiss
    <3>2. CASE FetchError(c)
      BY <3>2, StepEffects DEF FetchError
    <3>3. QED
      BY <1>2, <3>1, <3>2
  <2>2. calls[c].reply = None
    BY <2>1 DEF Phases
  <2>3. Flights'
    BY <2>1, FlightsKept DEF Settles, Moves, Leading
  <2>4. QED
    BY <2>1, <2>2, <2>3, QuietStep DEF Settles, Moves, Typed, Floors, QueryOf
<1>3. ASSUME Lead(c)
      PROVE  IInv'
  <2>1. /\ Settles(c, "fetch", calls[c].reply) /\ calls[c].pc = "enter"
        /\ group' = [group EXCEPT ![KeyOf(c)] = c]
        /\ UNCHANGED <<published, entries, returned>>
    BY <1>3, StepEffects DEF Lead
  <2>2. calls[c].reply = None
    BY <2>1 DEF Phases
  <2>3. Flights' /\ group' \in [Family \X Id -> Caller \cup {None}]
    BY <1>3, <2>1, LeadFlights DEF Typed
  <2>4. QED
    BY <2>1, <2>2, <2>3, QuietStep DEF Settles, Moves, Floors, QueryOf
<1>4. ASSUME Join(c)
      PROVE  IInv'
  <2>1. /\ Moves(c, "wait", QueryOf(c), group[KeyOf(c)], calls[c].reply, calls[c].floor)
        /\ calls[c].pc = "enter"
        /\ UNCHANGED <<published, entries, group, returned>>
    BY <1>4, StepEffects DEF Join
  <2>2. calls[c].reply = None
    BY <2>1 DEF Phases
  <2>3. Flights'
    BY <1>4, JoinFlights
  <2>4. QED
    BY <2>1, <2>2, <2>3, QuietStep DEF Moves, Typed, Floors, QueryOf
<1>5. QED
  BY <1>1, <1>2, <1>3, <1>4

\* A new version makes everything older, nothing newer.
LEMMA PublishInv ==
    ASSUME IInv, NEW q \in Query, Publish(q)
    PROVE  IInv'
<1> USE DEF IInv
<1>1. /\ published' = [published EXCEPT ![q] = published[q] + 1]
      /\ published[q] < maxVersion
      /\ UNCHANGED <<entries, order, group, calls, returned>>
  BY DEF Publish
<1>2. published' \in [Query -> Version]
  BY <1>1, Numbers, CgrAssumption DEF Typed, Version
<1>3. \A p \in Query : published[p] <= published'[p] /\ published'[p] \in Nat
  BY <1>1, Numbers DEF Typed
<1>4. Typed'
  BY <1>1, <1>2 DEF Typed
<1>5. Phases' /\ Flights' /\ CopiesLabelled' /\ RepliesLabelled' /\ Floors'
      /\ CachedNewest' /\ ReadsGoForward'
  BY <1>1 DEF Phases, Flights, Leading, KeyOf, QueryOf, CopiesLabelled, RepliesLabelled,
     Floors, CachedNewest, InCache, CachedCopy, Newest, ReadsGoForward
<1>6. Published'
  <2>1. ASSUME NEW p \in Query
        PROVE  /\ returned[p] <= published'[p]
               /\ InCache(p) => CachedCopy(p).version <= published'[p]
    BY <1>3, Numbers DEF Published
  <2>2. QED
    BY <1>1, <2>1 DEF Published, InCache, CachedCopy
<1>7. ASSUME NEW c \in Caller, calls[c].reply # None,
             calls[c].reply.version <= published[QueryOf(c)]
      PROVE  calls[c].reply.version <= published'[QueryOf(c)]
  BY <1>3, <1>7, Numbers
<1>8. CarriedNewest'
  BY <1>1, <1>7 DEF CarriedNewest, Leading, QueryOf, InCache, CachedCopy, Newest
<1>9. LeavingPublished'
  BY <1>1, <1>7 DEF LeavingPublished, QueryOf
<1>10. QED
  BY <1>4, <1>5, <1>6, <1>8, <1>9

\* A hit is answered with what is cached.
LEMMA PeekHitInv ==
    ASSUME IInv, NEW c \in Caller, PeekHit(c)
    PROVE  IInv'
<1> USE DEF IInv
<1> DEFINE Q == QueryOf(c)
<1>1. PICK e : e = CachedCopy(Q)
  OBVIOUS
<1>2. /\ Moves(c, "return", Q, None, e, calls[c].floor)
      /\ calls[c].pc = "peek" /\ Q \in Query /\ InCache(Q)
      /\ e \in Document /\ e # None /\ e.of = Q
      /\ UNCHANGED <<published, entries, group, returned>>
  BY <1>1, StepEffects, Numbers DEF PeekHit, Touch, Cache!Hit, InCache
<1>3. calls' \in [Caller -> CallRecord] /\ QueryOf(c)' = Q
  BY <1>2 DEF Moves, QueryOf
<1>4. \A d \in Caller \ {c} : calls'[d] = calls[d] /\ QueryOf(d)' = QueryOf(d)
  BY <1>2 DEF Moves, QueryOf
<1>5. calls'[c].pc = "return" /\ calls'[c].reply = e /\ calls'[c].floor = calls[c].floor
  BY <1>2 DEF Moves
<1>6. Typed' /\ CopiesLabelled' /\ Published'
  BY <1>2, <1>3 DEF Typed, CopiesLabelled, Published, InCache, CachedCopy
<1>7. Phases' /\ RepliesLabelled' /\ Floors'
  BY <1>2, <1>3, <1>4, <1>5 DEF Phases, RepliesLabelled, Floors
<1>8. Flights'
  BY <1>2, <1>3, <1>4, <1>5, FlightsKept DEF Leading
<1>9. ASSUME NEW q \in Query, NEW v, Newest(q, v), q = Q => e.version <= v
      PROVE  Newest(q, v)'
  BY <1>2, <1>3, <1>4, <1>5, <1>9 DEF Newest
<1>10. CachedNewest'
  <2>1. ASSUME NEW q \in Query, Light(q), InCache(q)
        PROVE  Newest(q, CachedCopy(q).version) /\ (q = Q => e.version <= CachedCopy(q).version)
    BY <1>1, <1>2, <2>1, Numbers DEF CachedNewest
  <2>2. QED
    BY <1>2, <1>9, <2>1 DEF CachedNewest, InCache, CachedCopy, Newest
<1>11. CarriedNewest'
  <2>1. ASSUME NEW d \in Caller, Leading(d)', calls'[d].reply # None
        PROVE  /\ Leading(d) /\ calls'[d] = calls[d] /\ QueryOf(d)' = QueryOf(d)
               /\ QueryOf(d) \in Query
    BY <1>4, <1>5, <2>1, Numbers DEF Leading
  <2>2. ASSUME NEW d \in Caller, Leading(d), calls[d].reply # None, Light(QueryOf(d))
        PROVE  /\ Newest(QueryOf(d), calls[d].reply.version)
               /\ QueryOf(d) = Q => e.version <= calls[d].reply.version
    BY <1>1, <1>2, <2>2 DEF CarriedNewest
  <2>3. QED
    BY <1>2, <1>9, <2>1, <2>2 DEF CarriedNewest, InCache, CachedCopy, Newest
<1>12. LeavingPublished'
  BY <1>1, <1>2, <1>3, <1>4, <1>5 DEF LeavingPublished, Published
<1>13. ReadsGoForward'
  <2>1. Light(Q) => calls[c].floor <= returned[Q] /\ returned[Q] <= e.version
    BY <1>1, <1>2 DEF Floors, CachedNewest, Newest
  <2>2. Light(Q) => e.version >= calls[c].floor
    BY <1>2, <2>1, Numbers
  <2>3. QED
    BY <1>3, <1>4, <1>5, <2>2 DEF ReadsGoForward
<1>14. QED
  BY <1>6, <1>7, <1>8, <1>10, <1>11, <1>12, <1>13

\* The upstream answers with the version in force, the newest there is.
LEMMA FullAnswerInv ==
    ASSUME IInv, NEW c \in Caller, FullAnswer(c)
    PROVE  IInv'
<1> USE DEF IInv
<1> DEFINE Q == QueryOf(c)
<1>1. PICK e : e = Current(Q)
  OBVIOUS
<1>2. /\ Settles(c, "store", e) /\ calls[c].pc = "fetch" /\ Q \in Query
      /\ UNCHANGED <<published, entries, group, returned>>
  BY <1>1, StepEffects, Numbers DEF FullAnswer
<1>3. e \in Document /\ e # None /\ e.of = Q /\ e.version = published[Q]
  BY <1>1, <1>2, Numbers DEF Current, Document, Typed
<1>4. calls' \in [Caller -> CallRecord] /\ QueryOf(c)' = Q
  BY <1>2 DEF Settles, Moves, QueryOf
<1>5. \A d \in Caller \ {c} : calls'[d] = calls[d] /\ QueryOf(d)' = QueryOf(d)
  BY <1>2 DEF Settles, Moves, QueryOf
<1>6. calls'[c].pc = "store" /\ calls'[c].reply = e /\ calls'[c].floor = calls[c].floor
  BY <1>2 DEF Settles, Moves
<1>7. Typed' /\ CopiesLabelled' /\ Published'
  BY <1>2, <1>4 DEF Typed, CopiesLabelled, Published, InCache, CachedCopy
<1>8. Phases' /\ RepliesLabelled' /\ Floors'
  BY <1>2, <1>3, <1>4, <1>5, <1>6 DEF Phases, RepliesLabelled, Floors
<1>9. Flights'
  BY <1>2, <1>4, <1>5, <1>6, FlightsKept DEF Leading, QueryOf
<1>10. ASSUME NEW q \in Query, NEW v, Newest(q, v)
       PROVE  Newest(q, v)'
  BY <1>2, <1>4, <1>5, <1>6, <1>10 DEF Newest
<1>11. CachedNewest'
  BY <1>2, <1>10 DEF CachedNewest, InCache, CachedCopy, Newest
<1>12. CarriedNewest'
  <2>1. Newest(Q, e.version)
    BY <1>2, <1>3 DEF Newest, Published, LeavingPublished
  <2>2. /\ e.version <= published[Q]
        /\ InCache(Q) => CachedCopy(Q).version <= e.version
    BY <1>2, <1>3, Numbers DEF Published
  <2>3. ASSUME NEW d \in Caller, d # c, Leading(d)', calls'[d].reply # None
        PROVE  Leading(d) /\ QueryOf(d) \in Query
    BY <1>5, <2>3, Numbers DEF Leading
  <2>4. QED
    BY <1>2, <1>4, <1>5, <1>6, <1>10, <2>1, <2>2, <2>3
       DEF CarriedNewest, InCache, CachedCopy, Newest
<1>13. LeavingPublished' /\ ReadsGoForward'
  BY <1>2, <1>4, <1>5, <1>6 DEF LeavingPublished, ReadsGoForward
<1>14. QED
  BY <1>7, <1>8, <1>9, <1>11, <1>12, <1>13

\* Only answers of queries that have heavy ones are not stored.
LEMMA SkipStoreInv ==
    ASSUME IInv, NEW c \in Caller, SkipStore(c)
    PROVE  IInv'
<1> USE DEF IInv
<1>1. /\ Settles(c, "deliver", calls[c].reply) /\ calls[c].pc = "store"
      /\ calls[c].reply \in Heavy
      /\ UNCHANGED <<published, entries, group, returned>>
  BY StepEffects DEF SkipStore
<1>2. ~Light(QueryOf(c))
  BY <1>1 DEF Light, Phases, RepliesLabelled
<1>3. calls' \in [Caller -> CallRecord] /\ \A d \in Caller : QueryOf(d)' = QueryOf(d)
  BY <1>1 DEF Settles, Moves, QueryOf
<1>4. \A d \in Caller \ {c} : calls'[d] = calls[d]
  BY <1>1 DEF Settles, Moves
<1>5. /\ calls'[c].pc = "deliver" /\ calls'[c].reply = calls[c].reply
      /\ calls'[c].floor = calls[c].floor /\ calls'[c].query = calls[c].query
  BY <1>1 DEF Settles, Moves
<1>6. Typed' /\ CopiesLabelled' /\ Published'
  BY <1>1, <1>3 DEF Typed, CopiesLabelled, Published, InCache, CachedCopy
<1>7. Phases' /\ RepliesLabelled' /\ Floors'
  BY <1>1, <1>3, <1>4, <1>5 DEF Phases, RepliesLabelled, Floors
<1>8. Flights'
  BY <1>1, <1>3, <1>4, <1>5, FlightsKept DEF Leading
<1>9. ASSUME NEW q, NEW v, Newest(q, v)
      PROVE  Newest(q, v)'
  BY <1>1, <1>3, <1>4, <1>5, <1>9 DEF Newest
<1>10. CachedNewest'
  BY <1>1, <1>9 DEF CachedNewest, InCache, CachedCopy, Newest
<1>11. CarriedNewest'
  BY <1>1, <1>2, <1>3, <1>4, <1>5, <1>9
     DEF CarriedNewest, InCache, CachedCopy, Newest, Leading
<1>12. LeavingPublished' /\ ReadsGoForward'
  BY <1>1, <1>3, <1>4, <1>5 DEF LeavingPublished, ReadsGoForward
<1>13. QED
  BY <1>6, <1>7, <1>8, <1>10, <1>11, <1>12

\* Nobody else carries an answer to the query that is stored.
LEMMA StoreInv ==
    ASSUME IInv, NEW c \in Caller, Store(c)
    PROVE  IInv'
<1> USE DEF IInv
<1>0. PICK Q : Q = QueryOf(c)
  OBVIOUS
<1>1. /\ Settles(c, "deliver", calls[c].reply) /\ calls[c].pc = "store"
      /\ PutInto(Q.family, Q.id, calls[c].reply)
      /\ UNCHANGED <<published, group, returned>>
  BY <1>0, StepEffects DEF Store, PutOf
<1>2. PICK e \in Document : /\ e = calls[c].reply /\ e # None /\ e.of = Q
                            /\ Leading(c) /\ Q \in Query
  BY <1>0, <1>1, Numbers DEF Phases, RepliesLabelled, Leading
<1>3. calls' \in [Caller -> CallRecord] /\ \A d \in Caller : QueryOf(d)' = QueryOf(d)
  BY <1>1 DEF Settles, Moves, QueryOf
<1>4. \A d \in Caller \ {c} : calls'[d] = calls[d]
  BY <1>1 DEF Settles, Moves
<1>5. /\ calls'[c].pc = "deliver" /\ calls'[c].reply = e
      /\ calls'[c].floor = calls[c].floor /\ calls'[c].query = calls[c].query
  BY <1>1, <1>2 DEF Settles, Moves
<1>6. Q.family \in Family /\ Q = [family |-> Q.family, id |-> Q.id]
  BY <1>2, KeyInjective
<1>7. /\ DOMAIN entries' = Family
      /\ Q.id \in DOMAIN entries'[Q.family] /\ entries'[Q.family][Q.id] = e
      /\ \A x \in DOMAIN entries'[Q.family] \ {Q.id} :
            /\ x \in DOMAIN entries[Q.family]
            /\ entries'[Q.family][x] = entries[Q.family][x]
      /\ \A g \in Family \ {Q.family} : entries'[g] = entries[g]
  BY <1>1, <1>2, <1>6, PutEffect DEF Typed
<1>8. InCache(Q)' /\ CachedCopy(Q)' = e
  BY <1>7 DEF InCache, CachedCopy
<1>9. ASSUME NEW q \in Query, q # Q, InCache(q)'
      PROVE  InCache(q) /\ CachedCopy(q)' = CachedCopy(q)
  <2>1. q.family \in Family /\ (q.family # Q.family \/ q.id # Q.id)
    BY <1>2, <1>9, KeyInjective
  <2>2. QED
    BY <1>7, <1>9, <2>1 DEF InCache, CachedCopy
<1>10. e.version <= published[Q] /\ (Light(Q) => Newest(Q, e.version))
  BY <1>0, <1>2 DEF CarriedNewest
<1>11. Typed'
  BY <1>1, <1>3, <1>7 DEF Typed
<1>12. CopiesLabelled'
  <2>1. ASSUME NEW f \in Family, NEW k \in DOMAIN entries'[f]
        PROVE  entries'[f][k] \in Document /\ entries'[f][k].of = [family |-> f, id |-> k]
    <3>1. CASE f = Q.family /\ k = Q.id
      BY <1>2, <1>6, <1>7, <3>1
    <3>2. CASE ~(f = Q.family /\ k = Q.id)
      BY <1>7, <3>2 DEF CopiesLabelled
    <3>3. QED
      BY <3>1, <3>2
  <2>2. QED
    BY <2>1 DEF CopiesLabelled
<1>13. Published'
  <2>1. ASSUME NEW q \in Query
        PROVE  /\ returned'[q] <= published'[q]
               /\ InCache(q)' => CachedCopy(q)'.version <= published'[q]
    BY <1>1, <1>8, <1>9, <1>10 DEF Published
  <2>2. QED
    BY <2>1 DEF Published
<1>14. Phases' /\ RepliesLabelled' /\ Floors'
  BY <1>1, <1>2, <1>3, <1>4, <1>5 DEF Phases, RepliesLabelled, Floors
<1>15. Flights'
  BY <1>1, <1>3, <1>4, <1>5, FlightsKept DEF Leading
<1>16. ASSUME NEW q, NEW v, Newest(q, v)
       PROVE  Newest(q, v)'
  BY <1>1, <1>3, <1>4, <1>5, <1>16 DEF Newest
<1>17. CachedNewest'
  <2>1. ASSUME NEW q \in Query, Light(q), InCache(q)'
        PROVE  Newest(q, CachedCopy(q).version)'
    <3>1. PICK v : v = CachedCopy(q)'.version
      OBVIOUS
    <3>2. Newest(q, v)
      BY <1>8, <1>9, <1>10, <2>1, <3>1 DEF CachedNewest
    <3>3. Newest(q, v)'
      BY <1>16, <3>2
    <3>4. QED
      BY <3>1, <3>3 DEF Newest
  <2>2. QED
    BY <2>1 DEF CachedNewest
<1>18. CarriedNewest'
  <2>1. ASSUME NEW d \in Caller, Leading(d)', calls'[d].reply # None,
             NEW q, q = QueryOf(d)
        PROVE  LET v == calls'[d].reply.version IN
               /\ v <= published[q]
               /\ Light(q) =>
                     /\ Newest(q, v)
                     /\ InCache(q)' => CachedCopy(q)'.version <= v
                     /\ InCache(q)' /\ calls'[d].pc = "deliver"
                        => CachedCopy(q)'.version = v
    <3>1. CASE d = c
      <4>1. e.version <= e.version
        BY <1>2, Numbers
      <4>2. QED
        BY <1>0, <1>5, <1>8, <1>10, <2>1, <3>1, <4>1
    <3>2. CASE d # c
      <4>1. /\ Leading(d) /\ calls'[d] = calls[d] /\ q \in Query
        BY <1>4, <2>1, <3>2, Numbers DEF Leading
      <4>2. q # Q
        BY <1>0, <1>2, <2>1, <3>2, <4>1, OneFlight
      <4>3. QED
        BY <1>9, <2>1, <4>1, <4>2 DEF CarriedNewest
    <3>3. QED
      BY <3>1, <3>2
  <2>2. QED
    BY <1>1, <1>3, <1>16, <2>1 DEF CarriedNewest, Newest
<1>19. LeavingPublished' /\ ReadsGoForward'
  BY <1>1, <1>3, <1>4, <1>5 DEF LeavingPublished, ReadsGoForward
<1>20. QED
  BY <1>11, <1>12, <1>13, <1>14, <1>15, <1>17, <1>18, <1>19

\* The leader and its waiters, and they alone, leave with the reply.
LEMMA DeliverInv ==
    ASSUME IInv, NEW c \in Caller, Deliver(c)
    PROVE  IInv'
<1> USE DEF IInv
<1>0. PICK Q : Q = QueryOf(c)
  OBVIOUS
<1>1. /\ calls[c].pc = "deliver" /\ calls' = Released(c)
      /\ group' = [group EXCEPT ![KeyOf(c)] = None]
      /\ UNCHANGED <<published, entries, returned>>
  BY DEF Deliver
<1>2. /\ Leading(c) /\ Q \in Query
      /\ \A d \in Caller : d = c \/ WaitsFor(d, c) => QueryOf(d) = Q
  BY <1>0, <1>1, OneFlight, Numbers DEF Leading
<1>3. /\ calls' \in [Caller -> CallRecord]
      /\ \A d \in Caller : d = c \/ WaitsFor(d, c) =>
            /\ calls'[d].pc = "return" /\ calls'[d].query = calls[d].query
            /\ calls'[d].reply = calls[c].reply /\ calls'[d].floor = calls[d].floor
      /\ \A d \in Caller : d # c /\ ~WaitsFor(d, c) => calls'[d] = calls[d]
  BY <1>1, ZenonT(40) DEF Typed, CallRecord, Released, Answered
<1>4. \A d \in Caller : /\ QueryOf(d)' = QueryOf(d) /\ KeyOf(d)' = KeyOf(d)
                        /\ KeyOf(d) \in Family \X Id
                        /\ calls'[d].floor = calls[d].floor
  BY <1>3, Numbers DEF QueryOf, KeyOf
<1>5. ASSUME NEW d \in Caller, Leading(d)'
      PROVE  d # c /\ Leading(d) /\ calls'[d] = calls[d] /\ QueryOf(d) # Q
  <2>1. d # c /\ Leading(d) /\ calls'[d] = calls[d]
    BY <1>3, <1>5 DEF Leading
  <2>2. QED
    BY <1>0, <1>2, <2>1, OneFlight
<1>6. Typed'
  BY <1>1, <1>3 DEF Typed
<1>7. CopiesLabelled' /\ Published'
  BY <1>1 DEF CopiesLabelled, Published, InCache, CachedCopy
<1>8. Phases'
  BY <1>3 DEF Phases
<1>9. RepliesLabelled'
  BY <1>0, <1>2, <1>3, <1>4 DEF RepliesLabelled
<1>10. Floors'
  BY <1>1, <1>4 DEF Floors
<1>11. Flights'
  <2>1. \A d \in Caller : Leading(d)' => group'[KeyOf(d)'] = d
    BY <1>0, <1>1, <1>2, <1>4, <1>5 DEF Flights, Typed
  <2>2. ASSUME NEW k \in Family \X Id, group'[k] # None
        PROVE  (Leading(group[k]) /\ KeyOf(group[k]) = k)'
    <3>1. PICK d \in Caller : /\ d = group[k] /\ d = group'[k]
                              /\ Leading(d) /\ KeyOf(d) = k /\ d # c
      BY <1>1, <1>4, <2>2 DEF Flights, Typed
    <3>2. ~WaitsFor(d, c) /\ calls'[d] = calls[d]
      BY <1>3, <3>1 DEF Leading, WaitsFor
    <3>3. QED
      BY <3>1, <3>2 DEF Leading, KeyOf, QueryOf
  <2>3. ASSUME NEW d \in Caller, calls'[d].pc = "wait"
        PROVE  group'[KeyOf(d)'] # None /\ calls'[d].leader = group'[KeyOf(d)']
    <3>1. d # c /\ ~WaitsFor(d, c) /\ calls'[d] = calls[d]
      BY <1>3, <2>3
    <3>2. /\ group[KeyOf(d)] # None /\ calls[d].leader = group[KeyOf(d)]
          /\ group[KeyOf(d)] # c
      BY <2>3, <3>1 DEF Flights, WaitsFor
    <3>3. KeyOf(d) # KeyOf(c)
      BY <1>2, <3>2 DEF Flights
    <3>4. QED
      BY <1>1, <1>4, <3>1, <3>2, <3>3 DEF Typed
  <2>4. QED
    BY <2>1, <2>2, <2>3 DEF Flights
<1>12. ASSUME NEW q, NEW v, Newest(q, v),
              q = Q /\ calls[c].reply # None => calls[c].reply.version <= v
       PROVE  Newest(q, v)'
  BY <1>1, <1>2, <1>3, <1>4, <1>12 DEF Newest
<1>13. calls[c].reply # None =>
          /\ calls[c].reply.version <= published[Q]
          /\ Light(Q) => /\ returned[Q] <= calls[c].reply.version
                         /\ InCache(Q) => CachedCopy(Q).version = calls[c].reply.version
  BY <1>0, <1>1, <1>2 DEF CarriedNewest, Newest
<1>14. CachedNewest'
  <2>1. ASSUME NEW q \in Query, Light(q), InCache(q)
        PROVE  Newest(q, CachedCopy(q).version)'
    <3>1. PICK v : v = CachedCopy(q).version
      OBVIOUS
    <3>2. Newest(q, v) /\ v \in Nat
      BY <2>1, <3>1, Numbers DEF CachedNewest
    <3>3. Newest(q, v)'
      BY <1>12, <1>13, <2>1, <3>1, <3>2
    <3>4. QED
      BY <1>1, <3>1, <3>3 DEF Newest, InCache, CachedCopy
  <2>2. QED
    BY <1>1, <2>1 DEF CachedNewest, InCache
<1>15. CarriedNewest'
  BY <1>1, <1>4, <1>5, <1>12 DEF CarriedNewest, InCache, CachedCopy, Newest
<1>16. LeavingPublished'
  BY <1>1, <1>2, <1>3, <1>4, <1>13 DEF LeavingPublished
<1>17. ReadsGoForward'
  <2>1. ASSUME NEW d \in Caller, d = c \/ WaitsFor(d, c), calls[c].reply # None, Light(Q)
        PROVE  calls[c].reply.version >= calls[d].floor
    BY <1>2, <1>13, <2>1, Numbers DEF Floors
  <2>2. QED
    BY <1>2, <1>3, <1>4, <2>1 DEF ReadsGoForward
<1>18. QED
  BY <1>6, <1>7, <1>8, <1>9, <1>10, <1>11, <1>14, <1>15, <1>16, <1>17

\* The newer of two versions is one of them.
LEMMA NewerBounds ==
    ASSUME NEW a \in Nat, NEW b \in Nat
    PROVE  a <= Newer(a, b) /\ b <= Newer(a, b) /\ Newer(a, b) \in {a, b}
BY DEF Newer

\* What is returned is no newer than what is cached or carried.
LEMMA ReturnInv ==
    ASSUME IInv, NEW c \in Caller, Return(c)
    PROVE  IInv'
<1> USE DEF IInv
<1>0. PICK Q : Q = QueryOf(c)
  OBVIOUS
<1>1. /\ Moves(c, "idle", NoCall.query, None, None, 0) /\ calls[c].pc = "return"
      /\ UNCHANGED <<published, entries, group>>
  BY StepEffects DEF Return
<1>2. /\ Q \in Query
      /\ \A q \in Query : /\ returned'[q] \in Nat
                          /\ returned[q] <= returned'[q]
                          /\ \/ returned'[q] = returned[q]
                             \/ /\ q = Q /\ calls[c].reply # None
                                /\ returned'[q] = calls[c].reply.version
      /\ returned' \in [Query -> 0..maxVersion]
  <2>1. CASE calls[c].reply = None
    BY <1>0, <2>1, Numbers DEF Return, Typed
  <2>2. CASE calls[c].reply # None
    <3>1. PICK n : n = Newer(returned[Q], calls[c].reply.version)
      OBVIOUS
    <3>2. /\ Q \in Query /\ returned[Q] \in 0..maxVersion
          /\ calls[c].reply.version \in 0..maxVersion
      BY <1>0, <2>2, Numbers, CgrAssumption DEF Typed, Document, Version
    <3>3. returned[Q] <= n /\ n \in {returned[Q], calls[c].reply.version}
      BY <3>1, <3>2, NewerBounds
    <3>4. returned' = [returned EXCEPT ![Q] = n]
      BY <1>0, <2>2, <3>1 DEF Return
    <3>5. QED
      BY <2>2, <3>2, <3>3, <3>4, Numbers DEF Typed
  <2>3. QED
    BY <2>1, <2>2
<1>3. calls' \in [Caller -> CallRecord]
  BY <1>1 DEF Moves
<1>4. \A d \in Caller \ {c} : calls'[d] = calls[d] /\ QueryOf(d)' = QueryOf(d)
  BY <1>1 DEF Moves, QueryOf
<1>5. calls'[c].pc = "idle" /\ calls'[c].reply = None /\ calls'[c].floor = 0
  BY <1>1 DEF Moves
<1>6. Typed' /\ CopiesLabelled'
  BY <1>1, <1>2, <1>3 DEF Typed, CopiesLabelled
<1>7. Phases' /\ RepliesLabelled'
  BY <1>4, <1>5 DEF Phases, RepliesLabelled
<1>8. Flights'
  BY <1>1, <1>3, <1>4, <1>5, FlightsKept DEF Leading
<1>9. Published'
  BY <1>0, <1>1, <1>2 DEF Published, LeavingPublished, InCache, CachedCopy
<1>10. Floors'
  <2>1. ASSUME NEW d \in Caller
        PROVE  calls'[d].floor <= returned'[QueryOf(d)']
    <3>1. QueryOf(d)' \in Query
      BY <1>3 DEF QueryOf, CallRecord
    <3>2. CASE d = c
      BY <1>2, <1>5, <3>1, <3>2
    <3>3. CASE d # c
      BY <1>2, <1>4, <3>1, <3>3, Numbers DEF Floors
    <3>4. QED
      BY <3>2, <3>3
  <2>2. QED
    BY <2>1 DEF Floors
<1>11. ASSUME NEW q \in Query, NEW v, Newest(q, v)
       PROVE  Newest(q, v)'
  BY <1>0, <1>1, <1>2, <1>4, <1>5, <1>11 DEF Newest
<1>12. CachedNewest'
  BY <1>1, <1>11 DEF CachedNewest, InCache, CachedCopy, Newest
<1>13. CarriedNewest'
  <2>1. ASSUME NEW d \in Caller, Leading(d)', calls'[d].reply # None
        PROVE  Leading(d) /\ calls'[d] = calls[d] /\ QueryOf(d)' = QueryOf(d)
               /\ QueryOf(d) \in Query
    BY <1>4, <1>5, <2>1, Numbers DEF Leading
  <2>2. QED
    BY <1>1, <1>11, <2>1 DEF CarriedNewest, InCache, CachedCopy, Newest
<1>14. LeavingPublished' /\ ReadsGoForward'
  BY <1>1, <1>4, <1>5 DEF LeavingPublished, ReadsGoForward
<1>15. QED
  BY <1>6, <1>7, <1>8, <1>9, <1>10, <1>12, <1>13, <1>14

\* At first nothing is cached and nobody asks.
LEMMA InitInv == Init => IInv
<1> SUFFICES ASSUME Init
             PROVE  IInv
  OBVIOUS
<1>1. /\ 1 \in Version /\ 0 \in 0..maxVersion
      /\ \A c \in Caller : calls[c] = NoCall /\ QueryOf(c) \in Query
  BY CgrAssumption, NoCallSound DEF Init, Version, QueryOf, CallRecord
<1>2. Typed
  BY <1>1, NoCallSound DEF Init, Typed
<1>3. Phases /\ RepliesLabelled /\ LeavingPublished /\ ReadsGoForward
  BY <1>1, NoCallSound DEF Phases, RepliesLabelled, LeavingPublished, ReadsGoForward
<1>4. Floors
  BY <1>1, NoCallSound DEF Init, Floors
<1>5. Flights /\ CarriedNewest
  BY <1>1, NoCallSound DEF Init, Flights, CarriedNewest, Leading
<1>6. \A q \in Query : ~InCache(q)
  BY KeyInjective DEF Init, InCache
<1>7. CopiesLabelled /\ Published /\ CachedNewest
  BY <1>6 DEF Init, CopiesLabelled, Published, CachedNewest
<1>8. QED
  BY <1>2, <1>3, <1>4, <1>5, <1>7 DEF IInv

\* The invariant is inductive.
LEMMA NextInv == IInv /\ [Next]_vars => IInv'
<1> SUFFICES ASSUME IInv, [Next]_vars
             PROVE  IInv'
  OBVIOUS
<1>1. ASSUME NEW q \in Query, Publish(q)
      PROVE  IInv'
  BY <1>1, PublishInv
<1>2. ASSUME NEW c \in Caller,
             \/ \E q \in Query : Start(c, q)
             \/ PeekMiss(c) \/ Lead(c) \/ Join(c) \/ FetchError(c)
      PROVE  IInv'
  BY <1>2, QuietInv
<1>3. ASSUME NEW c \in Caller, PeekHit(c) \/ FullAnswer(c)
      PROVE  IInv'
  BY <1>3, PeekHitInv, FullAnswerInv
<1>4. ASSUME NEW c \in Caller, Store(c) \/ SkipStore(c)
      PROVE  IInv'
  BY <1>4, StoreInv, SkipStoreInv
<1>5. ASSUME NEW c \in Caller, Deliver(c) \/ Return(c)
      PROVE  IInv'
  BY <1>5, DeliverInv, ReturnInv
<1>6. CASE UNCHANGED vars
  BY <1>6, ZenonT(40) DEF vars, IInv, Typed, Phases, Flights, Leading, KeyOf, QueryOf,
     CopiesLabelled, RepliesLabelled, Published, Floors, CachedNewest,
     CarriedNewest, Newest, InCache, CachedCopy, LeavingPublished, ReadsGoForward
<1>7. QED
  BY <1>1, <1>2, <1>3, <1>4, <1>5, <1>6 DEF Next, Progress

\* The invariant holds in every state.
LEMMA Invariance == Spec => []IInv
BY InitInv, NextInv, PTL DEF Spec

\* Whoever led, joined or hit: the answer is of the query the caller asked,
\* and each cache holds each answer under the family and id it is of.
THEOREM CgrAnswersMatchQueries == Spec => []RightAnswer
<1>1. ASSUME IInv
      PROVE  \A f \in Family : \A k \in DOMAIN entries[f] :
                entries[f][k].of = [family |-> f, id |-> k]
  BY <1>1 DEF IInv, CopiesLabelled
<1>2. IInv => RightAnswer
  BY <1>1 DEF IInv, RepliesLabelled, RightAnswer
<1>3. QED
  BY <1>2, Invariance, PTL

\* Though nothing is revalidated, and the caches are read before the flights
\* are entered: no light answer is older than one returned, to anyone, before
\* the call that gets it began.
THEOREM CgrReadsNeverGoBack == Spec => []ReadsGoForward
<1>1. IInv => ReadsGoForward
  BY DEF IInv
<1>2. QED
  BY <1>1, Invariance, PTL

-----------------------------------------------------------------------------
(* The caches of the families are LRU caches.                              *)

\* A store is a put into the cache of its family, and no other is touched.
LEMMA PutIsCachePut ==
    ASSUME NEW f \in Family, NEW k \in Id, NEW e \in Document,
           DOMAIN entries = Family, DOMAIN order = Family, PutInto(f, k, e),
           NEW g \in Family
    PROVE  Cache(g)!CacheNext \/ UNCHANGED <<entries[g], order[g]>>
<1>1. CASE g # f
  BY <1>1 DEF PutInto
<1>2. CASE g = f
  <2>1. Cache(f)!Put(k, e)
    BY DEF PutInto, Cache!Put, Cache!PutExisting, Cache!PutNew, Cache!PutEvicting
  <2>2. QED
    BY <1>2, <2>1 DEF Cache!CacheNext
<1>3. QED
  BY <1>1, <1>2

\* CachesAreLru, taken apart: every family has a list, its cache begins empty,
\* and each step is an operation of its cache or leaves it alone.
Lists == DOMAIN order = Family

Lru(f) == Cache(f)!CacheNext \/ UNCHANGED <<entries[f], order[f]>>

CachesInit == \A f \in Family : Cache(f)!CacheInit

CachesNext == \A f \in Family : Lru(f)

\* Each family's cache steps as LruCache does, whatever runs in the others.
THEOREM CgrCachesAreLru == Spec => CachesAreLru
<1>1. Init => Lists /\ CachesInit
  BY DEF Init, Lists, CachesInit, Cache!CacheInit
<1>2. IInv /\ Lists /\ [Next]_vars => Lists' /\ [CachesNext]_vars
  <2> SUFFICES ASSUME IInv, Lists, [Next]_vars
               PROVE  Lists' /\ CachesNext
    OBVIOUS
  <2> USE DEF Lists, CachesNext, Lru
  <2>1. ASSUME UNCHANGED <<entries, order>>
        PROVE  Lists' /\ CachesNext
    BY <2>1
  <2>2. ASSUME NEW c \in Caller, PeekHit(c)
        PROVE  Lists' /\ CachesNext
    <3>1. PICK q \in Query : /\ q = QueryOf(c) /\ q.family \in Family /\ q.id \in Id
                             /\ Cache(q.family)!Hit(q.id) /\ Touch(q.family, q.id)
      BY <2>2, Numbers, KeyInjective DEF IInv, PeekHit
    <3>2. Lists'
      BY <3>1 DEF Touch
    <3>3. Cache(q.family)!GetHit(q.id)
      BY <3>1 DEF Touch, Cache!GetHit, IInv, Typed
    <3>4. ASSUME NEW f \in Family
          PROVE  Lru(f)
      <4>1. CASE f = q.family
        BY <3>1, <3>3, <4>1 DEF Cache!CacheNext, Cache!Get
      <4>2. CASE f # q.family
        BY <3>1, <4>2 DEF Touch
      <4>3. QED
        BY <4>1, <4>2
    <3>5. QED
      BY <3>2, <3>4
  <2>3. ASSUME NEW c \in Caller, Store(c)
        PROVE  Lists' /\ CachesNext
    <3>1. PICK q \in Query, e \in Document : q.family \in Family /\ q.id \in Id
                                             /\ PutInto(q.family, q.id, e)
      BY <2>3, Numbers, KeyInjective DEF IInv, Phases, Store, PutOf
    <3>2. Lists'
      BY <3>1 DEF PutInto
    <3>3. QED
      BY <3>1, <3>2, PutIsCachePut DEF IInv, Typed
  <2>4. QED
    BY <2>1, <2>2, <2>3 DEF vars, Next, Progress, Publish, Start, PeekMiss, Lead, Join,
       FullAnswer, FetchError, SkipStore, Deliver, Return
<1>3. Spec => CachesInit /\ [][CachesNext]_vars
  BY <1>1, <1>2, Invariance, PTL DEF Spec
<1>4. CachesInit => \A f \in Family : Cache(f)!CacheInit
  BY DEF CachesInit
<1>5. [CachesNext]_vars => [\A f \in Family : \/ Cache(f)!CacheNext
                                               \/ UNCHANGED <<entries[f], order[f]>>]_vars
  BY DEF CachesNext, Lru
<1>6. QED
  BY <1>3, <1>4, <1>5, PTL DEF CachesAreLru

\* What the operations on a recency list make of a list of ids is one.
LEMMA ListsStayLists ==
    ASSUME NEW f, NEW s \in Seq(Id), NEW k \in Id
    PROVE  /\ Cache(f)!MoveToFront(s, k) \in Seq(Id)
           /\ Cache(f)!PushFront(s, k) \in Seq(Id)
           /\ Cache(f)!DropBack(s) \in Seq(Id)
<1>1. Len(s) \in Nat /\ \A i \in 1..Len(s) : s[i] \in Id
  OBVIOUS
<1>2. Cache(f)!MoveToFront(s, k) \in Seq(Id)
  <2>1. PICK p : p = Cache(f)!IndexOf(s, k)
    OBVIOUS
  <2>2. PICK t : t = [i \in 1..Len(s) |-> IF i = 1 THEN k
                                          ELSE IF i <= p THEN s[i-1] ELSE s[i]]
    OBVIOUS
  <2>3. \A i \in 1..Len(s) : t[i] \in Id
    BY <1>1, <2>2
  <2>4. t \in Seq(Id)
    BY <1>1, <2>2, <2>3
  <2>5. QED
    BY <2>1, <2>2, <2>4 DEF Cache!MoveToFront
<1>3. Cache(f)!PushFront(s, k) \in Seq(Id)
  BY <1>1 DEF Cache!PushFront
<1>4. Cache(f)!DropBack(s) \in Seq(Id)
  <2>1. CASE Len(s) = 0
    BY <2>1 DEF Cache!DropBack
  <2>2. CASE Len(s) # 0
    BY <1>1, <2>2 DEF Cache!DropBack
  <2>3. QED
    BY <2>1, <2>2
<1>5. QED
  BY <1>2, <1>3, <1>4

\* The variables keep their types in every reachable state.
THEOREM CgrTypeCorrect == Spec => []TypeOK
<1> DEFINE IsMap(m) == m = [k \in DOMAIN m |-> m[k]]
           Listed == /\ DOMAIN order = Family
                     /\ \A f \in Family : order[f] \in Seq(Id)
                     /\ \A f \in Family : IsMap(entries[f])
<1>1. Init => Listed
  BY DEF Init
<1>2. IInv /\ Listed /\ [Next]_vars => Listed'
  <2> SUFFICES ASSUME IInv, Listed, [Next]_vars
               PROVE  Listed'
    OBVIOUS
  <2>1. ASSUME NEW c \in Caller, PeekHit(c)
        PROVE  Listed'
    <3>1. PICK q \in Query : /\ q.family \in Family /\ q.id \in Id
                             /\ Touch(q.family, q.id)
      BY <2>1, Numbers, KeyInjective DEF IInv, PeekHit
    <3>2. Cache(q.family)!MoveToFront(order[q.family], q.id) \in Seq(Id)
      BY <3>1, ListsStayLists
    <3>3. QED
      BY <3>1, <3>2 DEF Touch
  <2>2. ASSUME NEW c \in Caller, Store(c)
        PROVE  Listed'
    <3>1. PICK q \in Query, e \in Document : q.family \in Family /\ q.id \in Id
                                             /\ PutInto(q.family, q.id, e)
      BY <2>2, Numbers, KeyInjective DEF IInv, Phases, Store, PutOf
    <3>2. /\ DOMAIN order' = Family
          /\ \A g \in Family \ {q.family} : order'[g] = order[g]
          /\ \/ order'[q.family] = Cache(q.family)!MoveToFront(order[q.family], q.id)
             \/ order'[q.family] = Cache(q.family)!PushFront(order[q.family], q.id)
             \/ order'[q.family] = Cache(q.family)!PushFront(
                                      Cache(q.family)!DropBack(order[q.family]), q.id)
      BY <3>1 DEF PutInto
    <3>3. order'[q.family] \in Seq(Id)
      <4>1. PICK s \in Seq(Id) : s = order[q.family]
        BY <3>1
      <4>2. PICK t : t = Cache(q.family)!DropBack(s)
        OBVIOUS
      <4>3. t \in Seq(Id)
        BY <3>1, <4>1, <4>2, ListsStayLists
      <4>4. /\ Cache(q.family)!MoveToFront(s, q.id) \in Seq(Id)
            /\ Cache(q.family)!PushFront(s, q.id) \in Seq(Id)
            /\ Cache(q.family)!PushFront(t, q.id) \in Seq(Id)
        BY <3>1, <4>1, <4>3, ListsStayLists
      <4>5. QED
        BY <3>2, <4>1, <4>2, <4>4
    <3>4. IsMap(entries'[q.family])
      <4>1. PICK m : entries'[q.family] = Cache(q.family)!With(m, q.id, e)
        BY <3>1 DEF PutInto, IInv, Typed
      <4>2. QED
        BY <4>1 DEF Cache!With
    <3>5. \A g \in Family \ {q.family} : entries'[g] = entries[g]
      BY <3>1, PutEffect DEF IInv, Typed
    <3>6. QED
      BY <3>2, <3>3, <3>4, <3>5
  <2>3. QED
    BY <2>1, <2>2 DEF vars, Next, Progress, Publish, Start, PeekMiss, Lead, Join,
       FullAnswer, FetchError, SkipStore, Deliver, Return
<1>3. IInv /\ Listed => TypeOK
  <2> SUFFICES ASSUME IInv, Listed
               PROVE  TypeOK
    OBVIOUS
  <2>1. ASSUME NEW f \in Family
        PROVE  Cache(f)!CacheTypeOK
    <3>1. ASSUME NEW k \in DOMAIN entries[f]
          PROVE  k \in Id /\ entries[f][k] \in Document
      <4>1. /\ entries[f][k] \in Document
            /\ entries[f][k].of = [family |-> f, id |-> k]
        BY <3>1 DEF IInv, CopiesLabelled
      <4>2. PICK q \in Query : q = [family |-> f, id |-> k]
        BY <4>1 DEF Document
      <4>3. k = q.id
        BY <4>2
      <4>4. QED
        BY <4>1, <4>2, <4>3 DEF Id
    <3>2. IsMap(entries[f])
      OBVIOUS
    <3>3. QED
      BY <3>1, <3>2 DEF Cache!CacheTypeOK
  <2>2. QED
    BY <2>1 DEF IInv, Typed, TypeOK
<1>4. QED
  BY <1>1, <1>2, <1>3, Invariance, PTL DEF Spec

=============================================================================
