---------------------------- MODULE HistoryFetch ----------------------------
(***************************************************************************)
(* GetLawHistory of internal/bcn/law_client.go: the history of a norm is   *)
(* cached with its ETag and every call revalidates it, but calls are not   *)
(* coalesced, so two answers for one norm may be stored in either order.   *)
(* A version stands for a response's ETag and its decoded history.         *)
(***************************************************************************)
EXTENDS Integers, Sequences, FiniteSets

CONSTANTS Caller,      \* get_law_history invocations running concurrently
          Norm,        \* norm ids, the cache keys
          cacheMax,    \* capacity of the history cache
          maxVersion   \* bound: versions the upstream publishes of a history

ASSUME HistoryAssumption == /\ cacheMax \in Nat \ {0}
                            /\ maxVersion \in Nat \ {0}
                            /\ Norm # {}

Version == 1..maxVersion

VARIABLES published,  \* upstream: the version of each history now in force
          entries,    \* the history cache, the map ...
          order,      \* ... and the recency list
          calls,      \* where each caller is in GetLawHistory
          returned    \* history: the newest version ever returned per norm

vars == <<published, entries, order, calls, returned>>

Cache == INSTANCE LruCache WITH Key <- Norm, Entry <- Version

\* cached and reply are 0 while not meaningful; base is the version in
\* force, and floor the newest one returned, when the call began.
CallRecord == [pc : {"idle", "lookup", "fetch", "store", "return"},
               norm : Norm,
               cached : 0..maxVersion,
               reply : 0..maxVersion,
               base : 0..maxVersion,
               floor : 0..maxVersion]

NoCall == [pc |-> "idle", norm |-> CHOOSE n \in Norm : TRUE,
           cached |-> 0, reply |-> 0, base |-> 0, floor |-> 0]

Newer(a, b) == IF a >= b THEN a ELSE b

Answered(c, pc, version) ==
    [calls EXCEPT ![c].pc = pc, ![c].cached = 0, ![c].reply = version]

-----------------------------------------------------------------------------
Init == /\ published = [n \in Norm |-> 1]
        /\ Cache!CacheInit
        /\ calls = [c \in Caller |-> NoCall]
        /\ returned = [n \in Norm |-> 0]

Publish(n) == /\ published[n] < maxVersion
              /\ published' = [published EXCEPT ![n] = @ + 1]
              /\ UNCHANGED <<entries, order, calls, returned>>

Start(c, n) ==
    /\ calls[c].pc = "idle"
    /\ calls' = [calls EXCEPT ![c] = [NoCall EXCEPT !.pc = "lookup", !.norm = n,
                                                    !.base = published[n],
                                                    !.floor = returned[n]]]
    /\ UNCHANGED <<published, entries, order, returned>>

LookupHit(c) ==
    /\ calls[c].pc = "lookup"
    /\ Cache!GetHit(calls[c].norm)
    /\ calls' = [calls EXCEPT ![c].pc = "fetch",
                              ![c].cached = entries[calls[c].norm]]
    /\ UNCHANGED <<published, returned>>

LookupMiss(c) ==
    /\ calls[c].pc = "lookup"
    /\ Cache!GetMiss(calls[c].norm)
    /\ calls' = [calls EXCEPT ![c].pc = "fetch"]
    /\ UNCHANGED <<published, returned>>

\* A slip: a cached history is served as long as it stays cached.
NotModifiedUnchecked(c) ==
    /\ calls[c].pc = "fetch"
    /\ calls[c].cached # 0
    /\ calls' = Answered(c, "return", calls[c].cached)
    /\ UNCHANGED <<published, entries, order, returned>>

\* 304, possible only when the entry's ETag is that of the history in force.
\* It is tested before the error, and serves the entry read by the lookup.
NotModified(c) ==
    /\ calls[c].pc = "fetch"
    /\ calls[c].cached = published[calls[c].norm]
    /\ calls' = Answered(c, "return", calls[c].cached)
    /\ UNCHANGED <<published, entries, order, returned>>

FullAnswer(c) ==
    /\ calls[c].pc = "fetch"
    /\ calls' = Answered(c, "store", published[calls[c].norm])
    /\ UNCHANGED <<published, entries, order, returned>>

\* Transport error, cancelled request or failure status: nothing is stored.
FetchError(c) ==
    /\ calls[c].pc = "fetch"
    /\ calls' = Answered(c, "return", 0)
    /\ UNCHANGED <<published, entries, order, returned>>

\* A slip: the call answers with what the cache holds after its put, not
\* with its own response, and only puts when the key is not cached yet.
StoreIfAbsent(c) ==
    /\ calls[c].pc = "store"
    /\ LET n == calls[c].norm IN
       \/ /\ Cache!Hit(n)
          /\ calls' = Answered(c, "return", entries[n])
          /\ UNCHANGED <<entries, order>>
       \/ /\ ~Cache!Hit(n)
          /\ Cache!Put(n, calls[c].reply)
          /\ calls' = Answered(c, "return", calls[c].reply)
    /\ UNCHANGED <<published, returned>>

\* The response is stored whatever was stored since the lookup.
Store(c) ==
    /\ calls[c].pc = "store"
    /\ Cache!Put(calls[c].norm, calls[c].reply)
    /\ calls' = [calls EXCEPT ![c].pc = "return"]
    /\ UNCHANGED <<published, returned>>

Return(c) ==
    /\ calls[c].pc = "return"
    /\ LET n == calls[c].norm
           v == calls[c].reply IN
       returned' = [returned EXCEPT ![n] = Newer(@, v)]
    /\ calls' = [calls EXCEPT ![c] = NoCall]
    /\ UNCHANGED <<published, entries, order>>

Next == \/ \E n \in Norm : Publish(n)
        \/ \E c \in Caller :
              \/ \E n \in Norm : Start(c, n)
              \/ LookupHit(c) \/ LookupMiss(c)
              \/ NotModified(c) \/ FullAnswer(c) \/ FetchError(c)
              \/ Store(c) \/ Return(c)

Spec == Init /\ [][Next]_vars

-----------------------------------------------------------------------------
\* The variables have the shapes their Go counterparts give them.
TypeOK == /\ published \in [Norm -> Version]
          /\ Cache!CacheTypeOK
          /\ calls \in [Caller -> CallRecord]
          /\ returned \in [Norm -> 0..maxVersion]

\* Every history handed out was in force at some moment of the call that
\* asked for it, although a slower call may since have stored an older one
\* over it: "correctness comes from ETag revalidation".
AnswerInForce == \A c \in Caller :
                    calls[c].pc = "return" /\ calls[c].reply # 0
                    => calls[c].reply \in
                          calls[c].base..published[calls[c].norm]

\* Without coalescing the tool still offers VersionedReads: the order in
\* which racing answers reach the cache is invisible.
ReadOf(c) ==
    LET call == calls[c] IN
    IF call.pc = "idle" THEN [phase |-> "none"]
    ELSE IF call.pc # "return"
         THEN [phase |-> "reading", query |-> call.norm, floor |-> call.floor]
    ELSE IF call.reply = 0 THEN [phase |-> "failed"]
    ELSE [phase |-> "got", query |-> call.norm, version |-> call.reply]

Reads == INSTANCE VersionedReads
            WITH Query <- Norm, reads <- [c \in Caller |-> ReadOf(c)]

ImplementsReads == Reads!ReadSpec

=============================================================================
