-------------------------- MODULE HistoryFetchProofs ------------------------
(***************************************************************************)
(* GetLawHistory answers with histories that were in force during the      *)
(* call, and offers VersionedReads, for every set of callers and norms,    *)
(* every cache capacity and every number of published versions.            *)
(***************************************************************************)
EXTENDS HistoryFetch, TLAPS

\* Types of everything but the recency list, which decides only what is
\* evicted.
Typed == /\ published \in [Norm -> Version]
         /\ DOMAIN entries \subseteq Norm
         /\ \A n \in DOMAIN entries : entries[n] \in Version
         /\ calls \in [Caller -> CallRecord]
         /\ returned \in [Norm -> 0..maxVersion]

\* Nothing cached or returned is newer than what is published.  Nothing is
\* said of how the two compare: a slower call may store an older history.
CacheBounds == /\ \A n \in DOMAIN entries : entries[n] <= published[n]
               /\ \A n \in Norm : returned[n] <= published[n]

\* Only a call that has an answer holds one, and to store there must be one.
Phase(r) == /\ r.pc \notin {"store", "return"} => r.reply = 0
            /\ r.pc = "store" => r.reply # 0
            /\ r.pc # "fetch" => r.cached = 0

\* What a call had when it began lies in the past, and so does what it
\* read; its answer is no older than the former.
Bounds(r) == /\ r.floor <= r.base
             /\ r.base <= published[r.norm]
             /\ r.cached <= published[r.norm]
             /\ r.reply <= published[r.norm]
             /\ r.reply # 0 => r.base <= r.reply

IInv == /\ Typed
        /\ CacheBounds
        /\ \A c \in Caller : Phase(calls[c]) /\ Bounds(calls[c])

-----------------------------------------------------------------------------
\* The versions and marks a state holds are numbers: what every comparison
\* below needs.
LEMMA Numbers ==
    ASSUME Typed
    PROVE  /\ maxVersion \in Nat /\ maxVersion >= 1
           /\ \A n \in Norm : /\ published[n] \in Nat /\ published[n] >= 1
                              /\ published[n] <= maxVersion
                              /\ returned[n] \in Nat /\ returned[n] <= maxVersion
           /\ \A n \in DOMAIN entries : entries[n] \in Nat /\ entries[n] <= maxVersion
           /\ \A c \in Caller : /\ calls[c] \in CallRecord
                                /\ calls[c].norm \in Norm
                                /\ calls[c].cached \in Nat /\ calls[c].reply \in Nat
                                /\ calls[c].base \in Nat /\ calls[c].floor \in Nat
<1>1. maxVersion \in Nat /\ maxVersion >= 1
  BY HistoryAssumption
<1>2. \A n \in Norm : published[n] \in Version /\ returned[n] \in 0..maxVersion
  BY DEF Typed
<1>3. \A n \in DOMAIN entries : entries[n] \in Version
  BY DEF Typed
<1>4. \A c \in Caller : calls[c] \in CallRecord
  BY DEF Typed
<1>5. \A c \in Caller : /\ calls[c].norm \in Norm
                        /\ calls[c].cached \in 0..maxVersion
                        /\ calls[c].reply \in 0..maxVersion
                        /\ calls[c].base \in 0..maxVersion
                        /\ calls[c].floor \in 0..maxVersion
  BY <1>4 DEF CallRecord
<1>6. QED
  BY <1>1, <1>2, <1>3, <1>4, <1>5 DEF Version

\* The record of a caller that asks for nothing.
LEMMA NoCallSound == NoCall \in CallRecord
<1>1. NoCall.norm \in Norm
  BY HistoryAssumption DEF NoCall
<1>2. 0 \in 0..maxVersion
  BY HistoryAssumption
<1>3. QED
  BY <1>1, <1>2 DEF NoCall, CallRecord

\* A step of one caller that touches neither the cache nor the publisher.
LEMMA CallerStep ==
    ASSUME IInv, NEW c \in Caller, NEW r \in CallRecord,
           calls' = [calls EXCEPT ![c] = r],
           Phase(r), Bounds(r),
           UNCHANGED <<published, entries, returned>>
    PROVE  IInv'
<1>1. Typed' /\ CacheBounds'
  BY DEF IInv, Typed, CacheBounds
<1>2. ASSUME NEW d \in Caller
      PROVE  Phase(calls[d])' /\ Bounds(calls[d])'
  <2>1. calls'[d] = IF d = c THEN r ELSE calls[d]
    BY DEF IInv, Typed
  <2>2. Phase(calls'[d]) /\ Bounds(calls'[d])
    BY <2>1 DEF IInv
  <2>3. QED
    BY <2>2 DEF Phase, Bounds
<1>3. QED
  BY <1>1, <1>2 DEF IInv

\* A new version makes everything older, nothing newer.
LEMMA PublishInv ==
    ASSUME IInv, NEW n \in Norm, Publish(n)
    PROVE  IInv'
<1>1. /\ published' = [published EXCEPT ![n] = published[n] + 1]
      /\ published[n] < maxVersion
      /\ UNCHANGED <<entries, calls, returned>>
  BY DEF Publish
<1>2. published' \in [Norm -> Version]
  BY <1>1, Numbers DEF IInv, Typed, Version
<1>3. \A m \in Norm : published[m] <= published'[m] /\ published'[m] \in Nat
  BY <1>1, Numbers DEF IInv, Typed
<1>4. Typed'
  BY <1>1, <1>2 DEF IInv, Typed
<1>5. CacheBounds'
  <2>1. ASSUME NEW m \in DOMAIN entries
        PROVE  entries[m] <= published'[m]
    BY <1>3, Numbers DEF IInv, CacheBounds, Typed
  <2>2. ASSUME NEW m \in Norm
        PROVE  returned[m] <= published'[m]
    BY <1>3, Numbers DEF IInv, CacheBounds
  <2>3. QED
    BY <1>1, <2>1, <2>2 DEF CacheBounds
<1>6. ASSUME NEW c \in Caller
      PROVE  Phase(calls[c])' /\ Bounds(calls[c])'
  <2>1. Phase(calls[c])'
    BY <1>1 DEF IInv, Phase
  <2>2. /\ calls[c].base <= published'[calls[c].norm]
        /\ calls[c].cached <= published'[calls[c].norm]
        /\ calls[c].reply <= published'[calls[c].norm]
    BY <1>3, Numbers DEF IInv, Bounds
  <2>3. QED
    BY <1>1, <2>1, <2>2 DEF IInv, Bounds
<1>7. QED
  BY <1>4, <1>5, <1>6 DEF IInv

\* A call begins with the version in force and the newest one returned.
LEMMA StartInv ==
    ASSUME IInv, NEW c \in Caller, NEW n \in Norm, Start(c, n)
    PROVE  IInv'
<1> DEFINE r == [NoCall EXCEPT !.pc = "lookup", !.norm = n,
                               !.base = published[n], !.floor = returned[n]]
<1>1. calls' = [calls EXCEPT ![c] = r] /\ UNCHANGED <<published, entries, returned>>
  BY DEF Start
<1>2. published[n] \in 0..maxVersion /\ returned[n] \in 0..maxVersion
  BY Numbers DEF IInv
<1>3. r \in CallRecord
  BY <1>2, NoCallSound DEF CallRecord
<1>4. /\ r.pc = "lookup" /\ r.norm = n /\ r.cached = 0 /\ r.reply = 0
      /\ r.base = published[n] /\ r.floor = returned[n]
  BY DEF NoCall
<1> HIDE DEF r
<1>5. Phase(r) /\ Bounds(r)
  BY <1>4, Numbers DEF IInv, CacheBounds, Phase, Bounds
<1>6. QED
  BY <1>1, <1>3, <1>5, CallerStep

\* The lookup reads a version that was in force once, or none.
LEMMA LookupInv ==
    ASSUME IInv, NEW c \in Caller, LookupHit(c) \/ LookupMiss(c)
    PROVE  IInv'
<1> DEFINE r(v) == [calls[c] EXCEPT !.pc = "fetch", !.cached = v]
<1>1. /\ calls[c] \in CallRecord /\ calls[c].norm \in Norm /\ calls[c].pc = "lookup"
      /\ Phase(calls[c]) /\ Bounds(calls[c]) /\ calls[c].cached = 0
      /\ UNCHANGED <<published, entries, returned>>
  BY Numbers DEF IInv, LookupHit, LookupMiss, Phase, Cache!GetHit, Cache!GetMiss,
                 Cache!cacheVars
<1>2. PICK v \in 0..maxVersion : /\ calls' = [calls EXCEPT ![c] = r(v)]
                                 /\ v <= published[calls[c].norm]
  <2>1. CASE LookupHit(c)
    <3>1. calls[c].norm \in DOMAIN entries
      BY <2>1 DEF LookupHit, Cache!GetHit, Cache!Hit
    <3>2. /\ entries[calls[c].norm] \in 0..maxVersion
          /\ entries[calls[c].norm] <= published[calls[c].norm]
      BY <3>1, Numbers DEF IInv, CacheBounds
    <3>3. calls' = [calls EXCEPT ![c] = r(entries[calls[c].norm])]
      BY <1>1, <2>1 DEF LookupHit, IInv, Typed
    <3>4. QED
      BY <3>2, <3>3
  <2>2. CASE LookupMiss(c)
    <3>1. calls' = [calls EXCEPT ![c] = r(0)]
      BY <1>1, <2>2 DEF LookupMiss, IInv, Typed, CallRecord
    <3>2. 0 \in 0..maxVersion /\ 0 <= published[calls[c].norm]
      BY <1>1, Numbers DEF IInv
    <3>3. QED
      BY <3>1, <3>2
  <2>3. QED
    BY <2>1, <2>2
<1>3. /\ r(v) \in CallRecord /\ r(v).pc = "fetch" /\ r(v).cached = v
      /\ r(v).norm = calls[c].norm /\ r(v).reply = calls[c].reply
      /\ r(v).base = calls[c].base /\ r(v).floor = calls[c].floor
  BY <1>1 DEF CallRecord
<1> HIDE DEF r
<1>4. Phase(r(v)) /\ Bounds(r(v))
  BY <1>1, <1>2, <1>3 DEF Phase, Bounds
<1>5. QED
  BY <1>1, <1>2, <1>3, <1>4, CallerStep

\* Whatever the service says, a 304 confirms the version in force, and so
\* does a full answer bring it; after an error there is none.
LEMMA AnswerInv ==
    ASSUME IInv, NEW c \in Caller, NotModified(c) \/ FullAnswer(c) \/ FetchError(c)
    PROVE  IInv'
<1> DEFINE r(pc, v) == [calls[c] EXCEPT !.pc = pc, !.cached = 0, !.reply = v]
<1>1. /\ calls[c] \in CallRecord /\ calls[c].norm \in Norm /\ calls[c].pc = "fetch"
      /\ Bounds(calls[c])
      /\ UNCHANGED <<published, entries, returned>>
  BY Numbers DEF IInv, NotModified, FullAnswer, FetchError
<1>2. /\ published[calls[c].norm] \in 1..maxVersion /\ calls[c].base \in Nat
      /\ 0 \in 0..maxVersion /\ published[calls[c].norm] \in 0..maxVersion
  BY <1>1, Numbers DEF IInv
<1>3. PICK pc \in {"store", "return"}, v \in 0..maxVersion :
         /\ calls' = [calls EXCEPT ![c] = r(pc, v)]
         /\ \/ v = published[calls[c].norm]
            \/ pc = "return" /\ v = 0
  <2>1. CASE NotModified(c)
    <3>1. calls' = [calls EXCEPT ![c] = r("return", published[calls[c].norm])]
      BY <1>1, <2>1 DEF NotModified, Answered, IInv, Typed
    <3>2. QED
      BY <1>2, <3>1
  <2>2. CASE FullAnswer(c)
    <3>1. calls' = [calls EXCEPT ![c] = r("store", published[calls[c].norm])]
      BY <1>1, <2>2 DEF FullAnswer, Answered, IInv, Typed
    <3>2. QED
      BY <1>2, <3>1
  <2>3. CASE FetchError(c)
    <3>1. calls' = [calls EXCEPT ![c] = r("return", 0)]
      BY <1>1, <2>3 DEF FetchError, Answered, IInv, Typed
    <3>2. QED
      BY <1>2, <3>1
  <2>4. QED
    BY <2>1, <2>2, <2>3
<1>4. /\ r(pc, v) \in CallRecord /\ r(pc, v).pc = pc /\ r(pc, v).cached = 0
      /\ r(pc, v).norm = calls[c].norm /\ r(pc, v).reply = v
      /\ r(pc, v).base = calls[c].base /\ r(pc, v).floor = calls[c].floor
  BY <1>1, <1>2, <1>3 DEF CallRecord
<1> HIDE DEF r
<1>5. Phase(r(pc, v)) /\ Bounds(r(pc, v))
  BY <1>1, <1>2, <1>3, <1>4 DEF Phase, Bounds
<1>6. QED
  BY <1>1, <1>3, <1>4, <1>5, CallerStep

\* A put makes the put version the entry of its key, and keeps or evicts the
\* other entries.
LEMMA PutEffect ==
    ASSUME NEW k, NEW e, Cache!Put(k, e)
    PROVE  /\ k \in DOMAIN entries' /\ entries'[k] = e
           /\ \A x \in DOMAIN entries' \ {k} :
                 x \in DOMAIN entries /\ entries'[x] = entries[x]
BY DEF Cache!Put, Cache!PutExisting, Cache!PutNew, Cache!PutEvicting,
       Cache!With, Cache!Without

\* What is stored was in force, though it may be older than what it replaces.
LEMMA StoreInv ==
    ASSUME IInv, NEW c \in Caller, Store(c)
    PROVE  IInv'
<1> DEFINE r == [calls[c] EXCEPT !.pc = "return"]
           n == calls[c].norm
<1>1. /\ calls[c] \in CallRecord /\ n \in Norm /\ calls[c].pc = "store"
      /\ Phase(calls[c]) /\ Bounds(calls[c]) /\ calls[c].reply \in 0..maxVersion
      /\ calls' = [calls EXCEPT ![c] = r]
      /\ Cache!Put(n, calls[c].reply)
      /\ UNCHANGED <<published, returned>>
  BY Numbers DEF IInv, Typed, Store, CallRecord
<1>2. calls[c].reply \in Version /\ calls[c].reply <= published[n]
  BY <1>1, HistoryAssumption DEF Phase, Bounds, Version
<1>3. /\ r \in CallRecord /\ r.pc = "return" /\ r.cached = calls[c].cached
      /\ r.norm = n /\ r.reply = calls[c].reply
      /\ r.base = calls[c].base /\ r.floor = calls[c].floor
  BY <1>1 DEF CallRecord
<1> HIDE DEF r
<1>4. Phase(r) /\ Bounds(r)
  BY <1>1, <1>3 DEF Phase, Bounds
<1>5. \A x \in DOMAIN entries' : \/ x = n /\ entries'[x] = calls[c].reply
                                 \/ x \in DOMAIN entries /\ entries'[x] = entries[x]
  BY <1>1, PutEffect
<1>6. Typed'
  BY <1>1, <1>2, <1>3, <1>5 DEF IInv, Typed
<1>7. CacheBounds'
  BY <1>1, <1>2, <1>5 DEF IInv, CacheBounds
<1>8. ASSUME NEW d \in Caller
      PROVE  Phase(calls[d])' /\ Bounds(calls[d])'
  <2>1. calls'[d] = IF d = c THEN r ELSE calls[d]
    BY <1>1 DEF IInv, Typed
  <2>2. Phase(calls'[d]) /\ Bounds(calls'[d])
    BY <1>4, <2>1 DEF IInv
  <2>3. QED
    BY <1>1, <2>2 DEF Phase, Bounds
<1>9. QED
  BY <1>6, <1>7, <1>8 DEF IInv

\* An answer moves the mark of what was returned to where it was, or to a
\* version that is published.
LEMMA ReturnInv ==
    ASSUME IInv, NEW c \in Caller, Return(c)
    PROVE  IInv'
<1> DEFINE n == calls[c].norm
           v == calls[c].reply
<1>1. /\ n \in Norm /\ v \in Nat /\ v <= published[n]
      /\ returned' = [returned EXCEPT ![n] = Newer(returned[n], v)]
      /\ calls' = [calls EXCEPT ![c] = NoCall]
      /\ UNCHANGED <<published, entries>>
  BY Numbers DEF IInv, Bounds, Return
<1>2. /\ Newer(returned[n], v) \in 0..maxVersion
      /\ Newer(returned[n], v) <= published[n]
  BY <1>1, Numbers DEF IInv, CacheBounds, Newer
<1>3. Typed'
  BY <1>1, <1>2, NoCallSound DEF IInv, Typed
<1>4. CacheBounds'
  BY <1>1, <1>2 DEF IInv, Typed, CacheBounds
<1>5. Phase(NoCall) /\ Bounds(NoCall)
  <2>1. /\ NoCall.pc = "idle" /\ NoCall.cached = 0 /\ NoCall.reply = 0
        /\ NoCall.base = 0 /\ NoCall.floor = 0
    BY DEF NoCall
  <2>2. 0 <= published[NoCall.norm]
    BY NoCallSound, Numbers DEF IInv, CallRecord
  <2>3. QED
    BY <2>1, <2>2 DEF Phase, Bounds
<1>6. ASSUME NEW d \in Caller
      PROVE  Phase(calls[d])' /\ Bounds(calls[d])'
  <2>1. calls'[d] = IF d = c THEN NoCall ELSE calls[d]
    BY <1>1 DEF IInv, Typed
  <2>2. Phase(calls'[d]) /\ Bounds(calls'[d])
    BY <1>5, <2>1 DEF IInv
  <2>3. QED
    BY <1>1, <2>2 DEF Phase, Bounds
<1>7. QED
  BY <1>3, <1>4, <1>6 DEF IInv

\* At first nothing is cached and nobody asks.
LEMMA InitInv == Init => IInv
<1> SUFFICES ASSUME Init
             PROVE  IInv
  OBVIOUS
<1>1. 1 \in Version /\ 0 \in 0..maxVersion
  BY HistoryAssumption DEF Version
<1>2. DOMAIN entries = {}
  BY DEF Init, Cache!CacheInit
<1>3. Typed
  BY <1>1, <1>2, NoCallSound DEF Init, Typed
<1>4. CacheBounds
  BY <1>2 DEF Init, CacheBounds
<1>5. /\ NoCall.pc = "idle" /\ NoCall.cached = 0 /\ NoCall.reply = 0
      /\ NoCall.base = 0 /\ NoCall.floor = 0 /\ published[NoCall.norm] = 1
  BY NoCallSound DEF NoCall, Init, CallRecord
<1>6. Phase(NoCall) /\ Bounds(NoCall)
  BY <1>5 DEF Phase, Bounds
<1>7. QED
  BY <1>3, <1>4, <1>6 DEF Init, IInv

\* The invariant is inductive.
LEMMA StepInv == IInv /\ [Next]_vars => IInv'
<1> SUFFICES ASSUME IInv, [Next]_vars
             PROVE  IInv'
  OBVIOUS
<1>1. ASSUME NEW n \in Norm, Publish(n)
      PROVE  IInv'
  BY <1>1, PublishInv
<1>2. ASSUME NEW c \in Caller, NEW n \in Norm, Start(c, n)
      PROVE  IInv'
  BY <1>2, StartInv
<1>3. ASSUME NEW c \in Caller, LookupHit(c) \/ LookupMiss(c)
      PROVE  IInv'
  BY <1>3, LookupInv
<1>4. ASSUME NEW c \in Caller, NotModified(c) \/ FullAnswer(c) \/ FetchError(c)
      PROVE  IInv'
  BY <1>4, AnswerInv
<1>5. ASSUME NEW c \in Caller, Store(c) \/ Return(c)
      PROVE  IInv'
  BY <1>5, StoreInv, ReturnInv
<1>6. CASE UNCHANGED vars
  BY <1>6 DEF vars, IInv, Typed, CacheBounds, Phase, Bounds
<1>7. QED
  BY <1>1, <1>2, <1>3, <1>4, <1>5, <1>6 DEF Next

\* The invariant holds in every state.
LEMMA Invariance == Spec => []IInv
BY InitInv, StepInv, PTL DEF Spec

\* Every history handed out was in force at some moment of its call.
THEOREM HistoriesWereInForce == Spec => []AnswerInForce
<1>1. ASSUME IInv, NEW c \in Caller, calls[c].reply # 0
      PROVE  calls[c].reply \in calls[c].base..published[calls[c].norm]
  BY <1>1, Numbers DEF IInv, Bounds
<1>2. IInv => AnswerInForce
  BY <1>1 DEF AnswerInForce
<1>3. QED
  BY <1>2, Invariance, PTL

-----------------------------------------------------------------------------
(* Refinement of VersionedReads.                                           *)

ReadsNow == [c \in Caller |-> ReadOf(c)]

\* A step of one caller moves at most its own read.
LEMMA ReadMoved ==
    ASSUME NEW c \in Caller, \A d \in Caller \ {c} : calls'[d] = calls[d]
    PROVE  ReadsNow' = [ReadsNow EXCEPT ![c] = ReadOf(c)']
<1>1. \A d \in Caller \ {c} : ReadOf(d)' = ReadOf(d)
  BY DEF ReadOf
<1>2. QED
  BY <1>1 DEF ReadsNow

\* Initial states map to initial states.
LEMMA InitRefines == Init => Reads!ReadInit
<1> SUFFICES ASSUME Init
             PROVE  Reads!ReadInit
  OBVIOUS
<1>1. \A c \in Caller : ReadOf(c) = Reads!NoRead
  BY DEF Init, NoCall, ReadOf, Reads!NoRead
<1>2. QED
  BY <1>1 DEF Init, Reads!ReadInit

\* Every step maps to a step or a stutter: answers settle reads, for what
\* the invariant bounds by the base of a call is no older than its floor.
LEMMA StepRefines == IInv /\ [Next]_vars => [Reads!ReadNext]_(Reads!readVars)
<1> SUFFICES ASSUME IInv, [Next]_vars
             PROVE  Reads!ReadNext \/ UNCHANGED <<published, returned, ReadsNow>>
  BY DEF Reads!readVars, ReadsNow
<1>0. Typed /\ IInv'
  BY StepInv DEF IInv
<1>1. ASSUME NEW n \in Norm, Publish(n)
      PROVE  Reads!Publish(n)
  <2>1. ReadsNow' = ReadsNow
    BY <1>1 DEF Publish, ReadsNow, ReadOf
  <2>2. QED
    BY <1>1, <2>1 DEF Publish, Reads!Publish, ReadsNow
<1>2. ASSUME NEW c \in Caller, NEW n \in Norm, Start(c, n)
      PROVE  Reads!Begin(c, n)
  <2>1. /\ calls'[c].pc = "lookup" /\ calls'[c].norm = n
        /\ calls'[c].floor = returned[n]
        /\ \A d \in Caller \ {c} : calls'[d] = calls[d]
    BY <1>0, <1>2 DEF Typed, Start, NoCall
  <2>2. ReadOf(c)' = Reads!Reading(n, returned[n])
    BY <2>1 DEF ReadOf, Reads!Reading
  <2>3. ReadsNow' = [ReadsNow EXCEPT ![c] = Reads!Reading(n, returned[n])]
    BY <2>1, <2>2, ReadMoved
  <2>4. ReadsNow[c] = Reads!NoRead
    BY <1>2 DEF Start, ReadsNow, ReadOf, Reads!NoRead
  <2>5. QED
    BY <1>2, <2>3, <2>4 DEF Start, Reads!Begin, ReadsNow
<1>3. ASSUME NEW c \in Caller, LookupHit(c) \/ LookupMiss(c) \/ FullAnswer(c)
      PROVE  UNCHANGED <<published, returned, ReadsNow>>
  <2>1. /\ calls[c].pc \in {"lookup", "fetch"} /\ calls'[c].pc \in {"fetch", "store"}
        /\ calls'[c].norm = calls[c].norm /\ calls'[c].floor = calls[c].floor
        /\ \A d \in Caller \ {c} : calls'[d] = calls[d]
        /\ UNCHANGED <<published, returned>>
    BY <1>0, <1>3 DEF Typed, CallRecord, LookupHit, LookupMiss, FullAnswer, Answered
  <2>2. ReadOf(c)' = ReadOf(c)
    BY <2>1 DEF ReadOf
  <2>3. QED
    BY <2>1, <2>2, ReadMoved DEF ReadsNow
<1>4. ASSUME NEW c \in Caller, NotModified(c) \/ FetchError(c) \/ Store(c)
      PROVE  Reads!Settle
  <2>1. /\ calls[c].pc \in {"fetch", "store"} /\ calls'[c].pc = "return"
        /\ calls'[c].norm = calls[c].norm /\ calls'[c].floor = calls[c].floor
        /\ \A d \in Caller \ {c} : calls'[d] = calls[d]
        /\ UNCHANGED <<published, returned>>
    BY <1>0, <1>4 DEF Typed, CallRecord, NotModified, FetchError, Store, Answered
  <2>2. /\ ReadOf(c).phase = "reading" /\ ReadOf(c).query = calls[c].norm
        /\ ReadOf(c).floor = calls[c].floor
    BY <2>1 DEF ReadOf
  <2>3. \/ ReadOf(c)' = Reads!Failed
        \/ \E v \in ReadOf(c).floor..published[ReadOf(c).query] :
              ReadOf(c)' = Reads!Got(ReadOf(c).query, v)
    <3>1. CASE calls'[c].reply = 0
      BY <2>1, <3>1 DEF ReadOf, Reads!Failed
    <3>2. CASE calls'[c].reply # 0
      <4>1. PICK v : v = calls'[c].reply
        OBVIOUS
      <4>2. /\ calls'[c] \in CallRecord
            /\ calls'[c].floor <= calls'[c].base
            /\ calls'[c].base <= v /\ v <= published[calls[c].norm]
        BY <1>0, <2>1, <3>2, <4>1 DEF IInv, Typed, Bounds
      <4>3. /\ calls'[c].floor \in Nat /\ calls'[c].base \in Nat /\ v \in Nat
            /\ published[calls[c].norm] \in Nat
        BY <1>0, <4>1, <4>2, Numbers, HistoryAssumption DEF CallRecord
      <4>4. v \in ReadOf(c).floor..published[ReadOf(c).query]
        BY <2>1, <2>2, <4>2, <4>3
      <4>5. ReadOf(c)' = Reads!Got(calls[c].norm, v)
        BY <2>1, <3>2, <4>1 DEF ReadOf, Reads!Got
      <4>6. QED
        BY <2>2, <4>4, <4>5
    <3>3. QED
      BY <3>1, <3>2
  <2>4. ASSUME NEW d \in Caller
        PROVE  Reads!Settled(d) \/ ReadsNow'[d] = ReadsNow[d]
    <3>1. CASE d = c
      BY <2>2, <2>3, <3>1 DEF Reads!Settled
    <3>2. CASE d # c
      BY <2>1, <3>2 DEF ReadsNow, ReadOf
    <3>3. QED
      BY <3>1, <3>2
  <2>5. QED
    BY <2>1, <2>4 DEF Reads!Settle, ReadsNow
<1>5. ASSUME NEW c \in Caller, Return(c)
      PROVE  Reads!Return(c) \/ Reads!ReturnFailure(c)
  <2> DEFINE n == calls[c].norm
             v == calls[c].reply
  <2>1. /\ calls[c].pc = "return" /\ calls'[c] = NoCall /\ n \in Norm
        /\ \A d \in Caller \ {c} : calls'[d] = calls[d]
        /\ returned' = [returned EXCEPT ![n] = Newer(returned[n], v)]
        /\ UNCHANGED published
    BY <1>0, <1>5, Numbers DEF Typed, Return
  <2>2. ReadsNow' = [ReadsNow EXCEPT ![c] = Reads!NoRead]
    BY <2>1, ReadMoved DEF NoCall, ReadOf, Reads!NoRead
  <2>3. CASE v = 0
    <3>1. ReadsNow[c] = Reads!Failed
      BY <2>1, <2>3 DEF ReadsNow, ReadOf, Reads!Failed
    <3>2. Newer(returned[n], v) = returned[n]
      BY <1>0, <2>1, <2>3, Numbers DEF Newer
    <3>3. UNCHANGED returned
      BY <1>0, <2>1, <3>2 DEF Typed
    <3>4. QED
      BY <2>1, <2>2, <3>1, <3>3 DEF Reads!ReturnFailure, ReadsNow
  <2>4. CASE v # 0
    <3>1. ReadsNow[c] = Reads!Got(n, v)
      BY <2>1, <2>4 DEF ReadsNow, ReadOf, Reads!Got
    <3>2. /\ ReadsNow[c].phase = "got" /\ ReadsNow[c].query = n
          /\ ReadsNow[c].version = v
      BY <3>1 DEF Reads!Got
    <3>3. returned' = [returned EXCEPT ![n] = Reads!Newer(@, v)]
      BY <2>1 DEF Newer, Reads!Newer
    <3>4. QED
      BY <2>1, <2>2, <3>2, <3>3 DEF Reads!Return, ReadsNow
  <2>5. QED
    BY <2>3, <2>4
<1>6. CASE UNCHANGED vars
  BY <1>6 DEF vars, ReadsNow, ReadOf
<1>7. QED
  BY <1>1, <1>2, <1>3, <1>4, <1>5, <1>6 DEF Next, Reads!ReadNext

\* Without coalescing, and with a cache that may step back to an older
\* version, get_law_history still offers the reads of VersionedReads.
THEOREM HistoryRefinesReads == Spec => ImplementsReads
<1>1. QED
  BY InitRefines, StepRefines, Invariance, PTL
     DEF Spec, ImplementsReads, Reads!ReadSpec

-----------------------------------------------------------------------------
(* The history cache is an LRU cache; of its uses no history is kept.      *)

CacheProofs == INSTANCE LruCacheProofs WITH Key <- Norm, Entry <- Version,
                                            since <- << >>, latest <- << >>

\* Every step is a get, a put, or leaves the cache alone.
LEMMA StepUsesCache ==
    IInv /\ [Next]_vars => [CacheProofs!CacheNext]_(CacheProofs!cacheVars)
<1> SUFFICES ASSUME IInv, Next
             PROVE  CacheProofs!CacheNext \/ UNCHANGED <<entries, order>>
  BY DEF CacheProofs!cacheVars, vars
<1>1. ASSUME NEW c \in Caller, LookupHit(c) \/ LookupMiss(c)
      PROVE  CacheProofs!CacheNext \/ UNCHANGED <<entries, order>>
  <2>1. calls[c].norm \in Norm
    BY Numbers DEF IInv
  <2>2. CASE LookupHit(c)
    <3>1. CacheProofs!Get(calls[c].norm)
      BY <2>2 DEF LookupHit, Cache!GetHit, Cache!Hit, Cache!MoveToFront, Cache!IndexOf,
         CacheProofs!Get, CacheProofs!GetHit, CacheProofs!Hit,
         CacheProofs!MoveToFront, CacheProofs!IndexOf
    <3>2. QED
      BY <2>1, <3>1 DEF CacheProofs!CacheNext
  <2>3. CASE LookupMiss(c)
    BY <2>3 DEF LookupMiss, Cache!GetMiss, Cache!cacheVars
  <2>4. QED
    BY <1>1, <2>2, <2>3
<1>2. ASSUME NEW c \in Caller, Store(c)
      PROVE  CacheProofs!CacheNext
  <2>1. calls[c].norm \in Norm /\ calls[c].reply \in Version
    <3>1. /\ calls[c].norm \in Norm /\ calls[c].reply \in 0..maxVersion
          /\ calls[c].reply # 0
      BY <1>2, Numbers DEF IInv, Phase, Store, CallRecord
    <3>2. QED
      BY <3>1, HistoryAssumption DEF Version
  <2>2. Cache!Full <=> CacheProofs!Full
    BY DEF Cache!Full, CacheProofs!Full, Cache!Cardinality, CacheProofs!Cardinality
  <2>3. CacheProofs!Put(calls[c].norm, calls[c].reply)
    BY <1>2, <2>2 DEF Store, Cache!Put, Cache!PutExisting, Cache!PutNew, Cache!PutEvicting,
       Cache!Hit, Cache!Back, Cache!With, Cache!Without,
       Cache!MoveToFront, Cache!IndexOf, Cache!PushFront, Cache!DropBack,
       CacheProofs!Put, CacheProofs!PutExisting, CacheProofs!PutNew,
       CacheProofs!PutEvicting, CacheProofs!Hit, CacheProofs!Back,
       CacheProofs!With, CacheProofs!Without, CacheProofs!MoveToFront,
       CacheProofs!IndexOf, CacheProofs!PushFront, CacheProofs!DropBack
  <2>4. QED
    BY <2>1, <2>3 DEF CacheProofs!CacheNext
<1>3. QED
  BY <1>1, <1>2 DEF Next, Publish, Start, NotModified, FullAnswer, FetchError, Return

\* The history cache keeps the invariant of LruCache: map and list agree and
\* never hold more than cacheMax histories.
THEOREM HistoryCacheCoherent == Spec => []CacheProofs!CacheInv
<1>1. CacheProofs!CacheMaxAssumption
  BY HistoryAssumption DEF CacheProofs!CacheMaxAssumption
<1>2. Init => CacheProofs!CacheInv
  BY <1>1, CacheProofs!InitCacheInv DEF Init, Cache!CacheInit, CacheProofs!CacheInit
<1>3. CacheProofs!CacheInv /\ [CacheProofs!CacheNext]_(CacheProofs!cacheVars)
      => CacheProofs!CacheInv'
  BY <1>1, CacheProofs!NextCacheInv
<1>4. QED
  BY <1>2, <1>3, StepUsesCache, Invariance, PTL DEF Spec

\* The variables keep their types in every reachable state.
THEOREM HistoryTypeCorrect == Spec => []TypeOK
<1>1. IInv /\ CacheProofs!CacheInv => TypeOK
  BY DEF IInv, Typed, CacheProofs!CacheInv, CacheProofs!CacheTypeOK,
     TypeOK, Cache!CacheTypeOK
<1>2. QED
  BY <1>1, Invariance, HistoryCacheCoherent, PTL

=============================================================================
