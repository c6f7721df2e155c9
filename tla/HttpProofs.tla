----------------------------- MODULE HttpProofs -----------------------------
(***************************************************************************)
(* The two ends of HTTP.  As a server: start, shutdown and end of the      *)
(* process, for every set of requests.  As a client: what a call is told   *)
(* of a document, for every set of callers, number of retries and          *)
(* thresholds of the breaker.                                              *)
(***************************************************************************)
EXTENDS HttpServer, Transport, TLAPS

-----------------------------------------------------------------------------
(* The server.                                                             *)


\* The socket is open only between ListenAndServe's start and Shutdown.
SocketOpen == listener = "open" => /\ shutdown = "waiting"
                                   /\ main \notin {"starting", "failed"}

\* A process that never served has taken on no request.
NeverServed == main \in {"starting", "failed"} =>
                  \A r \in Request : requests[r] = "unsent"

\* There is a status when the process ended, and not before.
StatusAtEnd == exitCode = NoCode <=> Alive

ServerInv == /\ ServerTypeOK
             /\ SocketOpen
             /\ NeverServed
             /\ StatusAtEnd
             /\ ServerExitsCleanly

-----------------------------------------------------------------------------
\* Nothing has happened to a process that starts.
LEMMA ServerInitInv == ServerInit => ServerInv
<1> SUFFICES ASSUME ServerInit
             PROVE  ServerInv
  OBVIOUS
<1>1. ServerTypeOK
  BY DEF ServerInit, ServerTypeOK
<1>2. SocketOpen /\ NeverServed
  BY DEF ServerInit, SocketOpen, NeverServed
<1>3. StatusAtEnd /\ ServerExitsCleanly
  BY DEF ServerInit, StatusAtEnd, ServerExitsCleanly, Alive
<1>4. QED
  BY <1>1, <1>2, <1>3 DEF ServerInv

\* ListenAndServe opens the socket unless Shutdown came first.
LEMMA ListenInv ==
    ASSUME ServerInv, Listen \/ ListenFails
    PROVE  ServerInv'
<1>1. ServerTypeOK'
  BY DEF ServerInv, ServerTypeOK, Listen, ListenFails
<1>2. SocketOpen' /\ NeverServed'
  BY DEF ServerInv, SocketOpen, NeverServed, Listen, ListenFails
<1>3. StatusAtEnd' /\ ServerExitsCleanly'
  BY DEF ServerInv, StatusAtEnd, ServerExitsCleanly, Alive, Listen, ListenFails
<1>4. QED
  BY <1>1, <1>2, <1>3 DEF ServerInv

\* A request comes in only through an open socket, so never before the
\* process serves.
LEMMA RequestInv ==
    ASSUME ServerInv, NEW r \in Request, Accept(r) \/ Finish(r)
    PROVE  ServerInv'
<1>1. /\ Alive /\ main \notin {"starting", "failed"}
      /\ UNCHANGED <<main, shutdown, signalled, listener, exitCode>>
      /\ requests' \in [Request -> {"unsent", "active", "answered", "cut"}]
  BY DEF ServerInv, ServerTypeOK, SocketOpen, NeverServed, Accept, Finish
<1>2. ServerTypeOK' /\ SocketOpen' /\ NeverServed' /\ StatusAtEnd'
  BY <1>1 DEF ServerInv, ServerTypeOK, SocketOpen, NeverServed, StatusAtEnd, Alive
<1>3. ServerExitsCleanly'
  BY <1>1 DEF ServerInv, StatusAtEnd, ServerExitsCleanly, NoCode
<1>4. QED
  BY <1>2, <1>3 DEF ServerInv

\* The shutdown goroutine closes the socket before it waits for requests.
LEMMA ShutdownInv ==
    ASSUME ServerInv, Signal \/ CallShutdown \/ Drained \/ DrainTimesOut
    PROVE  ServerInv'
<1>1. /\ Alive /\ UNCHANGED <<main, requests, exitCode>>
      /\ signalled' \in BOOLEAN
      /\ shutdown' \in {"waiting", "draining", "drained", "timedOut"}
      /\ \/ UNCHANGED <<shutdown, listener>>
         \/ listener' = "closed"
         \/ shutdown # "waiting" /\ UNCHANGED listener
  BY DEF ServerInv, ServerTypeOK, Signal, CallShutdown, Drained, DrainTimesOut
<1>2. ServerTypeOK'
  BY <1>1 DEF ServerInv, ServerTypeOK, Alive
<1>3. SocketOpen' /\ NeverServed' /\ StatusAtEnd' /\ ServerExitsCleanly'
  BY <1>1 DEF ServerInv, SocketOpen, NeverServed, StatusAtEnd, ServerExitsCleanly, Alive
<1>4. QED
  BY <1>2, <1>3 DEF ServerInv

\* main returns an error only when it could not listen.
LEMMA EndInv ==
    ASSUME ServerInv, ListenReturns \/ Exit
    PROVE  ServerInv'
<1>1. CASE ListenReturns
  BY <1>1 DEF ServerInv, ServerTypeOK, SocketOpen, NeverServed, StatusAtEnd,
              ServerExitsCleanly, Alive, ListenReturns
<1>2. CASE Exit
  <2>1. /\ main \in {"returned", "failed"} /\ main' = "exited"
        /\ exitCode' \in {0, 1} /\ exitCode' # NoCode
        /\ exitCode' = 1 => main = "failed"
        /\ listener' = "closed"
        /\ UNCHANGED <<shutdown, signalled>>
    BY <1>2 DEF Exit, NoCode
  <2>2. ASSUME NEW r \in Request
        PROVE  /\ requests'[r] \in {"unsent", "answered", "cut"}
               /\ requests[r] = "unsent" => requests'[r] = "unsent"
    BY <1>2 DEF ServerInv, ServerTypeOK, Exit
  <2>3. requests' \in [Request -> {"unsent", "active", "answered", "cut"}]
    BY <1>2 DEF ServerInv, ServerTypeOK, Exit
  <2>4. ServerTypeOK'
    BY <2>1, <2>2, <2>3 DEF ServerInv, ServerTypeOK
  <2>5. SocketOpen' /\ NeverServed' /\ StatusAtEnd'
    BY <2>1 DEF SocketOpen, NeverServed, StatusAtEnd, Alive
  <2>6. ServerExitsCleanly'
    BY <2>1, <2>2 DEF ServerInv, NeverServed, ServerExitsCleanly
  <2>7. QED
    BY <2>4, <2>5, <2>6 DEF ServerInv
<1>3. QED
  BY <1>1, <1>2

\* Every step of the process and of its requests keeps the invariant.
LEMMA ServerStepInv == ServerInv /\ [ServerNext]_serverVars => ServerInv'
<1> SUFFICES ASSUME ServerInv, [ServerNext]_serverVars
             PROVE  ServerInv'
  OBVIOUS
<1>1. CASE Listen \/ ListenFails
  BY <1>1, ListenInv
<1>2. ASSUME NEW r \in Request, Accept(r) \/ Finish(r)
      PROVE  ServerInv'
  BY <1>2, RequestInv
<1>3. CASE Signal \/ CallShutdown \/ Drained \/ DrainTimesOut
  BY <1>3, ShutdownInv
<1>4. CASE ListenReturns \/ Exit
  BY <1>4, EndInv
<1>5. CASE UNCHANGED serverVars
  BY <1>5 DEF serverVars, ServerInv, ServerTypeOK, SocketOpen, NeverServed, StatusAtEnd,
              ServerExitsCleanly, Alive
<1>6. QED
  BY <1>1, <1>2, <1>3, <1>4, <1>5 DEF ServerNext

\* The invariant holds in every state.
LEMMA ServerInvariance == ServerSpec => []ServerInv
BY ServerInitInv, ServerStepInv, PTL DEF ServerSpec

-----------------------------------------------------------------------------
\* A process that ended has a status and runs no request.
THEOREM HttpTypeCorrect == ServerSpec => []ServerTypeOK
<1>1. ServerInv => ServerTypeOK
  BY DEF ServerInv
<1>2. QED
  BY <1>1, ServerInvariance, PTL

\* A process that took on a request never reports an error, whatever the
\* order of signal, start, failure to listen and shutdown.
THEOREM AlwaysExitsCleanly == ServerSpec => []ServerExitsCleanly
<1>1. ServerInv => ServerExitsCleanly
  BY DEF ServerInv
<1>2. QED
  BY <1>1, ServerInvariance, PTL

\* Once the shutdown goroutine acts no request is taken on, even when the
\* signal comes before the socket is open.
THEOREM ShutdownTakesNoWork == ServerSpec => NoNewWorkInShutdown
<1> DEFINE Kept == shutdown # "waiting" =>
                      \A r \in Request : requests[r] = "unsent" => requests'[r] = "unsent"
<1>1. ServerInv /\ [ServerNext]_serverVars => [Kept]_serverVars
  <2> SUFFICES ASSUME ServerInv, ServerNext, shutdown # "waiting",
                      NEW r \in Request, requests[r] = "unsent"
               PROVE  requests'[r] = "unsent"
    OBVIOUS
  <2>1. listener # "open"
    BY DEF ServerInv, SocketOpen
  <2>2. ASSUME NEW s \in Request, Finish(s)
        PROVE  requests'[r] = "unsent"
    BY <2>2 DEF Finish, ServerInv, ServerTypeOK
  <2>3. ASSUME Exit
        PROVE  requests'[r] = "unsent"
    BY <2>3 DEF Exit
  <2>4. QED
    BY <2>1, <2>2, <2>3 DEF ServerNext, Listen, ListenFails, Signal, CallShutdown, Drained,
                            DrainTimesOut, ListenReturns, Accept
<1>2. QED
  BY <1>1, ServerInvariance, PTL DEF ServerSpec, NoNewWorkInShutdown

-----------------------------------------------------------------------------
(* The client.                                                             *)


CallRecord == [status : {"idle", "ready", "sent", "done"},
               asked : {"existing", "missing"},
               tries : 0..(attempts + 1), steady : BOOLEAN,
               answer : {"none", "document", "not found", "failed",
                         "rejected", "cancelled"}]

BreakerRecord == [state : {"closed", "open", "half-open"},
                  failures : 0..(FailureThreshold - 1),
                  successes : 0..(SuccessThreshold - 1)]

\* A call has an answer only when it is done, and tries left when it is about
\* to send.
Underway(r) == /\ r.status # "done" => r.answer = "none"
               /\ r.status = "ready" => r.tries <= attempts

\* A call under way that has seen no outage sees none now.
Steady(r) == r.status \in {"ready", "sent"} /\ r.steady => service = "up"

Honest(r) == r.steady => /\ r.answer = "document" => r.asked = "existing"
                         /\ r.answer = "not found" => r.asked = "missing"

Sound(r) == /\ r \in CallRecord
            /\ Underway(r)
            /\ Steady(r)
            /\ Honest(r)

\* The inductive invariant: calls do not depend on one another, except
\* through the breaker, whose counters stay below their thresholds.
IInv == /\ resource \in {"get_law", "cgr_search"}
        /\ service \in {"up", "failing"}
        /\ breaker \in BreakerRecord
        /\ calls \in [Callers -> CallRecord]
        /\ \A c \in Callers : Sound(calls[c])

-----------------------------------------------------------------------------
(* The breaker.                                                            *)

\* A new count starts below both thresholds.
LEMMA FreshBreaker ==
    Closed \in BreakerRecord /\ Opened \in BreakerRecord /\ HalfOpen \in BreakerRecord
<1>1. /\ FailureThreshold \in Nat /\ FailureThreshold > 0
      /\ SuccessThreshold \in Nat /\ SuccessThreshold > 0
  BY ContractAssumption DEF validate
<1>2. QED
  BY <1>1 DEF Closed, Opened, HalfOpen, BreakerRecord

\* Counting a request, whatever came of it, leaves the counters below their
\* thresholds: the breaker opens, or closes, before they are reached.
LEMMA CountedTyped ==
    ASSUME breaker \in BreakerRecord,
           NEW outcome \in {"200", "403", "429", "500", "503", "none"},
           NEW b \in Counted(outcome)
    PROVE  b \in BreakerRecord
<1>1. /\ FailureThreshold \in Nat /\ FailureThreshold > 0
      /\ SuccessThreshold \in Nat /\ SuccessThreshold > 0
  BY ContractAssumption DEF validate
<1>2. Failed \in BreakerRecord
  BY <1>1, FreshBreaker DEF Failed, BreakerRecord
<1>3. Succeeded \in BreakerRecord
  BY <1>1, FreshBreaker DEF Succeeded, BreakerRecord
<1>4. b = Failed \/ b = Succeeded \/ b = breaker
  BY DEF Counted
<1>5. QED
  BY <1>2, <1>3, <1>4

-----------------------------------------------------------------------------
(* The steps of a call.                                                    *)

\* A step that gives one call a sound record, and changes neither resource
\* nor service, keeps the invariant.
LEMMA OneCall ==
    ASSUME IInv, NEW c \in Callers, NEW r,
           calls' = [calls EXCEPT ![c] = r],
           UNCHANGED <<resource, service>>,
           breaker' \in BreakerRecord,
           Sound(r)
    PROVE  IInv'
<1>1. calls' \in [Callers -> CallRecord]
  BY DEF IInv, Sound
<1>2. ASSUME NEW d \in Callers
      PROVE  Sound(calls[d])'
  <2>1. calls'[d] = IF d = c THEN r ELSE calls[d]
    BY DEF IInv
  <2>2. Sound(calls'[d])
    BY <2>1 DEF IInv
  <2>3. QED
    BY <2>2 DEF Sound, Underway, Steady, Honest
<1>3. QED
  BY <1>1, <1>2 DEF IInv

\* A call that begins has all its tries before it.
LEMMA FreshCall ==
    ASSUME NEW asked \in {"existing", "missing"},
           NEW s \in BOOLEAN, s => service = "up"
    PROVE  Sound([NoCall EXCEPT !.status = "ready", !.asked = asked, !.steady = s])
<1> DEFINE r == [NoCall EXCEPT !.status = "ready", !.asked = asked, !.steady = s]
<1>1. attempts \in Nat
  BY ContractAssumption DEF validate
<1>2. /\ r.status = "ready" /\ r.asked = asked /\ r.tries = 0
      /\ r.answer = "none" /\ r.steady = s
  BY DEF NoCall
<1>3. r \in CallRecord
  <2>1. NoCall \in CallRecord
    BY <1>1 DEF NoCall, CallRecord
  <2>2. QED
    BY <2>1 DEF CallRecord
<1> HIDE DEF r
<1>4. Sound(r)
  BY <1>1, <1>2, <1>3 DEF Sound, Underway, Steady, Honest
<1>5. QED
  BY <1>4 DEF r

\* A call starts as steady as the service is up.
LEMMA StartInv ==
    ASSUME IInv, NEW c \in Callers, NEW asked \in {"existing", "missing"},
           Start(c, asked)
    PROVE  IInv'
<1> DEFINE r(s) == [NoCall EXCEPT !.status = "ready", !.asked = asked, !.steady = s]
<1>1. PICK s \in BOOLEAN : /\ s => service = "up"
                           /\ calls' = [calls EXCEPT ![c] = r(s)]
  <2>1. CASE service = "up"
    BY <2>1 DEF Start
  <2>2. CASE service # "up"
    BY <2>2 DEF Start
  <2>3. QED
    BY <2>1, <2>2
<1>2. Sound(r(s))
  BY <1>1, FreshCall
<1> HIDE DEF r
<1>3. QED
  BY <1>1, <1>2, OneCall DEF Start, IInv

\* A request that leaves had a try left.
LEMMA SendInv ==
    ASSUME IInv, NEW c \in Callers, Send(c)
    PROVE  IInv'
<1> DEFINE r == [calls[c] EXCEPT !.status = "sent", !.tries = @ + 1]
<1>1. /\ attempts \in Nat /\ calls[c] \in CallRecord /\ Sound(calls[c])
      /\ calls[c].status = "ready"
  BY ContractAssumption DEF validate, IInv, Send
<1>2. /\ r.status = "sent" /\ r.asked = calls[c].asked
      /\ r.tries = calls[c].tries + 1 /\ r.answer = calls[c].answer
      /\ r.steady = calls[c].steady
  BY <1>1 DEF CallRecord
<1>3. calls[c].tries + 1 \in 0..(attempts + 1)
  <2>1. calls[c].tries \in 0..(attempts + 1)
    BY <1>1 DEF CallRecord
  <2>2. calls[c].tries <= attempts
    BY <1>1 DEF Sound, Underway
  <2>3. QED
    BY <1>1, <2>1, <2>2
<1>4. r \in CallRecord
  BY <1>1, <1>3 DEF CallRecord
<1>5. Sound(r)
  BY <1>1, <1>2, <1>4 DEF Sound, Underway, Steady, Honest
<1>6. calls' = [calls EXCEPT ![c] = r]
  BY <1>1 DEF Send, IInv
<1>7. QED
  BY <1>5, <1>6, OneCall DEF Send, IInv

\* A call ends with what a steady service says of the document, or tries
\* again and says nothing of it.
LEMMA AnsweredInv ==
    ASSUME IInv, NEW c \in Callers, Answered(c)
    PROVE  IInv'
<1>1. /\ attempts \in Nat /\ calls[c] \in CallRecord /\ Sound(calls[c])
      /\ calls[c].status = "sent"
      /\ resource \in {"get_law", "cgr_search"} /\ service \in {"up", "failing"}
  BY ContractAssumption DEF validate, IInv, Answered
<1>2. PICK outcome \in Answers(calls[c].asked) :
         /\ breaker' \in Counted(outcome)
         /\ calls' = [calls EXCEPT ![c] = After(c, outcome)]
  BY DEF Answered
<1>3. outcome \in {"200", "403", "429", "500", "503", "none"}
  BY DEF Answers, AnswerUp, AnswerFailing
<1>4. breaker' \in BreakerRecord
  BY <1>2, <1>3, CountedTyped DEF IInv
<1>5. /\ calls[c].tries \in 0..(attempts + 1)
      /\ calls[c].asked \in {"existing", "missing"}
      /\ calls[c].steady \in BOOLEAN
      /\ calls[c].answer = "none"
      /\ calls[c].steady => service = "up"
  BY <1>1 DEF CallRecord, Sound, Underway, Steady
<1> DEFINE r == After(c, outcome)
<1>6. CASE outcome \in retryConditions /\ calls[c].tries <= attempts
  <2>1. r = [calls[c] EXCEPT !.status = "ready"]
    BY <1>6 DEF After
  <2>2. /\ r \in CallRecord /\ r.status = "ready" /\ r.tries = calls[c].tries
        /\ r.answer = "none" /\ r.steady = calls[c].steady
    BY <1>1, <1>5, <2>1 DEF CallRecord
  <2>3. Sound(r)
    BY <1>1, <1>5, <1>6, <2>2 DEF Sound, Underway, Steady, Honest
  <2>4. QED
    BY <1>2, <1>4, <2>3, OneCall DEF Answered
<1>7. CASE ~(outcome \in retryConditions /\ calls[c].tries <= attempts)
  <2> DEFINE told == Result(calls[c].asked, outcome)
  <2>1. r = [calls[c] EXCEPT !.status = "done", !.answer = told]
    BY <1>7 DEF After
  <2>2. told \in {"document", "not found", "failed"}
    BY DEF Result
  <2>3. /\ r \in CallRecord /\ r.status = "done" /\ r.tries = calls[c].tries
        /\ r.answer = told /\ r.steady = calls[c].steady
        /\ r.asked = calls[c].asked
    BY <1>1, <1>5, <2>1, <2>2 DEF CallRecord
  <2> HIDE DEF r
  <2>4. Honest(r)
    <3> SUFFICES ASSUME calls[c].steady
                 PROVE  /\ told = "document" => calls[c].asked = "existing"
                        /\ told = "not found" => calls[c].asked = "missing"
      BY <2>3 DEF Honest
    <3>1. outcome \in AnswerUp(calls[c].asked)
      BY <1>2, <1>5 DEF Answers
    <3>2. QED
      BY <1>1, <1>5, <3>1 DEF AnswerUp, Result
  <2>5. Sound(r)
    BY <2>3, <2>4 DEF Sound, Underway, Steady
  <2>6. QED
    BY <2>1, <2>5, <1>2, <1>4, OneCall DEF Answered, r
<1>8. QED
  BY <1>6, <1>7

\* The breaker takes a try away, or ends the call, but says nothing of the
\* document.
LEMMA RejectedInv ==
    ASSUME IInv, NEW c \in Callers, Rejected(c)
    PROVE  IInv'
<1>1. /\ attempts \in Nat /\ calls[c] \in CallRecord /\ Sound(calls[c])
      /\ calls[c].status = "ready" /\ calls[c].tries \in 0..(attempts + 1)
      /\ UNCHANGED <<resource, service, breaker>>
  BY ContractAssumption DEF validate, IInv, Rejected, CallRecord
<1>2. ASSUME calls' = [calls EXCEPT ![c].status = "done", ![c].answer = "rejected"]
      PROVE  IInv'
  <2> DEFINE r == [calls[c] EXCEPT !.status = "done", !.answer = "rejected"]
  <2>1. r \in CallRecord /\ r.status = "done" /\ r.answer = "rejected"
    BY <1>1 DEF CallRecord
  <2>2. Sound(r)
    BY <1>1, <2>1 DEF Sound, Underway, Steady, Honest
  <2>3. calls' = [calls EXCEPT ![c] = r]
    BY <1>1, <1>2 DEF IInv
  <2>4. QED
    BY <1>1, <2>2, <2>3, OneCall DEF IInv
<1>3. ASSUME calls[c].tries < attempts,
             calls' = [calls EXCEPT ![c].tries = @ + 1]
      PROVE  IInv'
  <2> DEFINE r == [calls[c] EXCEPT !.tries = @ + 1]
  <2>1. calls[c].tries + 1 \in 0..(attempts + 1) /\ calls[c].tries + 1 <= attempts
    BY <1>1, <1>3
  <2>2. /\ r \in CallRecord /\ r.status = "ready"
        /\ r.tries = calls[c].tries + 1 /\ r.answer = calls[c].answer
        /\ r.asked = calls[c].asked /\ r.steady = calls[c].steady
    BY <1>1, <2>1 DEF CallRecord
  <2>3. Sound(r)
    BY <1>1, <2>1, <2>2 DEF Sound, Underway, Steady, Honest
  <2>4. calls' = [calls EXCEPT ![c] = r]
    BY <1>1, <1>3 DEF IInv
  <2>5. QED
    BY <1>1, <2>3, <2>4, OneCall DEF IInv
<1>4. QED
  BY <1>2, <1>3 DEF Rejected

\* A cancelled call is told so, and nothing of the document.
LEMMA CancelledInv ==
    ASSUME IInv, NEW c \in Callers, Cancelled(c)
    PROVE  IInv'
<1> DEFINE r == [calls[c] EXCEPT !.status = "done", !.answer = "cancelled"]
<1>1. calls[c] \in CallRecord /\ UNCHANGED <<resource, service, breaker>>
  BY DEF IInv, Cancelled
<1>2. r \in CallRecord /\ r.status = "done" /\ r.answer = "cancelled"
  BY <1>1 DEF CallRecord
<1>3. Sound(r)
  BY <1>2 DEF Sound, Underway, Steady, Honest
<1>4. calls' = [calls EXCEPT ![c] = r]
  BY <1>1 DEF Cancelled, IInv
<1>5. QED
  BY <1>1, <1>3, <1>4, OneCall DEF IInv

\* A call that returns leaves nothing behind.
LEMMA ReturnInv ==
    ASSUME IInv, NEW c \in Callers, Return(c)
    PROVE  IInv'
<1>1. attempts \in Nat
  BY ContractAssumption DEF validate
<1>2. Sound(NoCall)
  BY <1>1 DEF NoCall, CallRecord, Sound, Underway, Steady, Honest
<1>3. QED
  BY <1>2, OneCall DEF Return, IInv

\* An outage, or its end, is seen by every call under way.
LEMMA ServiceChangesInv ==
    ASSUME IInv, ServiceChanges
    PROVE  IInv'
<1> DEFINE r(c) == [calls[c] EXCEPT !.steady = @ /\ calls[c].status \in {"idle", "done"}]
<1>1. /\ UNCHANGED <<resource, breaker>>
      /\ service' \in {"up", "failing"}
      /\ calls' = [c \in Callers |-> r(c)]
  BY DEF ServiceChanges
<1>2. ASSUME NEW c \in Callers
      PROVE  /\ r(c) \in CallRecord
             /\ r(c).status = calls[c].status
             /\ r(c).asked = calls[c].asked
             /\ r(c).tries = calls[c].tries
             /\ r(c).answer = calls[c].answer
             /\ r(c).steady => calls[c].steady /\ calls[c].status \in {"idle", "done"}
  BY DEF IInv, CallRecord
<1> HIDE DEF r
<1>3. ASSUME NEW c \in Callers
      PROVE  Sound(calls[c])'
  <2>1. calls'[c] = r(c) /\ Sound(calls[c])
    BY <1>1 DEF IInv
  <2>2. QED
    BY <1>1, <1>2, <2>1 DEF Sound, Underway, Steady, Honest
<1>4. calls' \in [Callers -> CallRecord]
  BY <1>1, <1>2
<1>5. QED
  BY <1>1, <1>3, <1>4 DEF IInv

\* The breaker's own steps touch no call.
LEMMA BreakerInv ==
    ASSUME IInv, Reset \/ WindowSlides
    PROVE  IInv'
<1>1. breaker' \in BreakerRecord
  <2>1. CASE Reset
    BY <2>1, FreshBreaker DEF Reset
  <2>2. CASE WindowSlides
    <3>1. PICK n \in 0..(breaker.failures - 1) :
             breaker' = [breaker EXCEPT !.failures = n]
      BY <2>2 DEF WindowSlides
    <3>2. FailureThreshold \in Nat /\ breaker.failures \in 0..(FailureThreshold - 1)
      BY ContractAssumption DEF validate, IInv, BreakerRecord
    <3>3. n \in 0..(FailureThreshold - 1)
      BY <3>2
    <3>4. QED
      BY <3>1, <3>3 DEF IInv, BreakerRecord
  <2>3. QED
    BY <2>1, <2>2
<1>2. UNCHANGED <<resource, service, calls>>
  BY DEF Reset, WindowSlides
<1>3. QED
  BY <1>1, <1>2 DEF IInv, Sound, Underway, Steady, Honest

\* The invariant holds at first and is inductive.
LEMMA Invariance == ClientSpec => []IInv
<1>1. ClientInit => IInv
  <2> SUFFICES ASSUME ClientInit
               PROVE  IInv
    OBVIOUS
  <2>1. attempts \in Nat
    BY ContractAssumption DEF validate
  <2>2. Sound(NoCall)
    BY <2>1 DEF NoCall, CallRecord, Sound, Underway, Steady, Honest
  <2>3. NoCall \in CallRecord
    BY <2>2 DEF Sound
  <2>4. QED
    BY <2>2, <2>3, FreshBreaker DEF ClientInit, IInv
<1>2. IInv /\ [ClientNext]_clientVars => IInv'
  <2> SUFFICES ASSUME IInv, [ClientNext]_clientVars
               PROVE  IInv'
    OBVIOUS
  <2>1. CASE Reset \/ WindowSlides
    BY <2>1, BreakerInv
  <2>2. CASE ServiceChanges
    BY <2>2, ServiceChangesInv
  <2>3. ASSUME NEW c \in Callers, NEW asked \in {"existing", "missing"},
               Start(c, asked)
        PROVE  IInv'
    BY <2>3, StartInv
  <2>4. ASSUME NEW c \in Callers, Step(c)
        PROVE  IInv'
    BY <2>4, SendInv, AnsweredInv, RejectedInv, ReturnInv DEF Step
  <2>5. ASSUME NEW c \in Callers, Cancelled(c)
        PROVE  IInv'
    BY <2>5, CancelledInv
  <2>6. CASE UNCHANGED clientVars
    BY <2>6 DEF clientVars, IInv, Sound, Underway, Steady, Honest
  <2>7. QED
    BY <2>1, <2>2, <2>3, <2>4, <2>5, <2>6 DEF ClientNext
<1>3. QED
  BY <1>1, <1>2, PTL DEF ClientSpec

-----------------------------------------------------------------------------
\* No call takes more requests than the contract gives it, and the breaker's
\* counters stay below their thresholds.
THEOREM TransportTypeCorrect == ClientSpec => []ClientTypeOK
<1>1. IInv => ClientTypeOK
  BY DEF IInv, ClientTypeOK, BreakerRecord, CallRecord
<1>2. QED
  BY <1>1, Invariance, PTL

\* While the service is up no call is told anything false of a document,
\* whatever the other callers and the breaker do.
THEOREM AnswersAlwaysHonest == ClientSpec => []HonestAnswers
<1>1. IInv => HonestAnswers
  BY DEF IInv, HonestAnswers, Sound, Honest
<1>2. QED
  BY <1>1, Invariance, PTL

=============================================================================
