----------------------------- MODULE Transport ------------------------------
(***************************************************************************)
(* One resource's HTTP client: calls are sent, answered, retried and given *)
(* up, behind a circuit breaker that all callers of the resource share.    *)
(* The breaker and the retry loop are resty's: external, as configured and *)
(* described in config/resources.go and observed in law_client_test.go.    *)
(***************************************************************************)
EXTENDS Integers

CONSTANTS Callers,
          attempts,          \* retry.attempts: retries after the first request
          FailureThreshold,  \* circuit_breaker of the resource
          SuccessThreshold

\* validate() of the embedded contract, without which nothing starts.
validate == /\ attempts \in Nat \ {0}
            /\ FailureThreshold \in Nat \ {0}
            /\ SuccessThreshold \in Nat \ {0}

ASSUME ContractAssumption == validate

VARIABLES resource,  \* "get_law" or "cgr_search": whose client this is
          service,   \* external: "up" or "failing"
          breaker,   \* external: shared by all calls of the resource
          calls      \* the callers' calls

clientVars == <<resource, service, breaker, calls>>

\* What one request comes back with: a status, or "none" for a timeout or a
\* broken connection.  BCN answers 500 for a norm that does not exist, the
\* Contraloria a page without hits.  A service that fails may also refuse a
\* request with a status no resource retries: 403 stands for them.
AnswerUp(asked) ==
  IF resource = "cgr_search" THEN {"200", "429"}
  ELSE IF asked = "missing" THEN {"500"} ELSE {"200"}

AnswerFailing == {"403", "429", "500", "503", "none"}

Answers(asked) == IF service = "up" THEN AnswerUp(asked) ELSE AnswerFailing

retryConditions == {"500", "503", "none"}
                     \cup IF resource = "cgr_search" THEN {"429"} ELSE {}

\* A slip: every failure read as "does not exist".
ResultOfAnyFailure(asked, outcome) ==
  IF outcome = "200" /\ asked = "existing" THEN "document" ELSE "not found"

\* getNormaOnce reads every 500 as "does not exist"; a Get of the
\* Contraloria finds no hits.
Result(asked, outcome) ==
  CASE outcome = "200" -> IF asked = "missing" THEN "not found" ELSE "document"
    [] outcome = "500" /\ resource = "get_law" -> "not found"
    [] OTHER -> "failed"

-----------------------------------------------------------------------------
(* The breaker. *)

Closed == [state |-> "closed", failures |-> 0, successes |-> 0]

Opened == [Closed EXCEPT !.state = "open"]

HalfOpen == [Closed EXCEPT !.state = "half-open"]

Failed == CASE breaker.state = "closed" /\ breaker.failures + 1 < FailureThreshold ->
                 [breaker EXCEPT !.failures = @ + 1]
            [] OTHER -> Opened

\* A slip: a probe that succeeds is not counted.
SucceededUncounted == breaker

Succeeded == CASE breaker.state = "half-open" ->
                    IF breaker.successes + 1 < SuccessThreshold
                    THEN [breaker EXCEPT !.successes = @ + 1] ELSE Closed
               [] OTHER -> breaker

\* Only 5xx counts as a failure: a refused request counts as answered.  One
\* without an answer may count as a failure or not at all.
Counted(outcome) == CASE outcome \in {"500", "503"} -> {Failed}
                      [] outcome = "none" -> {Failed, breaker}
                      [] outcome \in {"200", "403", "429"} -> {Succeeded}

\* After ResetTimeout.
Reset == /\ breaker.state = "open"
         /\ breaker' = HalfOpen
         /\ UNCHANGED <<resource, service, calls>>

\* Failures leave the sliding window.
WindowSlides == /\ breaker.state = "closed"
                /\ \E n \in 0..(breaker.failures - 1) :
                     breaker' = [breaker EXCEPT !.failures = n]
                /\ UNCHANGED <<resource, service, calls>>

-----------------------------------------------------------------------------

\* steady: the service has been up since the call began.
NoCall == [status |-> "idle", asked |-> "existing", tries |-> 0, steady |-> TRUE,
           answer |-> "none"]

ClientInit == /\ resource \in {"get_law", "cgr_search"}
              /\ service = "up"
              /\ breaker = Closed
              /\ calls = [c \in Callers |-> NoCall]

Start(c, asked) ==
  /\ calls[c].status = "idle"
  /\ calls' = [calls EXCEPT ![c] = [NoCall EXCEPT !.status = "ready", !.asked = asked,
                                                  !.steady = service = "up"]]
  /\ UNCHANGED <<resource, service, breaker>>

\* A slip: every retry begins the count anew.
AfterForgettingTries(c, outcome) ==
  IF outcome \in retryConditions /\ calls[c].tries <= attempts
  THEN [calls[c] EXCEPT !.status = "ready", !.tries = 0]
  ELSE [calls[c] EXCEPT !.status = "done", !.answer = Result(calls[c].asked, outcome)]

\* The end of one request, the tries-th of call c.
After(c, outcome) ==
  LET retried == outcome \in retryConditions /\ calls[c].tries <= attempts
  IN  IF retried THEN [calls[c] EXCEPT !.status = "ready"]
      ELSE [calls[c] EXCEPT !.status = "done", !.answer = Result(calls[c].asked, outcome)]

Send(c) == /\ calls[c].status = "ready"
           /\ breaker.state # "open"
           /\ calls' = [calls EXCEPT ![c].status = "sent", ![c].tries = @ + 1]
           /\ UNCHANGED <<resource, service, breaker>>

Answered(c) ==
  /\ calls[c].status = "sent"
  /\ \E outcome \in Answers(calls[c].asked) :
       /\ breaker' \in Counted(outcome)
       /\ calls' = [calls EXCEPT ![c] = After(c, outcome)]
  /\ UNCHANGED <<resource, service>>

\* ErrCircuitBreakerOpen, without a request: it ends the call, or takes the
\* place of one of its tries.
Rejected(c) ==
  /\ calls[c].status = "ready"
  /\ breaker.state = "open"
  /\ \/ calls' = [calls EXCEPT ![c].status = "done", ![c].answer = "rejected"]
     \/ /\ calls[c].tries < attempts
        /\ calls' = [calls EXCEPT ![c].tries = @ + 1]
  /\ UNCHANGED <<resource, service, breaker>>

\* The caller's context is cancelled, or the call's own deadline passes.
Cancelled(c) ==
  /\ calls[c].status \in {"ready", "sent"}
  /\ calls' = [calls EXCEPT ![c].status = "done", ![c].answer = "cancelled"]
  /\ UNCHANGED <<resource, service, breaker>>

Return(c) == /\ calls[c].status = "done"
             /\ calls' = [calls EXCEPT ![c] = NoCall]
             /\ UNCHANGED <<resource, service, breaker>>

ServiceChanges ==
  /\ service' = IF service = "up" THEN "failing" ELSE "up"
  /\ calls' = [c \in Callers |-> [calls[c] EXCEPT !.steady = @ /\ calls[c].status \in {"idle", "done"}]]
  /\ UNCHANGED <<resource, breaker>>

Step(c) == Send(c) \/ Answered(c) \/ Rejected(c) \/ Return(c)

ClientNext ==
  \/ Reset
  \/ WindowSlides
  \/ ServiceChanges
  \/ \E c \in Callers : \/ \E asked \in {"existing", "missing"} : Start(c, asked)
                        \/ Step(c)
                        \/ Cancelled(c)

ClientSpec == ClientInit /\ [][ClientNext]_clientVars

\* Requests time out, the breaker's timer runs, and not every request of a
\* caller is cancelled.  Nothing makes callers call, or the service change.
Fairness == /\ WF_clientVars(Reset)
            /\ \A c \in Callers : /\ WF_clientVars(Step(c))
                                 /\ SF_clientVars(Send(c))
                                 /\ SF_clientVars(Answered(c))

FairClientSpec == ClientSpec /\ Fairness
-----------------------------------------------------------------------------
(* Properties.                                                             *)

ClientTypeOK ==
  /\ resource \in {"get_law", "cgr_search"}
  /\ service \in {"up", "failing"}
  /\ breaker \in [state : {"closed", "open", "half-open"},
                  failures : 0..(FailureThreshold - 1),
                  successes : 0..(SuccessThreshold - 1)]
  /\ calls \in [Callers -> [status : {"idle", "ready", "sent", "done"},
                            asked : {"existing", "missing"},
                            tries : 0..(attempts + 1), steady : BOOLEAN,
                            answer : {"none", "document", "not found", "failed",
                                      "rejected", "cancelled"}]]

\* While the service is up, what a call is told about a document is true: no
\* document that exists is "not found", none that does not is found, and
\* neither retries nor the requests of other callers change that
\* (law_client.go:463-470).  A service that fails with 500 throughout makes
\* get_law say "does not exist" of a norm that does.
HonestAnswers ==
  \A c \in Callers : calls[c].steady =>
    /\ calls[c].answer = "document" => calls[c].asked = "existing"
    /\ calls[c].answer = "not found" => calls[c].asked = "missing"

\* Every call ends, through retries, rejections and outages.
EveryCallEnds == \A c \in Callers : calls[c].status # "idle" ~> calls[c].status = "idle"

\* The breaker does not stay open after an outage: once the service is up for
\* good, nobody asks for what does not exist and someone keeps asking, it
\* closes and stays closed.  Lookups of missing norms are excepted because
\* BCN's 500 counts as a failure: they can keep the breaker open for every
\* norm (law_client.go:107-111, 463).
Recovers ==
  (/\ <>[](service = "up" /\ \A c \in Callers : calls[c].asked = "existing")
   /\ []<>(\E c \in Callers : calls[c].status = "ready"))
     => <>[](breaker.state = "closed")

=============================================================================
