----------------------------- MODULE HttpServer -----------------------------
(***************************************************************************)
(* The life of the HTTP process in cmd/lex-chile-mcp/main.go: the main     *)
(* goroutine sits in ListenAndServe, a second goroutine waits for the      *)
(* signal and calls Shutdown, and net/http (external) runs one goroutine   *)
(* per request.  When main returns the process ends, and with it every     *)
(* other goroutine.                                                        *)
(***************************************************************************)
EXTENDS Naturals

CONSTANTS Request   \* the requests clients send, each on a connection of its own

VARIABLES main,        \* the main goroutine
          shutdown,    \* the goroutine that waits for the signal
          signalled,   \* SIGINT or SIGTERM arrived: the context is done
          listener,    \* the listening socket
          requests,    \* what became of each request
          exitCode     \* the status of the process once it ended

serverVars == <<main, shutdown, signalled, listener, requests, exitCode>>

NoCode == 255

-----------------------------------------------------------------------------
ServerInit == /\ main = "starting"
              /\ shutdown = "waiting"
              /\ signalled = FALSE
              /\ listener = "unopened"
              /\ requests = [r \in Request |-> "unsent"]
              /\ exitCode = NoCode

Alive == main # "exited"

\* ListenAndServe opens the socket ...
Listen == /\ main = "starting"
          /\ shutdown = "waiting"
          /\ main' = "serving"
          /\ listener' = "open"
          /\ UNCHANGED <<shutdown, signalled, requests, exitCode>>

\* ... or cannot (the port is taken), and runHTTP returns its error.
ListenFails == /\ main = "starting"
               /\ shutdown = "waiting"
               /\ main' = "failed"
               /\ UNCHANGED <<shutdown, signalled, listener, requests, exitCode>>

Accept(r) == /\ Alive
             /\ listener = "open"
             /\ requests[r] = "unsent"
             /\ requests' = [requests EXCEPT ![r] = "active"]
             /\ UNCHANGED <<main, shutdown, signalled, listener, exitCode>>

Finish(r) == /\ Alive
             /\ requests[r] = "active"
             /\ requests' = [requests EXCEPT ![r] = "answered"]
             /\ UNCHANGED <<main, shutdown, signalled, listener, exitCode>>

Signal == /\ Alive
          /\ ~signalled
          /\ signalled' = TRUE
          /\ UNCHANGED <<main, shutdown, listener, requests, exitCode>>

\* A slip: the goroutine drains but the listener is left open.
CallShutdownOpen == /\ Alive
                    /\ signalled
                    /\ shutdown = "waiting"
                    /\ shutdown' = "draining"
                    /\ UNCHANGED <<main, signalled, listener, requests, exitCode>>

\* The goroutine wakes and calls Shutdown, which first closes the listener
\* and then waits for the requests under way.
CallShutdown == /\ Alive
                /\ signalled
                /\ shutdown = "waiting"
                /\ shutdown' = "draining"
                /\ listener' = "closed"
                /\ UNCHANGED <<main, signalled, requests, exitCode>>

Drained == /\ Alive
           /\ shutdown = "draining"
           /\ \A r \in Request : requests[r] # "active"
           /\ shutdown' = "drained"
           /\ UNCHANGED <<main, signalled, listener, requests, exitCode>>

\* Ten seconds passed: Shutdown gives up on the requests still under way.
DrainTimesOut == /\ Alive
                 /\ shutdown = "draining"
                 /\ \E r \in Request : requests[r] = "active"
                 /\ shutdown' = "timedOut"
                 /\ UNCHANGED <<main, signalled, listener, requests, exitCode>>

\* A slip: ErrServerClosed, the normal end, reported as an error.
ListenReturnsError == /\ main \in {"starting", "serving"}
                      /\ shutdown # "waiting"
                      /\ main' = "failed"
                      /\ UNCHANGED <<shutdown, signalled, listener, requests, exitCode>>

\* A slip: main waits for the drain to succeed, which it never may.
ListenReturnsDrained == /\ main \in {"starting", "serving"}
                        /\ shutdown = "drained"
                        /\ main' = "returned"
                        /\ UNCHANGED <<shutdown, signalled, listener, requests, exitCode>>

\* ListenAndServe returns ErrServerClosed as soon as Shutdown was called,
\* and runHTTP returns nil without waiting for the goroutine.
ListenReturns == /\ main \in {"starting", "serving"}
                 /\ shutdown # "waiting"
                 /\ main' = "returned"
                 /\ UNCHANGED <<shutdown, signalled, listener, requests, exitCode>>

\* main returns, or calls os.Exit(1): requests under way are cut off.
Exit == /\ main \in {"returned", "failed"}
        /\ main' = "exited"
        /\ exitCode' = IF main = "returned" THEN 0 ELSE 1
        /\ requests' = [r \in Request |-> IF requests[r] = "active"
                                          THEN "cut" ELSE requests[r]]
        /\ listener' = "closed"
        /\ UNCHANGED <<shutdown, signalled>>

ServerNext == \/ Listen \/ ListenFails \/ Signal \/ CallShutdown \/ Drained
              \/ DrainTimesOut \/ ListenReturns \/ Exit
              \/ \E r \in Request : Accept(r) \/ Finish(r)

ServerSpec == ServerInit /\ [][ServerNext]_serverVars

\* The two goroutines run when they can; nothing is assumed of requests.
FairServerSpec == /\ ServerSpec
                  /\ WF_serverVars(Listen \/ ListenFails \/ ListenReturns \/ Exit)
                  /\ WF_serverVars(CallShutdown)

-----------------------------------------------------------------------------
\* The states of the goroutines, of the socket and of the requests; a
\* process that ended has a status and runs no request.
ServerTypeOK == /\ main \in {"starting", "serving", "returned", "failed", "exited"}
                /\ shutdown \in {"waiting", "draining", "drained", "timedOut"}
                /\ signalled \in BOOLEAN
                /\ listener \in {"unopened", "open", "closed"}
                /\ requests \in [Request -> {"unsent", "active", "answered", "cut"}]
                /\ exitCode \in {0, 1, NoCode}
                /\ main = "exited" => /\ exitCode # NoCode
                                      /\ \A r \in Request : requests[r] # "active"

\* "deja de aceptar conexiones nuevas" (mcp-server spec): once the shutdown
\* goroutine acts, no request is taken on any more, in any interleaving with
\* the start of the server.
NoNewWorkInShutdown ==
    [][shutdown # "waiting" =>
         \A r \in Request : requests[r] = "unsent" => requests'[r] = "unsent"]_serverVars

\* "sale con codigo de salida 0": a process that took on any request, and so
\* can only have ended because it was told to, never reports an error.
ServerExitsCleanly ==
    exitCode = 1 => \A r \in Request : requests[r] = "unsent"

\* A signalled process ends, even while a request never finishes.
SignalEndsProcess == signalled ~> main = "exited"

\* "Graceful shutdown: wait for signal, then drain" (main.go) and "cierra las
\* activas con un tiempo limite": a request under way is cut off only after
\* Shutdown ran out of its ten seconds.
CutOnlyAfterDeadline ==
    \A r \in Request : requests[r] = "cut" => shutdown = "timedOut"

=============================================================================
