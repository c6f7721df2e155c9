--------------------------- MODULE MCSharedParts ---------------------------
(* The parts that every tool stands on and that share no state with one    *)
(* another: the in-memory cache, the HTTP client of a resource, and the    *)
(* HTTP process.  A behaviour is one part's own: which one, Init chooses.  *)
EXTENDS LruHistory, Transport, HttpServer

CONSTANTS k1, k2, k3, k4, k5, e1, e2, c1, c2, r1, r2, r3

MCKey == {k1, k2, k3, k4, k5}

MCEntry == {e1, e2}

MCCallers == {c1, c2}

MCRequest == {r1, r2, r3}

VARIABLE part

partVars == <<vars, clientVars, serverVars, part>>

PartInit == /\ part \in {"cache", "client", "server"}
            /\ Init
            /\ ClientInit
            /\ ServerInit

PartNext ==
  /\ UNCHANGED part
  /\ \/ part = "cache" /\ Next /\ UNCHANGED <<clientVars, serverVars>>
     \/ part = "client" /\ ClientNext /\ UNCHANGED <<vars, serverVars>>
     \/ part = "server" /\ ServerNext /\ UNCHANGED <<vars, clientVars>>

\* The fairness of the two parts that have one.  The client's holds of itself
\* while another part moves: none of its fair actions is enabled then.
PartFairness ==
  /\ Fairness
  /\ WF_serverVars(part = "server" /\ (Listen \/ ListenFails \/ ListenReturns \/ Exit))
  /\ WF_serverVars(part = "server" /\ CallShutdown)

PartSpec == PartInit /\ [][PartNext]_partVars /\ PartFairness

=============================================================================
