------------------------------ MODULE HubClaims ------------------------------
(***************************************************************************)
(* What the comments and docstrings of the hub say of it and its steps do  *)
(* not always keep.  Each of these is refuted by a run of its own.         *)
(***************************************************************************)
EXTENDS Hub

\* "Stop all services in driver": when serve() is over, also by an exception,
\* no process of a unit is left.  (BaseDriver.stop_all_services())
NoProcessOutlivesServe ==
    pc \in {"closed", "aborted"} => \A u \in Unit : ~Live(u)

\* "Wait all existing services to stop": the wait of a shutdown ends.
\* (BaseDriver.wait_all_services(), with stop_all_services() before it)
WaitAllEnds == pc = "waitall" ~> pc = "closed"
=============================================================================
