----------------------------- MODULE Supervisor -----------------------------
(***************************************************************************)
(* What a hub promises, without saying how: it runs at most one process    *)
(* for a unit, starts one only for a unit that is to be running, starts    *)
(* none once it has begun to shut down, and does not go away before the    *)
(* last process has ended.  Processes may end at any time for reasons of   *)
(* their own.                                                              *)
(***************************************************************************)
CONSTANT Unit

VARIABLES
    wanted,   \* units that are to be running
    up,       \* units with a running process
    phase     \* "serving", "stopping", "gone"

supervisorVars == <<wanted, up, phase>>

Init ==
    /\ wanted = {}
    /\ up = {}
    /\ phase = "serving"

Want(u) ==
    /\ phase = "serving"
    /\ wanted' = wanted \cup {u}
    /\ UNCHANGED <<up, phase>>

Unwant(u) ==
    /\ phase = "serving"
    /\ wanted' = wanted \ {u}
    /\ UNCHANGED <<up, phase>>

Start(u) ==
    /\ phase = "serving"
    /\ u \in wanted \ up
    /\ up' = up \cup {u}
    /\ UNCHANGED <<wanted, phase>>

End(u) ==
    /\ u \in up
    /\ up' = up \ {u}
    /\ UNCHANGED <<wanted, phase>>

BeginStopping ==
    /\ phase = "serving"
    /\ phase' = "stopping"
    /\ UNCHANGED <<wanted, up>>

Leave ==
    /\ phase = "stopping"
    /\ up = {}
    /\ phase' = "gone"
    /\ UNCHANGED <<wanted, up>>

Next ==
    \/ \E u \in Unit : Want(u) \/ Unwant(u) \/ Start(u) \/ End(u)
    \/ BeginStopping
    \/ Leave

Spec == Init /\ [][Next]_supervisorVars
=============================================================================
