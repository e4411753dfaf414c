---------------------------- MODULE ProcessDriver ----------------------------
(***************************************************************************)
(* ProcessDriver: what the hub can do to the processes of its units, and   *)
(* what it can see of them.  The operations are written as the hub calls   *)
(* them; each one is a part of a hub's step, composed in module Hub.       *)
(***************************************************************************)
EXTENDS ServiceProcess

VARIABLE
    forced      \* the driver's mark FORCIBLY_STOPPED_KEY of each unit

driverVars == <<stage, term, kill, running, stale, forced>>

State == {"INITIAL", "RUNNING", "STOPPED", "FAILED", "NUMB"}
TargetState == {"RUNNING", "STOPPED"}

DriverTypeOK == ProcessTypeOK /\ forced \in [Unit -> BOOLEAN]

DriverInit == ProcessInit /\ forced = [u \in Unit |-> FALSE]

-----------------------------------------------------------------------------
(* Sensor.                                                                 *)

ProcessState(u) ==
    CASE stage[u] = "initial" -> "INITIAL"
      [] Live(u)              -> "RUNNING"
      [] stage[u] = "stopped" -> "STOPPED"
      [] stage[u] = "failed"  -> "FAILED"

\* Mutant: the watchdog is not asked.
ServiceState_NoWatchdog(u) ==
    IF forced[u] /\ ~Live(u) THEN "STOPPED" ELSE ProcessState(u)

\* The mark overrides the state of a process that is not running, and a stale
\* watchdog the state of one that is.
ServiceState(u) ==
    IF Live(u) THEN IF stale[u] THEN "NUMB" ELSE "RUNNING"
               ELSE IF forced[u] THEN "STOPPED" ELSE ProcessState(u)

-----------------------------------------------------------------------------
(* Actuators.                                                              *)

\* Mutant: the mark is not cleared.
InitService_MarkKept(u) ==
    /\ stage' = [stage EXCEPT ![u] = "initial"]
    /\ term' = [term EXCEPT ![u] = FALSE]
    /\ kill' = [kill EXCEPT ![u] = FALSE]
    /\ running' = [running EXCEPT ![u] = FALSE]
    /\ stale' = [stale EXCEPT ![u] = FALSE]
    /\ UNCHANGED forced

\* Mutant: the watchdog of the old service is kept.
InitService_StaleKept(u) ==
    /\ stage' = [stage EXCEPT ![u] = "initial"]
    /\ term' = [term EXCEPT ![u] = FALSE]
    /\ kill' = [kill EXCEPT ![u] = FALSE]
    /\ running' = [running EXCEPT ![u] = FALSE]
    /\ forced' = [forced EXCEPT ![u] = FALSE]
    /\ UNCHANGED stale

\* A new service object, with a new watchdog, in a new process object that is
\* not started yet; the mark is cleared.  The old process object is dropped.
InitService(u) ==
    /\ stage' = [stage EXCEPT ![u] = "initial"]
    /\ term' = [term EXCEPT ![u] = FALSE]
    /\ kill' = [kill EXCEPT ![u] = FALSE]
    /\ running' = [running EXCEPT ![u] = FALSE]
    /\ stale' = [stale EXCEPT ![u] = FALSE]
    /\ forced' = [forced EXCEPT ![u] = FALSE]

\* Process.start() forks.
StartProcess(u) ==
    /\ Move(u, "initial", "boot")
    /\ UNCHANGED <<term, kill, running, stale, forced>>

SetStopped(u) ==
    /\ forced' = [forced EXCEPT ![u] = TRUE]
    /\ UNCHANGED <<stage, term, kill, running, stale>>

\* Process.terminate() on a process that was started: nothing happens when it
\* has exited.  (On one that was not started it raises: see Hub.)
Terminate(u) ==
    /\ stage[u] # "initial"
    /\ term' = [term EXCEPT ![u] = Live(u)]
    /\ UNCHANGED <<stage, kill, running, stale, forced>>

\* os.kill(pid, 9); the wait of 0.1 second that follows it is a step of the hub.
SendKill(u) ==
    /\ kill' = [kill EXCEPT ![u] = TRUE]
    /\ UNCHANGED <<stage, term, running, stale, forced>>
=============================================================================
