--------------------------- MODULE ServiceProcess ---------------------------
(***************************************************************************)
(* The child process that serves one unit: a SoftIrqService running inside *)
(* a multiprocessing.Process forked by the hub.  serve() is                *)
(*                                                                         *)
(*     _setup(); _subscribe_signals(); _serve(); finally: _teardown()      *)
(*                                                                         *)
(* and the module keeps the points of that sequence that a signal, a crash *)
(* or a reader of the exit code can tell apart.                            *)
(***************************************************************************)
EXTENDS Naturals

CONSTANTS
    MaxUnits,   \* units are numbered 1 .. MaxUnits
    Watched,    \* units whose service has a timed WatchDog; others have WatchDogBase
    MaxFaults   \* bound on crashes, hangs, slow steps, escaped exceptions, fork failures

ASSUME ProcessAssumption ==
    /\ MaxUnits \in Nat \ {0}
    /\ Watched \subseteq 1 .. MaxUnits
    /\ MaxFaults \in Nat

Unit == 1 .. MaxUnits

VARIABLES
    stage,      \* where the process of a unit is in serve()
    term,       \* SIGTERM sent by the hub, its Python handler not yet run
    kill,       \* SIGKILL sent by the hub, not yet delivered
    running,    \* _has_running in the child
    stale,      \* the watchdog's is_alive() would answer False
    faults      \* faults spent so far, at most MaxFaults

procVars == <<stage, term, kill, running, stale, faults>>

\* "entry", "step" and "events" are _loop_step(): up to the step, with its signum
\* and the watchdog's __enter__(); the step; the finally clause, where the events
\* are sent.  "hung" is a step() that never returns.  "closing" is the way from
\* the end of the loop, or from sys.exit() in the step, through _teardown(): with
\* sys.exit() it begins in the finally clause, events and all.  "unwinding" is
\* _teardown() while an exception propagates.  "stopped" is exit code 0, "failed" any other.
LiveStage == {"boot", "subscribed", "idle", "entry", "step", "events",
              "hung", "closing", "unwinding"}
Stage == {"initial", "stopped", "failed"} \cup LiveStage

Live(u) == stage[u] \in LiveStage

ProcessTypeOK ==
    /\ stage \in [Unit -> Stage]
    /\ term \in [Unit -> BOOLEAN]
    /\ kill \in [Unit -> BOOLEAN]
    /\ running \in [Unit -> BOOLEAN]
    /\ stale \in [Unit -> BOOLEAN]
    /\ faults \in 0 .. MaxFaults

ProcessInit ==
    /\ stage = [u \in Unit |-> "initial"]
    /\ term = [u \in Unit |-> FALSE]
    /\ kill = [u \in Unit |-> FALSE]
    /\ running = [u \in Unit |-> FALSE]
    /\ stale = [u \in Unit |-> FALSE]
    /\ faults = 0

Move(u, from, to) ==
    /\ stage[u] = from
    /\ stage' = [stage EXCEPT ![u] = to]

Fault ==
    /\ faults < MaxFaults
    /\ faults' = faults + 1

-----------------------------------------------------------------------------
(* The life of a service, in the order of serve().                         *)

\* _setup() succeeded and the child's own signal handlers are installed.
Subscribe(u) ==
    /\ Move(u, "boot", "subscribed")
    /\ UNCHANGED <<term, kill, running, stale>>

\* _serve() begins by setting _has_running, whatever it was.
BeginServe(u) ==
    /\ Move(u, "subscribed", "idle")
    /\ running' = [running EXCEPT ![u] = TRUE]
    /\ UNCHANGED <<term, kill, stale>>

\* The loop condition holds and the next step is due.
BeginIteration(u) ==
    /\ running[u]
    /\ Move(u, "idle", "entry")
    /\ UNCHANGED <<term, kill, running, stale>>

\* The watchdog's context is entered, which generates a heartbeat before the step
\* runs.  The flag of the loop is not read again.
BeginStep(u) ==
    /\ Move(u, "entry", "step")
    /\ stale' = [stale EXCEPT ![u] = FALSE]
    /\ UNCHANGED <<term, kill, running>>

\* A signum handler or __enter__() raised: the step is skipped.  A heartbeat
\* follows if the error is a minor one.
SkipStep(u) ==
    /\ Move(u, "entry", "events")
    /\ stale' \in {stale, [stale EXCEPT ![u] = FALSE]}
    /\ UNCHANGED <<term, kill, running>>

\* The step returned, and a second heartbeat is generated, or it raised: the
\* exception is logged and no heartbeat is generated.
EndStep(u) ==
    /\ Move(u, "step", "events")
    /\ stale' \in {stale, [stale EXCEPT ![u] = FALSE]}
    /\ UNCHANGED <<term, kill, running>>

EndIteration(u) ==
    /\ Move(u, "events", "idle")
    /\ UNCHANGED <<term, kill, running, stale>>

\* sys.exit() inside the step: SystemExit is not an Exception, so nothing stops it
\* but an exception of the watchdog's __exit__() instead of it, which is EndStep.  A
\* sender that raises in the finally clause on the way is Escape from "closing".
ExitStep(u) ==
    /\ Move(u, "step", "closing")
    /\ UNCHANGED <<term, kill, running, stale>>

\* The loop condition fails.
LeaveLoop(u) ==
    /\ ~running[u]
    /\ Move(u, "idle", "closing")
    /\ UNCHANGED <<term, kill, running, stale>>

Teardown(u) ==
    /\ \/ Move(u, "closing", "stopped")
       \/ Move(u, "unwinding", "failed")
    /\ UNCHANGED <<term, kill, running, stale>>

\* The Python handler of SIGTERM.  Until Subscribe the handlers are the ones
\* inherited from the hub through fork: they stop the child's copy of the hub,
\* which nobody runs, and the request is gone.  From then on it is stop().
HandleTerm(u) ==
    /\ term[u]
    /\ Live(u)
    /\ term' = [term EXCEPT ![u] = FALSE]
    /\ running' = IF stage[u] = "boot" THEN running
                                       ELSE [running EXCEPT ![u] = FALSE]
    /\ UNCHANGED <<stage, kill, stale>>

\* The kernel delivers SIGKILL.
Die(u) ==
    /\ kill[u]
    /\ Live(u)
    /\ stage' = [stage EXCEPT ![u] = "failed"]
    /\ UNCHANGED <<term, kill, running, stale>>

-----------------------------------------------------------------------------
(* What may go wrong.                                                      *)

\* A segmentation fault, the OOM killer, os._exit(1).
Crash(u) ==
    /\ Live(u)
    /\ stage' = [stage EXCEPT ![u] = "failed"]
    /\ UNCHANGED <<term, kill, running, stale>>

\* An exception nothing catches: from _setup(), from sending the step's event
\* in the finally clause of _loop_step(), on SystemExit's way too, or from
\* _teardown().
Escape(u) ==
    /\ \E from \in {"boot", "events", "closing"} : Move(u, from, "unwinding")
    /\ UNCHANGED <<term, kill, running, stale>>

Hang(u) ==
    /\ Move(u, "step", "hung")
    /\ UNCHANGED <<term, kill, running, stale>>

\* heartbeat_timeout passes with no heartbeat.  A hung step gets there by
\* waiting; any other process only when it is slow, which is a mishap.
\* The heartbeat is as old as the service object: a unit added long before it
\* is started may be stale before it has run at all.
GoStale(u) ==
    /\ u \in Watched
    /\ ~stale[u]
    /\ stage[u] \in LiveStage \cup {"initial"}
    /\ stale' = [stale EXCEPT ![u] = TRUE]
    /\ UNCHANGED <<stage, term, kill, running>>

\* The steps a process takes when it is scheduled, and the ones it suffers.
Progress(u) ==
    \/ Subscribe(u) \/ BeginServe(u) \/ BeginIteration(u) \/ BeginStep(u)
    \/ SkipStep(u) \/ EndStep(u) \/ EndIteration(u) \/ ExitStep(u) \/ LeaveLoop(u)
    \/ Teardown(u)

Mishap(u) == Crash(u) \/ Escape(u) \/ Hang(u) \/ (stage[u] # "hung" /\ GoStale(u))

\* What needs no mishap.
Regular(u) ==
    Progress(u) \/ HandleTerm(u) \/ Die(u) \/ (stage[u] = "hung" /\ GoStale(u))

\* Mishaps are faults, of which there are at most MaxFaults.
ProcessNext(u) ==
    \/ Regular(u) /\ UNCHANGED faults
    \/ Mishap(u) /\ Fault

-----------------------------------------------------------------------------
(* What all this says of a process that has begun to serve, with or without *)
(* a signal under way, and of any number of mishaps.                       *)

servingVars == <<stage, term, kill, running, stale>>

ServingInit ==
    /\ stage = [u \in Unit |-> "idle"]
    /\ running = [u \in Unit |-> TRUE]
    /\ term \in [Unit -> BOOLEAN]
    /\ kill \in [Unit -> BOOLEAN]
    /\ stale \in [Unit -> BOOLEAN]

ServingSpec == ServingInit /\ [][\E u \in Unit : Regular(u) \/ Mishap(u)]_servingVars
=============================================================================
