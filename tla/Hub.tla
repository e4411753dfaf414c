-------------------------------- MODULE Hub --------------------------------
(***************************************************************************)
(* A hub: the SoftIrqService whose step makes the controller look at the   *)
(* state of every unit and drive it to its target, and whose teardown      *)
(* stops and joins the processes of all units.  The hub is one thread; its *)
(* steps interleave with the processes of its units and with the signals   *)
(* sent to it.                                                             *)
(*                                                                         *)
(* PanicStates selects the controller.  With the empty set it is           *)
(* AlwaysForceTargetStateController; with {"FAILED", "NUMB"} it is         *)
(* PanicController, whose manage() is the same loop with one more test.    *)
(*                                                                         *)
(* The iteration order of the driver's and the hub's dicts is the order of *)
(* the unit numbers.  InsertionOrder says that a dict keeps the order in   *)
(* which its keys were added (Python 3.7; CPython 3.6), so that a unit is  *)
(* added behind all the present ones; without it (Python 2.7, a hash       *)
(* order) a new unit may come anywhere.                                    *)
(***************************************************************************)
EXTENDS ProcessDriver

CONSTANTS
    PanicStates,      \* _panic_states of the controller
    InsertionOrder,   \* dicts iterate in insertion order
    Targets,          \* target states units may be given
    MaxCalls          \* bound on add_unit, update_unit, remove_unit while serving

ASSUME HubAssumption ==
    /\ PanicStates \subseteq {"FAILED", "NUMB"}
    /\ InsertionOrder \in BOOLEAN
    /\ Targets \subseteq TargetState
    /\ MaxCalls \in Nat

VARIABLES
    pc,          \* where the hub is, see PC
    units,       \* keys of _units of the hub and of _services of the driver
    target,      \* _units[u].state
    seen,        \* current_states of manage(), "NONE" where not filled in
    todo,        \* units the current for loop has still to visit
    cur,         \* the unit whose state is being set, 0 for none
    ctrlStop,    \* _stop of the controller
    hasRunning,  \* _has_running of the hub
    late,        \* processes started since stop() was called, counted up to 2
    calls        \* API calls made while serving, at most MaxCalls

hubVars == <<pc, units, target, seen, todo, cur, ctrlStop, hasRunning, late, calls>>
vars == <<stage, term, kill, running, stale, faults, forced,
          pc, units, target, seen, todo, cur, ctrlStop, hasRunning, late, calls>>

\* "new"       constructed, units are being added, serve() not called
\* "ready"     signal handlers installed, the loop not entered
\* "loop"      at the loop condition, between two steps
\* "observe"   driver.get_states()
\* "manage"    the for loop of manage()
\* "apply"     driver.set_state() of cur
\* "start"     Process.start() of cur
\* "killing"   waiting 0.1 second for cur after SIGKILL
\* "fast"      PanicController._fast_stop()
\* "fastkill"  the same wait inside _fast_stop()
\* "remove"    remove_unit() joins cur
\* "stopall", "waitall"   the two loops of _shutdown()
\* "closed"    serve() returned after a complete teardown
\* "aborted"   serve() raised out of its teardown
\* "exited"    the hub's interpreter is gone
PC == {"new", "ready", "loop", "observe", "manage", "apply", "start", "killing",
       "fast", "fastkill", "remove", "stopall", "waitall", "closed", "aborted",
       "exited"}

TypeOK ==
    /\ DriverTypeOK
    /\ pc \in PC
    /\ units \subseteq Unit
    /\ target \in [Unit -> TargetState]
    /\ seen \in [Unit -> State \cup {"NONE"}]
    /\ todo \subseteq Unit
    /\ cur \in Unit \cup {0}
    /\ ctrlStop \in BOOLEAN
    /\ hasRunning \in BOOLEAN
    /\ late \in 0 .. 2
    /\ calls \in 0 .. MaxCalls

Unseen == [u \in Unit |-> "NONE"]

Init ==
    /\ DriverInit
    /\ pc = "new"
    /\ units = {}
    /\ target = [u \in Unit |-> "STOPPED"]
    /\ seen = Unseen
    /\ todo = {}
    /\ cur = 0
    /\ ctrlStop = FALSE
    /\ hasRunning = FALSE
    /\ late = 0
    /\ calls = 0

\* The next unit of a for loop over a dict.
IsNext(u) == u \in todo /\ \A v \in todo : u <= v

\* A for loop over all units, or what follows it when there is none.
Sweep(loop) == pc' = loop /\ todo' = units

\* The for loop at pc = loop leaves u behind; the next one begins after the last.
Visit(u, loop, next) ==
    IF todo = {u} THEN Sweep(next)
                  ELSE pc' = loop /\ todo' = todo \ {u}

\* manage() returns: its local variables are gone.
EndPass ==
    /\ pc' = "loop"
    /\ seen' = Unseen
    /\ todo' = {}
    /\ cur' = 0

\* manage() raised: BaseHub._step() calls stop(), and nothing else is done.
StopHub ==
    /\ EndPass
    /\ ctrlStop' = TRUE
    /\ hasRunning' = FALSE
    /\ UNCHANGED <<units, target, late, calls>>

-----------------------------------------------------------------------------
(* The API.  The hub is served by the thread that owns it, so its methods  *)
(* are called before serve() or, by a subclass or a controller, between    *)
(* two passes of manage().                                                 *)

Call ==
    \/ pc = "new" /\ UNCHANGED calls
    \/ pc = "loop" /\ calls < MaxCalls /\ calls' = calls + 1

\* Mutant: a new unit may come before the present ones.
AddUnit_AnyOrder(u, t) ==
    /\ Call
    /\ u \notin units
    /\ t \in Targets
    /\ InitService(u)
    /\ units' = units \cup {u}
    /\ target' = [target EXCEPT ![u] = t]
    /\ UNCHANGED <<faults, pc, seen, todo, cur, ctrlStop, hasRunning, late>>

\* validate_target_state() refuses any other state; the call changes nothing.
AddUnit(u, t) ==
    /\ Call
    /\ u \notin units
    /\ InsertionOrder => \A v \in units : v < u
    /\ t \in Targets
    /\ InitService(u)
    /\ units' = units \cup {u}
    /\ target' = [target EXCEPT ![u] = t]
    /\ UNCHANGED <<faults, pc, seen, todo, cur, ctrlStop, hasRunning, late>>

\* Mutant: the new state is not validated.
UpdateUnit_NotValidated(u, t) ==
    /\ Call
    /\ u \in units
    /\ target' = [target EXCEPT ![u] = t]
    /\ UNCHANGED driverVars
    /\ UNCHANGED <<faults, pc, units, seen, todo, cur, ctrlStop, hasRunning, late>>

UpdateUnit(u, t) ==
    /\ Call
    /\ u \in units
    /\ t \in Targets \ {target[u]}
    /\ target' = [target EXCEPT ![u] = t]
    /\ UNCHANGED driverVars
    /\ UNCHANGED <<faults, pc, units, seen, todo, cur, ctrlStop, hasRunning, late>>

\* remove_unit() signals the process, then joins it.  For a process that was
\* not started terminate() raises and the call changes nothing.
RemoveUnit(u) ==
    /\ pc = "loop"
    /\ Call
    /\ u \in units
    /\ Terminate(u)
    /\ pc' = "remove"
    /\ cur' = u
    /\ UNCHANGED <<faults, units, target, seen, todo, ctrlStop, hasRunning, late>>

\* Mutant: the process is signalled and not waited for.
RemoveJoined_NoWait ==
    /\ pc = "remove"
    /\ pc' = "loop"
    /\ units' = units \ {cur}
    /\ cur' = 0
    /\ UNCHANGED driverVars
    /\ UNCHANGED <<faults, target, seen, todo, ctrlStop, hasRunning, late, calls>>

RemoveJoined ==
    /\ pc = "remove"
    /\ ~Live(cur)
    /\ pc' = "loop"
    /\ units' = units \ {cur}
    /\ cur' = 0
    /\ UNCHANGED driverVars
    /\ UNCHANGED <<faults, target, seen, todo, ctrlStop, hasRunning, late, calls>>

-----------------------------------------------------------------------------
(* serve(): setup, the loop, and the signal that ends it.                  *)

Subscribed ==
    /\ pc = "new"
    /\ pc' = "ready"
    /\ UNCHANGED driverVars
    /\ UNCHANGED <<faults, units, target, seen, todo, cur, ctrlStop, hasRunning, late, calls>>

EnterLoop ==
    /\ pc = "ready"
    /\ pc' = "loop"
    /\ hasRunning' = TRUE
    /\ UNCHANGED driverVars
    /\ UNCHANGED <<faults, units, target, seen, todo, cur, ctrlStop, late, calls>>

\* SIGTERM or SIGINT to the hub runs BaseHub.stop(): the controller is told,
\* then the loop.  Ctrl-C reaches the whole process group, children included.
Signal(toGroup) ==
    /\ pc \notin {"new", "exited"}
    /\ ctrlStop' = TRUE
    /\ hasRunning' = FALSE
    /\ term' = [u \in Unit |-> term[u] \/ (toGroup /\ Live(u))]
    /\ UNCHANGED <<stage, kill, running, stale, forced, faults>>
    /\ UNCHANGED <<pc, units, target, seen, todo, cur, late, calls>>

\* Mutant: the loop condition is not read before a step.
BeginPass_Always ==
    /\ pc = "loop"
    /\ units # {}
    /\ Sweep("observe")
    /\ UNCHANGED driverVars
    /\ UNCHANGED <<faults, units, target, seen, cur, ctrlStop, hasRunning, late, calls>>

BeginPass ==
    /\ pc = "loop"
    /\ hasRunning
    /\ units # {}
    /\ Sweep("observe")
    /\ UNCHANGED driverVars
    /\ UNCHANGED <<faults, units, target, seen, cur, ctrlStop, hasRunning, late, calls>>

BeginShutdown ==
    /\ pc = "loop"
    /\ ~hasRunning
    /\ IF units = {} THEN pc' = "closed" /\ todo' = {} ELSE Sweep("stopall")
    /\ UNCHANGED driverVars
    /\ UNCHANGED <<faults, units, target, seen, cur, ctrlStop, hasRunning, late, calls>>

-----------------------------------------------------------------------------
(* One pass of manage().                                                   *)

Observe(u) ==
    /\ pc = "observe"
    /\ IsNext(u)
    /\ seen' = [seen EXCEPT ![u] = ServiceState(u)]
    /\ Visit(u, "observe", "manage")
    /\ UNCHANGED driverVars
    /\ UNCHANGED <<faults, units, target, cur, ctrlStop, hasRunning, late, calls>>

\* Mutant: the stop flag is not read.
Manage_StopNotRead(u) ==
    /\ pc = "manage"
    /\ IsNext(u)
    /\ IF seen[u] \in PanicStates
         THEN Sweep("fast") /\ UNCHANGED cur
         ELSE pc' = "apply" /\ todo' = todo \ {u} /\ cur' = u
    /\ UNCHANGED driverVars
    /\ UNCHANGED <<faults, units, target, seen, ctrlStop, hasRunning, late, calls>>

\* Mutant: a failed unit is no reason to panic, only a numb one.
Manage_FailedIgnored(u) ==
    /\ pc = "manage"
    /\ IsNext(u)
    /\ ~ctrlStop
    /\ IF seen[u] \in PanicStates \ {"FAILED"}
         THEN Sweep("fast") /\ UNCHANGED cur
         ELSE pc' = "apply" /\ todo' = todo \ {u} /\ cur' = u
    /\ UNCHANGED driverVars
    /\ UNCHANGED <<faults, units, target, seen, ctrlStop, hasRunning, late, calls>>

\* The stop flag is read at the top of the for loop, and only there.
Manage(u) ==
    /\ pc = "manage"
    /\ IsNext(u)
    /\ ~ctrlStop
    /\ IF seen[u] \in PanicStates
         THEN Sweep("fast") /\ UNCHANGED cur
         ELSE pc' = "apply" /\ todo' = todo \ {u} /\ cur' = u
    /\ UNCHANGED driverVars
    /\ UNCHANGED <<faults, units, target, seen, ctrlStop, hasRunning, late, calls>>

EndManage ==
    /\ pc = "manage"
    /\ ctrlStop \/ todo = {}
    /\ EndPass
    /\ UNCHANGED driverVars
    /\ UNCHANGED <<faults, units, target, ctrlStop, hasRunning, late, calls>>

\* driver.set_state(cur, seen, target) dispatches on both states.
Apply(old, new) ==
    /\ pc = "apply"
    /\ seen[cur] \in old
    /\ target[cur] = new

Goto(next) ==
    /\ pc' = next
    /\ UNCHANGED <<units, target, seen, todo, cur, ctrlStop, hasRunning, late, calls>>

AsWanted ==
    /\ \/ Apply({"RUNNING"}, "RUNNING")
       \/ Apply({"STOPPED"}, "STOPPED")
    /\ UNCHANGED driverVars
    /\ Goto("manage")
    /\ UNCHANGED faults

FirstStart ==
    /\ Apply({"INITIAL"}, "RUNNING")
    /\ UNCHANGED driverVars
    /\ Goto("start")
    /\ UNCHANGED faults

MarkStopped ==
    /\ Apply({"INITIAL", "FAILED"}, "STOPPED")
    /\ SetStopped(cur)
    /\ Goto("manage")
    /\ UNCHANGED faults

\* Mutant: the handler of STOPPED from FAILED is in the table for RUNNING.
Stop_OnlyMarked ==
    /\ Apply({"RUNNING"}, "STOPPED")
    /\ SetStopped(cur)
    /\ Goto("manage")
    /\ UNCHANGED faults

Stop ==
    /\ Apply({"RUNNING"}, "STOPPED")
    /\ Terminate(cur)
    /\ Goto("manage")
    /\ UNCHANGED faults

\* Mutant: the state of the old process is not looked at.
Renew_Unchecked == InitService(cur) /\ Goto("start")

\* A new process for cur, or UnexpectedServiceState when the old one runs.
Renew ==
    IF Live(cur) THEN UNCHANGED driverVars /\ StopHub
                 ELSE InitService(cur) /\ Goto("start")

\* Mutant: the handlers of RUNNING and STOPPED are swapped in the table.
StartAgain_OnlyMarked ==
    /\ Apply({"STOPPED", "FAILED"}, "RUNNING")
    /\ SetStopped(cur)
    /\ Goto("manage")
    /\ UNCHANGED faults

StartAgain ==
    /\ Apply({"STOPPED", "FAILED"}, "RUNNING")
    /\ Renew
    /\ UNCHANGED faults

\* Mutant: STOPPED from NUMB has the handler that restarts.
AfterKill_AlwaysRestarts == Renew

\* After the kill: a unit that should run is renewed, any other is left.
AfterKill ==
    \/ target[cur] = "RUNNING" /\ Renew
    \/ target[cur] = "STOPPED" /\ UNCHANGED driverVars /\ Goto("manage")

Kill ==
    /\ \E new \in TargetState : Apply({"NUMB"}, new)
    /\ IF Live(cur) THEN SendKill(cur) /\ Goto("killing") ELSE AfterKill
    /\ UNCHANGED faults

\* join(timeout=0.1) returns, the process being gone or not.
KillJoined ==
    /\ pc = "killing"
    /\ AfterKill
    /\ UNCHANGED faults

Started ==
    /\ pc = "start"
    /\ StartProcess(cur)
    /\ pc' = "manage"
    /\ late' = IF ctrlStop /\ late < 2 THEN late + 1 ELSE late
    /\ UNCHANGED <<faults, units, target, seen, todo, cur, ctrlStop, hasRunning, calls>>

\* fork() fails.
StartFailed ==
    /\ pc = "start"
    /\ Fault
    /\ UNCHANGED driverVars
    /\ StopHub

-----------------------------------------------------------------------------
(* PanicController._fast_stop(): set_state(u, seen, STOPPED) for all units. *)

FastStop(u) ==
    /\ pc = "fast"
    /\ IsNext(u)
    /\ todo' = todo \ {u}
    /\ cur' = u
    /\ \/ seen[u] = "STOPPED" /\ UNCHANGED driverVars /\ pc' = "fast"
       \/ seen[u] \in {"INITIAL", "FAILED"} /\ SetStopped(u) /\ pc' = "fast"
       \/ seen[u] = "RUNNING" /\ Terminate(u) /\ pc' = "fast"
       \/ /\ seen[u] = "NUMB"
          /\ IF Live(u) THEN SendKill(u) /\ pc' = "fastkill"
                        ELSE UNCHANGED driverVars /\ pc' = "fast"
    /\ UNCHANGED <<faults, units, target, seen, ctrlStop, hasRunning, late, calls>>

FastKillJoined ==
    /\ pc = "fastkill"
    /\ UNCHANGED driverVars
    /\ Goto("fast")
    /\ UNCHANGED faults

\* Mutant: StopHub is logged and the hub is not stopped.
Panicked_GoOn ==
    /\ pc = "fast"
    /\ todo = {}
    /\ UNCHANGED driverVars
    /\ EndPass
    /\ UNCHANGED <<faults, units, target, ctrlStop, hasRunning, late, calls>>

\* exceptions.StopHub reaches BaseHub._step().
Panicked ==
    /\ pc = "fast"
    /\ todo = {}
    /\ UNCHANGED driverVars
    /\ StopHub
    /\ UNCHANGED faults

-----------------------------------------------------------------------------
(* _teardown(): stop everything, join everything.                          *)

\* Mutant: the processes are joined without being told to end.
StopOne_NoSignal(u) ==
    /\ pc = "stopall"
    /\ IsNext(u)
    /\ stage[u] # "initial"
    /\ UNCHANGED driverVars
    /\ Visit(u, "stopall", "waitall")
    /\ UNCHANGED <<faults, units, target, seen, cur, ctrlStop, hasRunning, late, calls>>

StopOne(u) ==
    /\ pc = "stopall"
    /\ IsNext(u)
    /\ Terminate(u)
    /\ Visit(u, "stopall", "waitall")
    /\ UNCHANGED <<faults, units, target, seen, cur, ctrlStop, hasRunning, late, calls>>

\* terminate() of a process that was never started raises AttributeError,
\* which _stop_service() does not catch: both loops and the rest of the
\* teardown are skipped.
StopRaises(u) ==
    /\ pc = "stopall"
    /\ IsNext(u)
    /\ stage[u] = "initial"
    /\ pc' = "aborted"
    /\ todo' = {}
    /\ UNCHANGED driverVars
    /\ UNCHANGED <<faults, units, target, seen, cur, ctrlStop, hasRunning, late, calls>>

\* Mutant: join() with a timeout, its outcome not looked at.
JoinOne_TimesOut(u) ==
    /\ pc = "waitall"
    /\ IsNext(u)
    /\ IF todo = {u} THEN pc' = "closed" /\ todo' = {}
                     ELSE pc' = "waitall" /\ todo' = todo \ {u}
    /\ UNCHANGED driverVars
    /\ UNCHANGED <<faults, units, target, seen, cur, ctrlStop, hasRunning, late, calls>>

\* join() without a timeout; one that was never started is skipped.
JoinOne(u) ==
    /\ pc = "waitall"
    /\ IsNext(u)
    /\ ~Live(u)
    /\ IF todo = {u} THEN pc' = "closed" /\ todo' = {}
                     ELSE pc' = "waitall" /\ todo' = todo \ {u}
    /\ UNCHANGED driverVars
    /\ UNCHANGED <<faults, units, target, seen, cur, ctrlStop, hasRunning, late, calls>>

\* The interpreter ends; multiprocessing joins the children that are left.
Exit ==
    /\ pc \in {"closed", "aborted"}
    /\ \A u \in Unit : ~Live(u)
    /\ pc' = "exited"
    /\ UNCHANGED driverVars
    /\ UNCHANGED <<faults, units, target, seen, todo, cur, ctrlStop, hasRunning, late, calls>>

-----------------------------------------------------------------------------

Api ==
    \E u \in Unit : \/ \E t \in State : AddUnit(u, t) \/ UpdateUnit(u, t)
                    \/ RemoveUnit(u)

HubStep ==
    \/ RemoveJoined \/ Subscribed \/ EnterLoop \/ BeginPass \/ BeginShutdown
    \/ EndManage \/ AsWanted \/ FirstStart \/ MarkStopped \/ Stop
    \/ StartAgain \/ Kill \/ KillJoined \/ Started
    \/ FastKillJoined \/ Panicked \/ Exit
    \/ \E u \in Unit : \/ Observe(u) \/ Manage(u) \/ FastStop(u)
                       \/ StopOne(u) \/ StopRaises(u) \/ JoinOne(u)

ChildStep(u) == ProcessNext(u) /\ UNCHANGED hubVars /\ UNCHANGED forced

\* The hub's process has nothing left to do.
Finished == pc = "exited" /\ UNCHANGED vars

Next ==
    \/ Api
    \/ HubStep
    \/ StartFailed
    \/ \E toGroup \in BOOLEAN : Signal(toGroup)
    \/ \E u \in Unit : ChildStep(u)
    \/ Finished

Spec == Init /\ [][Next]_vars

\* Scheduling: the hub's thread and the processes of the units run, signals
\* that were sent are delivered, and time passes for a hung step.  Nothing is
\* assumed of API calls, of signals to the hub, of faults, or of the outcome of
\* a step.
Fairness ==
    /\ WF_vars(HubStep)
    /\ \A u \in Unit :
         /\ WF_vars(ChildStep(u) /\ Progress(u))
         /\ WF_vars(ChildStep(u) /\ HandleTerm(u))
         /\ WF_vars(ChildStep(u) /\ Die(u))
         /\ WF_vars(ChildStep(u) /\ stage[u] = "hung" /\ GoStale(u))

FairSpec == Spec /\ Fairness

\* With nobody but the hub sure to run.
HubFairSpec == Spec /\ WF_vars(HubStep)

-----------------------------------------------------------------------------
(* Safety.                                                                 *)

\* The mark FORCIBLY_STOPPED is only ever on a unit without a running process:
\* it is set from an observation made earlier in the pass, and it would hide
\* the failure of a process it is on.  (_set_stopped_state_handler, _init_service)
ForcedNotRunning == \A u \in Unit : forced[u] => ~Live(u)

\* Units whose observation the pass still has to act on.
Pending ==
    CASE pc = "observe" -> units \ todo
      [] pc = "apply"   -> todo \cup {cur}
      [] pc \in {"manage", "start", "killing", "fast", "fastkill"} -> todo
      [] OTHER          -> {}

\* What the pass has seen of a unit without a running process is still so when
\* it acts on it, however long the pass took.  So UnexpectedServiceState is
\* raised only after a kill, and _fast_stop() marks no process that runs.
\* (manage() uses a snapshot taken by get_states() before its first set_state())
SnapshotHolds ==
    \A u \in Pending :
        /\ seen[u] = "INITIAL" => stage[u] = "initial"
        /\ seen[u] = "FAILED" => ~Live(u)
        /\ seen[u] = "STOPPED" /\ pc \notin {"fast", "fastkill"} => ~Live(u)

\* Once stop() has been called at most one more process is started: the one
\* whose turn had come when the flag was last read.  (manage(), "_stop")
AtMostOneLateStart == late <= 1

\* When serve() returns from a complete teardown no process is left running.
\* (_shutdown())
ServeReturnsAlone == pc \in {"closed", "exited"} => \A u \in Unit : ~Live(u)

\* A running process always belongs to a unit of the hub, also after
\* remove_unit(): nothing runs that nobody would stop.
EveryProcessManaged == \A u \in Unit : Live(u) => u \in units

\* A process object is replaced or started only when no process of the unit is
\* running, after a restart, a kill that timed out or a new unit of the name.
\* (_start_again_state_handler, _kill_and_restart_handler)
OneProcessPerUnit ==
    [][\A u \in Unit : Live(u) => stage'[u] # "initial"]_vars

\* A hub with the default PanicController never runs a unit again after its
\* process failed or was killed.  (PanicController.manage())
PanicNeverRestarts ==
    [][\A u \in Unit : u \in units /\ stage[u] = "failed" => stage'[u] = "failed"]_vars

\* What a Supervisor is about, in a hub.
Wanted == {u \in units : target[u] = "RUNNING"}
Up == {u \in Unit : Live(u)}
Phase == CASE pc \in {"stopall", "waitall", "closed", "aborted"} -> "stopping"
           [] pc = "exited" -> "gone"
           [] OTHER -> "serving"

Promise == INSTANCE Supervisor WITH wanted <- Wanted, up <- Up, phase <- Phase

\* The hub implements Supervisor: at most one process for a unit, started for a
\* unit that is to run, none started once the shutdown has begun, and the hub
\* outlives all of them.  (BaseHub with its driver and its controller)
HubKeepsPromise == Promise!Spec

-----------------------------------------------------------------------------
(* What makes the safety properties inductive.                             *)

\* The loops range over units of the hub, and no loop is open at the loop
\* condition or in the API; only a unit that should run is about to be started.
Bookkeeping ==
    /\ todo \subseteq units
    /\ pc \in {"new", "ready", "loop", "remove"} => todo = {}
    /\ pc \in {"apply", "start", "killing", "remove"} => cur \in units
    /\ pc \in {"apply", "start", "killing"} => cur \notin todo
    /\ pc = "start" => target[cur] = "RUNNING"

\* The units the last loop of a shutdown is done with are not running.
JoinedAreDown == pc = "waitall" => \A u \in units \ todo : ~Live(u)

\* After a late start the pass cannot get to another one.
LateStartWasLast ==
    /\ AtMostOneLateStart
    /\ late = 1 => ctrlStop /\ pc \notin {"apply", "start", "killing"}

SafetyInv ==
    /\ TypeOK
    /\ Bookkeeping
    /\ EveryProcessManaged
    /\ JoinedAreDown
    /\ ServeReturnsAlone
    /\ LateStartWasLast

\* A unit whose state is INITIAL.
Fresh(u) == stage[u] = "initial" /\ ~forced[u]

InPass == pc \in {"manage", "apply", "start", "killing"}

\* INITIAL was seen of a unit exactly when it is still INITIAL.
SeenFresh == \A u \in Pending : seen[u] = "INITIAL" <=> Fresh(u)

\* Loops go upwards.
LoopsGoUp ==
    InPass \/ pc = "observe" => \A u \in units \ todo : \A v \in todo : u < v

\* A unit the pass is done with is not INITIAL and was no reason to panic.
VisitedSettled ==
    InPass => \A u \in units \ todo :
        /\ Fresh(u) => u = cur /\ pc \in {"apply", "start"}
        /\ seen[u] \notin PanicStates

\* Units that are INITIAL are behind all others: they were added last.
FreshAreLast ==
    InsertionOrder /\ ~ctrlStop /\ pc \notin {"fast", "fastkill"} =>
        \A u, v \in units :
            u < v /\ Fresh(u) /\ ~(pc = "start" /\ u = cur) => Fresh(v)

\* So they are in what the pass has seen.
SeenFreshAreLast ==
    InsertionOrder /\ ~ctrlStop /\ (InPass \/ pc = "observe") =>
        \A u, v \in (IF pc = "observe" THEN units \ todo ELSE units) :
            u < v /\ seen[u] = "INITIAL" => seen[v] = "INITIAL"

\* A process about to be started carries no mark.
StartsUnmarked == pc = "start" => Fresh(cur)

NoPanic == PanicStates = {} => pc \notin {"fast", "fastkill"}

SnapshotInv ==
    /\ ForcedNotRunning
    /\ SnapshotHolds
    /\ SeenFresh
    /\ LoopsGoUp
    /\ VisitedSettled
    /\ FreshAreLast
    /\ SeenFreshAreLast
    /\ StartsUnmarked
    /\ NoPanic

-----------------------------------------------------------------------------
(* Liveness, under FairSpec.                                               *)

\* With AlwaysForceTargetStateController a unit that should run and does not is
\* started, however its process ended, unless the hub was told to stop.
SelfHealing ==
    \A u \in Unit :
        (u \in units /\ target[u] = "RUNNING" /\ ~Live(u))
            ~> (Live(u) \/ ctrlStop \/ u \notin units \/ target[u] = "STOPPED"
                \/ pc = "remove")

\* A hung step of a watched unit does not go on for ever: its process is killed
\* and the unit goes on, unless the hub was told to stop or waits in a remove.
NumbIsKilled ==
    \A u \in Watched :
        (stage[u] = "hung") ~> (stage[u] # "hung" \/ ctrlStop \/ pc = "remove")

\* Kills come to an end with the mishaps: a restarted process is not taken for numb
\* because the one before it was, and killed before it can show a heartbeat, again and
\* again.  (_init_service(), _kill_and_restart_handler)
KillsEnd == <>[][\A u \in Unit : kill'[u] => kill[u]]_vars

\* A unit whose target is STOPPED ends, also when the SIGTERM of one pass was
\* swallowed by a process that was still booting: the next pass sends another.
StoppedWhenAsked ==
    \A u \in Watched :
        (u \in units /\ target[u] = "STOPPED" /\ Live(u))
            ~> (~Live(u) \/ target[u] = "RUNNING" \/ ctrlStop \/ pc = "remove")

\* A stop request that finds the hub in its loop makes it shut down, whatever
\* it is in the middle of.
InLoop == pc \in {"loop", "observe", "manage", "apply", "start", "killing", "fast", "fastkill"}

StopReachesShutdown ==
    (InLoop /\ ctrlStop /\ ~hasRunning) ~> pc \in {"stopall", "closed", "remove"}

\* A shutdown that finds every service past its start ends: nobody waits for
\* ever, except for a step that never returns.
ShutdownEnds ==
    (pc = "stopall" /\ todo = units
        /\ \A u \in units : stage[u] \notin {"initial", "boot", "subscribed"})
      ~> (pc = "exited" \/ \E u \in Unit : stage[u] = "hung")

\* A hub with the default PanicController stops once a process of it failed,
\* whatever becomes of its processes: so HubFairSpec is enough.
FailureStopsHub ==
    (hasRunning /\ \E u \in units : stage[u] = "failed" /\ ~forced[u])
      ~> (ctrlStop \/ pc = "remove")
=============================================================================
