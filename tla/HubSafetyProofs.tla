-------------------------- MODULE HubSafetyProofs --------------------------
(***************************************************************************)
(* The safety invariants of the hub that do not depend on what a pass has  *)
(* seen: one process per unit, nothing runs unmanaged, at most one late    *)
(* start, and serve() returns alone.                                       *)
(***************************************************************************)
EXTENDS HubProofs

-----------------------------------------------------------------------------
(* What the parts of a step do to the processes.                           *)

LEMMA ChildEffect ==
  ASSUME ProcessTypeOK, NEW u \in Unit, ProcessNext(u), NEW v \in Unit
  PROVE  /\ Live(v)' => Live(v)
         /\ stage'[v] = "initial" <=> stage[v] = "initial"
<1>. USE DEF ProcessTypeOK, Move, Live, LiveStage
<1>1. CASE Progress(u)
  BY <1>1 DEF Progress, Subscribe, BeginServe, BeginIteration, BeginStep, SkipStep, EndStep,
              EndIteration, ExitStep, LeaveLoop, Teardown
<1>2. CASE HandleTerm(u) \/ Die(u)
  BY <1>2 DEF HandleTerm, Die
<1>3. CASE Mishap(u) \/ GoStale(u)
  BY <1>3 DEF Mishap, Crash, Escape, Hang, GoStale
<1>. QED  BY <1>1, <1>2, <1>3 DEF ProcessNext, Regular

LEMMA InitEffect ==
  ASSUME DriverTypeOK, NEW u, InitService(u), NEW v \in Unit
  PROVE  /\ Live(v)' => Live(v) /\ v # u
         /\ v # u => stage'[v] = stage[v]
         /\ v # u => forced'[v] = forced[v]
         /\ v = u => stage'[v] = "initial" /\ ~forced'[v]
  BY DEF InitService, Live, LiveStage, DriverTypeOK, ProcessTypeOK

LEMMA StartEffect ==
  ASSUME DriverTypeOK, NEW u, StartProcess(u), NEW v \in Unit
  PROVE  /\ forced' = forced
         /\ stage[u] = "initial"
         /\ v # u => stage'[v] = stage[v]
         /\ v = u => stage'[v] = "boot"
  BY DEF StartProcess, Move, DriverTypeOK, ProcessTypeOK

\* Everything but starting a process and making a new one leaves stage alone.
LEMMA OtherEffect ==
  ASSUME NEW u,
         SetStopped(u) \/ Terminate(u) \/ SendKill(u) \/ UNCHANGED driverVars
  PROVE  stage' = stage
  BY DEF SetStopped, Terminate, SendKill, driverVars

LEMMA RenewEffect ==
  ASSUME TypeOK, Renew, NEW v \in Unit
  PROVE  /\ Live(v)' <=> Live(v)
         /\ Live(v) => stage'[v] = stage[v]
<1>1. CASE Live(cur)
  BY <1>1 DEF Renew, driverVars, Live
<1>2. CASE ~Live(cur)
  <2>1. InitService(cur)  BY <1>2 DEF Renew
  <2>. QED  BY <1>2, <2>1, InitEffect DEF TypeOK, Live
<1>. QED  BY <1>1, <1>2

\* A step that is not one of a child brings no unit down, and none up but by the
\* start of its process; it replaces no process of a unit that is up.
LEMMA HubEffect ==
  ASSUME TypeOK, EveryProcessManaged, NEW v \in Unit,
         \/ Api \/ HubStep \/ StartFailed \/ UNCHANGED vars
         \/ \E toGroup \in BOOLEAN : Signal(toGroup)
  PROVE  /\ Live(v)' <=> Live(v) \/ (Started /\ v = cur)
         /\ Live(v) => stage'[v] # "initial"
<1>. DEFINE Goal == /\ Live(v)' <=> Live(v) \/ (Started /\ v = cur)
                    /\ Live(v) => stage'[v] # "initial"
<1>0. DriverTypeOK /\ ProcessTypeOK  BY DEF TypeOK, DriverTypeOK
<1>a. ASSUME stage' = stage  PROVE Goal
  <2>1. ~(Started /\ v = cur)
    BY <1>0, <1>a DEF Started, StartProcess, Move, ProcessTypeOK
  <2>. QED  BY <1>a, <2>1 DEF Live, LiveStage
<1>b. Started => pc = "start"  BY DEF Started
<1>1. CASE Api
  <2>1. ASSUME NEW u \in Unit, NEW t \in State, AddUnit(u, t)  PROVE Goal
    <3>1. InitService(u) /\ u \notin units /\ pc # "start"  BY <2>1 DEF AddUnit, Call
    <3>2. ~Live(u)  BY <3>1 DEF EveryProcessManaged
    <3>. QED  BY <1>0, <1>b, <3>1, <3>2, InitEffect DEF Live, LiveStage
  <2>2. ASSUME NEW u \in Unit, NEW t \in State, UpdateUnit(u, t)  PROVE Goal
    BY <1>a, <2>2, OtherEffect DEF UpdateUnit
  <2>3. ASSUME NEW u \in Unit, RemoveUnit(u)  PROVE Goal
    BY <1>a, <2>3, OtherEffect DEF RemoveUnit
  <2>. QED  BY <1>1, <2>1, <2>2, <2>3 DEF Api
<1>2. CASE HubStep
  <2>1. CASE Quiet
    BY <1>a, <2>1, QuietKeeps, OtherEffect
  <2>2. CASE MarkStopped \/ Stop
    BY <1>a, <2>2, OtherEffect DEF MarkStopped, Stop
  <2>3. ASSUME NEW u \in Unit, FastStop(u) \/ StopOne(u)  PROVE Goal
    BY <1>a, <2>3, OtherEffect DEF FastStop, StopOne
  <2>4. ASSUME Renew, pc # "start"  PROVE Goal
    BY <1>b, <2>4, RenewEffect DEF Live, LiveStage
  <2>5. ASSUME AfterKill, pc # "start"  PROVE Goal
    BY <1>a, <2>4, <2>5, OtherEffect DEF AfterKill
  <2>6. CASE StartAgain \/ Kill \/ KillJoined
    BY <1>a, <2>4, <2>5, <2>6, OtherEffect DEF StartAgain, Kill, KillJoined, Apply
  <2>7. CASE Started
    <3>1. StartProcess(cur)  BY <2>7 DEF Started
    <3>. QED  BY <1>0, <2>7, <3>1, StartEffect DEF Live, LiveStage
  <2>. QED  BY <1>2, <2>1, <2>2, <2>3, <2>6, <2>7 DEF HubStep, Quiet
<1>3. CASE StartFailed
  BY <1>a, <1>3, OtherEffect DEF StartFailed
<1>4. ASSUME NEW toGroup \in BOOLEAN, Signal(toGroup)  PROVE Goal
  BY <1>a, <1>4 DEF Signal
<1>5. CASE UNCHANGED vars
  BY <1>a, <1>5 DEF vars
<1>. QED  BY <1>1, <1>2, <1>3, <1>4, <1>5

\* So no step but the start of a process brings a unit up, and no step replaces
\* the process of a unit that is up.
LEMMA StepEffect ==
  ASSUME TypeOK, EveryProcessManaged, [Next]_vars, NEW v \in Unit
  PROVE  /\ Live(v)' => Live(v) \/ (Started /\ v = cur)
         /\ Live(v) => stage'[v] # "initial"
<1>1. ASSUME NEW u \in Unit, ChildStep(u)
      PROVE  /\ Live(v)' => Live(v)
             /\ Live(v) => stage'[v] # "initial"
  <2>1. ProcessTypeOK  BY DEF TypeOK, DriverTypeOK
  <2>. QED  BY <1>1, <2>1, ChildEffect DEF ChildStep, Live, LiveStage
<1>. QED  BY <1>1, HubEffect DEF Next, Finished

-----------------------------------------------------------------------------
(* The invariant.                                                          *)

\* What an outcome of set_state() does to the loops, from "apply" or "killing".
Outcome ==
    /\ UNCHANGED <<units, target, late>>
    /\ pc' = "start" => target[cur] = "RUNNING"
    /\ \/ UNCHANGED <<todo, cur, ctrlStop>> /\ pc' \in {"manage", "start", "killing"}
       \/ pc' = "loop" /\ todo' = {} /\ cur' = 0 /\ ctrlStop'

LEMMA ApplyOutcome ==
  ASSUME \/ AsWanted \/ FirstStart \/ MarkStopped \/ Stop \/ StartAgain \/ Kill \/ KillJoined
  PROVE  pc \in {"apply", "killing"} /\ Outcome
<1>1. CASE AsWanted \/ FirstStart \/ MarkStopped \/ Stop
  BY <1>1 DEF AsWanted, FirstStart, MarkStopped, Stop, Apply, Goto, Outcome
<1>2. Renew /\ target[cur] = "RUNNING" => Outcome
  BY DEF Renew, Goto, StopHub, EndPass, Outcome
<1>3. AfterKill => Outcome
  BY <1>2 DEF AfterKill, Goto, Outcome
<1>4. CASE StartAgain
  BY <1>2, <1>4 DEF StartAgain, Apply
<1>5. CASE Kill
  BY <1>3, <1>5 DEF Kill, Apply, Goto, Outcome
<1>6. CASE KillJoined
  BY <1>3, <1>6 DEF KillJoined
<1>. QED  BY <1>1, <1>4, <1>5, <1>6

LEMMA BookkeepingStep ==
  ASSUME TypeOK, Bookkeeping, [Next]_vars
  PROVE  Bookkeeping'
<1>. USE DEF Bookkeeping
<1>1. CASE Api
  BY <1>1 DEF Api, AddUnit, UpdateUnit, RemoveUnit, Call
<1>2. CASE HubStep
  <2>1. CASE RemoveJoined \/ Subscribed \/ EnterLoop \/ BeginPass \/ BeginShutdown \/ Exit
    BY <2>1 DEF RemoveJoined, Subscribed, EnterLoop, BeginPass, BeginShutdown, Exit, Sweep
  <2>2. CASE EndManage \/ Panicked
    BY <2>2 DEF EndManage, Panicked, StopHub, EndPass
  <2>3. CASE \/ AsWanted \/ FirstStart \/ MarkStopped \/ Stop
             \/ StartAgain \/ Kill \/ KillJoined
    BY <2>3, ApplyOutcome DEF Outcome
  <2>4. CASE Started \/ FastKillJoined
    BY <2>4 DEF Started, FastKillJoined, Goto
  <2>5. ASSUME NEW u \in Unit, Observe(u) \/ StopOne(u)  PROVE Bookkeeping'
    BY <2>5 DEF Observe, StopOne, Visit, Sweep
  <2>6. ASSUME NEW u \in Unit, Manage(u)  PROVE Bookkeeping'
    BY <2>6 DEF Manage, IsNext, Sweep
  <2>7. ASSUME NEW u \in Unit, FastStop(u)  PROVE Bookkeeping'
    BY <2>7 DEF FastStop
  <2>8. ASSUME NEW u \in Unit, StopRaises(u) \/ JoinOne(u)  PROVE Bookkeeping'
    BY <2>8 DEF StopRaises, JoinOne
  <2>. QED  BY <1>2, <2>1, <2>2, <2>3, <2>4, <2>5, <2>6, <2>7, <2>8 DEF HubStep
<1>3. CASE StartFailed
  BY <1>3 DEF StartFailed, StopHub, EndPass
<1>4. ASSUME \/ \E toGroup \in BOOLEAN : Signal(toGroup)
             \/ \E u \in Unit : ChildStep(u)
             \/ UNCHANGED vars
      PROVE  Bookkeeping'
  BY <1>4 DEF Signal, ChildStep, hubVars, vars
<1>. QED  BY <1>1, <1>2, <1>3, <1>4 DEF Next, Finished

LEMMA LateStep ==
  ASSUME TypeOK, LateStartWasLast, [Next]_vars
  PROVE  LateStartWasLast'
<1>. USE DEF LateStartWasLast, AtMostOneLateStart
<1>0. late \in 0 .. 2  BY DEF TypeOK
<1>1. CASE Api
  BY <1>1 DEF Api, AddUnit, UpdateUnit, RemoveUnit, Call
<1>2. CASE HubStep
  <2>1. CASE RemoveJoined \/ Subscribed \/ EnterLoop \/ BeginPass \/ BeginShutdown \/ Exit
    BY <2>1 DEF RemoveJoined, Subscribed, EnterLoop, BeginPass, BeginShutdown, Exit, Sweep
  <2>2. CASE EndManage \/ Panicked
    BY <2>2 DEF EndManage, Panicked, StopHub, EndPass
  <2>3. CASE \/ AsWanted \/ FirstStart \/ MarkStopped \/ Stop
             \/ StartAgain \/ Kill \/ KillJoined
    BY <2>3, ApplyOutcome DEF Outcome
  <2>4. CASE Started
    BY <1>0, <2>4 DEF Started
  <2>5. ASSUME NEW u \in Unit, Observe(u) \/ StopOne(u)  PROVE LateStartWasLast'
    BY <2>5 DEF Observe, StopOne, Visit, Sweep
  <2>6. ASSUME NEW u \in Unit, Manage(u)  PROVE LateStartWasLast'
    BY <2>6 DEF Manage, Sweep
  <2>7. CASE FastKillJoined
    BY <2>7 DEF FastKillJoined, Goto
  <2>8. ASSUME NEW u \in Unit, FastStop(u) \/ StopRaises(u) \/ JoinOne(u)
        PROVE  LateStartWasLast'
    BY <2>8 DEF FastStop, StopRaises, JoinOne
  <2>. QED  BY <1>2, <2>1, <2>2, <2>3, <2>4, <2>5, <2>6, <2>7, <2>8 DEF HubStep
<1>3. CASE StartFailed
  BY <1>3 DEF StartFailed, StopHub, EndPass
<1>4. ASSUME NEW toGroup \in BOOLEAN, Signal(toGroup)  PROVE LateStartWasLast'
  BY <1>4 DEF Signal
<1>5. ASSUME (\E u \in Unit : ChildStep(u)) \/ UNCHANGED vars
      PROVE  LateStartWasLast'
  BY <1>5 DEF ChildStep, hubVars, vars
<1>. QED  BY <1>1, <1>2, <1>3, <1>4, <1>5 DEF Next, Finished

\* Only a start brings a unit up, and cur is then a unit of the hub; only
\* RemoveJoined drops a unit, and it is then down.
LEMMA ManagedStep ==
  ASSUME TypeOK, Bookkeeping, EveryProcessManaged, [Next]_vars
  PROVE  EveryProcessManaged'
<1>1. SUFFICES ASSUME NEW v \in Unit, Live(v)'  PROVE v \in units'
  BY DEF EveryProcessManaged
<1>2. v \in units
  BY <1>1, StepEffect DEF Started, Bookkeeping, EveryProcessManaged
<1>3. CASE units \subseteq units'
  BY <1>2, <1>3
<1>4. CASE RemoveJoined
  <2>1. stage' = stage  BY <1>4 DEF RemoveJoined, driverVars
  <2>. QED  BY <1>1, <1>2, <1>4, <2>1 DEF RemoveJoined, Live
<1>5. RemoveJoined \/ units \subseteq units'
  <2>1. CASE Api  BY <2>1 DEF Api, AddUnit, UpdateUnit, RemoveUnit
  <2>2. CASE HubStep
    BY <2>2, ApplyOutcome
       DEF HubStep, Outcome, Subscribed, EnterLoop, BeginPass, BeginShutdown, EndManage,
           Started, FastKillJoined, Goto, Panicked, StopHub, Exit, Observe, Manage,
           FastStop, StopOne, StopRaises, JoinOne
  <2>3. CASE StartFailed  BY <2>3 DEF StartFailed, StopHub
  <2>4. CASE \E toGroup \in BOOLEAN : Signal(toGroup)  BY <2>4 DEF Signal
  <2>5. CASE (\E u \in Unit : ChildStep(u)) \/ UNCHANGED vars
    BY <2>5 DEF ChildStep, hubVars, vars
  <2>. QED  BY <2>1, <2>2, <2>3, <2>4, <2>5 DEF Next, Finished
<1>. QED  BY <1>3, <1>4, <1>5

\* How the last phases of the hub are entered.
LEMMA LastPhases ==
  ASSUME TypeOK, Bookkeeping, [Next]_vars
  PROVE  /\ pc' = "waitall" => \/ pc = "waitall" /\ UNCHANGED <<units, todo>>
                               \/ \E u \in Unit : JoinOne(u)
                               \/ todo' = units'
         /\ pc' = "closed" => \/ pc = "closed"
                              \/ \E u \in Unit : JoinOne(u) /\ todo = {u}
                              \/ units = {} /\ ~Started
         /\ pc' = "exited" => pc = "exited" \/ Exit
<1>. DEFINE Goal ==
         /\ pc' = "waitall" => \/ pc = "waitall" /\ UNCHANGED <<units, todo>>
                               \/ \E u \in Unit : JoinOne(u)
                               \/ todo' = units'
         /\ pc' = "closed" => \/ pc = "closed"
                              \/ \E u \in Unit : JoinOne(u) /\ todo = {u}
                              \/ units = {} /\ ~Started
         /\ pc' = "exited" => pc = "exited" \/ Exit
<1>1. CASE Api
  BY <1>1 DEF Api, AddUnit, UpdateUnit, RemoveUnit, Call
<1>2. CASE HubStep
  <2>1. CASE RemoveJoined \/ Subscribed \/ EnterLoop \/ BeginPass \/ BeginShutdown
    BY <2>1 DEF RemoveJoined, Subscribed, EnterLoop, BeginPass, BeginShutdown, Sweep, Started
  <2>2. CASE EndManage \/ Panicked
    BY <2>2 DEF EndManage, Panicked, StopHub, EndPass
  <2>3. CASE \/ AsWanted \/ FirstStart \/ MarkStopped \/ Stop
             \/ StartAgain \/ Kill \/ KillJoined
    BY <2>3, ApplyOutcome DEF Outcome
  <2>4. CASE Started \/ FastKillJoined
    BY <2>4 DEF Started, FastKillJoined, Goto
  <2>5. ASSUME NEW u \in Unit, Observe(u)  PROVE Goal
    BY <2>5 DEF Observe, Visit, Sweep
  <2>6. ASSUME NEW u \in Unit, StopOne(u)  PROVE Goal
    BY <2>6 DEF StopOne, Visit, Sweep
  <2>7. ASSUME NEW u \in Unit, Manage(u) \/ FastStop(u) \/ StopRaises(u)  PROVE Goal
    BY <2>7 DEF Manage, Sweep, FastStop, StopRaises
  <2>8. ASSUME NEW u \in Unit, JoinOne(u)  PROVE Goal
    <3>1. pc' = "closed" => todo = {u}  BY <2>8 DEF JoinOne
    <3>2. pc' # "exited"  BY <2>8 DEF JoinOne
    <3>. QED  BY <2>8, <3>1, <3>2
  <2>9. CASE Exit
    BY <2>9 DEF Exit
  <2>. QED
    BY <1>2, <2>1, <2>2, <2>3, <2>4, <2>5, <2>6, <2>7, <2>8, <2>9 DEF HubStep
<1>3. CASE StartFailed
  BY <1>3 DEF StartFailed, StopHub, EndPass
<1>4. ASSUME \/ \E toGroup \in BOOLEAN : Signal(toGroup)
             \/ \E u \in Unit : ChildStep(u)
             \/ UNCHANGED vars
      PROVE  Goal
  BY <1>4 DEF Signal, ChildStep, hubVars, vars
<1>. QED  BY <1>1, <1>2, <1>3, <1>4 DEF Next, Finished

\* Nothing is started in the last phases, so what was joined stays down.
LEMMA JoinedStep ==
  ASSUME TypeOK, Bookkeeping, EveryProcessManaged, JoinedAreDown, ServeReturnsAlone,
         [Next]_vars
  PROVE  JoinedAreDown' /\ ServeReturnsAlone'
<1>1. ASSUME pc \in {"waitall", "closed", "aborted", "exited"}, NEW v \in Unit
      PROVE  Live(v)' => Live(v)
  BY <1>1, StepEffect DEF Started
<1>2. ASSUME NEW u \in Unit, JoinOne(u)
      PROVE  pc = "waitall" /\ ~Live(u) /\ units' = units /\ todo' = todo \ {u}
  <2>1. todo = {u} => todo' = todo \ {u}  BY <1>2 DEF JoinOne
  <2>. QED  BY <1>2, <2>1 DEF JoinOne
<1>3. JoinedAreDown'
  <2>1. SUFFICES ASSUME pc' = "waitall", NEW v \in Unit, v \in units' \ todo'
                 PROVE  ~Live(v)'
    BY TypeStep DEF JoinedAreDown, TypeOK
  <2>2. CASE pc = "waitall" /\ UNCHANGED <<units, todo>>
    BY <1>1, <2>1, <2>2 DEF JoinedAreDown
  <2>3. ASSUME NEW u \in Unit, JoinOne(u)  PROVE ~Live(v)'
    BY <1>1, <1>2, <2>1, <2>3 DEF JoinedAreDown
  <2>. QED  BY <2>1, <2>2, <2>3, LastPhases
<1>4. ServeReturnsAlone'
  <2>1. SUFFICES ASSUME pc' \in {"closed", "exited"}, NEW v \in Unit
                 PROVE  ~Live(v)'
    BY DEF ServeReturnsAlone
  <2>2. CASE pc \in {"closed", "exited"}
    BY <1>1, <2>2 DEF ServeReturnsAlone
  <2>3. ASSUME NEW u \in Unit, JoinOne(u), todo = {u}  PROVE ~Live(v)'
    <3>1. pc = "waitall" /\ ~Live(u)  BY <1>2, <2>3
    <3>2. v \in units => ~Live(v)  BY <2>3, <3>1 DEF JoinedAreDown
    <3>3. ~Live(v)  BY <3>2 DEF EveryProcessManaged
    <3>. QED  BY <1>1, <3>1, <3>3
  <2>4. CASE units = {} /\ ~Started
    BY <2>4, StepEffect DEF EveryProcessManaged
  <2>5. CASE Exit
    BY <1>1, <2>5 DEF Exit
  <2>. QED  BY <2>1, <2>2, <2>3, <2>4, <2>5, LastPhases
<1>. QED  BY <1>3, <1>4

LEMMA SafetyInit == Init => SafetyInv
<1>. SUFFICES ASSUME Init  PROVE SafetyInv
  OBVIOUS
<1>1. \A u \in Unit : ~Live(u)
  BY DEF Init, DriverInit, ProcessInit, Live, LiveStage
<1>. QED
  BY <1>1, InitType
     DEF Init, SafetyInv, Bookkeeping, EveryProcessManaged, JoinedAreDown,
         ServeReturnsAlone, LateStartWasLast, AtMostOneLateStart

LEMMA SafetyStep == SafetyInv /\ [Next]_vars => SafetyInv'
  BY TypeStep, BookkeepingStep, ManagedStep, JoinedStep, LateStep DEF SafetyInv

THEOREM SafetyCorrect == Spec => []SafetyInv
  BY SafetyInit, SafetyStep, PTL DEF Spec

\* serve() returns from a complete teardown with no process left running: the
\* join loop is over all units, a unit that was joined cannot come back, and a
\* process outside the units does not exist.
THEOREM ServeReturnsAloneCorrect == Spec => []ServeReturnsAlone
<1>1. SafetyInv => ServeReturnsAlone  BY DEF SafetyInv
<1>. QED  BY <1>1, SafetyCorrect, PTL

\* Nothing runs that no unit stands for.
THEOREM EveryProcessManagedCorrect == Spec => []EveryProcessManaged
<1>1. SafetyInv => EveryProcessManaged  BY DEF SafetyInv
<1>. QED  BY <1>1, SafetyCorrect, PTL

\* A stop request lets at most one more process be started.
THEOREM AtMostOneLateStartCorrect == Spec => []AtMostOneLateStart
<1>1. SafetyInv => AtMostOneLateStart  BY DEF SafetyInv, LateStartWasLast
<1>. QED  BY <1>1, SafetyCorrect, PTL

\* The process of a unit is never replaced while it runs.
THEOREM OneProcessPerUnitCorrect == Spec => OneProcessPerUnit
<1>1. ASSUME SafetyInv, [Next]_vars
      PROVE  [\A u \in Unit : Live(u) => stage'[u] # "initial"]_vars
  BY <1>1, StepEffect DEF SafetyInv
<1>. QED  BY <1>1, SafetyCorrect, PTL DEF Spec, OneProcessPerUnit
=============================================================================
