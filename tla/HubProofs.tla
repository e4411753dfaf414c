----------------------------- MODULE HubProofs -----------------------------
(***************************************************************************)
(* Proofs about module Hub, for any number of units, any faults and any    *)
(* number of API calls.                                                    *)
(***************************************************************************)
EXTENDS Hub, TLAPS

USE ProcessAssumption, HubAssumption

-----------------------------------------------------------------------------
(* What the parts of a step do to the types.                               *)

LEMMA InitType == Init => TypeOK
<1>. SUFFICES ASSUME Init  PROVE TypeOK
  OBVIOUS
<1>1. ProcessTypeOK
  BY DEF Init, DriverInit, ProcessInit, ProcessTypeOK, Stage
<1>2. DriverTypeOK
  BY <1>1 DEF Init, DriverInit, DriverTypeOK
<1>3. seen \in [Unit -> State \cup {"NONE"}] /\ target \in [Unit -> TargetState]
  BY DEF Init, Unseen, TargetState
<1>4. cur \in Unit \cup {0} /\ late \in 0 .. 2 /\ calls \in 0 .. MaxCalls
  BY DEF Init
<1>. QED  BY <1>2, <1>3, <1>4 DEF Init, TypeOK, PC

\* A step of a child keeps the types of the process variables.
LEMMA ChildType ==
  ASSUME ProcessTypeOK, NEW u \in Unit, ProcessNext(u)
  PROVE  ProcessTypeOK'
<1>. USE DEF ProcessTypeOK, Move, Stage, LiveStage
<1>1. faults' \in 0 .. MaxFaults
  BY DEF ProcessNext, Fault
<1>2. CASE Progress(u)
  BY <1>1, <1>2 DEF Progress, Subscribe, BeginServe, BeginIteration, BeginStep, SkipStep,
                    EndStep, EndIteration, ExitStep, LeaveLoop, Teardown
<1>3. CASE HandleTerm(u)
  BY <1>1, <1>3 DEF HandleTerm
<1>4. CASE Die(u)
  BY <1>1, <1>4 DEF Die
<1>5. CASE Mishap(u) \/ GoStale(u)
  <2>1. CASE Crash(u)  BY <1>1, <2>1 DEF Crash
  <2>2. CASE Escape(u)  BY <1>1, <2>2 DEF Escape
  <2>3. CASE Hang(u)  BY <1>1, <2>3 DEF Hang
  <2>4. CASE GoStale(u)  BY <1>1, <2>4 DEF GoStale
  <2>. QED  BY <1>5, <2>1, <2>2, <2>3, <2>4 DEF Mishap
<1>. QED  BY <1>2, <1>3, <1>4, <1>5 DEF ProcessNext, Regular

\* The driver's operations keep the types of the driver's variables.
LEMMA DriverType ==
  ASSUME DriverTypeOK, NEW u,
         \/ InitService(u) \/ StartProcess(u) \/ SetStopped(u)
         \/ Terminate(u) \/ SendKill(u) \/ UNCHANGED driverVars,
         faults' \in 0 .. MaxFaults
  PROVE  DriverTypeOK'
<1>. USE DEF DriverTypeOK, ProcessTypeOK, Stage, LiveStage
<1>1. CASE InitService(u)  BY <1>1 DEF InitService
<1>2. CASE StartProcess(u)  BY <1>2 DEF StartProcess, Move
<1>3. CASE SetStopped(u)  BY <1>3 DEF SetStopped
<1>4. CASE Terminate(u)
  <2>1. Live(u) \in BOOLEAN  BY DEF Live
  <2>. QED  BY <1>4, <2>1 DEF Terminate
<1>5. CASE SendKill(u)  BY <1>5 DEF SendKill
<1>6. CASE UNCHANGED driverVars  BY <1>6 DEF driverVars
<1>. QED  BY <1>1, <1>2, <1>3, <1>4, <1>5, <1>6

\* The variables of the hub's thread, as TypeOK types them.
HubTypeOK ==
    /\ pc \in PC
    /\ units \subseteq Unit
    /\ target \in [Unit -> TargetState]
    /\ seen \in [Unit -> State \cup {"NONE"}]
    /\ todo \subseteq Unit
    /\ cur \in Unit \cup {0}
    /\ ctrlStop \in BOOLEAN
    /\ hasRunning \in BOOLEAN
    /\ late \in 0 .. 2
    /\ calls \in 0 .. MaxCalls

LEMMA TypeSplit == TypeOK <=> DriverTypeOK /\ HubTypeOK
  BY DEF TypeOK, HubTypeOK

LEMMA EndPassType ==
  ASSUME HubTypeOK, EndPass
  PROVE  /\ pc' \in PC
         /\ seen' \in [Unit -> State \cup {"NONE"}]
         /\ todo' \subseteq Unit
         /\ cur' \in Unit \cup {0}
  BY DEF EndPass, Unseen, PC, HubTypeOK

LEMMA StopHubType ==
  ASSUME HubTypeOK, StopHub
  PROVE  HubTypeOK'
  BY EndPassType DEF StopHub, HubTypeOK

LEMMA GotoType ==
  ASSUME HubTypeOK, NEW next \in PC, Goto(next)
  PROVE  HubTypeOK'
  BY DEF Goto, HubTypeOK

LEMMA SensorType ==
  ASSUME DriverTypeOK, NEW u \in Unit
  PROVE  ServiceState(u) \in State
<1>1. stage[u] \in Stage
  BY DEF DriverTypeOK, ProcessTypeOK
<1>2. ProcessState(u) \in State
  BY <1>1 DEF ProcessState, State, Stage, Live
<1>. QED
  BY <1>2 DEF ServiceState, State

LEMMA VisitType ==
  ASSUME HubTypeOK, NEW u, NEW loop \in PC, NEW next \in PC, Visit(u, loop, next)
  PROVE  pc' \in PC /\ todo' \subseteq Unit
  BY DEF Visit, Sweep, HubTypeOK

LEMMA CallType ==
  ASSUME HubTypeOK, Call
  PROVE  calls' \in 0 .. MaxCalls
  BY DEF Call, HubTypeOK

LEMMA RenewType ==
  ASSUME DriverTypeOK, HubTypeOK, Renew, faults' \in 0 .. MaxFaults
  PROVE  DriverTypeOK' /\ HubTypeOK'
<1>1. CASE Live(cur)
  BY <1>1, DriverType, StopHubType DEF Renew
<1>2. CASE ~Live(cur)
  <2>1. InitService(cur) /\ Goto("start")  BY <1>2 DEF Renew
  <2>2. "start" \in PC  BY DEF PC
  <2>. QED  BY <2>1, <2>2, DriverType, GotoType
<1>. QED  BY <1>1, <1>2

LEMMA AfterKillType ==
  ASSUME DriverTypeOK, HubTypeOK, AfterKill, faults' \in 0 .. MaxFaults
  PROVE  DriverTypeOK' /\ HubTypeOK'
<1>1. CASE target[cur] = "RUNNING" /\ Renew
  BY <1>1, RenewType
<1>2. CASE UNCHANGED driverVars /\ Goto("manage")
  <2>1. "manage" \in PC  BY DEF PC
  <2>. QED  BY <1>2, <2>1, DriverType, GotoType
<1>. QED  BY <1>1, <1>2 DEF AfterKill

LEMMA ApiType ==
  ASSUME DriverTypeOK, HubTypeOK, Api
  PROVE  DriverTypeOK' /\ HubTypeOK'
<1>0. faults \in 0 .. MaxFaults  BY DEF DriverTypeOK, ProcessTypeOK
<1>1. ASSUME NEW u \in Unit, NEW t \in State, AddUnit(u, t)
      PROVE  DriverTypeOK' /\ HubTypeOK'
  <2>1. DriverTypeOK'  BY <1>0, <1>1, DriverType DEF AddUnit
  <2>2. HubTypeOK'  BY <1>1, CallType DEF AddUnit, HubTypeOK
  <2>. QED  BY <2>1, <2>2
<1>2. ASSUME NEW u \in Unit, NEW t \in State, UpdateUnit(u, t)
      PROVE  DriverTypeOK' /\ HubTypeOK'
  <2>1. DriverTypeOK'  BY <1>0, <1>2, DriverType DEF UpdateUnit
  <2>2. HubTypeOK'  BY <1>2, CallType DEF UpdateUnit, HubTypeOK
  <2>. QED  BY <2>1, <2>2
<1>3. ASSUME NEW u \in Unit, RemoveUnit(u)
      PROVE  DriverTypeOK' /\ HubTypeOK'
  <2>1. DriverTypeOK'  BY <1>0, <1>3, DriverType DEF RemoveUnit
  <2>2. HubTypeOK'  BY <1>3, CallType DEF RemoveUnit, HubTypeOK, PC
  <2>. QED  BY <2>1, <2>2
<1>. QED  BY <1>1, <1>2, <1>3 DEF Api

\* The steps of the hub that do not touch the driver.
Quiet ==
    \/ RemoveJoined \/ Subscribed \/ EnterLoop \/ BeginPass \/ BeginShutdown
    \/ EndManage \/ AsWanted \/ FirstStart \/ FastKillJoined \/ Panicked \/ Exit
    \/ \E u \in Unit : \/ Observe(u) \/ Manage(u) \/ StopRaises(u) \/ JoinOne(u)

LEMMA QuietKeeps == Quiet => UNCHANGED driverVars /\ UNCHANGED faults
  BY DEF Quiet, RemoveJoined, Subscribed, EnterLoop, BeginPass, BeginShutdown,
         EndManage, AsWanted, FirstStart, FastKillJoined, Panicked, Exit,
         Observe, Manage, StopRaises, JoinOne

LEMMA QuietType ==
  ASSUME DriverTypeOK, HubTypeOK, Quiet
  PROVE  DriverTypeOK' /\ HubTypeOK'
<1>0. faults \in 0 .. MaxFaults  BY DEF DriverTypeOK, ProcessTypeOK
<1>1. DriverTypeOK'  BY <1>0, QuietKeeps, DriverType
<1>2. CASE RemoveJoined \/ Subscribed \/ EnterLoop \/ Exit
  BY <1>1, <1>2 DEF RemoveJoined, Subscribed, EnterLoop, Exit, HubTypeOK, PC
<1>3. CASE BeginPass \/ BeginShutdown
  BY <1>1, <1>3 DEF BeginPass, BeginShutdown, Sweep, HubTypeOK, PC
<1>4. CASE EndManage
  BY <1>1, <1>4, EndPassType DEF EndManage, HubTypeOK
<1>5. CASE AsWanted \/ FirstStart \/ FastKillJoined
  <2>1. \E next \in PC : Goto(next)
    BY <1>5 DEF AsWanted, FirstStart, FastKillJoined, PC
  <2>. QED  BY <1>1, <2>1, GotoType
<1>6. CASE Panicked
  BY <1>1, <1>6, StopHubType DEF Panicked
<1>7. ASSUME NEW u \in Unit, Observe(u)  PROVE HubTypeOK'
  <2>1. ServiceState(u) \in State  BY SensorType
  <2>2. pc' \in PC /\ todo' \subseteq Unit
    BY <1>7, VisitType DEF Observe, PC
  <2>. QED  BY <1>7, <2>1, <2>2 DEF Observe, HubTypeOK
<1>8. ASSUME NEW u \in Unit, Manage(u)  PROVE HubTypeOK'
  BY <1>8 DEF Manage, Sweep, HubTypeOK, PC
<1>9. ASSUME NEW u \in Unit, StopRaises(u) \/ JoinOne(u)  PROVE HubTypeOK'
  BY <1>9 DEF StopRaises, JoinOne, HubTypeOK, PC
<1>. QED
  BY <1>1, <1>2, <1>3, <1>4, <1>5, <1>6, <1>7, <1>8, <1>9 DEF Quiet

LEMMA ActType ==
  ASSUME DriverTypeOK, HubTypeOK,
         \/ MarkStopped \/ Stop \/ StartAgain \/ Kill \/ KillJoined \/ Started
         \/ \E u \in Unit : FastStop(u) \/ StopOne(u)
  PROVE  DriverTypeOK' /\ HubTypeOK'
<1>0. faults \in 0 .. MaxFaults  BY DEF DriverTypeOK, ProcessTypeOK
<1>1. CASE MarkStopped \/ Stop
  <2>1. Goto("manage") /\ "manage" \in PC  BY <1>1 DEF MarkStopped, Stop, PC
  <2>2. DriverTypeOK'  BY <1>0, <1>1, DriverType DEF MarkStopped, Stop
  <2>. QED  BY <2>1, <2>2, GotoType
<1>2. CASE StartAgain
  BY <1>0, <1>2, RenewType DEF StartAgain
<1>3. CASE Kill
  <2>1. CASE SendKill(cur) /\ Goto("killing")
    <3>1. "killing" \in PC  BY DEF PC
    <3>2. UNCHANGED faults  BY <1>3 DEF Kill
    <3>. QED  BY <1>0, <2>1, <3>1, <3>2, DriverType, GotoType
  <2>2. CASE AfterKill
    BY <1>0, <1>3, <2>2, AfterKillType DEF Kill
  <2>. QED  BY <1>3, <2>1, <2>2 DEF Kill
<1>4. CASE KillJoined
  BY <1>0, <1>4, AfterKillType DEF KillJoined
<1>5. CASE Started
  <2>1. DriverTypeOK'  BY <1>0, <1>5, DriverType DEF Started
  <2>2. HubTypeOK'  BY <1>5 DEF Started, HubTypeOK, PC
  <2>. QED  BY <2>1, <2>2
<1>6. ASSUME NEW u \in Unit, FastStop(u)  PROVE DriverTypeOK' /\ HubTypeOK'
  <2>1. DriverTypeOK'  BY <1>0, <1>6, DriverType DEF FastStop
  <2>2. HubTypeOK'  BY <1>6 DEF FastStop, HubTypeOK, PC
  <2>. QED  BY <2>1, <2>2
<1>7. ASSUME NEW u \in Unit, StopOne(u)  PROVE DriverTypeOK' /\ HubTypeOK'
  <2>1. DriverTypeOK'  BY <1>0, <1>7, DriverType DEF StopOne
  <2>2. pc' \in PC /\ todo' \subseteq Unit  BY <1>7, VisitType DEF StopOne, PC
  <2>3. HubTypeOK'  BY <1>7, <2>2 DEF StopOne, HubTypeOK
  <2>. QED  BY <2>1, <2>3
<1>. QED  BY <1>1, <1>2, <1>3, <1>4, <1>5, <1>6, <1>7

\* What the environment and the children do leaves the rest of the types alone.
LEMMA OtherType ==
  ASSUME DriverTypeOK, HubTypeOK,
         \/ StartFailed
         \/ \E toGroup \in BOOLEAN : Signal(toGroup)
         \/ \E u \in Unit : ChildStep(u)
         \/ UNCHANGED vars
  PROVE  DriverTypeOK' /\ HubTypeOK'
<1>1. CASE StartFailed
  <2>1. faults' \in 0 .. MaxFaults
    BY <1>1 DEF StartFailed, Fault, DriverTypeOK, ProcessTypeOK
  <2>. QED  BY <1>1, <2>1, DriverType, StopHubType DEF StartFailed
<1>2. ASSUME NEW toGroup \in BOOLEAN, Signal(toGroup)
      PROVE  DriverTypeOK' /\ HubTypeOK'
  <2>1. \A u \in Unit : Live(u) \in BOOLEAN  BY DEF Live
  <2>2. term' \in [Unit -> BOOLEAN]  BY <1>2, <2>1 DEF Signal
  <2>3. DriverTypeOK'  BY <1>2, <2>2 DEF Signal, DriverTypeOK, ProcessTypeOK
  <2>. QED  BY <1>2, <2>3 DEF Signal, HubTypeOK
<1>3. ASSUME NEW u \in Unit, ChildStep(u)  PROVE DriverTypeOK' /\ HubTypeOK'
  BY <1>3, ChildType DEF ChildStep, hubVars, DriverTypeOK, HubTypeOK
<1>4. CASE UNCHANGED vars
  BY <1>4 DEF vars, DriverTypeOK, ProcessTypeOK, HubTypeOK
<1>. QED  BY <1>1, <1>2, <1>3, <1>4

LEMMA TypeStep == TypeOK /\ [Next]_vars => TypeOK'
<1>. SUFFICES ASSUME TypeOK, [Next]_vars  PROVE TypeOK'
  OBVIOUS
<1>1. DriverTypeOK /\ HubTypeOK  BY TypeSplit
<1>2. CASE Api  BY <1>1, <1>2, ApiType DEF TypeOK, HubTypeOK
<1>3. CASE HubStep
  BY <1>1, <1>3, QuietType, ActType DEF HubStep, Quiet, TypeOK, HubTypeOK
<1>4. CASE StartFailed \/ (\E toGroup \in BOOLEAN : Signal(toGroup))
           \/ (\E u \in Unit : ChildStep(u)) \/ UNCHANGED vars
  BY <1>1, <1>4, OtherType DEF TypeOK, HubTypeOK
<1>. QED  BY <1>2, <1>3, <1>4 DEF Next, Finished

\* The types of all variables, in every reachable state.
THEOREM TypeCorrect == Spec => []TypeOK
  BY InitType, TypeStep, PTL DEF Spec
=============================================================================
