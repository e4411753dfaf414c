------------------------ MODULE HubRefinementProofs ------------------------
(***************************************************************************)
(* The hub implements Supervisor: every step of a hub, or of a child, is a *)
(* step of the abstract supervisor or changes nothing it can see.          *)
(***************************************************************************)
EXTENDS HubSafetyProofs

abstractVars == <<Wanted, Up, Phase>>

LEMMA PromiseInit == Init => Promise!Init
<1>. SUFFICES ASSUME Init  PROVE Promise!Init
  OBVIOUS
<1>1. Wanted = {}  BY DEF Init, Wanted
<1>2. Up = {}  BY DEF Init, DriverInit, ProcessInit, Up, Live, LiveStage
<1>3. Phase = "serving"  BY DEF Init, Phase
<1>. QED  BY <1>1, <1>2, <1>3 DEF Promise!Init

\* A step of a child changes its own unit, and takes it down if anything.
LEMMA ChildOwn ==
  ASSUME ProcessTypeOK, NEW u \in Unit, ProcessNext(u), NEW v \in Unit, v # u
  PROVE  stage'[v] = stage[v]
<1>. USE DEF ProcessTypeOK, Move
<1>1. CASE Progress(u)
  BY <1>1 DEF Progress, Subscribe, BeginServe, BeginIteration, BeginStep, SkipStep, EndStep,
              EndIteration, ExitStep, LeaveLoop, Teardown
<1>2. CASE HandleTerm(u) \/ Die(u)
  BY <1>2 DEF HandleTerm, Die
<1>3. CASE Mishap(u) \/ GoStale(u)
  BY <1>3 DEF Mishap, Crash, Escape, Hang, GoStale
<1>. QED  BY <1>1, <1>2, <1>3 DEF ProcessNext, Regular

LEMMA ChildRefines ==
  ASSUME SafetyInv, NEW u \in Unit, ChildStep(u)
  PROVE  [Promise!Next]_abstractVars
<1>1. Wanted' = Wanted /\ Phase' = Phase
  BY DEF ChildStep, hubVars, Wanted, Phase
<1>2. \A v \in Unit : v # u => (Live(v)' <=> Live(v))
  BY ChildOwn DEF ChildStep, SafetyInv, TypeOK, DriverTypeOK, Live
<1>3. Live(u)' => Live(u)
  BY ChildEffect DEF ChildStep, SafetyInv, TypeOK, DriverTypeOK
<1>4. CASE Live(u) /\ ~Live(u)'
  <2>1. u \in Up /\ Up' = Up \ {u}  BY <1>2, <1>4 DEF Up
  <2>2. Promise!End(u)  BY <1>1, <2>1 DEF Promise!End
  <2>. QED  BY <2>2 DEF Promise!Next
<1>5. CASE ~(Live(u) /\ ~Live(u)')
  <2>1. Up' = Up  BY <1>2, <1>3, <1>5 DEF Up
  <2>. QED  BY <1>1, <2>1 DEF abstractVars
<1>. QED  BY <1>4, <1>5

LEMMA UpKept ==
  ASSUME SafetyInv, ~Started,
         \/ Api \/ HubStep \/ StartFailed \/ UNCHANGED vars
         \/ \E toGroup \in BOOLEAN : Signal(toGroup)
  PROVE  Up' = Up
  BY HubEffect DEF SafetyInv, Up

LEMMA StartedRefines ==
  ASSUME SafetyInv, Started
  PROVE  Promise!Start(cur) /\ cur \in Unit
<1>1. cur \in units /\ target[cur] = "RUNNING" /\ cur \in Unit
  BY DEF Started, SafetyInv, Bookkeeping, TypeOK
<1>2. Wanted' = Wanted /\ Phase' = Phase /\ Phase = "serving"
  BY DEF Started, Wanted, Phase
<1>3. cur \in Wanted \ Up
  <2>1. ~Live(cur)
    BY DEF Started, StartProcess, Move, Live, LiveStage
  <2>. QED  BY <1>1, <2>1 DEF Wanted, Up
<1>4. Up' = Up \cup {cur}
  <2>1. HubStep  BY DEF HubStep
  <2>2. \A v \in Unit : Live(v)' <=> Live(v) \/ v = cur
    BY <2>1, HubEffect DEF SafetyInv
  <2>. QED  BY <1>1, <2>2 DEF Up
<1>. QED  BY <1>1, <1>2, <1>3, <1>4 DEF Promise!Start

LEMMA ApiRefines ==
  ASSUME SafetyInv, Api
  PROVE  [Promise!Next]_abstractVars
<1>1. Up' = Up
  BY UpKept DEF Api, AddUnit, UpdateUnit, RemoveUnit, Call, Started
<1>2. Phase' = Phase /\ Phase = "serving"
  BY DEF Api, AddUnit, UpdateUnit, RemoveUnit, Call, Phase
<1>3. ASSUME NEW u \in Unit, NEW t \in State, AddUnit(u, t) \/ UpdateUnit(u, t)
      PROVE  Wanted' \in {Wanted \cup {u}, Wanted \ {u}}
  <2>1. /\ t \in TargetState
        /\ target' = [target EXCEPT ![u] = t]
        /\ units' = units \cup {u}
    BY <1>3, HubAssumption DEF AddUnit, UpdateUnit
  <2>2. \A v \in Unit : v # u => target'[v] = target[v]
    BY <2>1 DEF SafetyInv, TypeOK
  <2>3. target'[u] = t
    BY <2>1 DEF SafetyInv, TypeOK
  <2>4. units \subseteq Unit
    BY DEF SafetyInv, TypeOK
  <2>5. CASE t = "RUNNING"
    <3>1. Wanted' = Wanted \cup {u}  BY <2>1, <2>2, <2>3, <2>4, <2>5 DEF Wanted
    <3>. QED  BY <3>1
  <2>6. CASE t # "RUNNING"
    <3>1. Wanted' = Wanted \ {u}  BY <2>1, <2>2, <2>3, <2>4, <2>6 DEF Wanted
    <3>. QED  BY <3>1
  <2>. QED  BY <2>5, <2>6
<1>4. ASSUME NEW u \in Unit, RemoveUnit(u)  PROVE Wanted' = Wanted
  BY <1>4 DEF RemoveUnit, Wanted
<1>5. CASE Wanted' = Wanted
  BY <1>1, <1>2, <1>5 DEF abstractVars
<1>6. ASSUME NEW u \in Unit, Wanted' = Wanted \cup {u}  PROVE Promise!Next
  BY <1>1, <1>2, <1>6 DEF Promise!Next, Promise!Want
<1>7. ASSUME NEW u \in Unit, Wanted' = Wanted \ {u}  PROVE Promise!Next
  BY <1>1, <1>2, <1>7 DEF Promise!Next, Promise!Unwant
<1>. QED  BY <1>3, <1>4, <1>5, <1>6, <1>7 DEF Api

LEMMA HubStepRefines ==
  ASSUME SafetyInv, HubStep
  PROVE  [Promise!Next]_abstractVars
<1>1. CASE Started
  BY <1>1, StartedRefines DEF Promise!Next
<1>2. CASE RemoveJoined
  <2>1. Up' = Up  BY <1>2, UpKept DEF RemoveJoined, Started
  <2>2. Phase' = Phase /\ Phase = "serving"  BY <1>2 DEF RemoveJoined, Phase
  <2>3. cur \in Unit  BY <1>2 DEF RemoveJoined, SafetyInv, Bookkeeping, TypeOK
  <2>4. Wanted' = Wanted \ {cur}  BY <1>2 DEF RemoveJoined, Wanted
  <2>. QED  BY <2>1, <2>2, <2>3, <2>4 DEF Promise!Next, Promise!Unwant
<1>3. CASE BeginShutdown
  <2>1. Up' = Up  BY <1>3, UpKept DEF BeginShutdown, Started
  <2>2. Wanted' = Wanted  BY <1>3 DEF BeginShutdown, Wanted
  <2>3. Phase = "serving" /\ Phase' = "stopping"
    BY <1>3 DEF BeginShutdown, Sweep, Phase
  <2>. QED  BY <2>1, <2>2, <2>3 DEF Promise!Next, Promise!BeginStopping
<1>4. CASE Exit
  <2>1. Up' = Up  BY <1>4, UpKept DEF Exit, Started
  <2>2. Wanted' = Wanted  BY <1>4 DEF Exit, Wanted
  <2>3. Phase = "stopping" /\ Phase' = "gone"  BY <1>4 DEF Exit, Phase
  <2>4. Up = {}  BY <1>4 DEF Exit, Up
  <2>. QED  BY <2>1, <2>2, <2>3, <2>4 DEF Promise!Next, Promise!Leave
<1>5. ASSUME ~Started, UNCHANGED <<units, target>>, Phase' = Phase
      PROVE  UNCHANGED abstractVars
  BY <1>5, UpKept DEF Wanted, abstractVars
<1>6. CASE Subscribed \/ EnterLoop \/ BeginPass
  <2>1. ~Started /\ UNCHANGED <<units, target>> /\ Phase' = Phase
    BY <1>6 DEF Subscribed, EnterLoop, BeginPass, Sweep, Started, Phase
  <2>. QED  BY <1>5, <2>1
<1>7. CASE EndManage \/ Panicked \/ FastKillJoined
  <2>1. ~Started /\ UNCHANGED <<units, target>> /\ Phase' = Phase
    BY <1>7 DEF EndManage, Panicked, FastKillJoined, Goto, StopHub, EndPass, Started, Phase
  <2>. QED  BY <1>5, <2>1
<1>8. CASE \/ AsWanted \/ FirstStart \/ MarkStopped \/ Stop
           \/ StartAgain \/ Kill \/ KillJoined
  <2>1. ~Started /\ UNCHANGED <<units, target>> /\ Phase' = Phase
    BY <1>8, ApplyOutcome DEF Outcome, Started, Phase
  <2>. QED  BY <1>5, <2>1
<1>9. ASSUME NEW u \in Unit,
             \/ Observe(u) \/ Manage(u) \/ FastStop(u)
             \/ StopOne(u) \/ StopRaises(u) \/ JoinOne(u)
      PROVE  UNCHANGED abstractVars
  <2>1. CASE Observe(u) \/ StopOne(u)
    <3>1. ~Started /\ UNCHANGED <<units, target>> /\ Phase' = Phase
      BY <2>1 DEF Observe, StopOne, Visit, Sweep, Started, Phase
    <3>. QED  BY <1>5, <3>1
  <2>2. CASE Manage(u) \/ FastStop(u)
    <3>1. ~Started /\ UNCHANGED <<units, target>> /\ Phase' = Phase
      BY <2>2 DEF Manage, Sweep, FastStop, Started, Phase
    <3>. QED  BY <1>5, <3>1
  <2>3. CASE StopRaises(u) \/ JoinOne(u)
    <3>1. ~Started /\ UNCHANGED <<units, target>> /\ Phase' = Phase
      BY <2>3 DEF StopRaises, JoinOne, Started, Phase
    <3>. QED  BY <1>5, <3>1
  <2>. QED  BY <1>9, <2>1, <2>2, <2>3
<1>. QED
  BY <1>1, <1>2, <1>3, <1>4, <1>6, <1>7, <1>8, <1>9 DEF HubStep

LEMMA PromiseStep == SafetyInv /\ [Next]_vars => [Promise!Next]_abstractVars
<1>. SUFFICES ASSUME SafetyInv, [Next]_vars  PROVE [Promise!Next]_abstractVars
  OBVIOUS
<1>1. ASSUME ~Started, UNCHANGED <<units, target, pc>>,
             \/ StartFailed \/ UNCHANGED vars
             \/ \E toGroup \in BOOLEAN : Signal(toGroup)
      PROVE  UNCHANGED abstractVars
  BY <1>1, UpKept DEF Wanted, Phase, abstractVars
<1>2. CASE StartFailed
  <2>1. Up' = Up
    <3>1. ~Started
      BY <1>2 DEF StartFailed, Started, StopHub, EndPass
    <3>. QED  BY <1>2, <3>1, UpKept
  <2>2. Wanted' = Wanted /\ Phase' = Phase
    BY <1>2 DEF StartFailed, StopHub, EndPass, Wanted, Phase
  <2>. QED  BY <2>1, <2>2 DEF abstractVars
<1>3. ASSUME NEW toGroup \in BOOLEAN, Signal(toGroup)
      PROVE  UNCHANGED abstractVars
  <2>1. ~Started /\ UNCHANGED <<units, target, pc>>
    BY <1>3 DEF Signal, Started
  <2>. QED  BY <1>1, <1>3, <2>1
<1>4. CASE UNCHANGED vars
  <2>1. Up' = Up /\ Wanted' = Wanted /\ Phase' = Phase
    BY <1>4 DEF vars, Up, Live, Wanted, Phase
  <2>. QED  BY <2>1 DEF abstractVars
<1>. QED
  BY <1>2, <1>3, <1>4, ApiRefines, HubStepRefines, ChildRefines DEF Next, Finished

\* Every behaviour of the hub is one of the abstract supervisor.
THEOREM HubKeepsPromiseCorrect == Spec => HubKeepsPromise
<1>1. [Promise!Next]_abstractVars => [Promise!Next]_(Promise!supervisorVars)
  BY DEF abstractVars, Promise!supervisorVars
<1>. QED
  BY <1>1, PromiseInit, PromiseStep, SafetyCorrect, PTL
     DEF Spec, HubKeepsPromise, Promise!Spec
=============================================================================
