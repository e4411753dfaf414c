------------------------- MODULE HubSnapshotProofs -------------------------
(***************************************************************************)
(* The mark FORCIBLY_STOPPED is never on a running process, although it is *)
(* set from observations made earlier in the pass: with the controller     *)
(* that never panics, and with one that panics on FAILED when dicts keep   *)
(* their insertion order.  The latter never runs a failed unit again, if   *)
(* it panics on NUMB too.                                                  *)
(***************************************************************************)
EXTENDS HubSafetyProofs

\* The two cases in which the mark is safe.
MarkIsSafe == PanicStates = {} \/ (InsertionOrder /\ "FAILED" \in PanicStates)

LEMMA SnapshotInit == Init => SnapshotInv
<1>. SUFFICES ASSUME Init  PROVE SnapshotInv
  OBVIOUS
<1>. USE DEF Init, DriverInit, ProcessInit
<1>1. ForcedNotRunning  BY DEF ForcedNotRunning, Live, LiveStage
<1>2. Pending = {}  BY DEF Pending
<1>3. SnapshotHolds /\ SeenFresh  BY <1>2 DEF SnapshotHolds, SeenFresh
<1>4. LoopsGoUp /\ VisitedSettled /\ SeenFreshAreLast
  BY DEF LoopsGoUp, VisitedSettled, SeenFreshAreLast, InPass
<1>5. FreshAreLast /\ StartsUnmarked /\ NoPanic
  BY DEF FreshAreLast, StartsUnmarked, NoPanic
<1>. QED  BY <1>1, <1>3, <1>4, <1>5 DEF SnapshotInv

-----------------------------------------------------------------------------
(* Steps that leave the marks and the freshness of all units alone.        *)

\* What such a step does to the processes.
Settled ==
    /\ forced' = forced
    /\ \A v \in Unit : /\ Live(v)' => Live(v)
                       /\ stage'[v] = "initial" <=> stage[v] = "initial"

LEMMA SettledFresh ==
  ASSUME Settled
  PROVE  \A v \in Unit : Fresh(v)' <=> Fresh(v)
  BY DEF Settled, Fresh

\* A step that does not move the hub either.
LEMMA FrameStep ==
  ASSUME SafetyInv, SnapshotInv, Settled,
         UNCHANGED <<pc, units, seen, todo, cur>>, ctrlStop => ctrlStop'
  PROVE  SnapshotInv'
<1>. USE DEF SnapshotInv
<1>0. /\ \A v \in Unit : Fresh(v)' <=> Fresh(v)
      /\ units \subseteq Unit /\ todo \subseteq Unit
      /\ pc \in {"apply", "start"} => cur \in Unit
  BY SettledFresh DEF SafetyInv, TypeOK, Bookkeeping
<1>1. ForcedNotRunning'  BY DEF Settled, ForcedNotRunning
<1>2. Pending' = Pending /\ Pending \subseteq Unit  BY <1>0 DEF Pending
<1>3. SnapshotHolds'  BY <1>2 DEF Settled, SnapshotHolds
<1>4. SeenFresh'  BY <1>0, <1>2 DEF SeenFresh
<1>5. LoopsGoUp'  BY DEF LoopsGoUp, InPass
<1>6. VisitedSettled'  BY <1>0 DEF VisitedSettled, InPass
<1>7. FreshAreLast'  BY <1>0 DEF FreshAreLast
<1>8. SeenFreshAreLast'  BY DEF SeenFreshAreLast, InPass
<1>9. StartsUnmarked' /\ NoPanic'  BY <1>0 DEF StartsUnmarked, NoPanic
<1>. QED  BY <1>1, <1>3, <1>4, <1>5, <1>6, <1>7, <1>8, <1>9

\* A step to a place where nothing is pending.
LEMMA RestStep ==
  ASSUME SafetyInv, SnapshotInv, Settled,
         pc' \in PC \ {"manage", "apply", "start", "killing", "fast", "fastkill"},
         pc' = "observe" => todo' = units',
         units' \subseteq units,
         ctrlStop' \/ (~ctrlStop /\ pc \notin {"start", "fast", "fastkill"})
  PROVE  SnapshotInv'
<1>. USE DEF SnapshotInv
<1>0. /\ \A v \in Unit : Fresh(v)' <=> Fresh(v)
      /\ units \subseteq Unit
  BY SettledFresh DEF SafetyInv, TypeOK
<1>1. ForcedNotRunning'  BY DEF Settled, ForcedNotRunning
<1>2. Pending' = {}  BY DEF Pending
<1>3. SnapshotHolds' /\ SeenFresh'  BY <1>2 DEF SnapshotHolds, SeenFresh
<1>4. LoopsGoUp' /\ VisitedSettled' /\ SeenFreshAreLast'
  BY DEF LoopsGoUp, VisitedSettled, SeenFreshAreLast, InPass
<1>5. FreshAreLast'  BY <1>0 DEF FreshAreLast
<1>6. StartsUnmarked' /\ NoPanic'  BY DEF StartsUnmarked, NoPanic
<1>. QED  BY <1>1, <1>3, <1>4, <1>5, <1>6

LEMMA KeptSettled ==
  ASSUME NEW u, Terminate(u) \/ SendKill(u) \/ UNCHANGED driverVars
  PROVE  Settled
  BY DEF Terminate, SendKill, driverVars, Settled, Live

-----------------------------------------------------------------------------
(* The pass.                                                               *)

LEMMA SensorFresh ==
  ASSUME SafetyInv
  PROVE  \A v \in Unit : /\ ServiceState(v) = "INITIAL" <=> Fresh(v)
                         /\ ServiceState(v) \in {"STOPPED", "FAILED"} => ~Live(v)
<1>. SUFFICES ASSUME NEW v \in Unit
              PROVE  /\ ServiceState(v) = "INITIAL" <=> Fresh(v)
                     /\ ServiceState(v) \in {"STOPPED", "FAILED"} => ~Live(v)
  OBVIOUS
<1>1. stage[v] \in Stage
  BY DEF SafetyInv, TypeOK, DriverTypeOK, ProcessTypeOK
<1>2. CASE Live(v)
  BY <1>2 DEF ServiceState, Fresh, Live, LiveStage
<1>3. CASE ~Live(v)
  <2>1. \/ stage[v] = "initial" /\ ProcessState(v) = "INITIAL"
        \/ stage[v] = "stopped" /\ ProcessState(v) = "STOPPED"
        \/ stage[v] = "failed" /\ ProcessState(v) = "FAILED"
    BY <1>1, <1>3 DEF Stage, Live, ProcessState
  <2>. QED  BY <1>3, <2>1 DEF ServiceState, Fresh
<1>. QED  BY <1>2, <1>3

LEMMA ObserveStep ==
  ASSUME SafetyInv, SnapshotInv, NEW u \in Unit, Observe(u)
  PROVE  SnapshotInv'
<1>. USE DEF SnapshotInv
<1>1. /\ pc = "observe" /\ IsNext(u) /\ units' = units /\ ctrlStop' = ctrlStop
      /\ UNCHANGED driverVars
      /\ seen' = [seen EXCEPT ![u] = ServiceState(u)]
      /\ \/ todo = {u} /\ pc' = "manage" /\ todo' = units
         \/ pc' = "observe" /\ todo' = todo \ {u}
  BY DEF Observe, Visit, Sweep
<1>2. Settled  BY <1>1, KeptSettled
<1>3. /\ \A v \in Unit : Fresh(v)' <=> Fresh(v)
      /\ units \subseteq Unit /\ todo \subseteq units
      /\ seen'[u] = ServiceState(u)
      /\ \A v \in Unit : v # u => seen'[v] = seen[v]
      /\ Pending = units \ todo
  BY <1>1, <1>2, SettledFresh DEF SafetyInv, TypeOK, Bookkeeping, Pending
<1>4. Pending' = (units \ todo) \cup {u}
  BY <1>1, <1>3 DEF Pending, IsNext
<1>5. ForcedNotRunning'  BY <1>2 DEF Settled, ForcedNotRunning
<1>6. SnapshotHolds'
  <2>1. SUFFICES ASSUME NEW v \in Pending'
                 PROVE  /\ seen'[v] = "INITIAL" => stage'[v] = "initial"
                        /\ seen'[v] = "FAILED" => ~Live(v)'
                        /\ seen'[v] = "STOPPED" => ~Live(v)'
    BY DEF SnapshotHolds
  <2>2. CASE v = u
    <3>1. seen'[v] = "INITIAL" => stage'[v] = "initial"
      BY <1>2, <1>3, <2>2, SensorFresh DEF Fresh, Settled
    <3>2. seen'[v] \in {"STOPPED", "FAILED"} => ~Live(v)'
      BY <1>2, <1>3, <2>2, SensorFresh DEF Settled
    <3>. QED  BY <3>1, <3>2
  <2>3. CASE v # u
    <3>1. v \in Pending /\ v \in Unit  BY <1>3, <1>4, <2>1, <2>3
    <3>. QED  BY <1>1, <1>2, <1>3, <2>3, <3>1 DEF SnapshotHolds, Settled
  <2>. QED  BY <2>2, <2>3
<1>7. SeenFresh'
  BY <1>3, <1>4, SensorFresh DEF SeenFresh
<1>8. LoopsGoUp'
  <2>1. CASE pc' = "observe"
    <3>1. \A a \in units \ todo : \A b \in todo : a < b
      BY <1>1 DEF LoopsGoUp
    <3>2. \A b \in todo \ {u} : u < b
      BY <1>1, <1>3 DEF IsNext, Unit
    <3>. QED  BY <1>1, <2>1, <3>1, <3>2 DEF LoopsGoUp, IsNext
  <2>2. CASE todo' = units
    BY <1>1, <2>2 DEF LoopsGoUp
  <2>. QED  BY <1>1, <2>1, <2>2
<1>9. VisitedSettled'
  BY <1>1 DEF VisitedSettled, InPass
<1>10. FreshAreLast'
  BY <1>1, <1>3 DEF FreshAreLast
<1>11. SeenFreshAreLast'
  <2>1. SUFFICES ASSUME InsertionOrder, ~ctrlStop,
                        NEW a \in (units \ todo) \cup {u}, NEW b \in (units \ todo) \cup {u},
                        a < b, seen'[a] = "INITIAL"
                 PROVE  seen'[b] = "INITIAL"
    <3>1. pc' = "manage" => units \subseteq (units \ todo) \cup {u}  BY <1>1
    <3>2. pc' = "observe" => units \ todo' \subseteq (units \ todo) \cup {u}  BY <1>1
    <3>. QED  BY <1>1, <3>1, <3>2 DEF SeenFreshAreLast
  <2>2. Fresh(a)
    BY <1>3, <2>1, SensorFresh DEF SeenFresh
  <2>3. Fresh(b)
    BY <1>1, <1>3, <2>1, <2>2 DEF FreshAreLast, IsNext
  <2>. QED  BY <1>3, <2>1, <2>3, SensorFresh DEF SeenFresh
<1>12. StartsUnmarked' /\ NoPanic'
  BY <1>1 DEF StartsUnmarked, NoPanic
<1>. QED  BY <1>5, <1>6, <1>7, <1>8, <1>9, <1>10, <1>11, <1>12

\* The pass is done with a unit, or about to be: no unit it has left behind is
\* still INITIAL, so a panic finds none that was started meanwhile.
LEMMA ManageStep ==
  ASSUME MarkIsSafe, SafetyInv, SnapshotInv, NEW u \in Unit, Manage(u)
  PROVE  SnapshotInv'
<1>. USE DEF SnapshotInv
<1>1. /\ pc = "manage" /\ IsNext(u) /\ ~ctrlStop /\ units' = units
      /\ ctrlStop' = ctrlStop /\ seen' = seen /\ UNCHANGED driverVars
  BY DEF Manage
<1>2. Settled  BY <1>1, KeptSettled
<1>3. /\ \A v \in Unit : Fresh(v)' <=> Fresh(v)
      /\ units \subseteq Unit /\ todo \subseteq units
      /\ Pending = todo
  BY <1>1, <1>2, SettledFresh DEF SafetyInv, TypeOK, Bookkeeping, Pending
<1>4. ForcedNotRunning'  BY <1>2 DEF Settled, ForcedNotRunning
<1>5. FreshAreLast'
  BY <1>1, <1>3 DEF FreshAreLast
<1>6. CASE seen[u] \notin PanicStates
  <2>1. pc' = "apply" /\ todo' = todo \ {u} /\ cur' = u
    BY <1>6 DEF Manage
  <2>2. Pending' = Pending
    BY <1>1, <1>3, <2>1 DEF Pending, IsNext
  <2>3. SnapshotHolds' /\ SeenFresh'
    BY <1>1, <1>2, <1>3, <2>1, <2>2 DEF SnapshotHolds, SeenFresh, Settled
  <2>4. LoopsGoUp'
    <3>1. \A a \in units \ todo : \A b \in todo : a < b
      BY <1>1 DEF LoopsGoUp, InPass
    <3>2. \A b \in todo \ {u} : u < b
      BY <1>1, <1>3 DEF IsNext, Unit
    <3>. QED  BY <1>1, <2>1, <3>1, <3>2 DEF LoopsGoUp, IsNext
  <2>5. VisitedSettled'
    BY <1>1, <1>3, <1>6, <2>1 DEF VisitedSettled, InPass, IsNext
  <2>6. SeenFreshAreLast'
    BY <1>1, <2>1 DEF SeenFreshAreLast, InPass
  <2>7. StartsUnmarked' /\ NoPanic'
    BY <2>1 DEF StartsUnmarked, NoPanic
  <2>. QED  BY <1>4, <1>5, <2>3, <2>4, <2>5, <2>6, <2>7
<1>7. CASE seen[u] \in PanicStates
  <2>1. pc' = "fast" /\ todo' = units
    BY <1>7 DEF Manage, Sweep
  <2>2. InsertionOrder /\ "FAILED" \in PanicStates /\ seen[u] # "INITIAL"
    BY <1>7, HubAssumption DEF MarkIsSafe
  <2>3. ASSUME NEW v \in units \ todo
        PROVE  ~Fresh(v) /\ seen[v] # "FAILED" /\ seen[v] # "INITIAL"
    <3>1. ~Fresh(v) /\ seen[v] # "FAILED"
      BY <1>1, <2>2, <2>3 DEF VisitedSettled, InPass
    <3>2. v < u /\ u \in units
      BY <1>1, <1>3, <2>3 DEF LoopsGoUp, InPass, IsNext
    <3>3. seen[v] # "INITIAL"
      BY <1>1, <2>2, <2>3, <3>2 DEF SeenFreshAreLast, InPass
    <3>. QED  BY <3>1, <3>3
  <2>4. Pending' = units
    BY <1>1, <2>1 DEF Pending
  <2>5. SnapshotHolds' /\ SeenFresh'
    BY <1>1, <1>2, <1>3, <2>1, <2>3, <2>4 DEF SnapshotHolds, SeenFresh, Settled
  <2>6. LoopsGoUp' /\ VisitedSettled' /\ SeenFreshAreLast'
    BY <2>1 DEF LoopsGoUp, VisitedSettled, SeenFreshAreLast, InPass
  <2>7. StartsUnmarked' /\ NoPanic'
    BY <1>7, <2>1 DEF StartsUnmarked, NoPanic
  <2>. QED  BY <1>4, <1>5, <2>5, <2>6, <2>7
<1>. QED  BY <1>6, <1>7

\* Setting the state of cur, and starting it, changes no other unit.
OnlyCur ==
    \A v \in Unit \ {cur} : /\ forced'[v] = forced[v]
                            /\ stage'[v] = stage[v]

LEMMA CurStep ==
  ASSUME SafetyInv, SnapshotInv, OnlyCur,
         pc \in {"apply", "start", "killing"}, pc' \in {"manage", "start", "killing"},
         UNCHANGED <<units, seen, todo, cur, ctrlStop>>,
         forced'[cur] => ~Live(cur)',
         Fresh(cur)' <=> pc' = "start"
  PROVE  SnapshotInv'
<1>. USE DEF SnapshotInv
<1>1. /\ units \subseteq Unit /\ todo \subseteq units /\ cur \in units /\ cur \notin todo
      /\ \A v \in Unit \ {cur} : /\ Fresh(v)' <=> Fresh(v)
                                 /\ Live(v)' <=> Live(v)
  BY DEF SafetyInv, TypeOK, Bookkeeping, OnlyCur, Fresh, Live
<1>2. ForcedNotRunning'
  BY <1>1 DEF ForcedNotRunning, OnlyCur
<1>3. todo \subseteq Pending /\ Pending' = todo
  BY DEF Pending
<1>4. \A v \in Pending' : v \in Pending /\ v \in Unit \ {cur}
  BY <1>1, <1>3
<1>5. SnapshotHolds'
  <2>1. SUFFICES ASSUME NEW v \in Pending'
                 PROVE  /\ seen'[v] = "INITIAL" => stage'[v] = "initial"
                        /\ seen'[v] = "FAILED" => ~Live(v)'
                        /\ seen'[v] = "STOPPED" => ~Live(v)'
    BY DEF SnapshotHolds
  <2>2. v \in Pending /\ v \in Unit \ {cur}  BY <1>4, <2>1
  <2>. QED  BY <1>1, <2>2 DEF SnapshotHolds, OnlyCur
<1>6. SeenFresh'
  BY <1>1, <1>4 DEF SeenFresh
<1>7. LoopsGoUp'
  BY DEF LoopsGoUp, InPass
<1>8. VisitedSettled'
  <2>1. SUFFICES ASSUME NEW v \in units \ todo
                 PROVE  /\ Fresh(v)' => v = cur /\ pc' = "start"
                        /\ seen[v] \notin PanicStates
    BY DEF VisitedSettled
  <2>2. seen[v] \notin PanicStates /\ (Fresh(v) => v = cur)
    BY <2>1 DEF VisitedSettled, InPass
  <2>. QED  BY <1>1, <2>1, <2>2
<1>9. FreshAreLast'
  <2>1. SUFFICES ASSUME InsertionOrder, ~ctrlStop, NEW a \in units, NEW b \in units,
                        a < b, Fresh(a)', ~(pc' = "start" /\ a = cur)
                 PROVE  Fresh(b)'
    BY DEF FreshAreLast
  <2>2. a # cur /\ Fresh(a)  BY <1>1, <2>1
  <2>3. CASE b # cur
    <3>1. Fresh(b)  BY <2>1, <2>2 DEF FreshAreLast
    <3>. QED  BY <1>1, <2>3, <3>1
  <2>4. CASE b = cur
    <3>1. a \in todo => b < a  BY <1>1, <2>4 DEF LoopsGoUp, InPass
    <3>2. a \notin todo  BY <1>1, <2>1, <3>1 DEF Unit
    <3>3. FALSE  BY <2>1, <2>2, <3>2 DEF VisitedSettled, InPass
    <3>. QED  BY <3>3
  <2>. QED  BY <2>3, <2>4
<1>10. SeenFreshAreLast'
  BY DEF SeenFreshAreLast, InPass
<1>11. StartsUnmarked' /\ NoPanic'
  BY DEF StartsUnmarked, NoPanic
<1>. QED  BY <1>2, <1>5, <1>6, <1>7, <1>8, <1>9, <1>10, <1>11

LEMMA RenewStep ==
  ASSUME SafetyInv, SnapshotInv, Renew, pc \in {"apply", "killing"}
  PROVE  SnapshotInv'
<1>1. CASE Live(cur)
  <2>1. UNCHANGED driverVars /\ StopHub  BY <1>1 DEF Renew
  <2>2. Settled  BY <2>1, KeptSettled
  <2>. QED  BY <2>1, <2>2, RestStep DEF StopHub, EndPass, PC
<1>2. CASE ~Live(cur)
  <2>1. InitService(cur) /\ Goto("start")  BY <1>2 DEF Renew
  <2>2. DriverTypeOK  BY DEF SafetyInv, TypeOK
  <2>3. OnlyCur  BY <2>1, <2>2, InitEffect DEF OnlyCur
  <2>4. cur \in Unit  BY DEF SafetyInv, TypeOK, Bookkeeping
  <2>5. stage'[cur] = "initial" /\ ~forced'[cur] /\ cur' = cur
    BY <2>1, <2>2, <2>4, InitEffect DEF Goto
  <2>. QED  BY <2>1, <2>3, <2>5, CurStep DEF Goto, Fresh, Live, LiveStage
<1>. QED  BY <1>1, <1>2

\* A step on cur that leaves the process as it is and cur not INITIAL.
LEMMA LeaveCurStep ==
  ASSUME SafetyInv, SnapshotInv, pc \in {"apply", "killing"}, ~Fresh(cur),
         NEW next \in {"manage", "killing"}, Goto(next),
         Terminate(cur) \/ SendKill(cur) \/ UNCHANGED driverVars
  PROVE  SnapshotInv'
<1>1. stage' = stage /\ forced' = forced /\ cur' = cur
  BY DEF Terminate, SendKill, driverVars, Goto
<1>2. OnlyCur  BY <1>1 DEF OnlyCur
<1>3. cur \in Unit  BY DEF SafetyInv, TypeOK, Bookkeeping
<1>4. forced'[cur] => ~Live(cur)'
  BY <1>1, <1>3 DEF SnapshotInv, ForcedNotRunning, Live
<1>5. Fresh(cur)' <=> pc' = "start"
  BY <1>1 DEF Fresh, Goto
<1>. QED  BY <1>2, <1>4, <1>5, CurStep DEF Goto

LEMMA AfterKillStep ==
  ASSUME SafetyInv, SnapshotInv, AfterKill, pc \in {"apply", "killing"}, ~Fresh(cur)
  PROVE  SnapshotInv'
  BY RenewStep, LeaveCurStep DEF AfterKill

LEMMA ApplyStep ==
  ASSUME SafetyInv, SnapshotInv,
         \/ AsWanted \/ FirstStart \/ MarkStopped \/ Stop \/ StartAgain \/ Kill \/ KillJoined
  PROVE  SnapshotInv'
<1>0. /\ pc \in {"apply", "killing"} => cur \in units /\ cur \in Unit /\ cur \notin todo
      /\ pc = "apply" => cur \in Pending
  BY DEF SafetyInv, TypeOK, Bookkeeping, Pending
<1>1. pc = "apply" => (seen[cur] = "INITIAL" <=> Fresh(cur))
  BY <1>0 DEF SnapshotInv, SeenFresh
<1>2. CASE AsWanted
  <2>1. pc = "apply" /\ seen[cur] # "INITIAL" /\ Goto("manage") /\ UNCHANGED driverVars
    BY <1>2 DEF AsWanted, Apply
  <2>. QED  BY <1>1, <2>1, LeaveCurStep
<1>3. CASE FirstStart
  <2>1. pc = "apply" /\ seen[cur] = "INITIAL" /\ Goto("start") /\ UNCHANGED driverVars
    BY <1>3 DEF FirstStart, Apply
  <2>2. Fresh(cur)  BY <1>1, <2>1
  <2>3. stage' = stage /\ forced' = forced /\ cur' = cur  BY <2>1 DEF driverVars, Goto
  <2>4. OnlyCur  BY <2>3 DEF OnlyCur
  <2>5. Fresh(cur)'  BY <2>2, <2>3 DEF Fresh
  <2>6. forced'[cur] => ~Live(cur)'  BY <2>5 DEF Fresh, Live, LiveStage
  <2>. QED  BY <2>1, <2>4, <2>5, <2>6, CurStep DEF Goto
<1>4. CASE MarkStopped
  <2>1. /\ pc = "apply" /\ seen[cur] \in {"INITIAL", "FAILED"}
        /\ SetStopped(cur) /\ Goto("manage")
    BY <1>4 DEF MarkStopped, Apply
  <2>2. ~Live(cur)
    BY <1>0, <2>1 DEF SnapshotInv, SnapshotHolds, Live, LiveStage
  <2>3. /\ OnlyCur /\ stage' = stage /\ cur' = cur
        /\ forced'[cur]
    BY <1>0, <2>1 DEF SetStopped, OnlyCur, Goto, SafetyInv, TypeOK, DriverTypeOK
  <2>4. ~Live(cur)' /\ ~Fresh(cur)'  BY <2>2, <2>3 DEF Live, Fresh
  <2>. QED  BY <2>1, <2>3, <2>4, CurStep DEF Goto
<1>5. CASE Stop
  <2>1. pc = "apply" /\ seen[cur] # "INITIAL" /\ Goto("manage") /\ Terminate(cur)
    BY <1>5 DEF Stop, Apply
  <2>. QED  BY <1>1, <2>1, LeaveCurStep
<1>6. CASE StartAgain
  BY <1>6, RenewStep DEF StartAgain, Apply
<1>7. CASE Kill
  <2>1. pc = "apply" /\ seen[cur] # "INITIAL"
    BY <1>7 DEF Kill, Apply
  <2>2. (SendKill(cur) /\ Goto("killing")) \/ AfterKill
    BY <1>7 DEF Kill
  <2>. QED  BY <1>1, <2>1, <2>2, LeaveCurStep, AfterKillStep
<1>8. CASE KillJoined
  <2>1. pc = "killing" /\ AfterKill  BY <1>8 DEF KillJoined
  <2>2. ~Fresh(cur)
    BY <1>0, <2>1 DEF SnapshotInv, VisitedSettled, InPass
  <2>. QED  BY <2>1, <2>2, AfterKillStep
<1>. QED  BY <1>2, <1>3, <1>4, <1>5, <1>6, <1>7, <1>8

LEMMA StartedStep ==
  ASSUME SafetyInv, SnapshotInv, Started
  PROVE  SnapshotInv'
<1>1. /\ pc = "start" /\ pc' = "manage" /\ cur \in Unit /\ cur' = cur
      /\ UNCHANGED <<units, seen, todo, cur, ctrlStop>>
      /\ StartProcess(cur) /\ DriverTypeOK
  BY DEF Started, SafetyInv, TypeOK, Bookkeeping
<1>2. ~forced[cur]
  BY <1>1 DEF SnapshotInv, StartsUnmarked, Fresh
<1>3. OnlyCur /\ stage'[cur] = "boot" /\ ~forced'[cur]
  BY <1>1, <1>2, StartEffect DEF OnlyCur
<1>. QED  BY <1>1, <1>3, CurStep DEF Fresh

\* _fast_stop() acts on what was seen of the unit, which still holds.
LEMMA FastStep ==
  ASSUME SafetyInv, SnapshotInv, NEW u \in Unit, FastStop(u)
  PROVE  SnapshotInv'
<1>. USE DEF SnapshotInv
<1>1. /\ pc = "fast" /\ pc' \in {"fast", "fastkill"} /\ u \in todo
      /\ units' = units /\ seen' = seen /\ todo' = todo \ {u}
      /\ Pending = todo /\ todo \subseteq Unit /\ forced \in [Unit -> BOOLEAN]
  BY DEF FastStop, IsNext, Pending, SafetyInv, TypeOK, DriverTypeOK
<1>2. /\ stage' = stage
      /\ \A v \in Unit \ {u} : forced'[v] = forced[v]
      /\ forced'[u] => forced[u] \/ seen[u] \in {"INITIAL", "FAILED"}
  BY <1>1 DEF FastStop, SetStopped, Terminate, SendKill, driverVars
<1>3. seen[u] \in {"INITIAL", "FAILED"} => ~Live(u)
  BY <1>1 DEF SnapshotHolds, Live, LiveStage
<1>4. ForcedNotRunning'
  BY <1>2, <1>3 DEF ForcedNotRunning, Live
<1>5. Pending' = todo \ {u}
  BY <1>1 DEF Pending
<1>6. SnapshotHolds' /\ SeenFresh'
  BY <1>1, <1>2, <1>5 DEF SnapshotHolds, SeenFresh, Fresh, Live
<1>7. /\ LoopsGoUp' /\ VisitedSettled' /\ FreshAreLast' /\ SeenFreshAreLast'
      /\ StartsUnmarked'
  BY <1>1 DEF LoopsGoUp, VisitedSettled, FreshAreLast, SeenFreshAreLast, StartsUnmarked, InPass
<1>8. NoPanic'
  BY <1>1 DEF NoPanic
<1>. QED  BY <1>4, <1>6, <1>7, <1>8

LEMMA FastKillJoinedStep ==
  ASSUME SafetyInv, SnapshotInv, FastKillJoined
  PROVE  SnapshotInv'
<1>. USE DEF SnapshotInv
<1>1. /\ pc = "fastkill" /\ pc' = "fast"
      /\ UNCHANGED <<units, seen, todo, stage, forced>>
      /\ Pending' = Pending
  BY DEF FastKillJoined, Goto, Pending, driverVars
<1>2. ForcedNotRunning'  BY <1>1 DEF ForcedNotRunning, Live
<1>3. SnapshotHolds' /\ SeenFresh'
  BY <1>1 DEF SnapshotHolds, SeenFresh, Fresh, Live
<1>4. /\ LoopsGoUp' /\ VisitedSettled' /\ FreshAreLast' /\ SeenFreshAreLast'
      /\ StartsUnmarked' /\ NoPanic'
  BY <1>1 DEF LoopsGoUp, VisitedSettled, FreshAreLast, SeenFreshAreLast, StartsUnmarked,
              InPass, NoPanic
<1>. QED  BY <1>2, <1>3, <1>4

\* A new unit is INITIAL, and behind all others.
LEMMA AddStep ==
  ASSUME SafetyInv, SnapshotInv, NEW u \in Unit, NEW t \in State, AddUnit(u, t)
  PROVE  SnapshotInv'
<1>. USE DEF SnapshotInv
<1>1. /\ pc \in {"new", "loop"} /\ pc' = pc /\ u \notin units /\ units' = units \cup {u}
      /\ InsertionOrder => \A v \in units : v < u
      /\ InitService(u) /\ DriverTypeOK /\ units \subseteq Unit /\ ctrlStop' = ctrlStop
  BY DEF AddUnit, Call, SafetyInv, TypeOK
<1>2. /\ Fresh(u)'
      /\ \A v \in Unit \ {u} :
           /\ Fresh(v)' <=> Fresh(v)
           /\ forced'[v] = forced[v]
           /\ Live(v)' => Live(v)
      /\ ~forced'[u]
  BY <1>1, InitEffect DEF Fresh
<1>3. ForcedNotRunning'
  BY <1>2 DEF ForcedNotRunning, Live
<1>4. Pending' = {}
  BY <1>1 DEF Pending
<1>5. SnapshotHolds' /\ SeenFresh'
  BY <1>4 DEF SnapshotHolds, SeenFresh
<1>6. FreshAreLast'
  <2>1. SUFFICES ASSUME InsertionOrder, ~ctrlStop,
                        NEW a \in units \cup {u}, NEW b \in units \cup {u},
                        a < b, Fresh(a)'
                 PROVE  Fresh(b)'
    BY <1>1 DEF FreshAreLast
  <2>2. CASE b = u  BY <1>2, <2>2
  <2>3. CASE b # u
    <3>1. b \in units /\ b < u  BY <1>1, <2>1, <2>3
    <3>2. a # u  BY <1>1, <2>1, <3>1 DEF Unit
    <3>3. Fresh(a)  BY <1>1, <1>2, <2>1, <3>2 DEF Fresh
    <3>4. a \in units /\ pc # "start" /\ pc \notin {"fast", "fastkill"}
      BY <1>1, <2>1, <3>2
    <3>5. Fresh(b)  BY <2>1, <3>1, <3>3, <3>4 DEF FreshAreLast
    <3>. QED  BY <1>1, <1>2, <2>3, <3>1, <3>5 DEF Fresh
  <2>. QED  BY <2>2, <2>3
<1>7. LoopsGoUp' /\ VisitedSettled' /\ SeenFreshAreLast' /\ StartsUnmarked' /\ NoPanic'
  BY <1>1 DEF LoopsGoUp, VisitedSettled, SeenFreshAreLast, StartsUnmarked, NoPanic, InPass
<1>. QED  BY <1>3, <1>5, <1>6, <1>7

LEMMA QuietSettled == Quiet => Settled
  BY QuietKeeps, KeptSettled

\* The steps to and from a place where nothing is pending.
LEMMA RestingStep ==
  ASSUME SafetyInv, SnapshotInv,
         \/ RemoveJoined \/ Subscribed \/ EnterLoop \/ BeginPass \/ BeginShutdown
         \/ EndManage \/ Panicked \/ Exit \/ StartFailed
         \/ \E u \in Unit : RemoveUnit(u) \/ StopOne(u) \/ StopRaises(u) \/ JoinOne(u)
  PROVE  SnapshotInv'
<1>1. CASE RemoveJoined \/ Subscribed \/ EnterLoop \/ BeginPass \/ BeginShutdown \/ Exit
  <2>1. Settled  BY <1>1, QuietSettled DEF Quiet
  <2>2. ctrlStop' = ctrlStop /\ ctrlStop \in BOOLEAN
    BY <1>1 DEF RemoveJoined, Subscribed, EnterLoop, BeginPass, BeginShutdown, Exit,
                SafetyInv, TypeOK
  <2>3. /\ pc' \in PC \ {"manage", "apply", "start", "killing", "fast", "fastkill"}
        /\ pc' = "observe" => todo' = units'
        /\ units' \subseteq units /\ pc \notin {"start", "fast", "fastkill"}
    BY <1>1 DEF RemoveJoined, Subscribed, EnterLoop, BeginPass, BeginShutdown, Exit, Sweep, PC
  <2>. QED  BY <2>1, <2>2, <2>3, RestStep
<1>2. CASE EndManage \/ Panicked
  <2>1. Settled  BY <1>2, QuietSettled DEF Quiet
  <2>2. /\ pc' = "loop" /\ units' = units /\ ctrlStop \in BOOLEAN
        /\ ctrlStop' \/ (ctrlStop' = ctrlStop /\ pc = "manage")
    BY <1>2 DEF EndManage, Panicked, StopHub, EndPass, SafetyInv, TypeOK
  <2>. QED  BY <2>1, <2>2, RestStep DEF PC
<1>3. CASE StartFailed
  <2>1. Settled  BY <1>3, KeptSettled DEF StartFailed
  <2>. QED  BY <1>3, <2>1, RestStep DEF StartFailed, StopHub, EndPass, PC
<1>4. ASSUME NEW u \in Unit, RemoveUnit(u) \/ StopOne(u) \/ StopRaises(u) \/ JoinOne(u)
      PROVE  SnapshotInv'
  <2>1. Settled
    BY <1>4, KeptSettled DEF RemoveUnit, StopOne, StopRaises, JoinOne
  <2>2. ctrlStop' = ctrlStop /\ ctrlStop \in BOOLEAN /\ units' = units
    BY <1>4 DEF RemoveUnit, StopOne, StopRaises, JoinOne, SafetyInv, TypeOK
  <2>3. /\ pc' \in {"remove", "stopall", "waitall", "aborted", "closed"}
        /\ pc \in {"loop", "stopall", "waitall"}
    BY <1>4 DEF RemoveUnit, StopOne, StopRaises, JoinOne, Visit, Sweep
  <2>. QED  BY <2>1, <2>2, <2>3, RestStep DEF PC
<1>. QED  BY <1>1, <1>2, <1>3, <1>4

\* The steps that do not move the hub.
LEMMA StandingStep ==
  ASSUME SafetyInv, SnapshotInv,
         \/ \E u \in Unit : ChildStep(u) \/ \E t \in State : UpdateUnit(u, t)
         \/ \E toGroup \in BOOLEAN : Signal(toGroup)
         \/ UNCHANGED vars
  PROVE  SnapshotInv'
<1>1. ASSUME NEW u \in Unit, ChildStep(u)  PROVE SnapshotInv'
  <2>1. Settled
    BY <1>1, ChildEffect DEF ChildStep, Settled, SafetyInv, TypeOK, DriverTypeOK
  <2>. QED  BY <1>1, <2>1, FrameStep DEF ChildStep, hubVars
<1>2. ASSUME NEW u \in Unit, NEW t \in State, UpdateUnit(u, t)  PROVE SnapshotInv'
  BY <1>2, KeptSettled, FrameStep DEF UpdateUnit
<1>3. ASSUME NEW toGroup \in BOOLEAN, Signal(toGroup)  PROVE SnapshotInv'
  <2>1. Settled  BY <1>3 DEF Signal, Settled, Live
  <2>. QED  BY <1>3, <2>1, FrameStep DEF Signal
<1>4. CASE UNCHANGED vars
  <2>1. Settled  BY <1>4 DEF vars, Settled, Live
  <2>. QED  BY <1>4, <2>1, FrameStep DEF vars
<1>. QED  BY <1>1, <1>2, <1>3, <1>4

LEMMA SnapshotStep ==
  ASSUME MarkIsSafe, SafetyInv, SnapshotInv, [Next]_vars
  PROVE  SnapshotInv'
<1>1. CASE Api
  BY <1>1, AddStep, StandingStep, RestingStep DEF Api
<1>2. CASE HubStep
  BY <1>2, RestingStep, ApplyStep, StartedStep, FastKillJoinedStep,
     ObserveStep, ManageStep, FastStep DEF HubStep
<1>3. CASE StartFailed
  BY <1>3, RestingStep
<1>4. CASE \/ \E toGroup \in BOOLEAN : Signal(toGroup)
           \/ \E u \in Unit : ChildStep(u)
           \/ UNCHANGED vars
  BY <1>4, StandingStep
<1>. QED  BY <1>1, <1>2, <1>3, <1>4 DEF Next, Finished

THEOREM SnapshotCorrect ==
  ASSUME MarkIsSafe
  PROVE  Spec => []SnapshotInv
<1>1. SafetyInv /\ SnapshotInv /\ [Next]_vars => SnapshotInv'
  BY SnapshotStep
<1>. QED  BY <1>1, SnapshotInit, SafetyCorrect, PTL DEF Spec

\* The mark FORCIBLY_STOPPED is only ever on a unit without a running process.
THEOREM ForcedNotRunningCorrect ==
  ASSUME MarkIsSafe
  PROVE  Spec => []ForcedNotRunning
<1>1. SnapshotInv => ForcedNotRunning  BY DEF SnapshotInv
<1>. QED  BY <1>1, SnapshotCorrect, PTL

\* What a pass has seen of a unit that is down holds until it acts on it.
THEOREM SnapshotHoldsCorrect ==
  ASSUME MarkIsSafe
  PROVE  Spec => []SnapshotHolds
<1>1. SnapshotInv => SnapshotHolds  BY DEF SnapshotInv
<1>. QED  BY <1>1, SnapshotCorrect, PTL

-----------------------------------------------------------------------------
(* The default controller does not run a failed unit again.                *)

\* PanicController as it is shipped, with dicts that keep their order.
DefaultController == InsertionOrder /\ PanicStates = {"FAILED", "NUMB"}

\* No pass acts on a unit from here on.
Ended ==
    \/ pc \in {"fast", "fastkill", "stopall", "waitall", "closed", "aborted", "exited"}
    \/ pc \in {"loop", "remove"} /\ ~hasRunning

\* A failed unit is marked by nothing but a panic.
FailuresUnhidden ==
    \A u \in Unit : forced[u] /\ stage[u] = "failed" => Ended

\* So no pass takes a failed unit for a stopped one.
StoppedSeenRight ==
    InPass \/ pc = "observe" =>
        \A u \in Pending : seen[u] = "STOPPED" => stage[u] # "failed"

PanicInv ==
    /\ FailuresUnhidden
    /\ StoppedSeenRight
    /\ pc # "killing"

LEMMA PanicInit == Init => PanicInv
  BY DEF Init, DriverInit, ProcessInit, PanicInv, FailuresUnhidden, StoppedSeenRight, InPass

LEMMA EndedStays ==
  ASSUME Ended, [Next]_vars
  PROVE  Ended'
<1>. USE DEF Ended
<1>1. CASE Api
  BY <1>1 DEF Api, AddUnit, UpdateUnit, RemoveUnit, Call
<1>2. CASE Quiet
  BY <1>2 DEF Quiet, RemoveJoined, Subscribed, EnterLoop, BeginPass, BeginShutdown, EndManage,
              AsWanted, FirstStart, Apply, FastKillJoined, Goto, Panicked, StopHub, EndPass,
              Exit, Observe, Manage, StopRaises, JoinOne, Sweep
<1>3. CASE MarkStopped \/ Stop \/ StartAgain \/ Kill \/ KillJoined \/ Started \/ StartFailed
  BY <1>3 DEF MarkStopped, Stop, StartAgain, Kill, KillJoined, Started, StartFailed, StopHub,
              EndPass, Apply
<1>4. CASE \E u \in Unit : FastStop(u) \/ StopOne(u)
  BY <1>4 DEF FastStop, StopOne, Visit, Sweep
<1>5. CASE (\E toGroup \in BOOLEAN : Signal(toGroup)) \/ UNCHANGED vars
  BY <1>5 DEF Signal, vars
<1>6. CASE \E u \in Unit : ChildStep(u)
  BY <1>6 DEF ChildStep, hubVars
<1>. QED  BY <1>1, <1>2, <1>3, <1>4, <1>5, <1>6 DEF Next, HubStep, Quiet, Finished

LEMMA ChildFails ==
  ASSUME ProcessTypeOK, NEW u \in Unit, ProcessNext(u), NEW v \in Unit
  PROVE  /\ stage'[v] = "failed" => stage[v] = "failed" \/ Live(v)
         /\ stage[v] = "failed" => stage'[v] = "failed"
<1>. USE DEF ProcessTypeOK, Move, Live, LiveStage
<1>1. CASE Progress(u)
  BY <1>1 DEF Progress, Subscribe, BeginServe, BeginIteration, BeginStep, SkipStep, EndStep,
              EndIteration, ExitStep, LeaveLoop, Teardown
<1>2. CASE HandleTerm(u) \/ Die(u)
  BY <1>2 DEF HandleTerm, Die
<1>3. CASE Mishap(u) \/ GoStale(u)
  BY <1>3 DEF Mishap, Crash, Escape, Hang, GoStale
<1>. QED  BY <1>1, <1>2, <1>3 DEF ProcessNext, Regular

\* Only a process that ran fails, it stays so, and it is marked only for good.
LEMMA FailEffect ==
  ASSUME DefaultController, SafetyInv, SnapshotInv, PanicInv, [Next]_vars, NEW v \in Unit
  PROVE  /\ stage'[v] = "failed" => stage[v] = "failed" \/ Live(v)
         /\ v \in units /\ stage[v] = "failed" => stage'[v] = "failed"
         /\ stage'[v] = "failed" /\ forced'[v] => forced[v] \/ Ended'
<1>. DEFINE Goal ==
       /\ stage'[v] = "failed" => stage[v] = "failed" \/ Live(v)
       /\ v \in units /\ stage[v] = "failed" => stage'[v] = "failed"
       /\ stage'[v] = "failed" /\ forced'[v] => forced[v] \/ Ended'
<1>0. DriverTypeOK /\ ProcessTypeOK
  BY DEF SafetyInv, TypeOK, DriverTypeOK
<1>a. ASSUME stage' = stage, forced' = forced  PROVE Goal
  BY <1>a
<1>b. ASSUME NEW u, Terminate(u) \/ SendKill(u) \/ UNCHANGED driverVars  PROVE Goal
  BY <1>a, <1>b DEF Terminate, SendKill, driverVars
<1>c. pc = "apply" => /\ cur \in units /\ cur \in Unit /\ cur \in Pending
                      /\ seen[cur] \notin {"FAILED", "NUMB"}
                      /\ seen[cur] = "STOPPED" => stage[cur] # "failed"
                      /\ seen[cur] = "INITIAL" => stage[cur] = "initial"
  <2>1. pc = "apply" => cur \in units \ todo /\ cur \in Unit /\ cur \in Pending
    BY DEF SafetyInv, TypeOK, Bookkeeping, Pending
  <2>. QED
    BY <2>1 DEF SnapshotInv, SnapshotHolds, VisitedSettled, InPass, DefaultController, PanicInv,
                StoppedSeenRight
<1>1. ASSUME NEW u \in Unit, ChildStep(u)  PROVE Goal
  BY <1>0, <1>1, ChildFails DEF ChildStep
<1>2. CASE Api
  <2>1. ASSUME NEW u \in Unit, NEW t \in State, AddUnit(u, t)  PROVE Goal
    BY <1>0, <2>1, InitEffect DEF AddUnit
  <2>. QED  BY <1>2, <1>b, <2>1 DEF Api, UpdateUnit, RemoveUnit
<1>3. CASE Quiet \/ Stop \/ StartFailed
  BY <1>3, <1>b, QuietKeeps DEF Stop, StartFailed
<1>4. CASE MarkStopped
  <2>1. SetStopped(cur) /\ stage[cur] = "initial" /\ cur \in Unit
    BY <1>4, <1>c DEF MarkStopped, Apply
  <2>. QED  BY <1>0, <2>1 DEF SetStopped, DriverTypeOK
<1>5. CASE StartAgain
  <2>1. stage[cur] # "failed" /\ cur \in Unit /\ Renew
    BY <1>5, <1>c DEF StartAgain, Apply
  <2>2. CASE UNCHANGED driverVars  BY <1>b, <2>2
  <2>3. CASE InitService(cur)  BY <1>0, <2>1, <2>3, InitEffect
  <2>. QED  BY <2>1, <2>2, <2>3 DEF Renew
<1>6. ~Kill /\ ~KillJoined
  BY <1>c DEF Kill, KillJoined, Apply, PanicInv
<1>7. CASE Started
  <2>1. StartProcess(cur)  BY <1>7 DEF Started
  <2>. QED  BY <1>0, <2>1, StartEffect
<1>8. ASSUME NEW u \in Unit, FastStop(u)  PROVE Goal
  <2>1. Ended' /\ stage' = stage
    BY <1>8 DEF FastStop, Ended, SetStopped, Terminate, SendKill, driverVars
  <2>. QED  BY <2>1
<1>9. ASSUME NEW u \in Unit, StopOne(u)  PROVE Goal
  BY <1>9, <1>b DEF StopOne
<1>10. CASE (\E toGroup \in BOOLEAN : Signal(toGroup)) \/ UNCHANGED vars
  BY <1>10, <1>a DEF Signal, vars
<1>. QED
  BY <1>1, <1>2, <1>3, <1>4, <1>5, <1>6, <1>7, <1>8, <1>9, <1>10
     DEF Next, HubStep, Quiet, Finished

\* What a pass knows of a unit it knew before, or has just seen.
LEMMA PendingKept ==
  ASSUME SafetyInv, [Next]_vars, InPass' \/ pc' = "observe", NEW v \in Pending'
  PROVE  \/ (InPass \/ pc = "observe") /\ v \in Pending /\ seen'[v] = seen[v]
         \/ Observe(v) /\ v \in Unit
<1>. USE DEF InPass, Pending
<1>0. /\ todo \subseteq units /\ units \subseteq Unit
      /\ pc \in {"apply", "start", "killing"} => cur \notin todo
      /\ seen \in [Unit -> State \cup {"NONE"}]
  BY DEF SafetyInv, Bookkeeping, TypeOK
<1>1. CASE Api
  BY <1>1 DEF Api, AddUnit, UpdateUnit, RemoveUnit, Call
<1>2. ASSUME NEW u \in Unit, Observe(u)
      PROVE  (v \in Pending /\ seen'[v] = seen[v]) \/ v = u
  BY <1>0, <1>2 DEF Observe, Visit, Sweep, IsNext
<1>3. ASSUME NEW u \in Unit, Manage(u)  PROVE v \in Pending /\ seen'[v] = seen[v]
  BY <1>0, <1>3 DEF Manage, Sweep, IsNext
<1>4. CASE RemoveJoined \/ Subscribed \/ EnterLoop \/ BeginPass \/ BeginShutdown
           \/ EndManage \/ FastKillJoined \/ Panicked \/ Exit \/ StartFailed
  BY <1>4 DEF RemoveJoined, Subscribed, EnterLoop, BeginPass, BeginShutdown, EndManage,
              FastKillJoined, Panicked, Exit, StartFailed, StopHub, EndPass, Sweep, Goto
<1>5. CASE AsWanted \/ FirstStart \/ MarkStopped \/ Stop \/ StartAgain \/ Kill \/ KillJoined
  <2>1. /\ pc \in {"apply", "killing"}
        /\ (Goto(pc') /\ pc' \in {"manage", "start", "killing"}) \/ pc' = "loop"
    BY <1>5 DEF AsWanted, FirstStart, MarkStopped, Stop, StartAgain, Kill, KillJoined,
                AfterKill, Renew, StopHub, EndPass, Apply, Goto
  <2>. QED  BY <2>1 DEF Goto
<1>6. CASE Started
  BY <1>6 DEF Started
<1>7. CASE \E u \in Unit : FastStop(u) \/ StopOne(u) \/ StopRaises(u) \/ JoinOne(u)
  BY <1>7 DEF FastStop, StopOne, StopRaises, JoinOne, Visit, Sweep
<1>8. CASE (\E toGroup \in BOOLEAN : Signal(toGroup)) \/ UNCHANGED vars
  BY <1>8 DEF Signal, vars
<1>9. CASE \E u \in Unit : ChildStep(u)
  BY <1>9 DEF ChildStep, hubVars
<1>10. (\E u \in Unit : Observe(u) \/ Manage(u)) => pc \in {"observe", "manage"}
  BY DEF Observe, Manage
<1>. QED
  BY <1>1, <1>2, <1>3, <1>4, <1>5, <1>6, <1>7, <1>8, <1>9, <1>10 DEF Next, HubStep, Finished

LEMMA PanicStep ==
  ASSUME DefaultController, SafetyInv, SnapshotInv, PanicInv, [Next]_vars
  PROVE  PanicInv'
<1>1. FailuresUnhidden'
  BY FailEffect, EndedStays
     DEF FailuresUnhidden, PanicInv, SnapshotInv, ForcedNotRunning
<1>2. StoppedSeenRight'
  <2>1. SUFFICES ASSUME InPass' \/ pc' = "observe", NEW v \in Pending', seen'[v] = "STOPPED"
                 PROVE  stage'[v] # "failed"
    BY DEF StoppedSeenRight
  <2>2. CASE Observe(v) /\ v \in Unit
    <3>1. pc = "observe" /\ stage' = stage /\ ServiceState(v) = "STOPPED"
      BY <2>1, <2>2 DEF Observe, driverVars, SafetyInv, TypeOK
    <3>2. CASE forced[v]
      BY <2>2, <3>1, <3>2 DEF PanicInv, FailuresUnhidden, Ended
    <3>3. CASE ~forced[v]
      BY <3>1, <3>3 DEF ServiceState, ProcessState, Live, LiveStage
    <3>. QED  BY <3>2, <3>3
  <2>3. CASE (InPass \/ pc = "observe") /\ v \in Pending /\ seen'[v] = seen[v]
    <3>1. stage[v] # "failed"
      BY <2>1, <2>3 DEF PanicInv, StoppedSeenRight
    <3>2. ~Live(v)
      BY <2>1, <2>3 DEF SnapshotInv, SnapshotHolds, InPass
    <3>3. v \in Unit
      BY <2>3 DEF Pending, SafetyInv, TypeOK, Bookkeeping
    <3>. QED  BY <3>1, <3>2, <3>3, FailEffect
  <2>. QED  BY <2>1, <2>2, <2>3, PendingKept
<1>3. pc' # "killing"
  <2>1. ~Kill
    BY DEF Kill, Apply, SnapshotInv, VisitedSettled, InPass, DefaultController, SafetyInv,
           Bookkeeping
  <2>2. pc # "killing" /\ ~KillJoined
    BY DEF PanicInv, KillJoined
  <2>3. Quiet => pc' # "killing"
    BY <2>2 DEF Quiet, RemoveJoined, Subscribed, EnterLoop, BeginPass, BeginShutdown, EndManage,
                EndPass, AsWanted, FirstStart, FastKillJoined, Goto, Panicked, StopHub, Exit,
                Observe, Manage, StopRaises, JoinOne, Visit, Sweep
  <2>4. MarkStopped \/ Stop \/ StartAgain \/ Started \/ StartFailed => pc' # "killing"
    BY DEF MarkStopped, Stop, StartAgain, Renew, Started, StartFailed, StopHub, EndPass, Goto
  <2>5. (\E u \in Unit : FastStop(u) \/ StopOne(u)) => pc' # "killing"
    BY DEF FastStop, StopOne, Visit, Sweep
  <2>6. Api \/ (\E u \in Unit : ChildStep(u)) \/ UNCHANGED vars
        \/ (\E toGroup \in BOOLEAN : Signal(toGroup)) => pc' # "killing"
    BY <2>2 DEF Api, AddUnit, UpdateUnit, RemoveUnit, ChildStep, hubVars, vars, Signal
  <2>. QED  BY <2>1, <2>2, <2>3, <2>4, <2>5, <2>6 DEF Next, HubStep, Quiet, Finished
<1>. QED  BY <1>1, <1>2, <1>3 DEF PanicInv

\* A unit that failed under the default controller is not run again.
THEOREM PanicNeverRestartsCorrect ==
  ASSUME DefaultController
  PROVE  Spec => PanicNeverRestarts
<1>1. MarkIsSafe  BY DEF MarkIsSafe, DefaultController
<1>2. Spec => []SnapshotInv  BY <1>1, SnapshotCorrect
<1>3. SafetyInv /\ SnapshotInv /\ PanicInv /\ [Next]_vars => PanicInv'
  BY PanicStep
<1>4. SafetyInv /\ SnapshotInv /\ PanicInv /\ [Next]_vars
      => [\A u \in Unit : u \in units /\ stage[u] = "failed" => stage'[u] = "failed"]_vars
  BY FailEffect
<1>. QED  BY <1>2, <1>3, <1>4, PanicInit, SafetyCorrect, PTL DEF Spec, PanicNeverRestarts
=============================================================================
