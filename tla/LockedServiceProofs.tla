------------------------ MODULE LockedServiceProofs ------------------------
(***************************************************************************)
(* Proofs about LockedService: the lock of the watchdog excludes served    *)
(* steps for every number of nodes and every choice of the timeouts that   *)
(* LockAssumption allows.                                                  *)
(***************************************************************************)
EXTENDS LockedService, TLAPS

USE LockAssumption

-----------------------------------------------------------------------------
(* Types.                                                                  *)

LEMMA BeatMaxType == BeatMax \in Nat /\ HeartbeatTimeout < BeatMax
  BY DEF BeatMax

LEMMA InitType == Init => TypeOK
  BY BeatMaxType DEF Init, TypeOK, Place, Look

\* What a request to etcd leaves behind.
LEMMA EtcdType ==
  ASSUME TypeOK, NEW n \in Node,
         Refreshed(n) \/ Unanswered(n) \/ Expired(n) \/ UNCHANGED etcdVars
  PROVE  holder' \in Node \cup {"free"} /\ ttl' \in 0 .. LockTTL
  BY DEF TypeOK, Refreshed, Unanswered, Expired, etcdVars

LEMMA HeartbeatType ==
  ASSUME TypeOK, NEW n \in Node, QuietHeartbeat(n)
  PROVE  /\ beat' \in [Node -> 0 .. BeatMax]
         /\ lock' \in [Node -> BOOLEAN]
         /\ holder' \in Node \cup {"free"}
         /\ ttl' \in 0 .. LockTTL
<1>1. beat' \in [Node -> 0 .. BeatMax]
  BY BeatMaxType DEF QuietHeartbeat, Beat, TypeOK
<1>2. lock' \in [Node -> BOOLEAN]
  BY DEF QuietHeartbeat, SetLock, TypeOK
<1>. QED  BY <1>1, <1>2, EtcdType DEF QuietHeartbeat, etcdVars

LEMMA ProceedType ==
  ASSUME TypeOK, NEW n \in Node, Proceed(n) \/ EndStep(n) \/ MarkFailed(n) \/ Crash(n)
  PROVE  TypeOK'
<1>. USE DEF TypeOK
<1>1. \A from, to \in Place : Go(n, from, to) => place' \in [Node -> Place]
  BY DEF Go
<1>2. CASE EnterWithLock(n)
  <2>1. place' \in [Node -> Place]
    BY <1>1, <1>2 DEF EnterWithLock, Place
  <2>2. lock' \in [Node -> BOOLEAN] /\ beat' \in [Node -> 0 .. BeatMax]
    BY <1>2, HeartbeatType DEF EnterWithLock, SetLock
  <2>3. holder' \in Node \cup {"free"} /\ ttl' \in 0 .. LockTTL
    BY <1>2, HeartbeatType, EtcdType DEF EnterWithLock
  <2>. QED  BY <1>2, <2>1, <2>2, <2>3 DEF EnterWithLock, lookVars
<1>3. CASE EnterWithoutLock(n)
  BY <1>1, <1>3 DEF EnterWithoutLock, etcdVars, lookVars, Place
<1>4. CASE AcquireFails(n)
  <2>1. place' \in [Node -> Place]
    BY <1>1, <1>4 DEF AcquireFails, Place
  <2>2. beat' \in [Node -> 0 .. BeatMax]
    BY <1>4, BeatMaxType DEF AcquireFails, Beat
  <2>3. holder' \in Node \cup {"free"} /\ ttl' \in 0 .. LockTTL
    BY <1>4 DEF AcquireFails, etcdVars
  <2>. QED  BY <1>4, <2>1, <2>2, <2>3 DEF AcquireFails, lookVars
<1>5. CASE Acquire(n)
  BY <1>1, <1>5 DEF Acquire, SetLock, lookVars, Place
<1>6. CASE EnterHeartbeat(n)
  <2>1. place' \in [Node -> Place]
    BY <1>1, <1>6 DEF EnterHeartbeat, Place
  <2>2. beat' \in [Node -> 0 .. BeatMax]
    BY <1>6, BeatMaxType DEF EnterHeartbeat, Beat
  <2>3. lock' \in [Node -> BOOLEAN]
    BY <1>6 DEF EnterHeartbeat, SetLock
  <2>. QED  BY <1>6, <2>1, <2>2, <2>3, EtcdType DEF EnterHeartbeat, lookVars
<1>7. CASE EnterCheck(n)
  <2>1. place' \in [Node -> Place]
    BY <1>1, <1>7 DEF EnterCheck, Place
  <2>. QED  BY <1>7, <2>1, EtcdType DEF EnterCheck, lookVars
<1>8. CASE LastHeartbeat(n)
  BY <1>1, <1>8, HeartbeatType DEF LastHeartbeat, lookVars, Place
<1>9. CASE Release(n)
  BY <1>9 DEF Release, ProcessEnds, SetLock, LeaseEnds, etcdVars, Place, Look
<1>10. CASE LeaveLoop(n) \/ BeginStep(n) \/ EndStep(n) \/ MarkFailed(n)
  BY <1>1, <1>10 DEF LeaveLoop, BeginStep, EndStep, MarkFailed, lookVars, etcdVars, Place
<1>11. CASE Crash(n)
  BY <1>11 DEF Crash, ProcessEnds, SetLock, lookVars, etcdVars, Place
<1>. QED  BY <1>2, <1>3, <1>4, <1>5, <1>6, <1>7, <1>8, <1>9, <1>10, <1>11 DEF Proceed

LEMMA WatchType ==
  ASSUME TypeOK, NEW n \in Node, Watch(n) \/ BeginShutdown(n) \/ HubCrash(n)
  PROVE  TypeOK'
<1>. USE DEF TypeOK, EndLook, serviceVars, etcdVars, lookVars, Look
<1>1. CASE LookAtTimer(n)  BY <1>1 DEF LookAtTimer
<1>2. CASE LookAtLease(n)  BY <1>2 DEF LookAtLease, Refreshed, Unanswered
<1>3. CASE Kill(n)  BY <1>3 DEF Kill, ProcessEnds, SetLock, Place
<1>4. CASE Restart(n)  BY <1>4, BeatMaxType DEF Restart, Go, Beat, Place
<1>5. CASE Joined(n) \/ BeginShutdown(n)  BY <1>5 DEF Joined, BeginShutdown
<1>6. CASE HubCrash(n)  BY <1>6 DEF HubCrash, ProcessEnds, SetLock, Place
<1>. QED  BY <1>1, <1>2, <1>3, <1>4, <1>5, <1>6 DEF Watch

LEMMA TickType ==
  ASSUME TypeOK, Tick
  PROVE  TypeOK'
<1>1. beat' \in [Node -> 0 .. BeatMax]
  BY BeatMaxType DEF TypeOK, Tick
<1>2. wait' \in [Node -> 0 .. PollPeriod]
  BY DEF TypeOK, Tick, Watched
<1>3. /\ holder' \in Node \cup {"free"}
      /\ ttl' \in 0 .. LockTTL
      /\ look' \in [Node -> Look]
  BY DEF TypeOK, Tick, LeaseEnds, Look
<1>. QED  BY <1>1, <1>2, <1>3 DEF TypeOK, Tick

LEMMA TypeStep == TypeOK /\ [Next]_vars => TypeOK'
<1>1. ASSUME TypeOK, Next
      PROVE  TypeOK'
  BY <1>1, TickType, ProceedType, WatchType DEF Next
<1>2. ASSUME TypeOK, UNCHANGED vars
      PROVE  TypeOK'
  BY <1>2 DEF TypeOK, vars
<1>. QED  BY <1>1, <1>2

\* The variables of the lock and of its contenders keep their types, whatever
\* the number of nodes and the timeouts.  (WatchDogEtcd, SoftIrqService._loop_step())
THEOREM LockTypeCorrect == Spec => []TypeOK
  BY InitType, TypeStep, PTL DEF Spec

-----------------------------------------------------------------------------
(* A served step holds the lock, and so does one about to begin.           *)

HoldInv == ServedStepHolds /\ GrantHolds

LEMMA ProceedHolds ==
  ASSUME TypeOK, HoldInv, NEW n \in Node,
         Proceed(n) \/ EndStep(n) \/ MarkFailed(n) \/ Crash(n)
  PROVE  HoldInv'
<1>. USE DEF Go, Refreshed, Expired, Unanswered, etcdVars, lookVars, Working
<1>0. /\ \A m \in Node : place[m] = "step" /\ hub[m] = "serving" =>
           holder = m /\ ttl + wait[m] + AnswerMax >= LockTTL
      /\ \A m \in Node : place[m] = "granted" => holder = m /\ ttl + AnswerMax >= LockTTL
      /\ \A m \in Node : wait[m] \in Nat
      /\ ttl \in Nat
  BY DEF HoldInv, ServedStepHolds, GrantHolds, TypeOK
<1>. SUFFICES
        /\ \A m \in Node : place'[m] = "step" /\ hub'[m] = "serving" =>
             holder' = m /\ ttl' + wait'[m] + AnswerMax >= LockTTL
        /\ \A m \in Node : place'[m] = "granted" =>
             holder' = m /\ ttl' + AnswerMax >= LockTTL
  BY DEF HoldInv, ServedStepHolds, GrantHolds
<1>1. CASE EnterCheck(n)
  BY <1>0, <1>1 DEF EnterCheck, TypeOK
<1>2. CASE EnterWithLock(n) \/ EnterWithoutLock(n) \/ LastHeartbeat(n)
  BY <1>0, <1>2 DEF EnterWithLock, EnterWithoutLock, LastHeartbeat, QuietHeartbeat, TypeOK
<1>3. CASE AcquireFails(n) \/ Acquire(n)
  BY <1>0, <1>3 DEF AcquireFails, Acquire, TypeOK
<1>4. CASE EnterHeartbeat(n)
  BY <1>0, <1>4 DEF EnterHeartbeat, TypeOK
<1>5. CASE Release(n)
  BY <1>0, <1>5 DEF Release, ProcessEnds, LeaseEnds, TypeOK
<1>6. CASE BeginStep(n)
  BY <1>0, <1>6 DEF BeginStep, TypeOK
<1>7. CASE LeaveLoop(n) \/ EndStep(n) \/ MarkFailed(n)
  BY <1>0, <1>7 DEF LeaveLoop, EndStep, MarkFailed, TypeOK
<1>8. CASE Crash(n)
  BY <1>0, <1>8 DEF Crash, ProcessEnds, TypeOK
<1>. QED  BY <1>1, <1>2, <1>3, <1>4, <1>5, <1>6, <1>7, <1>8 DEF Proceed

LEMMA WatchHolds ==
  ASSUME TypeOK, HoldInv, NEW n \in Node,
         Watch(n) \/ BeginShutdown(n) \/ HubCrash(n)
  PROVE  HoldInv'
<1>. USE DEF EndLook, serviceVars, etcdVars, lookVars, HoldInv, ServedStepHolds, GrantHolds,
             Working, TypeOK
<1>1. CASE LookAtTimer(n)  BY <1>1 DEF LookAtTimer
<1>2. CASE LookAtLease(n)  BY <1>2 DEF LookAtLease, Refreshed, Unanswered
<1>3. CASE Kill(n)  BY <1>3 DEF Kill, ProcessEnds
<1>4. CASE Restart(n)  BY <1>4 DEF Restart, Go
<1>5. CASE Joined(n) \/ BeginShutdown(n)  BY <1>5 DEF Joined, BeginShutdown
<1>6. CASE HubCrash(n)  BY <1>6 DEF HubCrash, ProcessEnds
<1>. QED  BY <1>1, <1>2, <1>3, <1>4, <1>5, <1>6 DEF Watch

\* Time passes: neither the hub of a served step was due to look nor etcd to answer,
\* so the lease has a tick left.
LEMMA TickHolds ==
  ASSUME TypeOK, HoldInv, Tick
  PROVE  HoldInv'
<1>1. ASSUME NEW m \in Working'
      PROVE  holder' = m /\ ttl' + wait'[m] + AnswerMax >= LockTTL
  <2>1. m \in Working /\ m \in Node /\ Watched(m)
    BY DEF Tick, Working, Watched
  <2>2. wait[m] < PollPeriod /\ wait'[m] = wait[m] + 1
    BY <2>1 DEF Tick
  <2>3. holder = m /\ ttl + wait[m] + AnswerMax >= LockTTL
    BY <2>1 DEF HoldInv, ServedStepHolds
  <2>4. ttl \in Nat /\ wait[m] \in Nat
    BY <2>1 DEF TypeOK
  <2>5. ttl > 1
    BY <2>2, <2>3, <2>4
  <2>6. ttl' = ttl - 1 /\ holder' = holder
    BY <2>5 DEF Tick
  <2>. QED  BY <2>2, <2>3, <2>4, <2>6
<1>2. ASSUME NEW m \in Node, place'[m] = "granted"
      PROVE  holder' = m /\ ttl' + AnswerMax >= LockTTL
  <2>1. holder = m /\ ttl > LockTTL - AnswerMax /\ ttl \in Nat
    BY <1>2 DEF Tick, HoldInv, GrantHolds, TypeOK
  <2>2. ttl > 1
    BY <2>1
  <2>3. ttl' = ttl - 1 /\ holder' = holder
    BY <2>2 DEF Tick
  <2>. QED  BY <2>1, <2>3
<1>. QED  BY <1>1, <1>2 DEF HoldInv, ServedStepHolds, GrantHolds

LEMMA HoldsStep == TypeOK /\ HoldInv /\ [Next]_vars => HoldInv'
<1>1. ASSUME TypeOK, HoldInv, Next
      PROVE  HoldInv'
  BY <1>1, TickHolds, ProceedHolds, WatchHolds DEF Next
<1>2. ASSUME HoldInv, UNCHANGED vars
      PROVE  HoldInv'
  BY <1>2 DEF HoldInv, ServedStepHolds, GrantHolds, Working, vars
<1>. QED  BY <1>1, <1>2

LEMMA HoldCorrect == Spec => []HoldInv
<1>1. Init => HoldInv
  BY DEF Init, HoldInv, ServedStepHolds, GrantHolds, Working
<1>. QED  BY <1>1, LockTypeCorrect, HoldsStep, PTL DEF Spec

\* A process that runs its step while its hub serves holds the lock, and the
\* lease lasts until etcd serves the hub's next look, though the answer to the refresh
\* before the step took its time.  (WatchDogEtcd._check_health())
THEOREM ServedStepHoldsCorrect == Spec => []ServedStepHolds
  BY HoldCorrect, PTL DEF HoldInv

\* No two served services are in their steps.  (WatchDogEtcd: "workload guard")
THEOREM OneServedStepCorrect == Spec => []OneServedStep
<1>1. ServedStepHolds => OneServedStep
  BY DEF ServedStepHolds, Working, OneServedStep
<1>. QED  BY <1>1, ServedStepHoldsCorrect, PTL

-----------------------------------------------------------------------------
(* A stuck step is cut in time.                                            *)

\* How old the heartbeat of a served step may be, as things are with the look.
BeatBound(n) ==
    HeartbeatTimeout + wait[n] + (IF look[n] \in {"asked", "lost"} THEN 0 ELSE PollPeriod)

\* The nodes whose heartbeats are counted.
Busy == Working \cup Entering

\* A step of another node, or one that begins no step and ends no look, keeps it.
LEMMA BeatKept ==
  ASSUME TypeOK, BeatInv, NEW m \in Busy', m \in Busy,
         beat'[m] = beat[m] \/ beat'[m] = 0, wait'[m] = wait[m], look'[m] = look[m]
  PROVE  beat'[m] < BeatBound(m)'
<1>. m \in Node /\ wait[m] \in Nat /\ beat[m] \in Nat
  BY BeatMaxType DEF Busy, Working, Entering, TypeOK
<1>1. beat[m] < BeatBound(m) /\ 0 < BeatBound(m)
  BY DEF BeatInv, BeatBound, Busy
<1>2. BeatBound(m)' = BeatBound(m)
  BY DEF BeatBound
<1>. QED  BY <1>1, <1>2

LEMMA ProceedBeat ==
  ASSUME TypeOK, BeatInv, NEW n \in Node,
         Proceed(n) \/ EndStep(n) \/ MarkFailed(n) \/ Crash(n)
  PROVE  BeatInv'
<1>. SUFFICES ASSUME NEW m \in Busy'  PROVE beat'[m] < BeatBound(m)'
  BY DEF BeatInv, BeatBound, Busy
<1>. USE DEF Go, TypeOK, Busy, Working, Entering
<1>a. m \in Node
  OBVIOUS
<1>b. wait' = wait /\ wait[m] \in Nat
  <2>1. wait' = wait
    BY DEF Proceed, EnterWithLock, EnterWithoutLock, AcquireFails, Acquire, EnterHeartbeat,
           EnterCheck, BeginStep, LastHeartbeat, LeaveLoop, Release, EndStep, MarkFailed, Crash, lookVars
  <2>. QED  BY <1>a, <2>1
<1>c. look'[m] = look[m] \/ (look[m] = "asked" /\ look'[m] = "lost")
  <2>1. CASE Release(n)
    BY <1>a, <2>1 DEF Release, LeaseEnds
  <2>2. CASE ~Release(n)
    BY <2>2 DEF Proceed, EnterWithLock, EnterWithoutLock, AcquireFails, Acquire,
           EnterHeartbeat, EnterCheck, BeginStep, LastHeartbeat, LeaveLoop, EndStep, MarkFailed, Crash,
           lookVars
  <2>. QED  BY <2>1, <2>2
<1>d. beat'[m] = beat[m] \/ beat'[m] = 0
  BY <1>a DEF Proceed, EnterWithLock, EnterWithoutLock, AcquireFails, Acquire, EnterHeartbeat,
         EnterCheck, BeginStep, LastHeartbeat, LeaveLoop, Release, EndStep, MarkFailed, Crash,
         QuietHeartbeat, Beat
<1>0. /\ m \in Node /\ wait' = wait /\ wait[m] \in Nat
      /\ look'[m] = look[m] \/ (look[m] = "asked" /\ look'[m] = "lost")
      /\ beat'[m] = beat[m] \/ beat'[m] = 0
  BY <1>a, <1>b, <1>c, <1>d
<1>1. CASE m \in Busy
  <2>1. beat[m] \in Nat /\ beat[m] < BeatBound(m)
    BY <1>1, BeatMaxType DEF BeatInv, BeatBound, Busy
  <2>. QED  BY <1>0, <2>1 DEF BeatBound
<1>2. CASE m \notin Busy
  <2>1. m = n /\ EnterCheck(n) /\ ~Stale(n)
    BY <1>0, <1>2 DEF Proceed, EnterWithLock, EnterWithoutLock, AcquireFails, Acquire,
           EnterHeartbeat, EnterCheck, BeginStep, LastHeartbeat, LeaveLoop, Release, EndStep,
           MarkFailed, Crash, ProcessEnds
  <2>2. beat'[m] = beat[m] /\ beat[m] < HeartbeatTimeout
    BY <1>0, <2>1, BeatMaxType DEF EnterCheck, Stale
  <2>. QED  BY <1>0, <2>2, BeatMaxType DEF BeatBound
<1>. QED  BY <1>1, <1>2

\* A look begins with a heartbeat that is not too old, and lasts no longer than
\* the period of the looks.
LEMMA WatchBeat ==
  ASSUME TypeOK, BeatInv, NEW n \in Node, Watch(n) \/ BeginShutdown(n) \/ HubCrash(n)
  PROVE  BeatInv'
<1>. SUFFICES ASSUME NEW m \in Busy'  PROVE beat'[m] < BeatBound(m)'
  BY DEF BeatInv, BeatBound, Busy
<1>. USE DEF TypeOK, Busy, Working, Entering, EndLook
<1>0. /\ m \in Busy /\ m \in Node
      /\ m # n => wait'[m] = wait[m] /\ look'[m] = look[m]
      /\ beat'[m] = beat[m]
  BY DEF Watch, LookAtTimer, LookAtLease, Kill, Restart, Joined, BeginShutdown, HubCrash,
         ProcessEnds, Go, Beat, serviceVars, lookVars
<1>1. CASE m # n \/ Joined(n)
  BY <1>0, <1>1, BeatKept DEF Joined, lookVars
<1>2. CASE m = n /\ ~Joined(n)
  <2>1. LookAtTimer(n) \/ LookAtLease(n)
    BY <1>0, <1>2 DEF Watch, Kill, Restart, BeginShutdown, HubCrash, ProcessEnds, Go
  <2>2. beat[n] \in Nat /\ wait[n] \in Nat /\ wait[n] <= PollPeriod /\ beat[n] < BeatBound(n)
    BY <1>0, <1>2, BeatMaxType DEF BeatInv, BeatBound, Busy
  <2>3. CASE LookAtTimer(n)
    BY <1>0, <1>2, <2>2, <2>3 DEF LookAtTimer, BeatBound, Stale
  <2>4. CASE LookAtLease(n)
    BY <1>0, <1>2, <2>2, <2>4 DEF LookAtLease, BeatBound
  <2>. QED  BY <2>1, <2>3, <2>4
<1>. QED  BY <1>1, <1>2

LEMMA TickBeat ==
  ASSUME TypeOK, BeatInv, Tick
  PROVE  BeatInv'
<1>. SUFFICES ASSUME NEW m \in Busy'  PROVE beat'[m] < BeatBound(m)'
  BY DEF BeatInv, BeatBound, Busy
<1>1. m \in Busy /\ m \in Node /\ Watched(m)
  BY DEF Tick, Busy, Working, Entering, Watched
<1>2. /\ wait'[m] = wait[m] + 1 /\ wait[m] \in Nat /\ beat[m] \in Nat
      /\ beat'[m] \in {beat[m], beat[m] + 1}
  BY <1>1, BeatMaxType DEF Tick, TypeOK
<1>3. look'[m] = look[m] \/ (look[m] = "asked" /\ look'[m] = "lost")
  BY <1>1 DEF Tick, LeaseEnds, TypeOK
<1>4. beat[m] < BeatBound(m)
  BY <1>1 DEF BeatInv, BeatBound, Busy
<1>. QED  BY <1>2, <1>3, <1>4 DEF BeatBound

LEMMA BeatStep == TypeOK /\ BeatInv /\ [Next]_vars => BeatInv'
<1>1. ASSUME TypeOK, BeatInv, Next
      PROVE  BeatInv'
  BY <1>1, TickBeat, ProceedBeat, WatchBeat DEF Next
<1>2. ASSUME BeatInv, UNCHANGED vars
      PROVE  BeatInv'
  BY <1>2 DEF BeatInv, Working, Entering, vars
<1>. QED  BY <1>1, <1>2

\* A step that hangs is ended by its hub within HeartbeatTimeout and two periods
\* of the hub's looks, whatever etcd does.  (WatchDogEtcd._check_health())
THEOREM StuckStepCutCorrect == Spec => []StuckStepCut
<1>1. Init => BeatInv
  BY DEF Init, BeatInv, Working, Entering
<1>2. TypeOK /\ BeatInv => StuckStepCut
  <2>. SUFFICES ASSUME TypeOK, BeatInv, NEW n \in Working
                PROVE  beat[n] < HeartbeatTimeout + 2 * PollPeriod
    BY DEF StuckStepCut
  <2>1. beat[n] \in Nat /\ wait[n] \in Nat /\ wait[n] <= PollPeriod
    BY BeatMaxType DEF Working, TypeOK
  <2>. QED  BY <2>1 DEF BeatInv
<1>. QED  BY <1>1, <1>2, LockTypeCorrect, BeatStep, PTL DEF Spec

-----------------------------------------------------------------------------
(* LockedService implements WorkloadGuard.                                 *)

\* The lock and the served steps, in steps that leave time alone: another node
\* works or owns only if it did before.
LEMMA ProceedGuard ==
  ASSUME TypeOK, HoldInv, NEW n \in Node,
         Proceed(n) \/ EndStep(n) \/ MarkFailed(n) \/ Crash(n)
  PROVE  [Guard!Next]_(Guard!guardVars)
<1>. USE DEF Go, Refreshed, Expired, Unanswered, etcdVars, TypeOK, Guard!Next, Guard!guardVars
<1>0. \A m \in Working : holder = m
  BY DEF HoldInv, ServedStepHolds
<1>1. CASE BeginStep(n)
  <2>1. Owner' = Owner  BY <1>1 DEF BeginStep, Owner
  <2>2. CASE place'[n] = "step" /\ hub[n] = "serving"
    <3>1. n \in Owner \ Working /\ Working' = Working \cup {n}
      BY <1>1, <2>2 DEF BeginStep, HoldInv, GrantHolds, Owner, Working
    <3>. QED  BY <2>1, <3>1 DEF Guard!Begin
  <2>3. CASE ~(place'[n] = "step" /\ hub[n] = "serving")
    <3>1. Working' = Working  BY <1>1, <2>3 DEF BeginStep, Working
    <3>. QED  BY <2>1, <3>1
  <2>. QED  BY <2>2, <2>3
<1>2. CASE EnterWithLock(n) \/ EnterWithoutLock(n) \/ EnterHeartbeat(n) \/ LastHeartbeat(n)
           \/ EnterCheck(n) \/ LeaveLoop(n) \/ MarkFailed(n)
  <2>1. Working' = Working
    BY <1>2 DEF EnterWithLock, EnterWithoutLock, EnterHeartbeat, LastHeartbeat, EnterCheck,
                LeaveLoop, MarkFailed, Working
  <2>2. Owner' = Owner
    BY <1>2 DEF EnterWithLock, EnterWithoutLock, EnterHeartbeat, LastHeartbeat, EnterCheck, LeaveLoop,
                MarkFailed, QuietHeartbeat, Owner
  <2>. QED  BY <2>1, <2>2
<1>3. CASE AcquireFails(n) \/ Acquire(n)
  <2>1. Working' = Working
    BY <1>3 DEF AcquireFails, Acquire, Working
  <2>2. CASE holder' = holder
    BY <2>1, <2>2 DEF Owner
  <2>3. CASE holder' # holder
    <3>1. holder = "free" /\ holder' = n
      BY <1>3, <2>3 DEF AcquireFails, Acquire
    <3>2. Owner = {} /\ Owner' = {n}
      BY <3>1 DEF Owner
    <3>. QED  BY <2>1, <3>2 DEF Guard!Grant
  <2>. QED  BY <2>2, <2>3
<1>4. CASE Release(n)
  <2>1. Working' = Working /\ n \notin Working
    BY <1>4 DEF Release, ProcessEnds, Working
  <2>2. CASE UNCHANGED etcdVars
    BY <2>1, <2>2 DEF Owner
  <2>3. CASE holder = n /\ LeaseEnds
    <3>1. Owner = {n} /\ Owner' = {}
      BY <2>3 DEF LeaseEnds, Owner
    <3>. QED  BY <2>1, <3>1 DEF Guard!Free
  <2>. QED  BY <1>4, <2>2, <2>3 DEF Release
<1>5. CASE EndStep(n) \/ Crash(n)
  <2>1. Owner' = Owner  BY <1>5 DEF EndStep, Crash, Owner
  <2>2. Working' = Working \ {n}  BY <1>5 DEF EndStep, Crash, ProcessEnds, Working
  <2>. QED  BY <2>1, <2>2 DEF Guard!End
<1>. QED  BY <1>1, <1>2, <1>3, <1>4, <1>5 DEF Proceed

\* The hub's steps change no owner; they may end the work of the node.
LEMMA WatchGuard ==
  ASSUME TypeOK, NEW n \in Node, Watch(n) \/ BeginShutdown(n) \/ HubCrash(n)
  PROVE  [Guard!Next]_(Guard!guardVars)
<1>1. holder' = holder
  BY DEF Watch, LookAtTimer, LookAtLease, Kill, Restart, Joined, BeginShutdown, HubCrash,
         Refreshed, Unanswered, etcdVars
<1>2. Working' \in {Working, Working \ {n}}
  <2>1. CASE LookAtTimer(n) \/ LookAtLease(n)
    BY <2>1 DEF LookAtTimer, LookAtLease, serviceVars, Working
  <2>2. CASE Kill(n)
    BY <2>2 DEF Kill, ProcessEnds, TypeOK, Working
  <2>3. CASE HubCrash(n)
    BY <2>3 DEF HubCrash, ProcessEnds, TypeOK, Working
  <2>4. CASE BeginShutdown(n)
    BY <2>4 DEF BeginShutdown, serviceVars, TypeOK, Working
  <2>5. CASE Restart(n)
    <3>1. n \notin Working /\ n \notin Working'
      BY <2>5 DEF Restart, Go, TypeOK, Working
    <3>2. \A k \in Node \ {n} : place'[k] = place[k] /\ hub'[k] = hub[k]
      BY <2>5 DEF Restart, Go, TypeOK
    <3>. QED  BY <3>1, <3>2 DEF Working
  <2>6. CASE Joined(n)
    BY <2>6 DEF Joined, serviceVars, TypeOK, Working
  <2>. QED  BY <2>1, <2>2, <2>3, <2>4, <2>5, <2>6 DEF Watch
<1>. QED
  BY <1>1, <1>2 DEF Owner, Guard!Next, Guard!End, Guard!guardVars

\* A lease that runs out is not that of a served step.
LEMMA TickGuard ==
  ASSUME TypeOK, HoldInv, Tick
  PROVE  [Guard!Next]_(Guard!guardVars)
<1>1. Working' = Working
  BY DEF Tick, Working
<1>2. CASE ttl > 1
  BY <1>1, <1>2 DEF Tick, Owner, Guard!guardVars
<1>3. CASE ~(ttl > 1)
  <2>1. Owner' = {}
    BY <1>3, LockAssumption DEF Tick, LeaseEnds, Owner
  <2>2. ASSUME NEW m \in Working  PROVE FALSE
    <3>1. m \in Node /\ Watched(m) /\ ttl + wait[m] + AnswerMax >= LockTTL
      BY <2>2 DEF Working, Watched, HoldInv, ServedStepHolds
    <3>2. wait[m] < PollPeriod /\ wait[m] \in Nat /\ ttl \in Nat
      BY <3>1 DEF Tick, TypeOK
    <3>. QED  BY <1>3, <3>1, <3>2
  <2>3. CASE Owner = {}
    BY <1>1, <2>1, <2>3 DEF Guard!guardVars
  <2>4. CASE Owner # {}
    BY <1>1, <2>1, <2>2, <2>4 DEF Guard!Next, Guard!Free
  <2>. QED  BY <2>3, <2>4
<1>. QED  BY <1>2, <1>3

LEMMA GuardStep == TypeOK /\ HoldInv /\ [Next]_vars => [Guard!Next]_(Guard!guardVars)
<1>1. ASSUME TypeOK, HoldInv, Next
      PROVE  [Guard!Next]_(Guard!guardVars)
  BY <1>1, TickGuard, ProceedGuard, WatchGuard DEF Next
<1>2. ASSUME UNCHANGED vars
      PROVE  UNCHANGED Guard!guardVars
  BY <1>2 DEF vars, Owner, Working, Guard!guardVars
<1>. QED  BY <1>1, <1>2

\* The watchdog with its leases implements the guard that knows no time: every
\* step maps to a grant, the beginning or the end of work, the loss of a lock
\* under which nobody works, or a stutter.  (WatchDogEtcd)
THEOREM GuardKeptCorrect == Spec => GuardKept
<1>1. Init => Guard!Init
  BY LockAssumption DEF Init, Guard!Init, Owner, Working
<1>. QED
  BY <1>1, GuardStep, LockTypeCorrect, HoldCorrect, PTL DEF Spec, GuardKept, Guard!Spec
=============================================================================
