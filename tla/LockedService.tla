--------------------------- MODULE LockedService ---------------------------
(***************************************************************************)
(* One service, a SoftIrqService with a WatchDogEtcd, deployed on several  *)
(* nodes, of which only the holder of an etcd lock may run its step.  On   *)
(* each node a hub looks at the watchdog of its process: it kills the      *)
(* process when the watchdog is not alive and extends the lease of the     *)
(* lock when the step is still running.                                    *)
(*                                                                         *)
(* Time is discrete.  Tick lets the lease grow older, and the heartbeats.  *)
(* How a hub starts, stops and kills is module Hub; here a hub is what the *)
(* watchdog can tell of it.                                                *)
(***************************************************************************)
EXTENDS Naturals

CONSTANTS
    Node,               \* nodes that contend for the lock
    HeartbeatTimeout,   \* _heartbeat_timeout
    LockTTL,            \* _lock_ttl
    AnswerMax,          \* the timeout of a request to etcd
    PollPeriod          \* a serving hub looks at its process at least this often:
                        \* the time from one look to the next, up to the moment etcd
                        \* serves it, with the answer to the first

\* A hub whose look comes after the lease has ended cannot keep it, and a lease is
\* as old as the answer to its refresh when the step begins.  The default of LockTTL
\* has to do with AnswerMax; nothing in the code relates it to the hub's period, this
\* is what an operator has to provide.
ASSUME LockAssumption ==
    /\ HeartbeatTimeout \in Nat \ {0}
    /\ LockTTL \in Nat \ {0}
    /\ PollPeriod \in Nat \ {0}
    /\ AnswerMax \in Nat
    /\ PollPeriod + AnswerMax < LockTTL
    /\ "free" \notin Node

VARIABLES
    place,    \* where the process of a node is, see Place
    lock,     \* its _lock is not None
    failed,   \* its watchdog was marked failed
    beat,     \* ticks since its last heartbeat; beyond the timeout they are counted
              \* before and during a served step, up to BeatMax
    hub,      \* "serving", "joining" in the shutdown, "gone"
    look,     \* the hub's look at the watchdog, see Look
    wait,     \* ticks since the last look was over, or served by etcd
    holder,   \* node whose lease the key in etcd is attached to, or "free"
    ttl       \* ticks the lease has left

serviceVars == <<place, lock, failed, beat>>
lookVars == <<look, wait>>
etcdVars == <<holder, ttl>>
vars == <<place, lock, failed, beat, hub, look, wait, holder, ttl>>

\* "idle"       between two steps
\* "acquire"    in __enter__(), without a lock
\* "heartbeat"  in __enter__(), _on_enter() done
\* "check"      in __enter__(), generate_heartbeat() done
\* "granted"    in __enter__(): etcd has refreshed the lease, and answers
\* "step"       in the context of the watchdog: the step runs
\* "after"      the step returned, the last heartbeat is not generated yet
\* "closing"    in _teardown()
\* "down"       no process
Place == {"idle", "acquire", "heartbeat", "check", "granted", "step", "after",
          "closing", "down"}

\* "asked": etcd was asked about the lease; "lost": and the lease ended since;
\* "numb": is_alive() has answered False, the kill is to come.
Look == {"rest", "asked", "lost", "numb"}

BeatMax == HeartbeatTimeout + 2 * PollPeriod

TypeOK ==
    /\ place \in [Node -> Place]
    /\ lock \in [Node -> BOOLEAN]
    /\ failed \in [Node -> BOOLEAN]
    /\ beat \in [Node -> 0 .. BeatMax]
    /\ hub \in [Node -> {"serving", "joining", "gone"}]
    /\ look \in [Node -> Look]
    /\ wait \in [Node -> 0 .. PollPeriod]
    /\ holder \in Node \cup {"free"}
    /\ ttl \in 0 .. LockTTL

\* The first heartbeat of a watchdog is its construction, some time before serve().
Init ==
    /\ place = [n \in Node |-> "idle"]
    /\ lock = [n \in Node |-> FALSE]
    /\ failed = [n \in Node |-> FALSE]
    /\ beat \in [Node -> 0 .. HeartbeatTimeout]
    /\ hub = [n \in Node |-> "serving"]
    /\ look = [n \in Node |-> "rest"]
    /\ wait = [n \in Node |-> 0]
    /\ holder = "free"
    /\ ttl = 0

\* Mutant: off by one.
Stale_Strict(n) == beat[n] > HeartbeatTimeout

Stale(n) == beat[n] >= HeartbeatTimeout

Go(n, from, to) ==
    /\ place[n] = from
    /\ place' = [place EXCEPT ![n] = to]

Beat(n) == beat' = [beat EXCEPT ![n] = 0]

SetLock(n, value) == lock' = [lock EXCEPT ![n] = value]

\* The process ends, and its memory with it: the lock it knew of and the mark.
ProcessEnds(n) ==
    /\ place' = [place EXCEPT ![n] = "down"]
    /\ SetLock(n, FALSE)
    /\ failed' = [failed EXCEPT ![n] = FALSE]

-----------------------------------------------------------------------------
(* etcd, as its client is used.                                            *)

\* refresh() of the lease of n.  It may fail, and an error may hide a request
\* that was served.
Refreshed(n) == holder = n /\ ttl' = LockTTL /\ UNCHANGED holder
Expired(n) == holder # n /\ UNCHANGED etcdVars
Unanswered(n) == Refreshed(n) \/ UNCHANGED etcdVars

\* The lease of the holder ends: whoever has asked about it will be told.
LeaseEnds ==
    /\ holder' = "free"
    /\ ttl' = 0
    /\ look' = [n \in Node |-> IF n = holder /\ look[n] = "asked" THEN "lost" ELSE look[n]]

-----------------------------------------------------------------------------
(* _loop_step(): the watchdog's __enter__(), the step, the last heartbeat. *)

\* generate_heartbeat() outside the context: the timer, then the lock if there
\* is one; that its lease has expired is noted, an error is not.
QuietHeartbeat(n) ==
    /\ Beat(n)
    /\ \/ ~lock[n] /\ UNCHANGED <<lock, etcdVars>>
       \/ lock[n] /\ Unanswered(n) /\ UNCHANGED lock
       \/ lock[n] /\ Expired(n) /\ SetLock(n, FALSE)

\* _on_enter() with a lock refreshes it.
EnterWithLock(n) ==
    /\ lock[n]
    /\ \/ Refreshed(n) /\ Go(n, "idle", "heartbeat") /\ UNCHANGED <<lock, beat>>
       \/ Expired(n) /\ Go(n, "idle", "acquire") /\ SetLock(n, FALSE) /\ UNCHANGED beat
       \/ place[n] = "idle" /\ QuietHeartbeat(n) /\ UNCHANGED place
    /\ UNCHANGED <<failed, hub, lookVars>>

EnterWithoutLock(n) ==
    /\ ~lock[n]
    /\ Go(n, "idle", "acquire")
    /\ UNCHANGED <<lock, failed, beat, hub, lookVars, etcdVars>>

\* Occupied, or another minor error: a heartbeat is generated all the same.
\* KVLockCreateError is critical: none is.  The lease may have been granted.
AcquireFails(n) ==
    /\ Go(n, "acquire", "idle")
    /\ Beat(n) \/ UNCHANGED beat
    /\ \/ UNCHANGED etcdVars
       \/ holder = "free" /\ holder' = n /\ ttl' = LockTTL
    /\ UNCHANGED <<lock, failed, hub, lookVars>>

Acquire(n) ==
    /\ Go(n, "acquire", "heartbeat")
    /\ holder = "free"
    /\ holder' = n
    /\ ttl' = LockTTL
    /\ SetLock(n, TRUE)
    /\ UNCHANGED <<failed, beat, hub, lookVars>>

\* generate_heartbeat() within the context: the timer first; a lock that cannot
\* be refreshed is a critical error, and the step is skipped.
EnterHeartbeat(n) ==
    /\ Beat(n)
    /\ \/ Refreshed(n) /\ Go(n, "heartbeat", "check") /\ UNCHANGED lock
       \/ Expired(n) /\ Go(n, "heartbeat", "idle") /\ SetLock(n, FALSE)
       \/ Unanswered(n) /\ Go(n, "heartbeat", "idle") /\ UNCHANGED lock
    /\ UNCHANGED <<failed, hub, lookVars>>

\* Mutant: the lock is not looked up before the step.
EnterCheck_NoLookup(n) ==
    /\ Go(n, "check", IF failed[n] \/ Stale(n) THEN "idle" ELSE "granted")
    /\ UNCHANGED etcdVars
    /\ UNCHANGED <<lock, failed, beat, hub, lookVars>>

\* _check_health(): the mark, the timer, the lease, which is refreshed.  Every
\* failure is critical: the step is skipped and no heartbeat is generated.
EnterCheck(n) ==
    /\ IF failed[n] \/ Stale(n)
         THEN Go(n, "check", "idle") /\ UNCHANGED etcdVars
         ELSE \/ Go(n, "check", "granted") /\ Refreshed(n)
              \/ Go(n, "check", "idle") /\ (Expired(n) \/ Unanswered(n))
    /\ UNCHANGED <<lock, failed, beat, hub, lookVars>>

\* The answer has come: _check_health() returns, and __enter__().
BeginStep(n) ==
    /\ Go(n, "granted", "step")
    /\ UNCHANGED <<lock, failed, beat, hub, lookVars, etcdVars>>

\* The step returns, raises (no heartbeat follows) or exits.
EndStep(n) ==
    /\ \E to \in {"after", "idle", "closing"} : Go(n, "step", to)
    /\ UNCHANGED <<lock, failed, beat, hub, lookVars, etcdVars>>

\* The step marks its own watchdog.
MarkFailed(n) ==
    /\ place[n] = "step"
    /\ failed' = [failed EXCEPT ![n] = TRUE]
    /\ UNCHANGED <<place, lock, beat, hub, lookVars, etcdVars>>

LastHeartbeat(n) ==
    /\ Go(n, "after", "idle")
    /\ QuietHeartbeat(n)
    /\ UNCHANGED <<failed, hub, lookVars>>

\* SIGTERM has cleared _has_running.
LeaveLoop(n) ==
    /\ hub[n] = "joining"
    /\ Go(n, "idle", "closing")
    /\ UNCHANGED <<lock, failed, beat, hub, lookVars, etcdVars>>

\* teardown() of the watchdog releases the lock; an error is ignored.
Release(n) ==
    /\ place[n] = "closing"
    /\ ProcessEnds(n)
    /\ UNCHANGED <<beat, hub, wait>>
    /\ \/ lock[n] /\ holder = n /\ LeaseEnds
       \/ UNCHANGED <<look, etcdVars>>

\* The process dies of something else.
Crash(n) ==
    /\ place[n] # "down"
    /\ ProcessEnds(n)
    /\ UNCHANGED <<beat, hub, lookVars, etcdVars>>

Proceed(n) ==
    \/ EnterWithLock(n) \/ EnterWithoutLock(n) \/ AcquireFails(n) \/ Acquire(n)
    \/ EnterHeartbeat(n) \/ EnterCheck(n) \/ BeginStep(n) \/ LastHeartbeat(n)
    \/ LeaveLoop(n) \/ Release(n)

-----------------------------------------------------------------------------
(* The hub: is_alive() of the watchdog of a running process.               *)

EndLook(n, answer) ==
    /\ look' = [look EXCEPT ![n] = answer]
    /\ wait' = IF answer = "rest" THEN [wait EXCEPT ![n] = 0] ELSE wait

\* Mutant: _check_health() of WatchDogEtcd does not call that of WatchDog.
LookAtTimer_Ignored(n) ==
    /\ hub[n] = "serving"
    /\ look[n] = "rest"
    /\ place[n] # "down"
    /\ EndLook(n, IF place[n] = "step" THEN "asked" ELSE "rest")
    /\ UNCHANGED <<serviceVars, hub, etcdVars>>

\* The timer, then whether the step is running.  The mark is in the memory of
\* the process that made it, where the hub does not see it.  Of a process that
\* is gone the watchdog is not asked.
LookAtTimer(n) ==
    /\ hub[n] = "serving"
    /\ look[n] = "rest"
    /\ place[n] # "down"
    /\ EndLook(n, IF Stale(n) THEN "numb"
                  ELSE IF place[n] = "step" THEN "asked" ELSE "rest")
    /\ UNCHANGED <<serviceVars, hub, etcdVars>>

\* Mutant: the lease is looked up and not refreshed.
LookAtLease_NotRefreshed(n) ==
    /\ \/ look[n] = "asked" /\ holder = n /\ EndLook(n, "rest")
       \/ look[n] \in {"asked", "lost"} /\ EndLook(n, "numb")
    /\ UNCHANGED etcdVars
    /\ UNCHANGED <<serviceVars, hub>>

\* Mutant: what is left of the lease is added to.
LookAtLease_Adds(n) ==
    /\ \/ look[n] = "asked" /\ holder = n /\ ttl' = ttl + LockTTL /\ EndLook(n, "rest")
       \/ look[n] \in {"asked", "lost"} /\ UNCHANGED ttl /\ EndLook(n, "numb")
    /\ UNCHANGED <<serviceVars, hub, holder>>

\* The lease is looked up and refreshed.  It has expired, or there is no answer
\* to either request: the watchdog is not alive.
LookAtLease(n) ==
    /\ \/ look[n] = "asked" /\ Refreshed(n) /\ EndLook(n, "rest")
       \/ look[n] = "asked" /\ Unanswered(n) /\ EndLook(n, "numb")
       \/ look[n] = "lost" /\ UNCHANGED etcdVars /\ EndLook(n, "numb")
    /\ UNCHANGED <<serviceVars, hub>>

\* NUMB: the process is killed.
Kill(n) ==
    /\ look[n] = "numb"
    /\ ProcessEnds(n)
    /\ EndLook(n, "rest")
    /\ UNCHANGED <<beat, hub, etcdVars>>

\* A new service object, with a copy of the watchdog, in a new process.
Restart(n) ==
    /\ hub[n] = "serving"
    /\ look[n] = "rest"
    /\ Go(n, "down", "idle")
    /\ Beat(n)
    /\ EndLook(n, "rest")
    /\ UNCHANGED <<lock, failed, hub, etcdVars>>

\* From now on nobody looks at the watchdog: the hub joins.  manage() has left
\* its loop, perhaps before it acted on what it saw.
BeginShutdown(n) ==
    /\ hub[n] = "serving"
    /\ look[n] \in {"rest", "numb"}
    /\ EndLook(n, "rest")
    /\ hub' = [hub EXCEPT ![n] = "joining"]
    /\ UNCHANGED <<serviceVars, etcdVars>>

Joined(n) ==
    /\ hub[n] = "joining"
    /\ place[n] = "down"
    /\ hub' = [hub EXCEPT ![n] = "gone"]
    /\ UNCHANGED <<serviceVars, lookVars, etcdVars>>

\* The hub dies, and by PR_SET_PDEATHSIG its process with it.
HubCrash(n) ==
    /\ hub[n] # "gone"
    /\ hub' = [hub EXCEPT ![n] = "gone"]
    /\ ProcessEnds(n)
    /\ EndLook(n, "rest")
    /\ UNCHANGED <<beat, etcdVars>>

Watch(n) == LookAtTimer(n) \/ LookAtLease(n) \/ Kill(n) \/ Restart(n) \/ Joined(n)

-----------------------------------------------------------------------------

Watched(n) == hub[n] = "serving" /\ place[n] # "down"

\* The nodes whose step is served.
Working == {n \in Node : place[n] = "step" /\ hub[n] = "serving"}

\* And those where it is about to be.
Entering == {n \in Node : place[n] = "granted" /\ hub[n] = "serving"}

\* Mutant: a request to etcd has no timeout.
Tick_NoTimeout ==
    /\ \A n \in Node : Watched(n) => wait[n] < PollPeriod
    /\ beat' = [n \in Node |-> IF beat[n] < (IF n \in Working \cup Entering
                                                 THEN BeatMax ELSE HeartbeatTimeout)
                                THEN beat[n] + 1 ELSE beat[n]]
    /\ wait' = [n \in Node |-> IF Watched(n) THEN wait[n] + 1 ELSE wait[n]]
    /\ IF ttl > 1 THEN ttl' = ttl - 1 /\ UNCHANGED <<holder, look>> ELSE LeaseEnds
    /\ UNCHANGED <<place, lock, failed, hub>>

\* Time passes, unless a serving hub is due to look at its process, or etcd to answer.
Tick ==
    /\ \A n \in Node : Watched(n) => wait[n] < PollPeriod
    /\ \A n \in Node : place[n] = "granted" => ttl > LockTTL - AnswerMax
    /\ beat' = [n \in Node |-> IF beat[n] < (IF n \in Working \cup Entering
                                                 THEN BeatMax ELSE HeartbeatTimeout)
                                THEN beat[n] + 1 ELSE beat[n]]
    /\ wait' = [n \in Node |-> IF Watched(n) THEN wait[n] + 1 ELSE wait[n]]
    /\ IF ttl > 1 THEN ttl' = ttl - 1 /\ UNCHANGED <<holder, look>> ELSE LeaseEnds
    /\ UNCHANGED <<place, lock, failed, hub>>

Next ==
    \/ Tick
    \/ \E n \in Node : \/ Proceed(n) \/ EndStep(n) \/ MarkFailed(n) \/ Crash(n)
                       \/ Watch(n) \/ BeginShutdown(n) \/ HubCrash(n)

Spec == Init /\ [][Next]_vars

\* Time passes, and processes and hubs are scheduled.  That a step ends is not
\* assumed, nor that etcd ever answers.
Fairness ==
    /\ WF_vars(Tick)
    /\ \A n \in Node : WF_vars(Proceed(n)) /\ WF_vars(Watch(n))

FairSpec == Spec /\ Fairness

-----------------------------------------------------------------------------

\* Of all the services whose hub is serving at most one is in its step.
\* (WatchDogEtcd: "Handles Etcd lock as a service workload guard")
OneServedStep ==
    \A n, m \in Node :
        place[n] = "step" /\ place[m] = "step" /\ n # m =>
            hub[n] # "serving" \/ hub[m] # "serving"

\* A step that never ends does not keep the lock from the other nodes: its
\* lease is no longer extended, and its process is killed.
\* (WatchDogEtcd._check_health(): the timer is checked before the lease)
StuckStepEnds ==
    \A n \in Node : (place[n] = "step") ~> (place[n] # "step" \/ hub[n] # "serving")

\* It ends in time: no more than two periods of the hub's looks pass after the
\* heartbeat timeout, one for a look that came too early and has waited for etcd,
\* one for the look that finds it.  (WatchDog._check_health(), PollPeriod)
StuckStepCut ==
    \A n \in Working : beat[n] < HeartbeatTimeout + 2 * PollPeriod

\* What WorkloadGuard is about.
Owner == {n \in Node : holder = n}

Guard == INSTANCE WorkloadGuard WITH owner <- Owner, working <- Working

\* The leases, their refreshes and the looks of the hubs implement WorkloadGuard:
\* the lock does not pass to another node before a served step has ended.
\* (WatchDogEtcd)
GuardKept == Guard!Spec

\* What makes StuckStepCut inductive: a look that has passed the timer began
\* before the heartbeat was too old.
BeatInv ==
    \A n \in Working \cup Entering :
        beat[n] < HeartbeatTimeout + wait[n]
                    + (IF look[n] \in {"asked", "lost"} THEN 0 ELSE PollPeriod)

\* What makes OneServedStep inductive: a served step holds the lock, and its
\* lease, which was AnswerMax old at most when the step began, lasts until the hub's
\* next look.
ServedStepHolds ==
    \A n \in Working : holder = n /\ ttl + wait[n] + AnswerMax >= LockTTL

\* A step about to begin holds the lock too, whatever its hub does.
GrantHolds ==
    \A n \in Node :
        place[n] = "granted" => holder = n /\ ttl + AnswerMax >= LockTTL

LockInv == TypeOK /\ ServedStepHolds /\ GrantHolds /\ BeatInv
=============================================================================
