# Verification of loopster

loopster runs services as processes. A *hub* supervises *units*: each unit names
a service class and the state the service should be in, and the hub's controller
looks at the state of every unit, about once a second, and drives it to its
target through a *driver*, which forks one process per unit. A service is an
endless loop around `_step()` with a *watchdog* that the hub can look at from
outside; one kind of watchdog also holds an etcd lock, so that a service deployed
on several nodes runs its step on one of them at a time.

This directory holds TLA+ modules of that machinery, TLC configurations that
check them, and TLAPS proofs. `PROJECT.json` maps every definition to the lines it
translates.

## 1. Inventory

| component | state | operations | interacts with |
|---|---|---|---|
| hub (`hubs/base.py`) | `_units` with target states, `_has_running` | `add_unit`, `update_unit`, `remove_unit`, `_step`, `stop`, `_shutdown` | calls controller and driver; signals call `stop()` |
| controllers (`hubs/controllers/`) | `_stop`, `_panic_states` | `manage`, `stop`, `_fast_stop` | read the hub's targets and the driver's states, call `set_state` |
| process driver (`hubs/drivers/`) | `_services`: service, process, forced mark of each unit | `get_states`, `set_state` and its table of handlers, add, remove, stop, wait | forks, signals, kills and joins processes; asks watchdogs |
| service (`services/base.py`, `services/softirq.py`) | `_has_running`, signal handlers, iteration, time of the next step | `serve` (`_serve_operational`, `_serve_fake`), `stop`, `_loop_step`, `_on_signum`, `_schedule_next_step` | enters its watchdog; is signalled by the hub; sends events |
| timed watchdog (`watchdogs/base.py`) | heartbeat in shared memory, `_failed`, context flag | context manager, `generate_heartbeat`, `is_alive`, `mark_failed` | written by the child, read by the hub |
| etcd watchdog (`watchdogs/etcd.py`) | lock, lease id in shared memory | `_on_enter`, `_check_health`, `generate_heartbeat`, `teardown` | etcd, from the child and from the hub |
| signum relay (`hubs/process.py`, `softirq._on_signum`) | one shared integer per child | `_set_signums`, `_on_signum` | SIGHUP and SIGUSR1 of the hub to its children |
| wrappers (`base_nested.py`, `mysql.py`, `multi_mysql.py`) | the nested service, engine units | `_validate`, `_setup`, `_serve` | configure storage engines in their process, then serve the nested service there |
| `services/bjoern.py` | instances by port, signal handlers | constructor, `_subscribe_signals`, `_serve` | listens in the hub, runs a C loop in the child |
| `softirq_etcd.py` | a lock | `_wrapped_step`, `_teardown` | deprecated predecessor of the etcd watchdog |
| factory, units, states, exceptions, `common/`, `sig`, `utils` | none | value classes, constructors, logging | |

What is hard in this code:

* **Concurrency.** The hub is one thread, but its steps interleave with every
  process it has forked, with signals to itself, and with signals to the whole
  process group. A pass of `manage()` acts on states it read before.
* **Failure.** A child may crash, hang, exit by itself, raise out of its loop or
  be too slow for its heartbeat; `fork()` may fail; a kill may not have taken
  effect when the hub goes on; etcd requests may fail, or succeed unanswered.
* **Signals.** A child inherits the hub's handlers until it installs its own;
  `stop()` is a flag that `_serve()` overwrites when it begins. Handlers interrupt
  each other, also in the middle of a loop over shared integers.
* **Time.** Heartbeats are whole seconds of a clock that may be set, between
  iterations whose length the loop, the step and its reschedulings decide.
* **Shutdown.** Each service is signalled once and joined without a timeout.
* **Leases.** The lease of a running step lives on only because the hub looks.

What makes each part correct: the *hub* leaves no process behind, runs at most one per
unit, starts none in a shutdown, and heals or stops as its controller says; the
*driver* tells the truth about processes (the forced mark is only on processes that do
not run) and its actuators apply to what was seen; a *service* that was told to stop
ends, in time, and with code 0 only then; a *watchdog* is stale for a hung step and
fresh for a working one; a *relayed signal* stays until the service has read it, or
another overwrites it, and is not read twice; the *lock* lets one step run at a time;
a *process* does not outlive its hub, whatever kind of service it serves.

The hazards are listed in `PROJECT.json`, each with the properties that would
catch it, or with a note where nothing in the code prevents it.

## 2. Modules

    ServiceProcess     the process of a unit: serve(), signals, faults
      ProcessDriver    the driver's sensor and actuators
        Hub            hub, controllers, driver loops; composes all of the above
          HubClaims    statements of comments and docstrings that do not hold
    Supervisor         abstract specification, implemented by Hub
    HubProofs          typing
      HubSafetyProofs        the safety invariant and its consequences
        HubRefinementProofs  Hub implements Supervisor
        HubSnapshotProofs    the snapshot of manage(), the forced mark, no restart in panic
    WorkloadGuard      abstract specification, implemented by LockedService
    LockedService      etcd watchdog, hub and lease on several nodes, with time
      LockedServiceClaims    the same, for the watchdogs
      LockedServiceProofs    typing, exclusion, the end of hung steps, the refinement
    SoftIrqLoop        one iteration after the other, with time and the clock
      SoftIrqLoopProofs      bounds on heartbeats and stops, the events
    SignumRelay        signal handlers of ProcessHub, shared integers, _on_signum()
      SignumRelayProofs      what arrives, and where
    ServiceKinds       plain, nested and Bjoern services, enabled or not
      ServiceKindsProofs     who survives, with which engines, who ends with 0

The last three look at a part that `Hub` and `ServiceProcess` keep small: there a
step has no time, a process has no signal but SIGTERM, and every service is a
`SoftIrqService` that operates. In return they have a hub that does little.
`SoftIrqLoop` is shown to implement `ServiceProcess`, so that what `Hub` assumes of a
process that serves is not a second reading of the code beside the first.

### ServiceProcess

`stage[u]` is where the process of unit `u` is in `serve()`: `boot` up to the
installation of its signal handlers, `subscribed` up to the assignment of
`_has_running`, `idle` between two iterations, `entry`, `step` and `events` in
`_loop_step()` up to the step, in it and in the `finally` clause, `closing` and
`unwinding` in `_teardown()` after a normal end and while an exception
propagates. The exit code is all that remains of a process: `stopped` for 0,
`failed` for any other. (`_get_process_state` also counts -15 as stopped. A child
has a Python handler for SIGTERM from its first instruction, the hub's or its own,
so it never dies of the signal.) `initial` is a process object that was not
started. `term` and `kill` are signals sent and not yet acted on.

`HandleTerm` is the point of the module: in `boot` the handler is the one of the
hub, which stops the child's copy of the hub, and the request is lost; in
`subscribed` it clears a flag that `BeginServe` sets again; afterwards it works.

`stale[u]` says that `is_alive()` would be False. For a `WatchDog` (units in
`Watched`) it becomes true when the heartbeat times out; `BeginStep`, a
successful `EndStep` and a `SkipStep` after a minor error reset it. Units outside
`Watched` have `WatchDogBase`, whose
`is_alive()` is True.

### ProcessDriver

The functions of the driver on one unit: `ProcessState` and `ServiceState` are the
sensor with its two overrides, and `InitService`, `StartProcess`, `SetStopped`,
`Terminate`, `SendKill` the actuators. `forced` is `FORCIBLY_STOPPED_KEY`.

### Hub

`pc` is the hub's place in `serve()`, and the two `for` loops of a pass are
`observe` (`get_states()`) and `manage`; `todo` are the units the current loop has
still to visit. `seen` is `current_states`. A handler of the state table is one
action when it is one effect (`Stop`, `MarkStopped`), and several when the hub can
be interrupted in it: `Kill` sends SIGKILL, `KillJoined` is the return of
`join(0.1)` with the process gone or not, `AfterKill` and `Renew` test the process
again as the code does, `Started` or `StartFailed` is the fork. Every exception
that leaves `manage()` ends in `StopHub`, as in `BaseHub._step()`.

`PanicStates` selects the controller: empty for
`AlwaysForceTargetStateController`, `{"FAILED", "NUMB"}` for the default
`PanicController`. The two `manage()` differ in the one test of `Manage`.

Dict iteration is in the order of unit numbers. `InsertionOrder` (CPython 3.6 and
later) makes `add_unit` append; without it a new unit may come before others.

Modelling decisions:

* The methods of a hub are called by the thread that serves it, so before
  `serve()` or between two passes (`Call`). The code has no lock, and an API call
  from another thread during a pass would change a dict that is iterated over.
* A signal may run its handler in the main thread between any two steps of the
  hub: `Signal` is enabled at every place from the subscription on. It clears
  `_has_running` of the hub and sets `_stop` of the controller together; the two
  assignments are in one handler, during which the main thread does not run.
* Signals are sent again and again at will, so the hub of the model never
  deadlocks by itself; waiting for ever shows up in the liveness properties. After
  `exited` only `Finished` remains.
* A pass with no units does nothing and is left out.

### Supervisor

The abstract promise: processes are started only for wanted units, at most one
each, none once the shutdown has begun, and the supervisor leaves last.
`HubKeepsPromise` is `Promise!Spec` with `wanted` the units whose target is
RUNNING, `up` the units with a live process, `phase` read off `pc`. An `aborted`
hub is still `stopping`: its interpreter waits for its children.

### LockedService

One service on several nodes. `place` is the position of a process in `_loop_step()`
with the watchdog's `__enter__()` spelled out, because every call to etcd in it may
fail and time passes between them: `acquire`, `heartbeat`, `check`, `granted`, `step`,
`after`. `lock` is `_lock is not None`, `beat` the age of the heartbeat, which at
first is that of the watchdog's construction, `failed` the mark; `lock` and `failed`
end with the process (`ProcessEnds`). Errors are handled as `_loop_step()` does: a
minor one is followed by a heartbeat outside the context (`QuietHeartbeat`), a
critical one is not, and both skip the step. `holder` and `ttl` are the lease in etcd.
A request may be answered, be refused because the lease has expired, or fail with or
without having been served. The answer that lets a step begin may come up to
`AnswerMax`, the timeout of a request, after etcd has refreshed the lease:
`EnterCheck` is the request as served, `BeginStep` the answer. The other refreshes and
their answers are one action: after them another request follows before the step, or,
for the hub's, `PollPeriod` is measured up to the moment at which etcd serves the next
look.

`look` is the hub's `is_alive()`: `LookAtTimer` is the check of the heartbeat and
of the context flag, `LookAtLease` the answer of etcd; between the two the child
goes on. `numb` is followed by `Kill`, or by a shutdown that begins before the
kill. A hub that has begun its shutdown does not look any more. `HubCrash` kills
the process too (`PR_SET_PDEATHSIG`).

`Tick` is one unit of time. It waits for a hub that serves a live process and has not
looked for `PollPeriod`, and for an answer that has taken `AnswerMax`. Etcd (an
external service) is modelled from the calls in `watchdogs/etcd.py`; killing is
immediate here, its details are in `Hub`. Beyond the heartbeat timeout `beat` goes on
only in and right before a served step, so that `StuckStepCut` can say how long one
that hangs may last: to `HeartbeatTimeout` come a look that was just too early and,
waiting for etcd, takes a period, and another period until the next look. The mutant
`Stale_Strict` shows that this is tight.

### WorkloadGuard

The lock without time: a node works only while it owns the lock, and an owner
loses it only when it does not work. `GuardKept` is `Guard!Spec` with `working` the
nodes whose step is served, `owner` the node the lease belongs to, whether or not it
knows. A shutdown that begins during a step maps to the end of the work, since from then on
nobody guards it (`LockClaimOneStep`).

### SoftIrqLoop

A `SoftIrqService` with a timed watchdog, and time. `pc` is the place in `_serve()`
and `_loop_step()`; `age` and `due` are the heartbeat and the time of the next step,
both relative to `time.time()`, so that setting the clock (`SetForward`, `SetBack`)
moves them and not `left`, what remains of a `time.sleep()`. `Heartbeat` chooses
what `int(time.time())` drops. `Tick` lets time pass in the signum handler, the step
and the events, and in a sleep; bounds say how long each may take, except of a
`hung` step. An exception that is not for `_loop_step()`, such as that of `sys.exit()`,
passes through `__exit__()` and the `finally` clause with its events (`raised = "exit"`)
on its way to `_teardown()`.

`iter` holds the local variables of `_loop_step()`: `skipped`, `excs`, what was
raised, `wd_error`. `Except` is its `except` clause. A watchdog's `__enter__()` and
`__exit__()` may raise a minor or a critical exception; `culprits` is a record of
what really raised, which `EventsTellTruth` compares with the events. A signum
handler that raises counts as not the step, and is reported as an error of the
watchdog, though the comment at `softirq.py:207` does not list it.

`fwd` and `back` bound the adjustments between two `__enter__()`. Once the heartbeat
is too old the hub kills (`Killed`); how soon is a matter of `Hub` and
`LockedService`. `AgeMax` bounds how old a heartbeat gets.

The first heartbeat is the construction of the watchdog, in `add_unit()` or for a
restart, some time before `_serve()` (`BirthAges`). It may be too old before the first
`__enter__()`: a healthy unit that was added long before it is started can be killed.
`HealthyNotNumb` excepts a service constructed more than a second before `_serve()`
until its first heartbeat.

`ServesAsProcess` is `Process!ServingSpec`, what `ServiceProcess` says of one process
that has begun to serve, with any number of mishaps. A heartbeat that gets too old
between two steps, or was before the first, is a mishap there (`GoStale`) and a matter
of time here; `Killed` is a `Crash`. A clock that is set back while a heartbeat is too
old, so that it no longer is, is left out: nothing there undoes `GoStale` but a
heartbeat. Nothing here says when a SIGTERM was sent, so it is taken to be pending
until `Stop` handles it.

### SignumRelay

A `ProcessHub` with `N` services. `SetSignum` is one turn of the loop in
`_set_signums()`. Python runs a signal handler between two steps of the main
thread, also of another handler, so every process has a stack of handlers
(`frames`), and only the innermost one goes on. A child in `boot` has the handlers
of the hub: a signal to the process group makes it set the integers of all services
too. `Look`, `Handle` and `Clear` are `_on_signum()`. A new process gets the
integer of the old one, since `_init_service()` uses the same keyword arguments.

`owed`, `told`, `read` and `mixed` are history: what became of the last value written
for a service, the signal it was written for, the signals whose value the service has
read, and whether handlers have overlapped. For this the signals are numbered, so that
two SIGHUPs differ, except those that booting children handle too (`NoId`). `stuck`
are integers whose lock was held by a process that was killed; whoever needs one waits
for ever.

`LastSignalStays` is about the last value written: one before it that the service has
not read is overwritten, a SIGHUP by a SIGUSR1 too. `HandledOnce` says that the value a
service will read next is of a signal it has not read, with three exceptions: its
handler has raised, the process died before it cleared the integer, or a booting
child handled the signal of the group too.

What the model shows besides the properties: in overlapping handlers the earlier
signal overwrites the later one in the rest of the list; the SIGUSR1 of a group
may toggle the logging level twice, once by the hub's write and once by that of a booting
child; a value whose handler raises is never cleared, and restarts do not heal it.

### ServiceKinds

One unit whose service is of any class (`svc`), with the places of
`_serve_operational()` of a service and of a wrapper around it, and of
`_serve_fake()`. `handlers` says whose Python handlers the process has; the five
values are what `_subscribe_signals()` of the classes leaves. `pending` are signals
noted by the C handler: `Handle` runs the Python one, and `pause()` ends when a
signal comes, unless it was noted just before. `guarded` is `PR_SET_PDEATHSIG`,
`configured` the engines of the process. The hub starts, restarts, kills and joins, as
in `Hub`. A heartbeat may get too old anywhere between construction and end
(`GoStale`), and a step may call `sys.exit()`, which counts as asking for the end.

What the model shows besides the properties:

* `BjoernService` and disabled services never call `prctl()`, and outlive a hub that
  is killed; an orphan of the first kind keeps its port.
* A disabled wrapper subscribes nothing, and a disabled `BjoernService` leaves
  SIGHUP and SIGUSR1 to the hub's handlers: either signal ends their `pause()` with
  code 0, which the hub takes for a stop.
* A disabled service with a timed watchdog never heartbeats, and is killed and
  started again after every timeout.
* A wrapper's own watchdog is a `WatchDogBase` (`base_nested.py:30`): the hub does not
  see the heartbeat of a nested service, and does not kill one that hangs.
* A SIGTERM between the interpreter's last look and `pause()` is kept waiting.
* The driver constructs services from keyword arguments, so a
  `MultiMySQLStorageWrapper` as such gets no units and raises `ValueError`; `Valid` is
  for classes that pass them, such as a `functools.partial`.

## 3. Runs

| run | instance | states | checks |
|---|---|---|---|
| `HubForce` | 2 units, one watched, 1 fault, 1 call while serving, force | 576 317 | types, forced mark, late starts, no process left, every process managed, one process per unit, refinement of `Supervisor` |
| `HubPanic` | the same, panic | 506 402 | forced mark, snapshot, no restart after a failure, a failure stops the hub |
| `HubForceLive` | 1 watched unit, 2 faults, 3 calls, force | 51 006 | healing, killing of hung steps, kills end, stopping of units, stop reaches the shutdown, the shutdown ends |
| `Lock` | 2 nodes, timeout 3, TTL 3, answer 1, poll 1 | 331 641 | types, a served step holds its lease, exclusion, a hung step ends and how soon, refinement of `WorkloadGuard` |
| `SoftIrqLoop` | 2 ticks a second, timeout 10, step period 2, loop periods 0 and 1, clock set by 1 each way, constructed 0, 1 or 10 ticks before | 156 516 | types, a healthy service is not NUMB, a stop in time, true events, refinement of `ServiceProcess` |
| `SignumRelay` | 2 services, one raises on SIGUSR1, 2 signals, 1 crash | 800 563 | types, the last signal stays, nothing read twice, the same signal for all, steps go on |
| `ServiceKinds` | every kind of service, 2 signals from elsewhere | 38 271 | types, orphans, engines, code 0, SIGTERM ends |

Bounds. Two units are enough for everything that one unit can do to another: the hub
treats units one after the other, and interactions are "earlier or later in the loop
than". The watched and the unwatched unit give both kinds of watchdog. A fault is a
crash, a hang, a slow step, an exception or a failed fork; one is enough for a failed
unit seen beside a healthy one, and the liveness run has two, so that a restarted unit
fails again. `MaxCalls` bounds API calls while serving: one update, add or removal per
behaviour with two units, three with one, so that a unit can be removed, added and
updated. Calls before `serve()` are not bounded. The proofs cover all values. In
`Lock` the hub may look as late as one tick before the lease ends, after an answer
that took as long as it may, the tightest case of the assumption `PollPeriod +
AnswerMax < LockTTL`, and the heartbeat times out no earlier than the lease: so a
process may reach its step with a lease that has ended, and only `_check_health()`
keeps it out. In `SoftIrqLoop` the timeout is one tick above `OldestHeartbeat` with
the longest loop period; with 8 a healthy service is killed; one of the ages at birth
is too old at once. Two signals are needed for one to overwrite, or interrupt, the
other; two services for a list that is interrupted in the middle; one crash for each
place of a process. In `ServiceKinds` a unit is started again any number of times.

`SignumRelay` and `ServiceKinds` switch the deadlock check off: the first really may
stop for ever, with a lock nobody releases, and in the second a process in `pause()`,
or one whose hub is gone, may have nothing left to do.

Runs that show a disagreement (each violates one property):

| run | property | what happens |
|---|---|---|
| `ClaimStopAll` | `NoProcessOutlivesServe` | a unit that was never started makes `terminate()` raise, and `stop_all_services()` ends there (`drivers/process.py:221`) |
| `ClaimWaitAll` | `WaitAllEnds` | the only SIGTERM of the shutdown is lost in a booting child; the join never ends (`softirq.py:266`) |
| `ClaimSignum` | `NothingLost` | a signal that the hub writes while a service handles the one before is cleared unread (`softirq.py:330`) |
| `LockClaimOneStep` | `OneStep` | during a shutdown nobody extends the lease of a long step nor kills it; another node runs the step too (`watchdogs/etcd.py:131`) |
| `LockClaimMark` | `MarkIsSeen` | a service marked failed heartbeats in `__enter__()` before it is refused, for ever (`watchdogs/base.py:63`) |

`ClaimStopAll` leaves processes only until the interpreter ends, since
multiprocessing joins them; the hub then hangs on children nobody signalled.

### Fairness

`Hub!Fairness` is weak fairness of the hub's thread, of each process, of the
delivery of SIGTERM and SIGKILL, and of time for a hung step (its heartbeat does
age). The operating system schedules runnable threads and delivers pending
signals. Nothing is assumed of faults, of signals to the hub, of API calls or of
which way a step ends; a hung step stays hung. `EndStep` may be taken without the
final heartbeat each time, since the step may raise each time. `FailureStopsHub` needs
the hub's thread alone (`HubFairSpec`).

`SignumRelay!Fairness` is weak fairness of the hub's handlers, of each child and of
the restart of a child that is gone: handlers run to their end, and the hub's pass,
which `Hub` has in detail, comes to every unit. A signal handler that is waiting for a
lock is not enabled. `ServiceKinds!Fairness` is weak fairness of the process and of each
Python handler. A step returns, exits or hangs there (`hung`); in `SignumRelay` steps
return.

`LockedService!Fairness` is weak fairness of time, of each process outside its
step and of each hub. A step need not end and etcd need not answer.

Some properties have an escape: `pc = "remove"`, because `remove_unit()` joins
without a timeout and so waits for a hung step for ever; `ctrlStop`, because a
stopped controller manages nothing; a hung step, for the shutdown's own join.

## 4. Proofs

All theorems hold for every number of units, faults and calls, every controller;
for the lock, every number of nodes and all timeouts; for the loop, all periods and
bounds; for the relay, every number of services, whichever of their handlers
raise.

* `HubProofs`: `TypeCorrect`, one lemma per group of actions.
* `HubSafetyProofs`: `SafetyInv` is inductive. `EveryProcessManaged` needs that
  loops range over units of the hub and that the unit being worked on is one
  (`Bookkeeping`); `ServeReturnsAlone` needs that the units the last loop has left
  behind are down (`JoinedAreDown`), which later steps keep because a dead process
  never comes back; `AtMostOneLateStart` needs that after a late start the loop can
  only end, since the flag it reads is set (`LateStartWasLast`). `OneProcessPerUnit`
  follows for each step from the tests that precede `InitService`.
* `HubRefinementProofs`: initial states map to initial states, and each step of the
  hub, a child or a fault to a step of `Supervisor` or to a stutter. A start maps
  to `Start` because `SafetyInv` says that the unit at `start` is to be RUNNING;
  the exit maps to `Leave` because the interpreter joins its children.
* `HubSnapshotProofs`: `ForcedNotRunning` and `SnapshotHolds`, under the assumption
  `MarkIsSafe`: the controller never panics, or it panics on FAILED and dicts keep
  insertion order. The argument: a process that has ended stays as it is until the
  hub acts on its unit, so what was seen of the units still in `todo` holds. Only
  `_fast_stop()` goes back to units the pass is done with. With FAILED among the
  panic states a visited unit was not seen FAILED, and one seen INITIAL has been started or
  marked in the pass: so at a panic no unit seen INITIAL may precede the one that
  failed. Units that are INITIAL are the last ones in the order
  (`FreshAreLast`), since each pass treats all, unless it panics and the hub stops;
  this is where insertion order is needed. Without FAILED among the panic states the
  theorem is false: a unit seen FAILED is started again, a later one is seen NUMB, and
  `_fast_stop()` calls `set_state(FAILED, STOPPED)` for the first, whose running
  process gets the mark. The mutant `AddUnit_AnyOrder` of `HubPanic` shows that
  insertion order cannot be dropped either.
  `PanicNeverRestarts` follows for the shipped controller (`DefaultController`).
  `set_state(STOPPED, RUNNING)` would start a failed unit again if the mark made it
  look STOPPED; `PanicInv` says that no pass meets such a unit: a failed unit is
  marked by `_fast_stop()` only (`FailuresUnhidden`), and from there the hub does
  not come back to a pass (`EndedStays`). A unit seen FAILED or NUMB is never set.
* `LockedServiceProofs`: `ServedStepHolds` is inductive with the types and with
  `GrantHolds`, which says of a step about to begin that its lease was refreshed at
  most `AnswerMax` ago. The lease of a served step, the time since the hub's last look
  and `AnswerMax` add up to at least `LockTTL`: a step begins that long after a
  refresh at most, a look refreshes, and a tick moves one unit from the first to the
  second. As `PollPeriod + AnswerMax` is less than `LockTTL`, the lease cannot run out
  before the next look, and two holders are impossible. `StuckStepCut` needs
  `BeatInv`: a look that waits for etcd passed the timer when it began, so the
  heartbeat is no older than the timeout and the time since then; without a look under
  way a whole period may be added. `GuardKeptCorrect` maps each step to one of
  `WorkloadGuard` or a stutter: `BeginStep` begins work, and with `GrantHolds` only
  the owner does; the lease that `Tick` or `Release` ends is not that of a served
  step.

* `SoftIrqLoopProofs`: `LoopInv` bounds the age of the heartbeat at every place by
  what has led there. `DueInv` bounds the time of the next step, above by the step
  period or the last delta plus what the clock was set back; `SpentInv` the time in
  `_loop_step()`; `HealthInv` adds them up from the last heartbeat, or a construction
  just before, to the next `__enter__()`, with the fraction that was dropped, the
  sleep and the lag; `StopInv` does the same for the time since `stop()`; `ReportInv`
  relates `excs`, `wd_error` and what has raised, place by place.
  `ServesAsProcessCorrect` maps each step to one of `ServiceProcess` or a stutter,
  with `ReportInv` to tell the exceptions before the step from those after it. Its
  hypothesis is a heartbeat timeout of a second or more: heartbeats are whole seconds,
  and with a shorter timeout one may be too old when it is generated.
* `SignumRelayProofs`: `WindowInv` says that an integer has the value last written or
  zero, and that between `Look` and `Clear` it is not cleared; it has
  `LastSignalStays` as a part. `OnceInv` says where a numbered signal can be: pending
  in the hub, in one handler of it, or told to a service, and that what a handler has
  still to tell is new to the services ahead; with it `HandledOnce` follows from
  `WindowInv`. `SweepInv` says that, unless handlers have overlapped, one handler at
  most is under way and has told its signal to the services before its `next`.
  `SameSignalForAll` follows when it leaves the list.
* `ServiceKindsProofs`: `KindsInv` has a conjunct per question. `EngineInv`: past
  `_setup()` the engines are configured; `AskInv`: each way out of `serve()` without
  an exception starts with a signal that asks for it, or with `failing`; `FakeInv`:
  which services are in `_serve_fake()`, and with which handlers; `GuardInv`: a process
  under a hub is guarded from `_setup()` on.

Assumptions: `ProcessAssumption`, `HubAssumption`, `LockAssumption`, `LoopAssumption`,
`RelayAssumption` and `KindsAssumption` only say that bounds are numbers and sets are
what they are called, except `PollPeriod + AnswerMax < LockTTL`, and `SignumMax <=
IterMax`, which is part of what `IterMax` means. The code computes the TTL from the
heartbeat timeout and the etcd timeout and not from the hub's period, which grows with
the number of units (`get_states()` asks etcd for one after the other): this is a
condition on a deployment.

Only model-checked: all liveness properties, and everything in the claims.

## 5. Not modelled

* Hubs with `subscribe_signals=False`, and hubs of hubs.
* Contents of events beyond their kind, logging, Sentry.
* The C int of a heartbeat, which overflows in 2038.
* Composition of `SignumRelay` and `ServiceKinds` with `Hub`: its process would have
  their state, and TLC could not check the product. Each is checked beside a hub that
  does what concerns it. `SoftIrqLoop` needs no product, since it implements the process
  of `Hub`; this is about its loop, not about `boot` and `_teardown()`, which only
  `ServiceProcess` has.
* `EtcdSingleSoftIrqService` (`softirq_etcd.py`), deprecated in favour of
  `WatchDogEtcd`.
* The instances of `BjoernService` by port: the model has one service, and a restart
  constructs it again with the same arguments.
* The watchdog factory and the value classes: constructors without state to follow.
* `stop()` of wrappers and of `BjoernService`: nothing calls it.

## 6. Plan

Done: the core (`ServiceProcess`, `ProcessDriver`, `Hub`, `Supervisor`) with its
safety, liveness, refinement and proofs; the etcd watchdog with its refinement proved;
the loop with its time, the signum relay and the kinds of services, each with its
safety proved.

Next, in this order:

1. A deployment: a hub of hubs, and a new hub beside the orphans of a dead one.
2. `EtcdSingleSoftIrqService` as a variant of `LockedService`.
