---------------------------- MODULE SoftIrqLoop ----------------------------
(***************************************************************************)
(* The loop of a SoftIrqService that goes on as it should: the iterations  *)
(* of _loop_step(), the time between them, the heartbeats of its timed     *)
(* watchdog and the events it sends.  What a heartbeat timeout has to be   *)
(* for such a service, and how long it may take to stop, follows from the  *)
(* periods of the loop.                                                    *)
(*                                                                         *)
(* Times are in ticks of a second's fraction, and relative to the clock:   *)
(* an adjustment of the clock moves all of them.  time.sleep() is not      *)
(* moved by it.                                                            *)
(***************************************************************************)
EXTENDS Integers

CONSTANTS
    Second,         \* ticks in a second
    Timeout,        \* _heartbeat_timeout
    StepPeriod,     \* _step_period
    LoopPeriods,    \* values of _loop_period to look at
    DeltaMax,       \* bound on the delta of _schedule_next_step()
    SignumMax,      \* bound on the time of a signum handler
    IterMax,        \* bound on the time of _loop_step() when it does not hang
    Lag,            \* bound on the delay of a process that should wake up
    MaxForward,     \* bound on what the clock is set forward, see fwd
    MaxBack,        \* bound on what the clock is set back, see back
    BirthAges,      \* how old the watchdog may be when _serve() begins
    AgeMax          \* bound on the age of a heartbeat

ASSUME LoopAssumption ==
    /\ Second \in Nat \ {0}
    /\ Timeout \in Nat \ {0}
    /\ StepPeriod \in Nat
    /\ LoopPeriods \subseteq Nat
    /\ DeltaMax \in Nat
    /\ SignumMax \in Nat
    /\ IterMax \in Nat
    /\ SignumMax <= IterMax
    /\ Lag \in Nat
    /\ MaxForward \in Nat
    /\ MaxBack \in Nat
    /\ BirthAges \subseteq Int
    /\ AgeMax \in Nat

VARIABLES
    pc,           \* where the process is, see PC
    loopPeriod,   \* _loop_period
    hasRunning,   \* _has_running
    age,          \* time.time() minus the last heartbeat
    due,          \* next_step_time minus time.time()
    left,         \* what is left of the current time.sleep(), negative when late
    spent,        \* time since _loop_step() was called
    fwd, back,    \* the clock was set forward, back, since the last __enter__()
    iter,         \* local variables of _loop_step(), see Iteration
    missed,       \* the loop began with an old heartbeat, or an iteration has ended
                  \* without one, and none came since
    waited        \* time since stop() was called

clockVars == <<age, due, fwd, back>>
vars == <<pc, loopPeriod, hasRunning, age, due, left, spent, fwd, back, iter, missed,
          waited>>

\* "top"      at the loop condition
\* "signum"   _on_signum()
\* "enter"    __enter__() of the watchdog
\* "step"     _wrapped_step();  "hung" if it will not return
\* "exit"     __exit__() of the watchdog
\* "except"   the except clause of _loop_step()
\* "events"   its finally clause
\* "rest"     back in _serve()
\* "sleep"    in time.sleep()
\* "closing"  the loop was left, by its condition or by sys.exit(): in _teardown()
\* "unwinding"  the same, while an exception propagates
\* "killed"   no process
Down == {"closing", "unwinding", "killed"}
PC == {"top", "signum", "enter", "step", "hung", "exit", "except", "events", "rest",
       "sleep"} \cup Down

\* skipped   step_info['skipped']
\* excs      excs is not empty: the step raised
\* raised    the exception on its way out; "exit" is SystemExit, which the except
\*           clause does not catch
\* wdError   wd_error: "none", or "minor" or "critical" as its class says
\* sent      the events sent
\* beaten    a heartbeat was generated in the iteration
\* culprits  what has raised in it
Raised == {"none", "signum", "step", "minor", "critical", "exit"}
Iteration == [skipped : BOOLEAN, excs : BOOLEAN, raised : Raised,
              wdError : {"none", "minor", "critical"},
              sent : SUBSET {"step", "error", "watchdog"}, beaten : BOOLEAN,
              culprits : SUBSET {"signum", "enter", "step", "exit"}]

NewIteration == [skipped |-> TRUE, excs |-> FALSE, raised |-> "none", wdError |-> "none",
                 sent |-> {}, beaten |-> FALSE, culprits |-> {}]

TypeOK ==
    /\ pc \in PC
    /\ loopPeriod \in LoopPeriods
    /\ hasRunning \in BOOLEAN
    /\ age \in Int
    /\ due \in Int
    /\ left \in Int
    /\ spent \in 0 .. IterMax
    /\ fwd \in 0 .. MaxForward
    /\ back \in 0 .. MaxBack
    /\ iter \in Iteration
    /\ missed \in BOOLEAN
    /\ waited \in Nat

\* next_step_time is 0, long ago.  The heartbeat is the one of the watchdog's
\* construction in the hub: just before the fork for a service that was renewed, any
\* time before for one that waited in INITIAL.
Init ==
    /\ pc = "top"
    /\ loopPeriod \in LoopPeriods
    /\ hasRunning = TRUE
    /\ age \in BirthAges
    /\ due = -MaxBack
    /\ left = 0
    /\ spent = 0
    /\ fwd = 0
    /\ back = 0
    /\ iter = NewIteration
    /\ missed = (age >= Second)
    /\ waited = 0

Go(from, to) == pc = from /\ pc' = to

Stale == age >= Timeout

\* generate_heartbeat(): int(time.time()) drops up to a second.
Heartbeat ==
    /\ age' \in 0 .. Second - 1
    /\ missed' = FALSE

NoHeartbeat == UNCHANGED <<age, missed>>

-----------------------------------------------------------------------------
(* _loop_step()                                                            *)

\* An exception of who, to be handled as kind.
Raise(who, kind) ==
    iter' = [iter EXCEPT !.raised = kind, !.culprits = @ \cup {who}]

Signum ==
    /\ \/ Go("signum", "enter") /\ UNCHANGED iter
       \/ Go("signum", "except") /\ Raise("signum", "signum")
    /\ UNCHANGED <<loopPeriod, hasRunning, clockVars, left, spent, missed, waited>>

\* _on_enter() of a watchdog may raise; then comes the heartbeat, and the check
\* of the health, which fails when the timeout is shorter than what was dropped.
Enter ==
    /\ \/ /\ Go("enter", "except")
          /\ \E kind \in {"minor", "critical"} : Raise("enter", kind)
          /\ NoHeartbeat
          /\ UNCHANGED <<fwd, back>>
       \/ /\ Heartbeat
          /\ fwd' = 0 /\ back' = 0
          /\ IF age' >= Timeout
               THEN /\ Go("enter", "except")
                    /\ iter' = [iter EXCEPT !.raised = "critical", !.beaten = TRUE,
                                            !.culprits = {"enter"}]
               ELSE /\ Go("enter", "step")
                    /\ iter' = [iter EXCEPT !.skipped = FALSE, !.beaten = TRUE]
    /\ UNCHANGED <<loopPeriod, hasRunning, due, left, spent, waited>>

\* The step returns, raises, calls sys.exit() or does not come back.
Step ==
    /\ \/ Go("step", "exit") /\ UNCHANGED iter
       \/ Go("step", "exit") /\ iter' = [iter EXCEPT !.raised = "step", !.excs = TRUE,
                                                     !.culprits = @ \cup {"step"}]
       \/ Go("step", "exit") /\ iter' = [iter EXCEPT !.raised = "exit"]
       \/ Go("step", "hung") /\ UNCHANGED iter
    /\ UNCHANGED <<loopPeriod, hasRunning, clockVars, left, spent, missed, waited>>

\* __exit__() may raise, instead of the step's exception or SystemExit if there is
\* one.  Otherwise a step that returned is followed by a heartbeat.
Exit ==
    /\ \/ /\ Go("exit", "except")
          /\ \/ \E kind \in {"minor", "critical"} : Raise("exit", kind)
             \/ iter.excs /\ UNCHANGED iter
          /\ NoHeartbeat
       \/ /\ ~iter.excs
          /\ Go("exit", "events")
          /\ IF iter.raised = "exit" THEN NoHeartbeat ELSE Heartbeat
          /\ UNCHANGED iter
    /\ UNCHANGED <<loopPeriod, hasRunning, due, fwd, back, left, spent, waited>>

\* Mutant: the class of the exception is not looked at.
Severity_AnyClass == iter.raised

Severity == IF iter.raised = "minor" THEN "minor" ELSE "critical"

\* Mutant: any exception after the step has raised is taken for the step's.
Except_NoIdentity ==
    /\ Go("except", "events")
    /\ LET error == IF iter.skipped \/ ~iter.excs THEN Severity ELSE "none"
       IN  /\ iter' = [iter EXCEPT !.wdError = error]
           /\ IF error = "minor" THEN Heartbeat
                                 ELSE missed' = (missed \/ ~iter.beaten) /\ UNCHANGED age
    /\ UNCHANGED <<loopPeriod, hasRunning, due, fwd, back, left, spent, waited>>

\* The exception is the watchdog's unless it is, by identity, the one the step
\* raised.  Only a minor one is followed by a heartbeat.
Except ==
    /\ Go("except", "events")
    /\ LET error == IF iter.skipped \/ ~iter.excs \/ iter.raised # "step"
                      THEN Severity ELSE "none"
       IN  /\ iter' = [iter EXCEPT !.wdError = error]
           /\ IF error = "minor" THEN Heartbeat
                                 ELSE missed' = (missed \/ ~iter.beaten) /\ UNCHANGED age
    /\ UNCHANGED <<loopPeriod, hasRunning, due, fwd, back, left, spent, waited>>

\* The events, in this order; a sender that raises ends the service, and so does
\* SystemExit after them.
StepEvent == {"step"}
ErrorEvent == IF iter.excs THEN {"error"} ELSE {}
WatchdogEvent == IF iter.wdError # "none" THEN {"watchdog"} ELSE {}

Events ==
    /\ \/ /\ Go("events", IF iter.raised = "exit" THEN "closing" ELSE "rest")
          /\ iter' = [iter EXCEPT !.sent = StepEvent \cup ErrorEvent \cup WatchdogEvent]
       \/ /\ Go("events", "unwinding")
          /\ \E before \in {{}, StepEvent, StepEvent \cup ErrorEvent} :
               iter' = [iter EXCEPT !.sent = before]
    /\ UNCHANGED <<loopPeriod, hasRunning, clockVars, left, spent, missed, waited>>

-----------------------------------------------------------------------------
(* _serve()                                                                *)

\* Mutant: the loop sleeps until the next step with every loop period.
Nap_ToNextStep ==
    IF due' <= 0 THEN pc' = "top" /\ UNCHANGED left
                 ELSE pc' = "sleep" /\ left' = due'

\* The end of the loop's body: loop_period, or with 0 until the next step.
Nap ==
    IF loopPeriod = 0 /\ due' <= 0
      THEN pc' = "top" /\ UNCHANGED left
      ELSE pc' = "sleep" /\ left' = IF loopPeriod = 0 THEN due' ELSE loopPeriod

\* Mutant: the flag is not looked at.
BeginIteration_Always ==
    /\ Go("top", "signum")
    /\ due <= 0
    /\ due' = StepPeriod
    /\ spent' = 0
    /\ iter' = NewIteration
    /\ UNCHANGED <<loopPeriod, hasRunning, age, fwd, back, left, missed, waited>>

BeginIteration ==
    /\ Go("top", "signum")
    /\ hasRunning
    /\ due <= 0
    /\ due' = StepPeriod
    /\ spent' = 0
    /\ iter' = NewIteration
    /\ UNCHANGED <<loopPeriod, hasRunning, age, fwd, back, left, missed, waited>>

NotDue ==
    /\ pc = "top"
    /\ hasRunning
    /\ due > 0
    /\ UNCHANGED due
    /\ Nap
    /\ UNCHANGED <<loopPeriod, hasRunning, age, fwd, back, spent, iter, missed, waited>>

\* Mutant: the delta is counted from the time the step was due anyway.
Rest_DeltaFromDue ==
    /\ pc = "rest"
    /\ \E delta \in 0 .. DeltaMax : due' = due + delta
    /\ Nap
    /\ iter' = NewIteration
    /\ UNCHANGED <<loopPeriod, hasRunning, age, fwd, back, spent, missed, waited>>

\* The iteration, a handler in it or a subclass may have rescheduled the next.
Rest ==
    /\ pc = "rest"
    /\ due' \in {due} \cup 0 .. DeltaMax
    /\ Nap
    /\ iter' = NewIteration
    /\ UNCHANGED <<loopPeriod, hasRunning, age, fwd, back, spent, missed, waited>>

Wake ==
    /\ Go("sleep", "top")
    /\ left <= 0
    /\ UNCHANGED <<loopPeriod, hasRunning, clockVars, left, spent, iter, missed, waited>>

LeaveLoop ==
    /\ Go("top", "closing")
    /\ ~hasRunning
    /\ UNCHANGED <<loopPeriod, hasRunning, clockVars, left, spent, iter, missed, waited>>

\* stop(), from the handler of SIGTERM or SIGINT.  A sleep goes on after the
\* handler (Python 3.5) or ends (before).
Stop ==
    /\ pc \notin Down
    /\ hasRunning
    /\ hasRunning' = FALSE
    /\ \/ UNCHANGED left
       \/ left > 0 /\ left' = 0
    /\ UNCHANGED <<pc, loopPeriod, clockVars, spent, iter, missed, waited>>

-----------------------------------------------------------------------------
(* Time, the clock and the hub.                                            *)

Busy == pc \in {"signum", "step", "events"}

\* A tick.  The process is never later than the bounds say, unless its step
\* hangs.
Tick ==
    /\ age < AgeMax
    /\ \/ Busy /\ spent < (IF pc = "signum" THEN SignumMax ELSE IterMax)
       \/ pc = "sleep" /\ left > -Lag
       \/ pc = "hung"
    /\ age' = age + 1
    /\ due' = due - 1
    /\ left' = IF pc = "sleep" THEN left - 1 ELSE left
    /\ spent' = IF Busy THEN spent + 1 ELSE spent
    /\ waited' = IF hasRunning \/ pc = "hung" THEN waited ELSE waited + 1
    /\ UNCHANGED <<pc, loopPeriod, hasRunning, fwd, back, iter, missed>>

\* The clock is set, by NTP or by hand.  Setting it back while the heartbeat is too
\* old, which would hide that, is left out.
SetForward(d) ==
    /\ pc \notin Down
    /\ age + d <= AgeMax
    /\ fwd + d <= MaxForward
    /\ fwd' = fwd + d
    /\ age' = age + d
    /\ due' = due - d
    /\ UNCHANGED <<pc, loopPeriod, hasRunning, left, spent, back, iter, missed, waited>>

SetBack(d) ==
    /\ pc \notin Down
    /\ ~Stale
    /\ back + d <= MaxBack
    /\ back' = back + d
    /\ age' = age - d
    /\ due' = due + d
    /\ UNCHANGED <<pc, loopPeriod, hasRunning, left, spent, fwd, iter, missed, waited>>

\* The hub sees the process as NUMB.
Killed ==
    /\ pc \notin Down
    /\ Stale
    /\ pc' = "killed"
    /\ UNCHANGED <<loopPeriod, hasRunning, clockVars, left, spent, iter, missed, waited>>

LoopStep == Signum \/ Enter \/ Step \/ Exit \/ Except \/ Events

Serve == BeginIteration \/ NotDue \/ Rest \/ Wake \/ LeaveLoop

Finished == pc \in Down /\ UNCHANGED vars

Next ==
    \/ LoopStep
    \/ Serve
    \/ Stop
    \/ Tick
    \/ \E d \in 1 .. MaxForward : SetForward(d)
    \/ \E d \in 1 .. MaxBack : SetBack(d)
    \/ Killed
    \/ Finished

Spec == Init /\ [][Next]_vars

-----------------------------------------------------------------------------

Larger(a, b) == IF a >= b THEN a ELSE b

\* From one heartbeat to the call of _loop_step() that brings the next, apart
\* from the pauses of the loop.
Between == Larger(StepPeriod + 2 * MaxBack, IterMax + DeltaMax)

OldestHeartbeat ==
    (Second - 1) + Between + loopPeriod + Lag + SignumMax + MaxForward

\* A service whose iterations heartbeat is never seen as NUMB, if its timeout is
\* longer than what one round of the loop may take, the dropped fraction of a
\* second and the adjustments of the clock included.  One that was constructed more
\* than a second before _serve() is excepted until its first heartbeat: it may be
\* NUMB although nothing is wrong with it.  (WatchDog._check_health(), _serve(),
\* _schedule_next_step())
HealthyNotNumb ==
    Timeout > OldestHeartbeat /\ ~missed /\ pc \notin {"hung"} \cup Down => ~Stale

LongestNap ==
    IF loopPeriod = 0 THEN Larger(StepPeriod, DeltaMax) + 2 * MaxBack ELSE loopPeriod

\* stop() ends the loop within an iteration and one sleep, which with
\* loop_period=0 is as long as the step period.  (_serve())
StopsInTime == waited <= IterMax + LongestNap + Lag

\* Of an iteration one event is always sent, the error event exactly if the step
\* raised, and the watchdog event exactly if something else did, also when both
\* did.  (_loop_step())
EventsTellTruth ==
    pc = "rest" =>
        /\ "step" \in iter.sent
        /\ "error" \in iter.sent <=> "step" \in iter.culprits
        /\ "watchdog" \in iter.sent <=> iter.culprits \ {"step"} # {}

\* The same as a process of module ServiceProcess.  A SIGTERM may come at any time:
\* there it is pending from the beginning until Stop handles it.
ProcessStage ==
    CASE pc \in {"top", "rest", "sleep"} -> "idle"
      [] pc \in {"signum", "enter"} -> "entry"
      [] pc \in {"step", "exit"} -> "step"
      [] pc = "except" -> IF iter.skipped THEN "entry" ELSE "step"
      [] pc = "events" -> IF iter.raised = "exit" THEN "closing" ELSE "events"
      [] pc = "killed" -> "failed"
      [] OTHER -> pc

One(value) == [u \in 1 .. 1 |-> value]

Process == INSTANCE ServiceProcess
    WITH MaxUnits <- 1, Watched <- {1}, MaxFaults <- 0, faults <- 0,
         stage <- One(ProcessStage), running <- One(hasRunning), stale <- One(Stale),
         term <- One(hasRunning), kill <- One(FALSE)

\* The loop with its time, its exceptions and its clock is a process as Hub takes
\* it to be: a step is begun only from the loop condition with the flag set, the
\* heartbeat is renewed by steps only, and nothing escapes but from the events.
\* (_serve(), _loop_step())
ServesAsProcess == Process!ServingSpec
=============================================================================
