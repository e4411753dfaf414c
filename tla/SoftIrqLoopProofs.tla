------------------------- MODULE SoftIrqLoopProofs -------------------------
(***************************************************************************)
(* Proofs about SoftIrqLoop, for every period, bound and timeout.          *)
(***************************************************************************)
EXTENDS SoftIrqLoop, TLAPS

Fraction == Second - 1

\* The process waits for its next iteration, is in one that has not yet seen a
\* heartbeat, or in one that has.
Waiting == pc \in {"top", "sleep"}
Before == pc \in {"signum", "enter"} \/ (pc = "except" /\ ~iter.beaten)
After == pc \in {"step", "exit", "events", "rest"} \/ (pc = "except" /\ iter.beaten)

\* How far away the next step may be.
DueInv ==
    /\ Before => due <= StepPeriod + back
    /\ After => due <= StepPeriod + MaxBack + back
    /\ Waiting => due <= Larger(StepPeriod + MaxBack, DeltaMax) + back

SpentInv == Before => spent <= SignumMax

\* age + due is the time from the last heartbeat to the next step: neither time
\* nor the clock changes it.
HealthInv ==
    ~missed =>
        /\ Before => age <= Fraction + Between + loopPeriod + Lag + fwd + spent
        /\ After => /\ age <= Fraction + fwd + spent
                    /\ age + due <= Fraction + StepPeriod + 2 * MaxBack
        /\ Waiting => age + due <= Fraction + Between + fwd
        /\ pc = "sleep" => age + left <= Fraction + Between + fwd + loopPeriod
        /\ pc = "top" => age <= Fraction + Between + fwd + loopPeriod + Lag

StopInv ==
    /\ hasRunning => waited = 0
    /\ ~Waiting /\ pc \notin Down => waited <= spent
    /\ pc = "sleep" => /\ left >= -Lag
                       /\ left <= LongestNap
                       /\ waited + left <= IterMax + LongestNap
    /\ pc \in {"top"} \cup Down => waited <= IterMax + LongestNap + Lag

\* Nothing has raised in the iteration.
Quiet ==
    /\ ~iter.excs
    /\ iter.raised = "none"
    /\ iter.wdError = "none"
    /\ iter.culprits = {}

\* What the local variables of _loop_step() say of what has raised.
ReportInv ==
    /\ pc \in {"signum", "enter"} => Quiet /\ iter.skipped /\ ~iter.beaten
    /\ pc = "step" => Quiet /\ ~iter.skipped /\ iter.beaten
    /\ pc = "exit" => /\ ~iter.skipped
                      /\ iter.beaten
                      /\ iter.raised \in IF iter.excs THEN {"step"} ELSE {"none", "exit"}
                      /\ iter.culprits = IF iter.excs THEN {"step"} ELSE {}
                      /\ iter.wdError = "none"
    /\ pc = "except" => /\ iter.raised \notin {"none", "exit"}
                        /\ iter.skipped => ~iter.excs
                        /\ iter.excs <=> "step" \in iter.culprits
                        /\ (iter.excs /\ iter.raised = "step")
                             <=> iter.culprits \ {"step"} = {}
    /\ pc = "events" => /\ iter.excs <=> "step" \in iter.culprits
                        /\ iter.wdError = "none" <=> iter.culprits \ {"step"} = {}
    /\ EventsTellTruth

LoopInv == DueInv /\ SpentInv /\ HealthInv /\ StopInv /\ ReportInv

-----------------------------------------------------------------------------
(* The bounds.                                                             *)

LEMMA BetweenBounds ==
    /\ Between \in Nat
    /\ StepPeriod + 2 * MaxBack <= Between
    /\ IterMax + DeltaMax <= Between
BY LoopAssumption DEF Between, Larger

LEMMA NapBounds ==
    ASSUME TypeOK
    PROVE  /\ LongestNap \in Nat
           /\ loopPeriod # 0 => LongestNap = loopPeriod
           /\ loopPeriod = 0 => Larger(StepPeriod + MaxBack, DeltaMax) + MaxBack <= LongestNap
BY LoopAssumption DEF TypeOK, LongestNap, Larger

LEMMA HeartbeatBounds ==
    ASSUME TypeOK, due <= StepPeriod + MaxBack + back,
           NEW heartbeat \in 0 .. Fraction
    PROVE  /\ heartbeat <= Fraction + fwd + spent
           /\ heartbeat <= Fraction + spent
           /\ heartbeat + due <= Fraction + StepPeriod + 2 * MaxBack
BY LoopAssumption DEF TypeOK, Fraction

LEMMA DeltaBounds ==
    ASSUME TypeOK, age <= Fraction + fwd + spent, NEW delta \in 0 .. DeltaMax
    PROVE  age + delta <= Fraction + Between + fwd
BY LoopAssumption, BetweenBounds DEF TypeOK, Fraction

LEMMA WaitBounds ==
    /\ Larger(StepPeriod + MaxBack, DeltaMax) \in Nat
    /\ StepPeriod + MaxBack <= Larger(StepPeriod + MaxBack, DeltaMax)
    /\ DeltaMax <= Larger(StepPeriod + MaxBack, DeltaMax)
BY LoopAssumption DEF Larger

LEMMA NewIterationTyped == NewIteration \in Iteration
BY DEF NewIteration, Iteration, Raised

-----------------------------------------------------------------------------
(* Typing.                                                                 *)

\* The updates of the local variables of _loop_step() that its parts make.
LEMMA UpdatesTyped ==
    ASSUME NEW i \in Iteration
    PROVE  /\ \A who \in {"signum", "enter", "step", "exit"} : \A kind \in Raised :
                /\ [i EXCEPT !.raised = kind] \in Iteration
                /\ [i EXCEPT !.raised = kind, !.culprits = @ \cup {who}] \in Iteration
                /\ [i EXCEPT !.raised = kind, !.excs = TRUE, !.culprits = @ \cup {who}]
                     \in Iteration
           /\ \A error \in {"none", "minor", "critical"} :
                [i EXCEPT !.wdError = error] \in Iteration
           /\ \A events \in SUBSET {"step", "error", "watchdog"} :
                [i EXCEPT !.sent = events] \in Iteration
           /\ [i EXCEPT !.skipped = FALSE, !.beaten = TRUE] \in Iteration
           /\ [i EXCEPT !.raised = "critical", !.beaten = TRUE, !.culprits = {"enter"}]
                \in Iteration
BY DEF Iteration, Raised

LEMMA IterationTyped ==
    ASSUME TypeOK, [Next]_vars
    PROVE  iter' \in Iteration
<1> USE DEF TypeOK
<1>1. CASE Signum
  BY <1>1, UpdatesTyped DEF Signum, Raise, Raised
<1>2. CASE Enter
  BY <1>2, UpdatesTyped DEF Enter, Raise, Raised
<1>3. CASE Step
  BY <1>3, UpdatesTyped DEF Step, Raised
<1>4. CASE Exit
  BY <1>4, UpdatesTyped DEF Exit, Raise, Raised
<1>5. CASE Except
  <2>1. Severity \in {"none", "minor", "critical"}
    BY DEF Severity
  <2>2. PICK error \in {"none", "minor", "critical"} : iter' = [iter EXCEPT !.wdError = error]
    BY <1>5, <2>1 DEF Except
  <2>q. QED
    BY <2>2, UpdatesTyped
<1>6. CASE Events
  <2>1. /\ ErrorEvent \in SUBSET {"step", "error", "watchdog"}
        /\ WatchdogEvent \in SUBSET {"step", "error", "watchdog"}
        /\ StepEvent \in SUBSET {"step", "error", "watchdog"}
    BY DEF ErrorEvent, WatchdogEvent, StepEvent
  <2>2. PICK events \in SUBSET {"step", "error", "watchdog"} :
          iter' = [iter EXCEPT !.sent = events]
    <3>1. CASE iter' = [iter EXCEPT !.sent = StepEvent \cup ErrorEvent \cup WatchdogEvent]
      <4>1. StepEvent \cup ErrorEvent \cup WatchdogEvent \in SUBSET {"step", "error", "watchdog"}
        BY <2>1
      <4>q. QED
        BY <3>1, <4>1
    <3>2. CASE \E before \in {{}, StepEvent, StepEvent \cup ErrorEvent} :
                 iter' = [iter EXCEPT !.sent = before]
      <4>1. PICK before \in {{}, StepEvent, StepEvent \cup ErrorEvent} :
              iter' = [iter EXCEPT !.sent = before]
        BY <3>2
      <4>2. before \in SUBSET {"step", "error", "watchdog"}
        BY <2>1
      <4>q. QED
        BY <4>1, <4>2
    <3>q. QED
      BY <1>6, <3>1, <3>2 DEF Events
  <2>q. QED
    BY <2>2, UpdatesTyped
<1>7. CASE BeginIteration \/ Rest
  BY <1>7, NewIterationTyped DEF BeginIteration, Rest
<1>q. QED
  BY <1>1, <1>2, <1>3, <1>4, <1>5, <1>6, <1>7
     DEF Next, LoopStep, Serve, NotDue, Wake, LeaveLoop, Stop, Tick, SetForward, SetBack,
         Killed, Finished, vars

LEMMA InitTyped == Init => TypeOK
<1> SUFFICES ASSUME Init
             PROVE  TypeOK
  OBVIOUS
<1>1. age \in Int /\ due \in Int
  BY LoopAssumption DEF Init
<1>2. spent \in 0 .. IterMax /\ fwd \in 0 .. MaxForward /\ back \in 0 .. MaxBack
  BY LoopAssumption DEF Init
<1>3. hasRunning \in BOOLEAN /\ missed \in BOOLEAN
  BY DEF Init
<1>4. pc \in PC /\ loopPeriod \in LoopPeriods /\ left \in Int /\ waited \in Nat
  BY DEF Init, PC, Down
<1>5. iter \in Iteration
  BY NewIterationTyped DEF Init
<1>q. QED
  BY <1>1, <1>2, <1>3, <1>4, <1>5 DEF TypeOK

LEMMA TypeStep ==
    ASSUME TypeOK, [Next]_vars
    PROVE  TypeOK'
<1> USE LoopAssumption, IterationTyped DEF TypeOK, PC, Down, Go, clockVars
<1>1. CASE Signum
  BY <1>1 DEF Signum
<1>2. CASE Enter
  <2>1. pc' \in PC /\ age' \in Int /\ fwd' \in 0 .. MaxForward /\ back' \in 0 .. MaxBack
    BY <1>2 DEF Enter, Heartbeat, NoHeartbeat
  <2>2. missed' \in BOOLEAN
    BY <1>2 DEF Enter, Heartbeat, NoHeartbeat
  <2>q. QED
    BY <1>2, <2>1, <2>2 DEF Enter
<1>3. CASE Step
  BY <1>3 DEF Step
<1>4. CASE Exit
  <2>1. pc' \in PC /\ age' \in Int
    BY <1>4 DEF Exit, Heartbeat, NoHeartbeat
  <2>2. missed' \in BOOLEAN
    BY <1>4 DEF Exit, Heartbeat, NoHeartbeat
  <2>q. QED
    BY <1>4, <2>1, <2>2 DEF Exit
<1>5. CASE Except
  <2>1. pc' \in PC /\ age' \in Int
    BY <1>5 DEF Except, Heartbeat
  <2>2. missed' \in BOOLEAN
    BY <1>5 DEF Except, Heartbeat
  <2>q. QED
    BY <1>5, <2>1, <2>2 DEF Except
<1>6. CASE Events
  BY <1>6 DEF Events
<1>7. CASE BeginIteration
  BY <1>7 DEF BeginIteration
<1>8. CASE NotDue
  BY <1>8 DEF NotDue, Nap
<1>9. CASE Rest
  BY <1>9 DEF Rest, Nap
<1>10. CASE Wake
  BY <1>10 DEF Wake
<1>11. CASE LeaveLoop
  BY <1>11 DEF LeaveLoop
<1>12. CASE Stop
  <2>1. left' \in Int
    BY <1>12 DEF Stop
  <2>q. QED
    BY <1>12, <2>1 DEF Stop
<1>13. CASE Tick
  BY <1>13 DEF Tick, Busy
<1>14. ASSUME NEW d \in 1 .. MaxForward, SetForward(d)
      PROVE  TypeOK'
  BY <1>14 DEF SetForward
<1>15. ASSUME NEW d \in 1 .. MaxBack, SetBack(d)
      PROVE  TypeOK'
  BY <1>15 DEF SetBack
<1>16. CASE Killed
  BY <1>16 DEF Killed
<1>17. CASE UNCHANGED vars
  BY <1>17 DEF vars
<1>q. QED
  BY <1>1, <1>2, <1>3, <1>4, <1>5, <1>6, <1>7, <1>8, <1>9, <1>10, <1>11, <1>12, <1>13, <1>14, <1>15, <1>16, <1>17
     DEF Next, LoopStep, Serve, Finished

-----------------------------------------------------------------------------
(* What the parts of _loop_step() do to its local variables.               *)

LEMMA RaiseEffect ==
    ASSUME TypeOK, NEW who, NEW kind, Raise(who, kind)
    PROVE  /\ iter'.skipped = iter.skipped
           /\ iter'.excs = iter.excs
           /\ iter'.raised = kind
           /\ iter'.wdError = iter.wdError
           /\ iter'.beaten = iter.beaten
           /\ iter'.culprits = iter.culprits \cup {who}
BY DEF TypeOK, Iteration, Raise

LEMMA EnterEffect ==
    ASSUME TypeOK, Enter
    PROVE  /\ pc = "enter"
           /\ \/ /\ pc' = "except"
                 /\ \E kind \in {"minor", "critical"} : Raise("enter", kind)
                 /\ UNCHANGED <<age, missed, fwd, back>>
              \/ /\ pc' = "except"
                 /\ Heartbeat /\ fwd' = 0 /\ back' = 0
                 /\ iter'.skipped = iter.skipped
                 /\ iter'.excs = iter.excs
                 /\ iter'.raised = "critical"
                 /\ iter'.wdError = iter.wdError
                 /\ iter'.beaten = TRUE
                 /\ iter'.culprits = {"enter"}
              \/ /\ pc' = "step"
                 /\ Heartbeat /\ fwd' = 0 /\ back' = 0
                 /\ iter'.skipped = FALSE
                 /\ iter'.excs = iter.excs
                 /\ iter'.raised = iter.raised
                 /\ iter'.wdError = iter.wdError
                 /\ iter'.beaten = TRUE
                 /\ iter'.culprits = iter.culprits
<1>1. CASE \E kind \in {"minor", "critical"} :
             /\ Go("enter", "except") /\ Raise("enter", kind)
             /\ NoHeartbeat /\ UNCHANGED <<fwd, back>>
  BY <1>1 DEF NoHeartbeat, Go
<1>2. CASE /\ Heartbeat /\ fwd' = 0 /\ back' = 0
           /\ Go("enter", "except")
           /\ iter' = [iter EXCEPT !.raised = "critical", !.beaten = TRUE,
                                   !.culprits = {"enter"}]
  <2>1. /\ iter'.skipped = iter.skipped
        /\ iter'.excs = iter.excs
        /\ iter'.raised = "critical"
        /\ iter'.wdError = iter.wdError
        /\ iter'.beaten = TRUE
        /\ iter'.culprits = {"enter"}
    BY <1>2 DEF TypeOK, Iteration
  <2>q. QED
    BY <1>2, <2>1 DEF Go
<1>3. CASE /\ Heartbeat /\ fwd' = 0 /\ back' = 0
           /\ Go("enter", "step")
           /\ iter' = [iter EXCEPT !.skipped = FALSE, !.beaten = TRUE]
  <2>1. /\ iter'.skipped = FALSE
        /\ iter'.excs = iter.excs
        /\ iter'.raised = iter.raised
        /\ iter'.wdError = iter.wdError
        /\ iter'.beaten = TRUE
        /\ iter'.culprits = iter.culprits
    BY <1>3 DEF TypeOK, Iteration
  <2>q. QED
    BY <1>3, <2>1 DEF Go
<1>q. QED
  BY <1>1, <1>2, <1>3 DEF Enter

LEMMA StepEffect ==
    ASSUME TypeOK, Step, pc' = "exit"
    PROVE  \/ UNCHANGED iter
           \/ /\ iter'.skipped = iter.skipped
              /\ iter'.excs = TRUE
              /\ iter'.raised = "step"
              /\ iter'.wdError = iter.wdError
              /\ iter'.beaten = iter.beaten
              /\ iter'.culprits = iter.culprits \cup {"step"}
           \/ /\ iter'.skipped = iter.skipped
              /\ iter'.excs = iter.excs
              /\ iter'.raised = "exit"
              /\ iter'.wdError = iter.wdError
              /\ iter'.beaten = iter.beaten
              /\ iter'.culprits = iter.culprits
<1>1. CASE iter' = [iter EXCEPT !.raised = "step", !.excs = TRUE,
                                !.culprits = @ \cup {"step"}]
  BY <1>1 DEF TypeOK, Iteration
<1>2. CASE iter' = [iter EXCEPT !.raised = "exit"]
  BY <1>2 DEF TypeOK, Iteration
<1>q. QED
  BY <1>1, <1>2 DEF Step, Go

LEMMA ExceptEffect ==
    ASSUME TypeOK, Except
    PROVE  /\ pc = "except" /\ pc' = "events"
           /\ iter'.excs = iter.excs
           /\ iter'.culprits = iter.culprits
           /\ iter'.wdError = IF iter.skipped \/ ~iter.excs \/ iter.raised # "step"
                                THEN Severity ELSE "none"
           /\ Severity # "none"
           /\ \/ Heartbeat
              \/ missed' = (missed \/ ~iter.beaten) /\ UNCHANGED age
<1>1. /\ pc = "except" /\ pc' = "events"
      /\ iter' = [iter EXCEPT !.wdError = IF iter.skipped \/ ~iter.excs \/ iter.raised # "step"
                                           THEN Severity ELSE "none"]
      /\ \/ Heartbeat
         \/ missed' = (missed \/ ~iter.beaten) /\ UNCHANGED age
  BY DEF Except, Go
<1>2. /\ iter'.excs = iter.excs
      /\ iter'.culprits = iter.culprits
      /\ iter'.wdError = IF iter.skipped \/ ~iter.excs \/ iter.raised # "step"
                           THEN Severity ELSE "none"
  BY <1>1 DEF TypeOK, Iteration
<1>3. Severity # "none"
  BY DEF Severity
<1>q. QED
  BY <1>1, <1>2, <1>3

LEMMA EventsEffect ==
    ASSUME TypeOK, Events, pc' = "rest"
    PROVE  /\ pc = "events"
           /\ iter'.culprits = iter.culprits
           /\ "step" \in iter'.sent
           /\ "error" \in iter'.sent <=> iter.excs
           /\ "watchdog" \in iter'.sent <=> iter.wdError # "none"
<1>1. /\ pc = "events"
      /\ iter' = [iter EXCEPT !.sent = StepEvent \cup ErrorEvent \cup WatchdogEvent]
  BY DEF Events, Go
<1>2. /\ iter'.culprits = iter.culprits
      /\ iter'.sent = StepEvent \cup ErrorEvent \cup WatchdogEvent
  BY <1>1 DEF TypeOK, Iteration
<1>q. QED
  BY <1>1, <1>2, Zenon DEF StepEvent, ErrorEvent, WatchdogEvent

-----------------------------------------------------------------------------
(* The inductive steps.                                                    *)

LEMMA DueStep ==
    ASSUME TypeOK, DueInv, ReportInv, [Next]_vars
    PROVE  DueInv'
<1> USE LoopAssumption, WaitBounds DEF TypeOK, Go, clockVars, DueInv, Before, After, Waiting, NewIteration, ReportInv, Quiet, Iteration, Raised
<1>1. CASE Signum
  BY <1>1 DEF Signum, Raise
<1>2. CASE Enter
  <2>1. UNCHANGED due /\ Before /\ due <= StepPeriod + back
    BY <1>2, EnterEffect DEF Enter
  <2>2. CASE pc' = "except" /\ UNCHANGED back /\ ~iter'.beaten
    BY <2>1, <2>2
  <2>3. CASE pc' \in {"except", "step"} /\ back' = 0 /\ iter'.beaten
    BY <2>1, <2>3
  <2>q. QED
    BY <1>2, <2>1, <2>2, <2>3, EnterEffect, RaiseEffect
<1>3. CASE Step
  BY <1>3 DEF Step
<1>4. CASE Exit
  BY <1>4 DEF Exit, Raise, Heartbeat, NoHeartbeat
<1>5. CASE Except
  BY <1>5 DEF Except, Heartbeat
<1>6. CASE Events
  BY <1>6 DEF Events
<1>7. CASE BeginIteration
  BY <1>7 DEF BeginIteration
<1>8. CASE NotDue
  BY <1>8 DEF NotDue, Nap
<1>9. CASE Rest
  BY <1>9 DEF Rest, Nap
<1>10. CASE Wake
  BY <1>10 DEF Wake
<1>11. CASE LeaveLoop
  BY <1>11 DEF LeaveLoop
<1>12. CASE Stop
  BY <1>12 DEF Stop
<1>13. CASE Tick
  BY <1>13 DEF Tick, Busy
<1>14. ASSUME NEW d \in 1 .. MaxForward, SetForward(d)
      PROVE  DueInv'
  BY <1>14 DEF SetForward
<1>15. ASSUME NEW d \in 1 .. MaxBack, SetBack(d)
      PROVE  DueInv'
  BY <1>15 DEF SetBack
<1>16. CASE Killed
  BY <1>16 DEF Killed
<1>17. CASE UNCHANGED vars
  BY <1>17 DEF vars
<1>q. QED
  BY <1>1, <1>2, <1>3, <1>4, <1>5, <1>6, <1>7, <1>8, <1>9, <1>10, <1>11, <1>12, <1>13, <1>14, <1>15, <1>16, <1>17
     DEF Next, LoopStep, Serve, Finished

LEMMA SpentStep ==
    ASSUME TypeOK, SpentInv, ReportInv, [Next]_vars
    PROVE  SpentInv'
<1> USE LoopAssumption DEF TypeOK, Go, clockVars, SpentInv, Before, NewIteration, ReportInv, Quiet, Iteration, Raised
<1>1. CASE Signum
  BY <1>1 DEF Signum, Raise
<1>2. CASE Enter
  BY <1>2 DEF Enter, Raise, Heartbeat, NoHeartbeat
<1>3. CASE Step
  BY <1>3 DEF Step
<1>4. CASE Exit
  BY <1>4 DEF Exit, Raise, Heartbeat, NoHeartbeat
<1>5. CASE Except
  BY <1>5 DEF Except, Heartbeat
<1>6. CASE Events
  BY <1>6 DEF Events
<1>7. CASE BeginIteration
  BY <1>7 DEF BeginIteration
<1>8. CASE NotDue
  BY <1>8 DEF NotDue, Nap
<1>9. CASE Rest
  BY <1>9 DEF Rest, Nap
<1>10. CASE Wake
  BY <1>10 DEF Wake
<1>11. CASE LeaveLoop
  BY <1>11 DEF LeaveLoop
<1>12. CASE Stop
  BY <1>12 DEF Stop
<1>13. CASE Tick
  BY <1>13 DEF Tick, Busy
<1>14. ASSUME NEW d \in 1 .. MaxForward, SetForward(d)
      PROVE  SpentInv'
  BY <1>14 DEF SetForward
<1>15. ASSUME NEW d \in 1 .. MaxBack, SetBack(d)
      PROVE  SpentInv'
  BY <1>15 DEF SetBack
<1>16. CASE Killed
  BY <1>16 DEF Killed
<1>17. CASE UNCHANGED vars
  BY <1>17 DEF vars
<1>q. QED
  BY <1>1, <1>2, <1>3, <1>4, <1>5, <1>6, <1>7, <1>8, <1>9, <1>10, <1>11, <1>12, <1>13, <1>14, <1>15, <1>16, <1>17
     DEF Next, LoopStep, Serve, Finished

LEMMA HealthStep ==
    ASSUME TypeOK, DueInv, SpentInv, HealthInv, StopInv, ReportInv, [Next]_vars
    PROVE  HealthInv'
<1>a. loopPeriod \in Nat
  BY LoopAssumption DEF TypeOK
<1> USE <1>a, LoopAssumption, BetweenBounds DEF TypeOK, Go, clockVars, DueInv, SpentInv, HealthInv, Before, After, Waiting, Fraction, NewIteration, ReportInv, Quiet, Iteration, Raised
<1>1. CASE Signum
  BY <1>1 DEF Signum, Raise
<1>2. CASE Enter
  <2>1. UNCHANGED <<due, spent, loopPeriod>>
    BY <1>2 DEF Enter
  <2>2. Before /\ pc = "enter" /\ ~iter.beaten
    BY EnterEffect, <1>2
  <2>3. CASE pc' = "except" /\ UNCHANGED <<age, missed, fwd, back>> /\ ~iter'.beaten
    BY <2>1, <2>2, <2>3
  <2>4. CASE pc' \in {"except", "step"} /\ Heartbeat /\ fwd' = 0 /\ back' = 0 /\ iter'.beaten
    <3>1. After' /\ ~Before' /\ ~Waiting' /\ pc' \notin {"sleep", "top"}
      BY <2>4
    <3>2. age' \in 0 .. Fraction /\ due <= StepPeriod + MaxBack + back
      <4>1. due <= StepPeriod + back
        BY <2>2
      <4>q. QED
        BY ONLY TypeOK, LoopAssumption, <4>1, <2>4 DEF TypeOK, Heartbeat, Fraction
    <3>3. /\ age' <= Fraction + fwd' + spent'
          /\ age' + due' <= Fraction + StepPeriod + 2 * MaxBack
      <4>1. Fraction + 0 + spent = Fraction + spent
        BY ONLY TypeOK, LoopAssumption DEF TypeOK, Fraction
      <4>q. QED
        BY ONLY TypeOK, <2>1, <2>4, <3>2, <4>1, HeartbeatBounds
    <3>q. QED
      BY <3>1, <3>3
  <2>q. QED
    BY <1>2, <2>2, <2>3, <2>4, EnterEffect, RaiseEffect
<1>3. CASE Step
  BY <1>3 DEF Step
<1>4. CASE Exit
  BY <1>4 DEF Exit, Raise, Heartbeat, NoHeartbeat
<1>5. CASE Except
  <2>1. UNCHANGED <<due, spent, loopPeriod, fwd, back>> /\ pc = "except" /\ pc' = "events"
    BY <1>5 DEF Except
  <2>2. CASE Heartbeat
    <3>1. After' /\ ~Before' /\ ~Waiting' /\ pc' \notin {"sleep", "top"}
      BY <2>1
    <3>2. age' \in 0 .. Fraction /\ due <= StepPeriod + MaxBack + back
      BY <2>1, <2>2 DEF Heartbeat
    <3>3. /\ age' <= Fraction + fwd' + spent'
          /\ age' + due' <= Fraction + StepPeriod + 2 * MaxBack
      BY ONLY TypeOK, <2>1, <3>2, HeartbeatBounds
    <3>q. QED
      BY <3>1, <3>3
  <2>3. CASE missed' = (missed \/ ~iter.beaten) /\ UNCHANGED age
    BY <2>1, <2>3
  <2>q. QED
    BY <1>5, <2>2, <2>3, ExceptEffect
<1>6. CASE Events
  BY <1>6 DEF Events
<1>7. CASE BeginIteration
  BY <1>7 DEF BeginIteration
<1>8. CASE NotDue
  BY <1>8 DEF NotDue, Nap
<1>9. CASE Rest
  <2> SUFFICES ASSUME ~missed
               PROVE  HealthInv'
    BY <1>9 DEF Rest
  <2>1. /\ age <= Fraction + fwd + spent
        /\ age + due <= Fraction + StepPeriod + 2 * MaxBack
        /\ age + due <= Fraction + Between + fwd
    BY <1>9 DEF Rest
  <2>2. due' \in Int /\ age + due' <= Fraction + Between + fwd
    <3>1. CASE due' = due
      BY <2>1, <3>1
    <3>2. CASE due' \in 0 .. DeltaMax
      <4>1. due' \in Int
        BY ONLY <3>2, LoopAssumption
      <4>2. age <= Fraction + fwd + spent
        BY ONLY <2>1
      <4>3. age + due' <= Fraction + Between + fwd
        BY ONLY TypeOK, <4>2, <3>2, DeltaBounds
      <4>q. QED
        BY ONLY <4>1, <4>3
    <3>q. QED
      BY <1>9, <3>1, <3>2 DEF Rest
  <2>3. /\ UNCHANGED <<age, fwd, loopPeriod>>
        /\ \/ pc' = "top"
           \/ pc' = "sleep" /\ left' = due'
           \/ pc' = "sleep" /\ left' = loopPeriod
    BY <1>9 DEF Rest, Nap
  <2>4. age <= Fraction + Between + fwd
    BY ONLY LoopAssumption, BetweenBounds, TypeOK, <2>1 DEF TypeOK, Fraction
  <2>5. /\ age + loopPeriod <= Fraction + Between + fwd + loopPeriod
        /\ Fraction + Between + fwd <= Fraction + Between + fwd + loopPeriod
        /\ age <= Fraction + Between + fwd + loopPeriod + Lag
    BY ONLY LoopAssumption, BetweenBounds, TypeOK, <1>a, <2>4 DEF TypeOK, Fraction
  <2>6. age + due' <= Fraction + Between + fwd + loopPeriod
    <3>1. PICK next \in Int : next = due'
      BY <2>2
    <3>2. age + next <= Fraction + Between + fwd
      BY <2>2, <3>1
    <3>3. age + next <= Fraction + Between + fwd + loopPeriod
      BY ONLY LoopAssumption, BetweenBounds, TypeOK, <1>a, <3>2 DEF TypeOK, Fraction
    <3>q. QED
      BY <3>1, <3>3
  <2>7. ~Before' /\ ~After'
    BY <2>3
  <2>q. QED
    BY ONLY <2>2, <2>3, <2>5, <2>6, <2>7 DEF HealthInv, Waiting
<1>10. CASE Wake
  BY <1>10 DEF Wake, StopInv
<1>11. CASE LeaveLoop
  BY <1>11 DEF LeaveLoop
<1>12. CASE Stop
  BY <1>12 DEF Stop
<1>13. CASE Tick
  BY <1>13 DEF Tick, Busy
<1>14. ASSUME NEW d \in 1 .. MaxForward, SetForward(d)
      PROVE  HealthInv'
  BY <1>14 DEF SetForward
<1>15. ASSUME NEW d \in 1 .. MaxBack, SetBack(d)
      PROVE  HealthInv'
  BY <1>15 DEF SetBack
<1>16. CASE Killed
  BY <1>16 DEF Killed
<1>17. CASE UNCHANGED vars
  BY <1>17 DEF vars
<1>q. QED
  BY <1>1, <1>2, <1>3, <1>4, <1>5, <1>6, <1>7, <1>8, <1>9, <1>10, <1>11, <1>12, <1>13, <1>14, <1>15, <1>16, <1>17
     DEF Next, LoopStep, Serve, Finished

LEMMA StopStep ==
    ASSUME TypeOK, DueInv, StopInv, [Next]_vars
    PROVE  StopInv'
<1>a. loopPeriod' = loopPeriod /\ LongestNap' = LongestNap
  BY DEF LongestNap, Next, vars, LoopStep, Serve, Finished, Signum, Enter, Step, Exit,
         Except, Events, BeginIteration, NotDue, Rest, Wake, LeaveLoop, Stop, Tick,
         SetForward, SetBack, Killed
<1>b. /\ LongestNap \in Nat
      /\ loopPeriod # 0 => LongestNap = loopPeriod
      /\ loopPeriod = 0 => Larger(StepPeriod + MaxBack, DeltaMax) + MaxBack <= LongestNap
  BY NapBounds
<1> USE LoopAssumption, WaitBounds, <1>a, <1>b
    DEF TypeOK, Go, Down, clockVars, DueInv, StopInv, Waiting, After
<1>1. CASE Signum
  BY <1>1 DEF Signum, Raise
<1>2. CASE Enter
  BY <1>2 DEF Enter, Raise, Heartbeat, NoHeartbeat
<1>3. CASE Step
  BY <1>3 DEF Step
<1>4. CASE Exit
  BY <1>4 DEF Exit, Raise, Heartbeat, NoHeartbeat
<1>5. CASE Except
  BY <1>5 DEF Except, Heartbeat
<1>6. CASE Events
  BY <1>6 DEF Events
<1>7. CASE BeginIteration
  BY <1>7 DEF BeginIteration
<1>8. CASE NotDue
  BY <1>8 DEF NotDue, Nap
<1>9. CASE Rest
  BY <1>9 DEF Rest, Nap
<1>10. CASE Wake
  BY <1>10 DEF Wake
<1>11. CASE LeaveLoop
  BY <1>11 DEF LeaveLoop
<1>12. CASE Stop
  BY <1>12 DEF Stop
<1>13. CASE Tick
  BY <1>13 DEF Tick, Busy
<1>14. ASSUME NEW d \in 1 .. MaxForward, SetForward(d)
      PROVE  StopInv'
  BY <1>14 DEF SetForward
<1>15. ASSUME NEW d \in 1 .. MaxBack, SetBack(d)
      PROVE  StopInv'
  BY <1>15 DEF SetBack
<1>16. CASE Killed
  BY <1>16 DEF Killed
<1>17. CASE UNCHANGED vars
  BY <1>17 DEF vars
<1>q. QED
  BY <1>1, <1>2, <1>3, <1>4, <1>5, <1>6, <1>7, <1>8, <1>9, <1>10, <1>11, <1>12, <1>13, <1>14, <1>15, <1>16, <1>17
     DEF Next, LoopStep, Serve, Finished

LEMMA ReportStep ==
    ASSUME TypeOK, ReportInv, [Next]_vars
    PROVE  ReportInv'
<1> USE LoopAssumption DEF TypeOK, Go, clockVars, ReportInv, NewIteration, EventsTellTruth, Iteration, Quiet, Raised
<1>1. CASE Signum
  BY <1>1, RaiseEffect DEF Signum
<1>2. CASE Enter
  <2>1. Quiet /\ iter.skipped /\ iter.wdError = "none"
    BY <1>2, EnterEffect
  <2>2. CASE pc' = "except" /\ \E kind \in {"minor", "critical"} : Raise("enter", kind)
    <3>1. PICK kind \in {"minor", "critical"} : Raise("enter", kind)
      BY <2>2
    <3>2. /\ ~iter'.excs
          /\ iter'.raised \notin {"none", "step", "exit"}
          /\ iter'.culprits = {"enter"}
      BY <2>1, <3>1, RaiseEffect
    <3>q. QED
      BY <2>2, <3>2
  <2>3. CASE /\ pc' = "except"
             /\ iter'.excs = iter.excs
             /\ iter'.raised = "critical"
             /\ iter'.culprits = {"enter"}
    BY <2>1, <2>3
  <2>4. CASE /\ pc' = "step"
             /\ iter'.skipped = FALSE
             /\ iter'.excs = iter.excs
             /\ iter'.raised = iter.raised
             /\ iter'.wdError = iter.wdError
             /\ iter'.beaten = TRUE
             /\ iter'.culprits = iter.culprits
    BY <2>1, <2>4
  <2>q. QED
    BY <1>2, <2>2, <2>3, <2>4, EnterEffect
<1>3. CASE Step
  BY <1>3, StepEffect DEF Step
<1>4. CASE Exit
  BY <1>4, RaiseEffect DEF Exit
<1>5. CASE Except
  BY <1>5, ExceptEffect
<1>6. CASE Events
  BY <1>6, EventsEffect DEF Events
<1>7. CASE BeginIteration
  BY <1>7 DEF BeginIteration
<1>8. CASE NotDue
  BY <1>8 DEF NotDue, Nap
<1>9. CASE Rest
  BY <1>9 DEF Rest, Nap
<1>10. CASE Wake
  BY <1>10 DEF Wake
<1>11. CASE LeaveLoop
  BY <1>11 DEF LeaveLoop
<1>12. CASE Stop
  BY <1>12 DEF Stop
<1>13. CASE Tick
  BY <1>13 DEF Tick, Busy
<1>14. ASSUME NEW d \in 1 .. MaxForward, SetForward(d)
      PROVE  ReportInv'
  BY <1>14 DEF SetForward
<1>15. ASSUME NEW d \in 1 .. MaxBack, SetBack(d)
      PROVE  ReportInv'
  BY <1>15 DEF SetBack
<1>16. CASE Killed
  BY <1>16 DEF Killed
<1>17. CASE UNCHANGED vars
  BY <1>17 DEF vars
<1>q. QED
  BY <1>1, <1>2, <1>3, <1>4, <1>5, <1>6, <1>7, <1>8, <1>9, <1>10, <1>11, <1>12, <1>13, <1>14, <1>15, <1>16, <1>17
     DEF Next, LoopStep, Serve, Finished

-----------------------------------------------------------------------------
(* The theorems.                                                           *)

\* Typing, for every timeout, period and bound: the state of _serve() and of
\* _loop_step() stays what TypeOK says.
THEOREM LoopTypeCorrect == Spec => []TypeOK
<1>1. Init => TypeOK
  BY InitTyped
<1>2. TypeOK /\ [Next]_vars => TypeOK'
  BY TypeStep
<1>q. QED
  BY <1>1, <1>2, PTL DEF Spec

\* The invariant the theorems below follow from.
LEMMA LoopInvHolds == Spec => []LoopInv
<1>1. ASSUME Init
      PROVE  LoopInv
  <2> USE <1>1, LoopAssumption DEF Init
  <2>1. DueInv
    BY WaitBounds DEF DueInv, Before, After, Waiting
  <2>2. SpentInv
    BY DEF SpentInv, Before
  <2>4. TypeOK
    BY InitTyped
  <2>3. HealthInv
    <3>0. ~missed => ~(age >= Second)
      BY Zenon
    <3>1. ~missed => age <= Fraction
      BY ONLY <2>4, <3>0, LoopAssumption DEF TypeOK, Fraction
    <3>2. loopPeriod \in Nat
      BY <2>4 DEF TypeOK
    <3>q. QED
      BY <2>4, <3>1, <3>2, BetweenBounds
         DEF HealthInv, Before, After, Waiting, Fraction, TypeOK
  <2>5. StopInv
    BY <2>4, NapBounds DEF StopInv, Waiting, Down
  <2>6. ReportInv
    BY DEF ReportInv, EventsTellTruth
  <2>q. QED
    BY <2>1, <2>2, <2>3, <2>5, <2>6 DEF LoopInv
<1>2. TypeOK /\ LoopInv /\ [Next]_vars => LoopInv'
  BY DueStep, SpentStep, HealthStep, StopStep, ReportStep DEF LoopInv
<1>q. QED
  BY <1>1, <1>2, LoopTypeCorrect, PTL DEF Spec

\* A service whose iterations heartbeat is not seen as NUMB, whatever its periods,
\* when its heartbeat timeout is longer than OldestHeartbeat.
THEOREM HealthyNotNumbCorrect == Spec => []HealthyNotNumb
<1>1. ASSUME TypeOK, LoopInv, Timeout > OldestHeartbeat, ~missed, pc \notin {"hung"} \cup Down
      PROVE  ~Stale
  <2> USE <1>1, LoopAssumption, BetweenBounds
  <2>a. loopPeriod \in Nat
    BY DEF TypeOK
  <2>1. HealthInv /\ SpentInv /\ StopInv
    BY DEF LoopInv
  <2>2. CASE Before
    <3>1. age <= Fraction + Between + loopPeriod + Lag + fwd + spent /\ spent <= SignumMax
      BY <2>1, <2>2 DEF HealthInv, SpentInv
    <3>q. QED
      BY <2>a, <3>1 DEF TypeOK, Stale, OldestHeartbeat, Fraction
  <2>3. CASE After
    <3>1. age <= Fraction + fwd + spent
      BY <2>1, <2>3 DEF HealthInv
    <3>q. QED
      BY <2>a, <3>1 DEF TypeOK, Stale, OldestHeartbeat, Fraction
  <2>4. CASE pc = "sleep"
    <3>1. age + left <= Fraction + Between + fwd + loopPeriod /\ left >= -Lag
      BY <2>1, <2>4 DEF HealthInv, StopInv
    <3>q. QED
      BY <2>a, <3>1 DEF TypeOK, Stale, OldestHeartbeat, Fraction
  <2>5. CASE pc = "top"
    <3>1. age <= Fraction + Between + fwd + loopPeriod + Lag
      BY <2>1, <2>5 DEF HealthInv
    <3>q. QED
      BY <2>a, <3>1 DEF TypeOK, Stale, OldestHeartbeat, Fraction
  <2>q. QED
    BY <2>2, <2>3, <2>4, <2>5 DEF TypeOK, PC, Down, Before, After
<1>2. TypeOK /\ LoopInv => HealthyNotNumb
  BY <1>1 DEF HealthyNotNumb
<1>q. QED
  BY <1>2, LoopTypeCorrect, LoopInvHolds, PTL

\* After stop() the loop of _serve() ends within one iteration and one sleep.
THEOREM StopsInTimeCorrect == Spec => []StopsInTime
<1>1. ASSUME TypeOK, LoopInv
      PROVE  StopsInTime
  <2> USE <1>1, LoopAssumption
  <2>1. LongestNap \in Nat
    BY NapBounds
  <2>2. StopInv
    BY DEF LoopInv
  <2>3. CASE ~Waiting /\ pc \notin Down
    BY <2>1, <2>2, <2>3 DEF StopInv, StopsInTime, TypeOK
  <2>4. CASE pc = "sleep"
    BY <2>1, <2>2, <2>4 DEF StopInv, StopsInTime, TypeOK
  <2>5. CASE pc \in {"top"} \cup Down
    BY <2>2, <2>5 DEF StopInv, StopsInTime
  <2>q. QED
    BY <2>3, <2>4, <2>5 DEF Waiting
<1>q. QED
  BY <1>1, LoopTypeCorrect, LoopInvHolds, PTL

\* The events of _loop_step() say who has raised in the iteration.
THEOREM EventsTellTruthCorrect == Spec => []EventsTellTruth
<1>1. LoopInv => EventsTellTruth
  BY DEF LoopInv, ReportInv
<1>q. QED
  BY <1>1, LoopInvHolds, PTL
-----------------------------------------------------------------------------
(* The loop is a process as Hub takes it to be.                            *)

LEMMA OneEffect ==
    /\ 1 \in Process!Unit
    /\ \A x : One(x)[1] = x
    /\ \A x, y : [One(x) EXCEPT ![1] = y] = One(y)
<1>1. 1 \in Process!Unit
  BY DEF Process!Unit
<1>2. \A x : One(x)[1] = x
  BY DEF One
<1>3. ASSUME NEW x, NEW y
      PROVE  [One(x) EXCEPT ![1] = y] = One(y)
  <2>1. \A u \in 1 .. 1 : u = 1
    OBVIOUS
  <2>q. QED
    BY <2>1 DEF One
<1>q. QED
  BY <1>1, <1>2, <1>3

ProcessUnchanged ==
    ProcessStage' = ProcessStage /\ hasRunning' = hasRunning /\ Stale' = Stale

\* A step of the process that is not a stutter.
Steps == \E u \in Process!Unit : Process!Regular(u) \/ Process!Mishap(u)

LEMMA Stutters ==
    ASSUME ProcessUnchanged
    PROVE  UNCHANGED Process!servingVars
BY DEF ProcessUnchanged, Process!servingVars, One

\* A heartbeat gets too old without one.
LEMMA Ages ==
    ASSUME ProcessStage' = ProcessStage, hasRunning' = hasRunning, ~Stale, Stale',
           pc \in PC \ Down
    PROVE  Steps
<1>1. ProcessStage \in {"idle", "entry", "step", "events", "hung", "closing"}
  BY DEF ProcessStage, PC
<1>2. Process!GoStale(1)
  <2>1. ~One(Stale)[1] /\ One(Stale)' = [One(Stale) EXCEPT ![1] = TRUE]
    <3>1. Stale' = TRUE
      BY DEF Stale
    <3>2. [One(Stale) EXCEPT ![1] = TRUE] = One(TRUE) /\ One(Stale)[1] = Stale
      BY OneEffect
    <3>3. One(Stale)' = One(TRUE)
      BY <3>1 DEF One
    <3>q. QED
      BY <3>2, <3>3
  <2>2. One(ProcessStage)[1] \in Process!LiveStage
    BY <1>1, OneEffect DEF Process!LiveStage
  <2>q. QED
    BY <2>1, <2>2 DEF Process!GoStale, One
<1>q. QED
  BY <1>2, OneEffect DEF Steps, Process!Regular, Process!Mishap

\* How the variables of ServiceProcess change with those of the loop.
LEMMA MoveEffect ==
    ASSUME NEW from, NEW to, ProcessStage = from, ProcessStage' = to
    PROVE  Process!Move(1, from, to)
<1>1. One(ProcessStage)' = One(to) /\ One(ProcessStage)[1] = from
  BY OneEffect DEF One
<1>q. QED
  BY <1>1, OneEffect DEF Process!Move

LEMMA FlagEffect ==
    ASSUME hasRunning' = hasRunning
    PROVE  One(hasRunning)' = One(hasRunning) /\ One(FALSE)' = One(FALSE)
BY DEF One

LEMMA StaleEffect ==
    /\ Stale' = Stale => One(Stale)' = One(Stale)
    /\ ~Stale' => One(Stale)' = [One(Stale) EXCEPT ![1] = FALSE]
<1>1. ASSUME Stale' = Stale
      PROVE  One(Stale)' = One(Stale)
  BY <1>1 DEF One
<1>2. ASSUME ~Stale'
      PROVE  One(Stale)' = [One(Stale) EXCEPT ![1] = FALSE]
  <2>1. Stale' = FALSE
    BY <1>2 DEF Stale
  <2>2. One(Stale)' = One(FALSE)
    BY <2>1 DEF One
  <2>q. QED
    BY <2>2, OneEffect
<1>q. QED
  BY <1>1, <1>2

\* A stage is left for another, without a heartbeat.
LEMMA PlainMoves ==
    ASSUME hasRunning' = hasRunning, Stale' = Stale,
           \/ ProcessStage = "idle" /\ ProcessStage' = "entry" /\ hasRunning
           \/ ProcessStage = "idle" /\ ProcessStage' = "closing" /\ ~hasRunning
           \/ ProcessStage = "step" /\ ProcessStage' \in {"closing", "hung"}
           \/ ProcessStage = "events" /\ ProcessStage' \in {"idle", "unwinding"}
           \/ ProcessStage = "closing" /\ ProcessStage' = "unwinding"
    PROVE  Steps
<1> USE MoveEffect, FlagEffect, StaleEffect, OneEffect
<1>1. CASE ProcessStage = "idle" /\ ProcessStage' = "entry" /\ hasRunning
  <2>1. Process!BeginIteration(1)
    BY <1>1 DEF Process!BeginIteration
  <2>q. QED
    BY <2>1 DEF Steps, Process!Regular, Process!Progress
<1>2. CASE ProcessStage = "idle" /\ ProcessStage' = "closing" /\ ~hasRunning
  <2>1. Process!LeaveLoop(1)
    BY <1>2 DEF Process!LeaveLoop
  <2>q. QED
    BY <2>1 DEF Steps, Process!Regular, Process!Progress
<1>3. CASE ProcessStage = "step" /\ ProcessStage' = "closing"
  <2>1. Process!ExitStep(1)
    BY <1>3 DEF Process!ExitStep
  <2>q. QED
    BY <2>1 DEF Steps, Process!Regular, Process!Progress
<1>4. CASE ProcessStage = "step" /\ ProcessStage' = "hung"
  <2>1. Process!Hang(1)
    BY <1>4 DEF Process!Hang
  <2>q. QED
    BY <2>1 DEF Steps, Process!Mishap
<1>5. CASE ProcessStage = "events" /\ ProcessStage' = "idle"
  <2>1. Process!EndIteration(1)
    BY <1>5 DEF Process!EndIteration
  <2>q. QED
    BY <2>1 DEF Steps, Process!Regular, Process!Progress
<1>6. CASE ProcessStage \in {"events", "closing"} /\ ProcessStage' = "unwinding"
  <2>1. Process!Escape(1)
    BY <1>6 DEF Process!Escape
  <2>q. QED
    BY <2>1 DEF Steps, Process!Mishap
<1>q. QED
  BY <1>1, <1>2, <1>3, <1>4, <1>5, <1>6

\* A stage is left for another, perhaps with a heartbeat.
LEMMA HeartbeatMoves ==
    ASSUME hasRunning' = hasRunning,
           \/ ProcessStage = "entry" /\ ProcessStage' = "step" /\ ~Stale'
           \/ /\ ProcessStage \in {"entry", "step"} /\ ProcessStage' = "events"
              /\ Stale' = Stale \/ ~Stale'
    PROVE  Steps
<1> USE MoveEffect, FlagEffect, StaleEffect, OneEffect
<1>1. CASE ProcessStage = "entry" /\ ProcessStage' = "step" /\ ~Stale'
  <2>1. Process!BeginStep(1)
    BY <1>1 DEF Process!BeginStep
  <2>q. QED
    BY <2>1 DEF Steps, Process!Regular, Process!Progress
<1>2. CASE ProcessStage = "entry" /\ ProcessStage' = "events" /\ (Stale' = Stale \/ ~Stale')
  <2>1. Process!SkipStep(1)
    BY <1>2 DEF Process!SkipStep
  <2>q. QED
    BY <2>1 DEF Steps, Process!Regular, Process!Progress
<1>3. CASE ProcessStage = "step" /\ ProcessStage' = "events" /\ (Stale' = Stale \/ ~Stale')
  <2>1. Process!EndStep(1)
    BY <1>3 DEF Process!EndStep
  <2>q. QED
    BY <2>1 DEF Steps, Process!Regular, Process!Progress
<1>q. QED
  BY <1>1, <1>2, <1>3

\* With timeouts of a second or more a heartbeat is fresh.
LEMMA HeartbeatFresh ==
    ASSUME Second <= Timeout, Heartbeat
    PROVE  ~Stale'
BY LoopAssumption DEF Heartbeat, Stale

LEMMA ServingStep ==
    ASSUME Second <= Timeout, TypeOK, ReportInv, [Next]_vars
    PROVE  [Steps]_(Process!servingVars)
<1>a. ~Stale' /\ ~Stale => Stale' = Stale
  BY DEF Stale
<1>b. UNCHANGED age => Stale' = Stale
  BY DEF Stale
<1>c. pc \notin Down =>
        ProcessStage \in {"idle", "entry", "step", "events", "hung", "closing"}
  BY DEF TypeOK, PC, ProcessStage
<1> USE DEF Go, ProcessStage, clockVars
<1>1. CASE Signum
  <2>1. iter.skipped /\ iter'.skipped
    BY <1>1, RaiseEffect DEF Signum, ReportInv
  <2>2. ProcessUnchanged
    BY <1>1, <1>b, <2>1 DEF Signum, ProcessUnchanged
  <2>q. QED
    BY <2>2, Stutters
<1>2. CASE Enter
  <2>1. iter.skipped /\ hasRunning' = hasRunning /\ pc = "enter"
    BY <1>2 DEF Enter, ReportInv
  <2>2. CASE pc' = "step" /\ Heartbeat
    BY <2>1, <2>2, HeartbeatFresh, HeartbeatMoves
  <2>3. CASE pc' = "except" /\ Heartbeat /\ age' >= Timeout
    BY <2>3, HeartbeatFresh DEF Stale
  <2>4. CASE /\ pc' = "except"
             /\ \E kind \in {"minor", "critical"} : Raise("enter", kind)
             /\ UNCHANGED age
    <3>1. iter'.skipped
      BY <2>1, <2>4, RaiseEffect
    <3>2. ProcessUnchanged
      BY <1>b, <2>1, <2>4, <3>1 DEF ProcessUnchanged
    <3>q. QED
      BY <3>2, Stutters
  <2>q. QED
    BY <1>2, <2>2, <2>3, <2>4 DEF Enter, NoHeartbeat
<1>3. CASE Step
  <2>1. CASE pc' = "exit"
    <3>1. ProcessUnchanged
      BY <1>3, <1>b, <2>1 DEF Step, ProcessUnchanged
    <3>q. QED
      BY <3>1, Stutters
  <2>2. CASE pc' = "hung"
    BY <1>3, <1>b, <2>2, PlainMoves DEF Step
  <2>q. QED
    BY <1>3, <2>1, <2>2 DEF Step
<1>4. CASE Exit
  <2>1. CASE pc' = "except"
    <3>1. ~iter.skipped /\ ~iter'.skipped
      BY <1>4, <2>1, RaiseEffect DEF Exit, ReportInv
    <3>2. ProcessUnchanged
      BY <1>4, <1>b, <2>1, <3>1 DEF Exit, NoHeartbeat, ProcessUnchanged
    <3>q. QED
      BY <3>2, Stutters
  <2>2. CASE pc' = "events" /\ iter.raised # "exit"
    <3>1. ~Stale' /\ hasRunning' = hasRunning /\ iter' = iter /\ pc = "exit"
      BY <1>4, <2>2, HeartbeatFresh DEF Exit
    <3>2. ProcessStage = "step" /\ ProcessStage' = "events"
      BY <2>2, <3>1
    <3>q. QED
      BY <3>1, <3>2, HeartbeatMoves
  <2>3. CASE pc' = "events" /\ iter.raised = "exit"
    <3>1. Stale' = Stale /\ hasRunning' = hasRunning /\ iter' = iter /\ pc = "exit"
      BY <1>4, <1>b, <2>3 DEF Exit, NoHeartbeat
    <3>2. ProcessStage = "step" /\ ProcessStage' = "closing"
      BY <2>3, <3>1
    <3>q. QED
      BY <3>1, <3>2, PlainMoves
  <2>q. QED
    BY <1>4, <2>1, <2>2, <2>3 DEF Exit
<1>5. CASE Except
  <2>1. Stale' = Stale \/ ~Stale'
    BY <1>5, <1>b, ExceptEffect, HeartbeatFresh
  <2>2. pc = "except" /\ pc' = "events" /\ hasRunning' = hasRunning
    BY <1>5 DEF Except
  <2>3. iter'.raised # "exit"
    <3>1. iter.raised # "exit" /\ \E error : iter' = [iter EXCEPT !.wdError = error]
      BY <1>5 DEF Except, ReportInv
    <3>q. QED
      BY <3>1 DEF TypeOK, Iteration
  <2>4. ProcessStage \in {"entry", "step"} /\ ProcessStage' = "events"
    BY <2>2, <2>3
  <2>q. QED
    BY <2>1, <2>2, <2>4, HeartbeatMoves
<1>6. CASE Events
  <2>1. /\ pc = "events" /\ hasRunning' = hasRunning /\ Stale' = Stale
        /\ pc' \in {"unwinding", IF iter.raised = "exit" THEN "closing" ELSE "rest"}
    BY <1>6, <1>b DEF Events
  <2>2. CASE pc' = "closing" /\ iter.raised = "exit"
    <3>1. ProcessStage = "closing" /\ ProcessStage' = "closing"
      BY <2>1, <2>2
    <3>q. QED
      BY <2>1, <3>1, Stutters DEF ProcessUnchanged
  <2>3. CASE pc' = "rest" /\ iter.raised # "exit"
    <3>1. ProcessStage = "events" /\ ProcessStage' = "idle"
      BY <2>1, <2>3
    <3>q. QED
      BY <2>1, <3>1, PlainMoves
  <2>4. CASE pc' = "unwinding"
    <3>1. ProcessStage \in {"events", "closing"} /\ ProcessStage' = "unwinding"
      BY <2>1, <2>4
    <3>q. QED
      BY <2>1, <3>1, PlainMoves
  <2>q. QED
    BY <2>1, <2>2, <2>3, <2>4
<1>7. CASE BeginIteration
  BY <1>7, <1>b, PlainMoves DEF BeginIteration
<1>8. CASE NotDue \/ Rest \/ Wake
  <2>1. ProcessUnchanged
    BY <1>8, <1>b DEF NotDue, Rest, Wake, Nap, ProcessUnchanged
  <2>q. QED
    BY <2>1, Stutters
<1>9. CASE LeaveLoop
  BY <1>9, <1>b, PlainMoves DEF LeaveLoop
<1>10. CASE Stop
  <2>1. Process!HandleTerm(1)
    <3>1. One(hasRunning)[1] /\ One(hasRunning)' = [One(hasRunning) EXCEPT ![1] = FALSE]
      <4>1. hasRunning /\ hasRunning' = FALSE
        BY <1>10 DEF Stop
      <4>2. One(hasRunning)' = One(FALSE)
        BY <4>1 DEF One
      <4>q. QED
        BY <4>1, <4>2, OneEffect
    <3>2. One(ProcessStage)[1] \in Process!LiveStage /\ One(ProcessStage)[1] # "boot"
      BY <1>10, <1>c, OneEffect DEF Stop, Process!LiveStage
    <3>3. /\ One(ProcessStage)' = One(ProcessStage) /\ One(FALSE)' = One(FALSE)
          /\ One(Stale)' = One(Stale)
      BY <1>10 DEF Stop, One, Stale
    <3>q. QED
      BY <3>1, <3>2, <3>3 DEF Process!HandleTerm, Process!Live
  <2>q. QED
    BY <2>1, OneEffect DEF Steps, Process!Regular
<1>11. CASE \/ Tick
            \/ \E d \in 1 .. MaxForward : SetForward(d)
            \/ \E d \in 1 .. MaxBack : SetBack(d)
  <2>1. pc \in PC \ Down /\ pc' = pc /\ iter' = iter /\ hasRunning' = hasRunning
    BY <1>11 DEF Tick, SetForward, SetBack, TypeOK, Busy, Down
  <2>2. CASE ~Stale /\ Stale'
    BY <2>1, <2>2, Ages
  <2>3. CASE ~Stale /\ ~Stale'
    BY <1>a, <2>1, <2>3, Stutters DEF ProcessUnchanged
  <2>4. CASE Stale
    <3>1. age' >= age
      BY <1>11, <2>4 DEF Tick, SetForward, SetBack, TypeOK
    <3>2. Stale'
      BY <1>11, <2>4, <3>1, LoopAssumption DEF Tick, SetForward, SetBack, Stale, TypeOK
    <3>3. Stale' = Stale
      BY <2>4, <3>2 DEF Stale
    <3>q. QED
      BY <2>1, <3>3, Stutters DEF ProcessUnchanged
  <2>q. QED
    BY <2>2, <2>3, <2>4
<1>12. CASE Killed
  <2>1. Process!Crash(1)
    <3>1. One(ProcessStage)[1] \in Process!LiveStage
      BY <1>12, <1>c, OneEffect DEF Killed, Process!LiveStage
    <3>2. One(ProcessStage)' = [One(ProcessStage) EXCEPT ![1] = "failed"]
      <4>1. ProcessStage' = "failed"
        BY <1>12 DEF Killed
      <4>2. One(ProcessStage)' = One("failed")
        BY <4>1 DEF One
      <4>q. QED
        BY <4>2, OneEffect
    <3>3. hasRunning' = hasRunning /\ Stale' = Stale
      BY <1>12, <1>b DEF Killed
    <3>q. QED
      BY <3>1, <3>2, <3>3, FlagEffect, StaleEffect DEF Process!Crash, Process!Live
  <2>q. QED
    BY <2>1, OneEffect DEF Steps, Process!Mishap
<1>13. CASE UNCHANGED vars
  BY <1>13, <1>b, Stutters DEF vars, ProcessUnchanged
<1>q. QED
  BY <1>1, <1>2, <1>3, <1>4, <1>5, <1>6, <1>7, <1>8, <1>9, <1>10, <1>11, <1>12, <1>13
     DEF Next, LoopStep, Serve, Finished

\* For heartbeat timeouts of a second or more, and all periods: what the loop does,
\* a process of ServiceProcess, and so of Hub, may do.
THEOREM ServesAsProcessCorrect ==
    ASSUME Second <= Timeout
    PROVE  Spec => ServesAsProcess
<1>1. Init => Process!ServingInit
  <2> SUFFICES ASSUME Init
               PROVE  Process!ServingInit
    OBVIOUS
  <2>1. ProcessStage = "idle" /\ hasRunning = TRUE /\ Stale \in BOOLEAN
    BY DEF Init, ProcessStage, Stale
  <2>q. QED
    BY <2>1 DEF Process!ServingInit, Process!Unit, One
<1>2. TypeOK /\ ReportInv /\ [Next]_vars => [Steps]_(Process!servingVars)
  BY ServingStep
<1>3. LoopInv => ReportInv
  BY DEF LoopInv
<1>q. QED
  BY <1>1, <1>2, <1>3, LoopTypeCorrect, LoopInvHolds, PTL
     DEF Spec, ServesAsProcess, Process!ServingSpec, Steps

=============================================================================
