---------------------------- MODULE SignumRelay ----------------------------
(***************************************************************************)
(* How a ProcessHub passes SIGHUP and SIGUSR1 on to its services: each has *)
(* an integer in shared memory, which the hub's signal handler sets and    *)
(* the service looks at before every step, handles and clears.             *)
(*                                                                         *)
(* A Python signal handler runs between any two steps of the main thread,  *)
(* also of another signal handler: handlers are kept on a stack.  A child  *)
(* has the handlers of the hub until it installs its own, and a signal to  *)
(* the process group finds them there.                                     *)
(*                                                                         *)
(* The signals that only the hub handles are numbered as they are sent.    *)
(* No process sees the numbers: they tell apart what happens to a signal   *)
(* and to the next one of the same name.                                   *)
(***************************************************************************)
EXTENDS Naturals, Sequences

CONSTANTS
    N,            \* services, numbered in the order of _signums
    RaiseOnHup,   \* services whose handler of SIGHUP raises
    RaiseOnUsr1,  \* services whose handler of SIGUSR1 raises
    MaxSignals,   \* bound on the signals sent
    MaxCrashes    \* bound on processes that die of something else than NUMB,
                  \* or whose kill hits them in an access to an integer

ASSUME RelayAssumption ==
    /\ N \in Nat \ {0}
    /\ RaiseOnHup \subseteq 1 .. N
    /\ RaiseOnUsr1 \subseteq 1 .. N
    /\ MaxSignals \in Nat
    /\ MaxCrashes \in Nat

Child == 1 .. N
Hub == 0
Process == Child \cup {Hub}

SIGHUP == 1
SIGUSR1 == 10
Sig == {SIGHUP, SIGUSR1}
NoSig == 0

\* Signals that booting children handle too have no number.
NoId == 0
Signal == [sig : Sig, id : 0 .. MaxSignals]
NoSignal == [sig |-> NoSig, id |-> NoId]

\* The handlers of a service: those of SoftIrqService do not raise, one that a
\* service defines or passes to _subscribe_signums() may.
Raises(c, s) ==
    \/ s = SIGHUP /\ c \in RaiseOnHup
    \/ s = SIGUSR1 /\ c \in RaiseOnUsr1

VARIABLES
    signums,    \* the shared integer of each service
    pending,    \* signals sent to a process, Python handlers not yet run
    frames,     \* handlers a process is in, the innermost first
    place,      \* where a child is, see Place
    got,        \* the value whose handler a child runs, or has run in vain
    stuck,      \* services whose integer is locked by a process that is gone
    owed,       \* what became of the last value written for a service, see Owed
    told,       \* the signal of the last value written for each service
    read,       \* the numbered signals whose value each service has read
    mixed,      \* handlers have overlapped, or one was cut short, since
    sent, crashes   \* at most MaxSignals, MaxCrashes

hubVars == <<pending, frames, told, sent>>
childVars == <<place, got, read, crashes>>
vars == <<signums, pending, frames, place, got, stuck, owed, told, read, mixed,
          sent, crashes>>

\* "down"     no process
\* "boot"     forked, with the signal handlers of the hub
\* "idle"     own handlers installed; before an iteration
\* "handler"  the handler of the signal runs
\* "clear"    it has returned, the value is to be set to zero
\* "step"     the step runs
Place == {"down", "boot", "idle", "handler", "clear", "step"}

\* "yes"   written, and not read by the child since
\* "risk"  written while the child was between reading and clearing
\* "lost"  and cleared by the child
\* "redo"  read by a child that did not come to clear it
\* "no"    read by the child, or nothing written
Owed == {"no", "yes", "risk", "lost", "redo"}

\* A handler that has still to set the integers from next on.
Frame == [signal : Signal, next : Child]

TypeOK ==
    /\ signums \in [Child -> Sig \cup {NoSig}]
    /\ pending \in [Process -> SUBSET Signal]
    /\ frames \in [Process -> Seq(Frame)]
    /\ place \in [Child -> Place]
    /\ got \in [Child -> Sig \cup {NoSig}]
    /\ stuck \subseteq Child
    /\ owed \in [Child -> Owed]
    /\ told \in [Child -> Signal \cup {NoSignal}]
    /\ read \in [Child -> SUBSET (1 .. MaxSignals)]
    /\ mixed \in BOOLEAN
    /\ sent \in 0 .. MaxSignals
    /\ crashes \in 0 .. MaxCrashes

Init ==
    /\ signums = [c \in Child |-> NoSig]
    /\ pending = [p \in Process |-> {}]
    /\ frames = [p \in Process |-> <<>>]
    /\ place = [c \in Child |-> "down"]
    /\ got = [c \in Child |-> NoSig]
    /\ stuck = {}
    /\ owed = [c \in Child |-> "no"]
    /\ told = [c \in Child |-> NoSignal]
    /\ read = [c \in Child |-> {}]
    /\ mixed = FALSE
    /\ sent = 0
    /\ crashes = 0

\* Between the read of the value and the write of the zero.
InWindow(c) == place[c] \in {"handler", "clear"}

Go(c, from, to) ==
    /\ place[c] = from
    /\ place' = [place EXCEPT ![c] = to]

-----------------------------------------------------------------------------
(* The signals, and the handlers that ProcessHub installs.                 *)

\* The processes that a signal reaches: the hub, or its process group.  A child that
\* has its own handlers ignores both signals.
Reached(toGroup) ==
    {Hub} \cup {c \in Child : toGroup /\ place[c] = "boot"}

\* A process that has not handled a signal yet does not notice another of its name.
Send(s, toGroup) ==
    /\ sent < MaxSignals
    /\ sent' = sent + 1
    /\ LET reached == Reached(toGroup)
           signal == [sig |-> s, id |-> IF reached = {Hub} THEN sent + 1 ELSE NoId]
       IN  pending' = [p \in Process |->
                         IF p \in reached /\ \A x \in pending[p] : x.sig # s
                           THEN pending[p] \cup {signal} ELSE pending[p]]
    /\ UNCHANGED <<signums, frames, stuck, owed, told, mixed, childVars>>

\* The handler begins; on_sighup() or on_sigusr1() of the hub touch nothing here.
BeginHandler(p, x) ==
    /\ x \in pending[p]
    /\ pending' = [pending EXCEPT ![p] = @ \ {x}]
    /\ frames' = [frames EXCEPT ![p] = <<[signal |-> x, next |-> 1]>> \o @]
    /\ mixed' = \E q \in Process : frames[q] # <<>>
    /\ UNCHANGED <<signums, stuck, owed, told, sent, childVars>>

Written(c) == IF InWindow(c) THEN "risk" ELSE "yes"

\* Mutant: the end of the list is missed by one.
SetSignum_PastEnd(p) ==
    /\ frames[p] # <<>>
    /\ LET f == Head(frames[p])
       IN  /\ f.next \notin stuck
           /\ signums' = [signums EXCEPT ![f.next] = f.signal.sig]
           /\ told' = [told EXCEPT ![f.next] = f.signal]
           /\ owed' = [owed EXCEPT ![f.next] = Written(f.next)]
           /\ frames' = [frames EXCEPT ![p] =
                IF f.next > N THEN Tail(@)
                              ELSE <<[f EXCEPT !.next = f.next + 1]>> \o Tail(@)]
    /\ UNCHANGED <<pending, stuck, mixed, sent, childVars>>

\* Mutant: the loop ends at the first integer.
SetSignum_First(p) ==
    /\ frames[p] # <<>>
    /\ LET f == Head(frames[p])
       IN  /\ f.next \notin stuck
           /\ signums' = [signums EXCEPT ![f.next] = f.signal.sig]
           /\ told' = [told EXCEPT ![f.next] = f.signal]
           /\ owed' = [owed EXCEPT ![f.next] = Written(f.next)]
           /\ frames' = [frames EXCEPT ![p] = Tail(@)]
    /\ UNCHANGED <<pending, stuck, mixed, sent, childVars>>

\* The innermost handler sets the next integer, under the lock of the integer.
SetSignum(p) ==
    /\ frames[p] # <<>>
    /\ LET f == Head(frames[p])
       IN  /\ f.next \notin stuck
           /\ signums' = [signums EXCEPT ![f.next] = f.signal.sig]
           /\ told' = [told EXCEPT ![f.next] = f.signal]
           /\ owed' = [owed EXCEPT ![f.next] = Written(f.next)]
           /\ frames' = [frames EXCEPT ![p] =
                IF f.next = N THEN Tail(@)
                              ELSE <<[f EXCEPT !.next = f.next + 1]>> \o Tail(@)]
    /\ UNCHANGED <<pending, stuck, mixed, sent, childVars>>

-----------------------------------------------------------------------------
(* A service.  _on_signum() reads the integer twice and sets it to zero,    *)
(* each time under its lock.                                               *)

\* _subscribe_signals(): both signals are ignored from now on.
Subscribe(c) ==
    /\ frames[c] = <<>>
    /\ Go(c, "boot", "idle")
    /\ pending' = [pending EXCEPT ![c] = {}]
    /\ UNCHANGED <<signums, frames, got, stuck, owed, told, read, mixed, sent,
                   crashes>>

\* The value is compared with zero, then read again to find its handler.  Only
\* the child sets it to zero: the two reads are one step, the second one.
Look(c) ==
    /\ c \notin stuck
    /\ Go(c, "idle", IF signums[c] = NoSig THEN "step" ELSE "handler")
    /\ got' = [got EXCEPT ![c] = signums[c]]
    /\ IF signums[c] = NoSig
         THEN UNCHANGED <<owed, read>>
         ELSE /\ owed' = [owed EXCEPT ![c] = "no"]
              /\ read' = [read EXCEPT ![c] = @ \cup ({told[c].id} \ {NoId})]
    /\ UNCHANGED <<signums, hubVars, stuck, mixed, crashes>>

\* The window is left without the zero being written.
Kept(c) ==
    CASE InWindow(c) /\ owed[c] = "risk" -> "yes"
      [] InWindow(c) /\ owed[c] = "no"   -> "redo"
      [] OTHER -> owed[c]

\* The handler returns, or it raises: _loop_step() takes the exception for one
\* of the watchdog's, skips the step and generates no heartbeat.
Handle(c) ==
    /\ \/ /\ ~Raises(c, got[c])
          /\ Go(c, "handler", "clear")
          /\ UNCHANGED owed
       \/ /\ Raises(c, got[c])
          /\ Go(c, "handler", "idle")
          /\ owed' = [owed EXCEPT ![c] = Kept(c)]
    /\ UNCHANGED <<signums, hubVars, got, stuck, read, mixed, crashes>>

\* Mutant: the value is not cleared.
Clear_Not(c) ==
    /\ c \notin stuck
    /\ Go(c, "clear", "step")
    /\ got' = [got EXCEPT ![c] = NoSig]
    /\ UNCHANGED <<signums, hubVars, stuck, owed, read, mixed, crashes>>

\* The value is cleared, whatever it is now.
Clear(c) ==
    /\ c \notin stuck
    /\ Go(c, "clear", "step")
    /\ signums' = [signums EXCEPT ![c] = NoSig]
    /\ owed' = [owed EXCEPT ![c] = IF @ = "risk" THEN "lost" ELSE @]
    /\ got' = [got EXCEPT ![c] = NoSig]
    /\ UNCHANGED <<hubVars, stuck, read, mixed, crashes>>

EndStep(c) ==
    /\ Go(c, "step", "idle")
    /\ UNCHANGED <<signums, hubVars, got, stuck, owed, read, mixed, crashes>>

-----------------------------------------------------------------------------
(* Processes end and are started again.                                    *)

\* Integers whose lock the process may hold: of its own, or of the one that
\* its inherited handler is setting.
Accessing(c) ==
    (IF place[c] \in {"idle", "clear"} THEN {c} ELSE {})
        \cup (IF frames[c] # <<>> THEN {Head(frames[c]).next} ELSE {})

Dies(c) ==
    /\ place' = [place EXCEPT ![c] = "down"]
    /\ pending' = [pending EXCEPT ![c] = {}]
    /\ frames' = [frames EXCEPT ![c] = <<>>]
    /\ mixed' = (mixed \/ frames[c] # <<>>)
    /\ owed' = [owed EXCEPT ![c] = Kept(c)]
    /\ UNCHANGED <<signums, got, told, read, sent>>

\* Nobody releases a lock that the process held.
Crash(c) ==
    /\ place[c] # "down"
    /\ crashes < MaxCrashes
    /\ crashes' = crashes + 1
    /\ \/ UNCHANGED stuck
       \/ \E k \in Accessing(c) : stuck' = stuck \cup {k}
    /\ Dies(c)

\* No heartbeat comes from a service while its handler raises: the hub sees it
\* as NUMB and kills it.
KillNumb(c) ==
    /\ frames[Hub] = <<>>
    /\ place[c] \in {"idle", "handler"}
    /\ Raises(c, got[c])
    /\ UNCHANGED <<crashes, stuck>>
    /\ Dies(c)

\* Mutant: the new service gets an integer of its own.
Restart_NewSignum(c) ==
    /\ frames[Hub] = <<>>
    /\ Go(c, "down", "boot")
    /\ signums' = [signums EXCEPT ![c] = NoSig]
    /\ got' = [got EXCEPT ![c] = NoSig]
    /\ UNCHANGED <<hubVars, stuck, owed, read, mixed, crashes>>

\* Mutant: NUMB has the handler that only kills.
Restart_NotNumb(c) ==
    /\ frames[Hub] = <<>>
    /\ Go(c, "down", "boot")
    /\ got[c] = NoSig
    /\ UNCHANGED <<signums, hubVars, got, stuck, owed, read, mixed, crashes>>

\* The first start, or a restart: the new service is constructed from the same
\* keyword arguments, so it has the integer of the old one.
Restart(c) ==
    /\ frames[Hub] = <<>>
    /\ Go(c, "down", "boot")
    /\ got' = [got EXCEPT ![c] = NoSig]
    /\ UNCHANGED <<signums, hubVars, stuck, owed, read, mixed, crashes>>

-----------------------------------------------------------------------------

Serve(c) ==
    \/ SetSignum(c) \/ Subscribe(c) \/ Look(c) \/ Handle(c) \/ Clear(c)
    \/ EndStep(c)

Next ==
    \/ \E s \in Sig, toGroup \in BOOLEAN : Send(s, toGroup)
    \/ \E p \in Process, x \in Signal : BeginHandler(p, x)
    \/ SetSignum(Hub)
    \/ \E c \in Child : Serve(c) \/ Crash(c) \/ KillNumb(c) \/ Restart(c)

Spec == Init /\ [][Next]_vars

\* The hub and the children are scheduled, handlers run to their end, and a
\* child that is gone is started again.
Fairness ==
    /\ WF_vars(SetSignum(Hub))
    /\ \A c \in Child : WF_vars(Serve(c)) /\ WF_vars(Restart(c))

FairSpec == Spec /\ Fairness

-----------------------------------------------------------------------------

\* The last signal written while the child is not between reading and clearing its
\* integer stays there until the child reads it, also when the process dies, is killed
\* and started again.  One written before it that the child has not read is
\* overwritten.  (_on_signum(), _init_service())
LastSignalStays ==
    \A c \in Child : owed[c] = "yes" =>
        signums[c] = told[c].sig /\ signums[c] # NoSig /\ ~InWindow(c)

\* The signal whose value a service will read next is one that it has not read,
\* so that no service handles a signal twice.  Three things are excepted: a handler
\* that raised, a process that died before it cleared the integer, and a signal to
\* the process group while a child boots, which that child may handle too, with the
\* handler inherited from the hub.  (_on_signum(), _set_signums())
HandledOnce ==
    \A c \in Child : signums[c] # NoSig /\ ~InWindow(c) =>
        owed[c] = "redo" \/ (owed[c] = "yes" /\ told[c].id \notin read[c])

\* Unless handlers overlapped, every service was given the same signal.  With an
\* overlap the earlier one may overwrite the later one in the rest of the list.
\* (_set_signums())
SameSignalForAll ==
    ~mixed /\ (\A p \in Process : frames[p] = <<>>) =>
        \A c, d \in Child : told[c] = told[d]

\* Signals keep no service from its step for good, except one whose handler
\* raises: its integer is never cleared, and a restart does not help.
\* (_loop_step() calls _on_signum() in its try block)
StepsGoOn ==
    \A c \in Child :
        []<>(place[c] = "step") \/ <>[](Raises(c, signums[c])) \/ <>(stuck # {})

\* "Send signum SIGHUP to subprocesses": no signal is cleared before the
\* service has read it.  (ProcessHub._sighup_handler())
NothingLost == \A c \in Child : owed[c] # "lost"
=============================================================================
