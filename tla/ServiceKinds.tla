---------------------------- MODULE ServiceKinds ----------------------------
(***************************************************************************)
(* One unit of a hub, whose service may be of any kind: a SoftIrqService,  *)
(* one nested in a MySQL wrapper, or a BjoernService, enabled or not.  The *)
(* kinds share serve() and differ in what guards their process: who reacts *)
(* on a signal, whether the process dies with the hub, and what the hub    *)
(* can see of it.                                                          *)
(*                                                                         *)
(* A step is kept as far as it may hang or end the process, a heartbeat as *)
(* far as it is too old; ServiceProcess and SoftIrqLoop have the details.  *)
(* The hub is a ProcessHub that keeps its unit running.                    *)
(***************************************************************************)
EXTENDS Naturals, Sequences, FiniteSets

CONSTANT MaxSignals     \* bound on the signals others than the hub send

ASSUME KindsAssumption == MaxSignals \in Nat

VARIABLES
    svc,          \* the unit's class and arguments, see Service
    hub,          \* "up", "stopping" (in _shutdown()) or "gone"
    at,           \* where the process of the unit is, see Place
    code,         \* how it has ended: "zero", "other" or "killed"; "none" before
    failing,      \* an exception is on its way out of serve()
    handlers,     \* whose Python signal handlers it has, see Handlers
    guarded,      \* the kernel kills it when its parent dies
    running,      \* _has_running
    configured,   \* storage engines it has configured
    pending,      \* signals sent to it, handlers not yet run
    stale,        \* the heartbeat of its service is too old
    asked,        \* it was sent SIGTERM or SIGINT, or its step has called sys.exit()
    orphanAt,     \* where it was when the hub was killed, or "no"
    sent          \* at most MaxSignals

procVars == <<code, failing, handlers, guarded, running, configured>>
histVars == <<asked, orphanAt, sent>>
vars == <<svc, hub, at, code, failing, handlers, guarded, running, configured,
          pending, stale, asked, orphanAt, sent>>

\* The engine units of a wrapper are their names: that of the default engine, or
\* another.
EngineUnits == {<<>>, <<"default">>, <<"other", "default">>, <<"default", "default">>}

\* operate   of the service; of a wrapper's nested service: inner
\* watched   a timed watchdog was given, to the nested service of a wrapper
Service == [class : {"softirq", "mysql", "multi", "bjoern"}, engines : EngineUnits,
            operate : BOOLEAN, inner : BOOLEAN, watched : BOOLEAN]

Wrapper == svc.class \in {"mysql", "multi"}
Bjoern == svc.class = "bjoern"

\* "new"       not constructed yet             "made"    constructed, not started
\* "boot"      forked, before _setup()
\* "nested"    in the wrapper's _serve(), before that of the nested service
\* "set"       after _setup()                  "ready"   after _subscribe_signals()
\* "idle", "step", "hung"  the loop of SoftIrqService
\* "run"       bjoern.run()
\* "fake"      in _serve_fake()                "waiting"  before pause()
\* "pause"     in it                           "woken"  interrupted by a signal
\* "closing"   _teardown()                     "outer"   the wrapper's _teardown()
\* "ended"     no process any more
LoopPlace == {"idle", "step", "hung"}
Place == {"new", "made", "boot", "nested", "set", "ready", "run", "fake", "waiting",
          "pause", "woken", "closing", "outer", "ended"} \cup LoopPlace

Alive == at \notin {"new", "made", "ended"}

\* "hub"     those inherited from the hub, which stop the child's copy of it
\* "stop"    SIGTERM, SIGINT: stop(); SIGHUP, SIGUSR1: ignored
\* "exit"    SIGTERM, SIGINT: sys.exit(); the others ignored
\* "bjoern"  SIGTERM: send SIGINT; the others inherited
\* "half"    SIGTERM, SIGINT: sys.exit(); the others inherited
Handlers == {"hub", "stop", "exit", "bjoern", "half"}

\* SIGHUP stands for SIGUSR1 as well.
Signals == {"SIGTERM", "SIGINT", "SIGHUP"}

TypeOK ==
    /\ svc \in Service
    /\ hub \in {"up", "stopping", "gone"}
    /\ at \in Place
    /\ code \in {"none", "zero", "other", "killed"}
    /\ failing \in BOOLEAN
    /\ handlers \in Handlers
    /\ guarded \in BOOLEAN
    /\ running \in BOOLEAN
    /\ configured \in 0 .. Len(svc.engines)
    /\ pending \subseteq Signals
    /\ stale \in BOOLEAN
    /\ asked \in BOOLEAN
    /\ orphanAt \in Place \cup {"no"}
    /\ sent \in 0 .. MaxSignals

Init ==
    /\ svc \in Service
    /\ svc.class = "mysql" => svc.engines = <<"default">>
    /\ svc.class \in {"softirq", "bjoern"} => svc.engines = <<>> /\ svc.inner
    /\ Bjoern => ~svc.watched
    /\ hub = "up"
    /\ at = "new"
    /\ code = "none"
    /\ failing = FALSE
    /\ handlers = "hub"
    /\ guarded = FALSE
    /\ running = FALSE
    /\ configured = 0
    /\ pending = {}
    /\ stale = FALSE
    /\ asked = FALSE
    /\ orphanAt = "no"
    /\ sent = 0

Go(from, to) == at = from /\ at' = to

\* _serve_fake() is what the process is for.
Fake == ~svc.operate \/ (Wrapper /\ ~svc.inner)

-----------------------------------------------------------------------------
(* The service object, which the hub constructs, and the process.          *)

Defaults == Cardinality({i \in DOMAIN svc.engines : svc.engines[i] = "default"})

\* Mutant: more than one default engine is let through.
Valid_AtLeastOne == svc.class = "multi" => Defaults >= 1

\* _validate() of MultiMySQLStorageWrapper; a driver that constructs the class
\* itself, with keyword arguments only, passes no engine units.
Valid == svc.class = "multi" => Defaults = 1

\* The watchdog is a new one, whose heartbeat is its construction.
Construct ==
    /\ Valid
    /\ stale' = FALSE

Fork ==
    /\ at' = "boot"
    /\ code' = "none"
    /\ failing' = FALSE
    /\ handlers' = "hub"
    /\ guarded' = FALSE
    /\ running' = FALSE
    /\ configured' = 0
    /\ pending' = {}
    /\ asked' = FALSE

AddService ==
    /\ hub = "up"
    /\ Go("new", "made")
    /\ Construct
    /\ UNCHANGED <<svc, hub, procVars, pending, histVars>>

Start ==
    /\ hub = "up"
    /\ at = "made"
    /\ Fork
    /\ UNCHANGED <<svc, hub, stale, orphanAt, sent>>

StartAgain ==
    /\ hub = "up"
    /\ at = "ended"
    /\ Construct
    /\ Fork
    /\ UNCHANGED <<svc, hub, orphanAt, sent>>

\* The hub asks the watchdog of the unit's service.  A wrapper's is a
\* WatchDogBase, as is the one of a BjoernService.
Seen == svc.watched /\ ~Wrapper

\* A signal reaches the process.  The C handler notes it for Python, or ends
\* pause(); while bjoern.run() runs, SIGINT is its own.
Deliver(s) ==
    /\ Alive
    /\ asked' = (asked \/ s # "SIGHUP")
    /\ \/ /\ s = "SIGHUP" /\ handlers \in {"stop", "exit"}
          /\ UNCHANGED <<at, pending>>
       \/ /\ s = "SIGINT" /\ Go("run", "closing")
          /\ UNCHANGED pending
       \/ /\ ~(s = "SIGHUP" /\ handlers \in {"stop", "exit"})
          /\ ~(s = "SIGINT" /\ at = "run")
          /\ pending' = pending \cup {s}
          /\ at' = IF at = "pause" THEN "woken" ELSE at

\* A service seen as NUMB.  StartAgain follows.
Kill ==
    /\ hub = "up"
    /\ Alive
    /\ stale /\ Seen
    /\ at' = "ended"
    /\ code' = "killed"
    /\ UNCHANGED <<svc, hub, failing, handlers, guarded, running, configured,
                   pending, stale, histVars>>

\* The hub shuts down: SIGTERM, and no end before that of the process.
Stop ==
    /\ hub = "up"
    /\ hub' = "stopping"
    /\ Deliver("SIGTERM")
    /\ UNCHANGED <<svc, procVars, stale, orphanAt, sent>>

Joined ==
    /\ hub = "stopping"
    /\ at = "ended"
    /\ hub' = "gone"
    /\ UNCHANGED <<svc, at, procVars, pending, stale, histVars>>

HubDies ==
    /\ hub # "gone"
    /\ hub' = "gone"
    /\ IF Alive /\ guarded
         THEN at' = "ended" /\ code' = "killed" /\ UNCHANGED orphanAt
         ELSE /\ orphanAt' = IF Alive THEN at ELSE "no"
              /\ UNCHANGED <<at, code>>
    /\ UNCHANGED <<svc, failing, handlers, guarded, running, configured, pending,
                   stale, asked, sent>>

-----------------------------------------------------------------------------
(* serve()                                                                 *)

\* Mutant: an engine that cannot be configured is passed over.
Configure_GoOn ==
    /\ at = "boot" /\ svc.operate /\ Wrapper
    /\ \/ configured < Len(svc.engines) /\ configured' = configured + 1 /\ UNCHANGED at
       \/ at' = "nested" /\ UNCHANGED configured
    /\ UNCHANGED <<svc, hub, code, failing, handlers, guarded, running, pending,
                   stale, histVars>>

\* Mutant: one engine too many.
Configure_OneMore ==
    /\ at = "boot" /\ svc.operate /\ Wrapper
    /\ \/ configured <= Len(svc.engines) /\ configured' = configured + 1 /\ UNCHANGED at
       \/ configured >= Len(svc.engines) /\ at' = "nested" /\ UNCHANGED configured
    /\ UNCHANGED <<svc, hub, code, failing, handlers, guarded, running, pending,
                   stale, histVars>>

\* _setup() of a wrapper, which may fail at every engine.
Configure ==
    /\ at = "boot" /\ svc.operate /\ Wrapper
    /\ \/ /\ configured < Len(svc.engines)
          /\ \/ configured' = configured + 1 /\ UNCHANGED <<at, failing>>
             \/ at' = "outer" /\ failing' = TRUE /\ UNCHANGED configured
       \/ /\ configured = Len(svc.engines)
          /\ at' = "nested"
          /\ UNCHANGED <<configured, failing>>
    /\ UNCHANGED <<svc, hub, code, handlers, guarded, running, pending, stale,
                   histVars>>

\* The service that serves steps or requests, or would do so.
AtServe == IF Wrapper /\ svc.operate THEN at = "nested" ELSE at = "boot"

\* Mutant: PR_SET_PDEATHSIG is 0.
Setup_NoDeathSignal ==
    /\ AtServe /\ ~Fake
    /\ at' = "set"
    /\ UNCHANGED <<svc, hub, procVars, pending, stale, histVars>>

\* _setup(): SoftIrqService has the kernel kill the process when its parent
\* dies, which has no effect when the parent has died.  prctl() may fail.
Setup ==
    /\ AtServe /\ ~Fake
    /\ \/ /\ at' = "set"
          /\ guarded' = (~Bjoern /\ hub # "gone")
          /\ UNCHANGED failing
       \/ /\ ~Bjoern
          /\ at' = "closing"
          /\ failing' = TRUE
          /\ UNCHANGED guarded
    /\ UNCHANGED <<svc, hub, code, handlers, running, configured, pending, stale,
                   histVars>>

Subscribe ==
    /\ Go("set", "ready")
    /\ handlers' = IF Bjoern THEN "bjoern" ELSE "stop"
    /\ UNCHANGED <<svc, hub, code, failing, guarded, running, configured, pending,
                   stale, histVars>>

BeginServe ==
    /\ Go("ready", IF Bjoern THEN "run" ELSE "idle")
    /\ running' = (running \/ ~Bjoern)
    /\ UNCHANGED <<svc, hub, code, failing, handlers, guarded, configured, pending,
                   stale, histVars>>

BeginStep ==
    /\ running
    /\ Go("idle", "step")
    /\ stale' = FALSE
    /\ UNCHANGED <<svc, hub, procVars, pending, histVars>>

\* The step returns, hangs or calls sys.exit().
EndStep ==
    /\ \/ Go("step", "idle") /\ UNCHANGED asked
       \/ Go("step", "hung") /\ UNCHANGED asked
       \/ Go("step", "closing") /\ asked' = TRUE
    /\ UNCHANGED <<svc, hub, procVars, pending, stale, orphanAt, sent>>

LeaveLoop ==
    /\ ~running
    /\ Go("idle", "closing")
    /\ UNCHANGED <<svc, hub, procVars, pending, stale, histVars>>

\* The timeout passes without a heartbeat: before the first one, in a step that
\* hangs or is slow, between two steps, or in _serve_fake(), which has none.
GoStale ==
    /\ svc.watched
    /\ at \notin {"new", "ended"}
    /\ ~stale
    /\ stale' = TRUE
    /\ UNCHANGED <<svc, hub, at, procVars, pending, histVars>>

End ==
    /\ at' = "ended"
    /\ code' = IF failing THEN "other" ELSE "zero"

\* _teardown() of the nested service comes before that of its wrapper.
Teardown ==
    /\ \/ at = "closing" /\ ~Wrapper /\ End
       \/ Go("closing", "outer") /\ Wrapper /\ UNCHANGED code
       \/ at = "outer" /\ End
    /\ UNCHANGED <<svc, hub, failing, handlers, guarded, running, configured,
                   pending, stale, histVars>>

-----------------------------------------------------------------------------
(* _serve_fake()                                                           *)

\* Mutant: the signals without a handler keep those of the hub.
FakeSubscribe_NothingIgnored ==
    /\ Go("fake", "waiting")
    /\ handlers' = IF Wrapper /\ ~svc.operate THEN "hub" ELSE "half"
    /\ UNCHANGED <<svc, hub, code, failing, guarded, running, configured, pending,
                   stale, histVars>>

BeginFake ==
    /\ AtServe /\ Fake
    /\ at' = "fake"
    /\ UNCHANGED <<svc, hub, procVars, pending, stale, histVars>>

\* A wrapper does not subscribe; BjoernService leaves the other signals alone.
FakeSubscribe ==
    /\ Go("fake", "waiting")
    /\ handlers' = IF Wrapper /\ ~svc.operate THEN "hub"
                   ELSE IF Bjoern THEN "half" ELSE "exit"
    /\ UNCHANGED <<svc, hub, code, failing, guarded, running, configured, pending,
                   stale, histVars>>

\* A signal noted between the last look and the system call does not end pause().
Pause ==
    /\ Go("waiting", "pause")
    /\ UNCHANGED <<svc, hub, procVars, pending, stale, histVars>>

\* Out of _serve_fake(), which nobody tears down but a wrapper around it.
LeaveFake ==
    IF Wrapper /\ svc.operate THEN at' = "outer" /\ UNCHANGED code ELSE End

Resume ==
    /\ at = "woken"
    /\ pending = {}
    /\ LeaveFake
    /\ UNCHANGED <<svc, hub, failing, handlers, guarded, running, configured,
                   pending, stale, histVars>>

-----------------------------------------------------------------------------
(* The Python handlers.                                                    *)

Asks(s) == s \in {"SIGTERM", "SIGINT"}

\* Mutant: BjoernService has the handlers of any service, and no stop().
Convert_NotSent(s) ==
    /\ UNCHANGED <<at, running, code>>
    /\ pending' = pending \ {s}

\* SIGTERM to SIGINT, which ends bjoern.run(); before that it is the hub's.
Convert(s) ==
    /\ UNCHANGED <<running, code>>
    /\ \/ s = "SIGTERM" /\ Go("run", "closing") /\ pending' = pending \ {s}
       \/ /\ s = "SIGTERM" /\ at # "run" /\ UNCHANGED at
          /\ pending' = (pending \ {s}) \cup {"SIGINT"}
       \/ s # "SIGTERM" /\ UNCHANGED at /\ pending' = pending \ {s}

Handle(s) ==
    /\ s \in pending
    /\ Alive
    /\ at # "pause"
    /\ IF handlers = "bjoern" THEN Convert(s)
       ELSE /\ pending' = pending \ {s}
            /\ running' = (running /\ ~(handlers = "stop" /\ Asks(s)))
            /\ IF handlers \in {"exit", "half"} /\ Asks(s) /\ at \in {"waiting", "woken"}
                 THEN LeaveFake
                 ELSE UNCHANGED <<at, code>>
    /\ UNCHANGED <<svc, hub, failing, handlers, guarded, configured, stale, histVars>>

\* A signal from elsewhere, as one of the terminal to the process group.
Send(s) ==
    /\ sent < MaxSignals
    /\ sent' = sent + 1
    /\ Deliver(s)
    /\ UNCHANGED <<svc, hub, procVars, stale, orphanAt>>

-----------------------------------------------------------------------------

Progress ==
    \/ Configure \/ Setup \/ Subscribe \/ BeginServe \/ BeginStep \/ EndStep
    \/ LeaveLoop \/ Teardown \/ BeginFake \/ FakeSubscribe \/ Pause \/ Resume

HubStep == AddService \/ Start \/ StartAgain \/ Kill \/ Stop \/ Joined \/ HubDies

Next ==
    \/ Progress
    \/ GoStale
    \/ HubStep
    \/ \E s \in Signals : Handle(s) \/ Send(s)

Spec == Init /\ [][Next]_vars

\* A process that is not blocked runs, its handlers too.
Fairness ==
    /\ WF_vars(Progress)
    /\ \A s \in Signals : WF_vars(Handle(s))

FairSpec == Spec /\ Fairness

-----------------------------------------------------------------------------

\* A process survives its hub only when that died before the process had come to
\* prctl(), or when it never gets there: BjoernService and _serve_fake() do
\* without, and an exception of _setup() ends the process.
OnlyEarlyOrphans ==
    hub = "gone" /\ Alive => Bjoern \/ Fake \/ failing \/ orphanAt \in {"boot", "nested"}

\* The nested service of a wrapper serves with every engine configured in its
\* own process, one of them the default.
ServesWithEngines ==
    Wrapper /\ at \in {"set", "ready"} \cup LoopPlace =>
        configured = Len(svc.engines) /\ Defaults = 1

\* A process ends with code 0, the one a hub takes for a stop, only if somebody
\* asked it to end or its own step has, except that any signal ends the pause() of
\* a service that is not operated and has kept the hub's handlers for SIGHUP and
\* SIGUSR1.
EndsWhenAsked ==
    code = "zero" => asked \/ (~svc.operate /\ (Wrapper \/ Bjoern))

Settled ==
    \/ handlers = "stop" /\ at \in {"idle", "step"}
    \/ at \in {"run", "woken"}

\* SIGTERM ends every process that serves, whatever its kind, unless its step
\* hangs.
TermEnds == ("SIGTERM" \in pending /\ Settled) ~> at \in {"ended", "hung"}
=============================================================================
