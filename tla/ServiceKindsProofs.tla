------------------------- MODULE ServiceKindsProofs -------------------------
(***************************************************************************)
(* Proofs about ServiceKinds, for every kind of service and any number of  *)
(* signals.                                                                *)
(***************************************************************************)
EXTENDS ServiceKinds, FiniteSetTheorems, TLAPS

USE KindsAssumption

-----------------------------------------------------------------------------
(* The invariant.                                                          *)

\* A process whose end nobody has to ask for: pause() is all it does.
Exempt == ~svc.operate /\ (Wrapper \/ Bjoern)

\* What was constructed is valid, and a wrapper that has come past _setup() has
\* configured its engines.
EngineInv ==
    /\ at # "new" => Valid
    /\ svc.class = "mysql" => svc.engines = <<"default">>
    /\ Wrapper /\ at \in {"nested", "set", "ready"} \cup LoopPlace =>
         svc.operate /\ configured = Len(svc.engines)

\* Who has reached _serve_fake(), and with which handlers.
FakeInv ==
    /\ at \in {"fake", "waiting", "pause", "woken"} => Fake
    /\ at \in {"waiting", "pause", "woken"} => handlers = "exit" \/ Exempt

\* Every way to the end of serve() without an exception was asked for.
AskInv ==
    /\ \A s \in pending : Asks(s) => asked
    /\ at \in LoopPlace => running \/ asked
    /\ at = "woken" => asked \/ Exempt
    /\ at \in {"closing", "outer"} => failing \/ asked \/ Exempt

\* Without a guard a process of a hub is at the start, or never gets one.
GuardInv ==
    hub # "gone" /\ Alive =>
        guarded \/ Bjoern \/ Fake \/ failing \/ at \in {"boot", "nested"}

KindsInv ==
    /\ TypeOK
    /\ EngineInv
    /\ FakeInv
    /\ AskInv
    /\ EndsWhenAsked
    /\ GuardInv
    /\ OnlyEarlyOrphans

\* TypeOK in four parts.
PlaceType == at \in Place /\ orphanAt \in Place \cup {"no"}

CountType ==
    /\ svc \in Service
    /\ configured \in 0 .. Len(svc.engines)
    /\ sent \in 0 .. MaxSignals

SignalType ==
    /\ hub \in {"up", "stopping", "gone"}
    /\ code \in {"none", "zero", "other", "killed"}
    /\ handlers \in Handlers
    /\ pending \subseteq Signals

FlagType ==
    /\ failing \in BOOLEAN
    /\ guarded \in BOOLEAN
    /\ running \in BOOLEAN
    /\ stale \in BOOLEAN
    /\ asked \in BOOLEAN

\* The engine units are few.
LEMMA EnginesLength == TypeOK => Len(svc.engines) \in Nat
<1>. SUFFICES ASSUME TypeOK
              PROVE  Len(svc.engines) \in Nat
  OBVIOUS
<1>1. svc.engines \in EngineUnits
  BY DEF TypeOK, Service
<1>. QED  BY <1>1 DEF EngineUnits

LEMMA KindsInit == Init => KindsInv
<1>. SUFFICES ASSUME Init
              PROVE  KindsInv
  OBVIOUS
<1>1. svc.engines \in EngineUnits
  BY DEF Init, Service
<1>2. Len(svc.engines) \in Nat
  BY <1>1 DEF EngineUnits
<1>3. TypeOK
  <2>1. PlaceType
    BY DEF Init, PlaceType, Place
  <2>2. CountType
    BY <1>2 DEF Init, CountType
  <2>3. SignalType /\ FlagType
    BY DEF Init, SignalType, FlagType, Handlers, Signals
  <2>. QED  BY <2>1, <2>2, <2>3 DEF TypeOK, PlaceType, CountType, SignalType,
                             FlagType
<1>4. EngineInv /\ FakeInv /\ AskInv
  BY DEF Init, EngineInv, FakeInv, AskInv, LoopPlace
<1>5. EndsWhenAsked /\ GuardInv /\ OnlyEarlyOrphans
  BY DEF Init, EndsWhenAsked, GuardInv, OnlyEarlyOrphans, Alive
<1>. QED  BY <1>3, <1>4, <1>5 DEF KindsInv

-----------------------------------------------------------------------------
(* Each conjunct is preserved.                                             *)

\* The types.
LEMMA TypeStep ==
  ASSUME TypeOK, Next
  PROVE  TypeOK'
<1>1. CASE Configure
  <2>1. PlaceType'
    BY <1>1 DEF Configure, Wrapper, histVars, TypeOK, Place,
                LoopPlace, PlaceType
  <2>2. CountType'
    BY <1>1, EnginesLength DEF Configure, Wrapper, histVars, TypeOK,
                               CountType
  <2>3. SignalType'
    BY <1>1 DEF Configure, Wrapper, histVars, TypeOK, SignalType
  <2>4. FlagType'
    BY <1>1 DEF Configure, Wrapper, histVars, TypeOK, FlagType
  <2>. QED  BY <2>1, <2>2, <2>3, <2>4 DEF TypeOK, PlaceType, CountType,
                                  SignalType, FlagType
<1>2. CASE Setup
  <2>1. PlaceType'
    BY <1>2 DEF Setup, AtServe, Bjoern, histVars, TypeOK, Place,
                LoopPlace, PlaceType
  <2>2. CountType'
    BY <1>2, EnginesLength DEF Setup, AtServe, Bjoern, histVars,
                               TypeOK, CountType
  <2>3. SignalType'
    BY <1>2 DEF Setup, AtServe, Bjoern, histVars, TypeOK, SignalType
  <2>4. FlagType'
    BY <1>2 DEF Setup, AtServe, Bjoern, histVars, TypeOK, FlagType
  <2>. QED  BY <2>1, <2>2, <2>3, <2>4 DEF TypeOK, PlaceType, CountType,
                                  SignalType, FlagType
<1>3. CASE Subscribe
  BY <1>3 DEF Subscribe, Handlers, histVars, Go, TypeOK, Place,
              LoopPlace
<1>4. CASE BeginServe
  BY <1>4 DEF BeginServe, histVars, Go, TypeOK, Place, LoopPlace
<1>5. CASE BeginStep
  BY <1>5 DEF BeginStep, procVars, histVars, Go, TypeOK, Place,
              LoopPlace
<1>6. CASE EndStep
  <2>1. at' \in Place /\ asked' \in BOOLEAN
    BY <1>6 DEF EndStep, Go, TypeOK, Place, LoopPlace
  <2>. QED  BY <1>6, <2>1 DEF EndStep, procVars, TypeOK
<1>7. CASE LeaveLoop
  BY <1>7 DEF LeaveLoop, procVars, histVars, Go, TypeOK, Place,
              LoopPlace
<1>8. CASE Teardown
  BY <1>8 DEF Teardown, End, histVars, Go, TypeOK, Place, LoopPlace
<1>9. CASE BeginFake
  BY <1>9 DEF BeginFake, AtServe, procVars, histVars, TypeOK, Place,
              LoopPlace
<1>10. CASE FakeSubscribe
  BY <1>10 DEF FakeSubscribe, Handlers, histVars, Go, TypeOK, Place,
               LoopPlace
<1>11. CASE Pause
  BY <1>11 DEF Pause, procVars, histVars, Go, TypeOK, Place,
               LoopPlace
<1>12. CASE Resume
  BY <1>12 DEF Resume, LeaveFake, End, histVars, TypeOK, Place,
               LoopPlace
<1>13. CASE GoStale
  BY <1>13 DEF GoStale, procVars, histVars, TypeOK, Place, LoopPlace
<1>14. CASE AddService
  BY <1>14 DEF AddService, Construct, procVars, histVars, Go, TypeOK, Place,
               LoopPlace
<1>15. CASE Start
  <2>1. PlaceType'
    BY <1>15 DEF Start, Fork, TypeOK, Place, LoopPlace, PlaceType
  <2>2. CountType'
    BY <1>15, EnginesLength DEF Start, Fork, TypeOK, CountType
  <2>3. SignalType'
    BY <1>15 DEF Start, Fork, Handlers, TypeOK, SignalType
  <2>4. FlagType'
    BY <1>15 DEF Start, Fork, TypeOK, FlagType
  <2>. QED  BY <2>1, <2>2, <2>3, <2>4 DEF TypeOK, PlaceType, CountType,
                                  SignalType, FlagType
<1>16. CASE StartAgain
  <2>1. PlaceType'
    BY <1>16 DEF StartAgain, Construct, Fork, TypeOK, Place, LoopPlace,
                 PlaceType
  <2>2. CountType'
    BY <1>16, EnginesLength DEF StartAgain, Construct, Fork, TypeOK,
                                CountType
  <2>3. SignalType'
    BY <1>16 DEF StartAgain, Construct, Fork, Handlers, TypeOK, SignalType
  <2>4. FlagType'
    BY <1>16 DEF StartAgain, Construct, Fork, TypeOK, FlagType
  <2>. QED  BY <2>1, <2>2, <2>3, <2>4 DEF TypeOK, PlaceType, CountType,
                                  SignalType, FlagType
<1>17. CASE Kill
  BY <1>17 DEF Kill, Alive, histVars, TypeOK, Place, LoopPlace
<1>18. CASE Stop
  <2>1. PlaceType'
    BY <1>18 DEF Stop, Deliver, Alive, procVars, Go, TypeOK, Place,
                 LoopPlace, PlaceType
  <2>2. CountType'
    BY <1>18, EnginesLength DEF Stop, Deliver, Alive, procVars, Go,
                                TypeOK, CountType
  <2>3. SignalType'
    BY <1>18 DEF Stop, Deliver, Alive, Signals, procVars, Go,
                 TypeOK, SignalType
  <2>4. FlagType'
    BY <1>18 DEF Stop, Deliver, Alive, procVars, Go, TypeOK,
                 FlagType
  <2>. QED  BY <2>1, <2>2, <2>3, <2>4 DEF TypeOK, PlaceType, CountType,
                                  SignalType, FlagType
<1>19. CASE Joined
  BY <1>19 DEF Joined, procVars, histVars, TypeOK, Place, LoopPlace
<1>20. CASE HubDies
  BY <1>20 DEF HubDies, Alive, TypeOK, Place, LoopPlace
<1>21. ASSUME NEW s \in Signals, Handle(s)
      PROVE  TypeOK'
  <2>1. PlaceType'
    BY <1>21 DEF Handle, Convert, LeaveFake, End, Asks, histVars,
                 Go, TypeOK, Place, LoopPlace, PlaceType
  <2>2. CountType'
    BY <1>21, EnginesLength DEF Handle, Convert, LeaveFake, End, Asks,
                                histVars, Go, TypeOK, CountType
  <2>3. SignalType'
    BY <1>21 DEF Handle, Convert, LeaveFake, End, Asks, Signals, histVars,
                 Go, TypeOK, SignalType
  <2>4. FlagType'
    BY <1>21 DEF Handle, Convert, LeaveFake, End, Asks, histVars,
                 Go, TypeOK, FlagType
  <2>. QED  BY <2>1, <2>2, <2>3, <2>4 DEF TypeOK, PlaceType, CountType,
                                  SignalType, FlagType
<1>22. ASSUME NEW s \in Signals, Send(s)
      PROVE  TypeOK'
  <2>1. PlaceType'
    BY <1>22 DEF Send, Deliver, Alive, procVars, Go, TypeOK, Place,
                 LoopPlace, PlaceType
  <2>2. CountType'
    BY <1>22, EnginesLength DEF Send, Deliver, Alive, procVars, Go,
                                TypeOK, CountType
  <2>3. SignalType'
    BY <1>22 DEF Send, Deliver, Alive, Signals, procVars, Go,
                 TypeOK, SignalType
  <2>4. FlagType'
    BY <1>22 DEF Send, Deliver, Alive, procVars, Go, TypeOK,
                 FlagType
  <2>. QED  BY <2>1, <2>2, <2>3, <2>4 DEF TypeOK, PlaceType, CountType,
                                  SignalType, FlagType
<1>. QED
  BY <1>1, <1>2, <1>3, <1>4, <1>5, <1>6, <1>7, <1>8, <1>9, <1>10, <1>11,
     <1>12, <1>13, <1>14, <1>15, <1>16, <1>17, <1>18, <1>19, <1>20, <1>21,
     <1>22 DEF Next, Progress, HubStep

\* An engine that cannot be configured is the end of the process.
LEMMA EngineStep ==
  ASSUME TypeOK, EngineInv, Next
  PROVE  EngineInv'
<1>1. CASE Configure
  BY <1>1 DEF Configure, histVars, EngineInv, Wrapper, LoopPlace,
              Valid, Defaults
<1>2. CASE Setup
  BY <1>2 DEF Setup, AtServe, Fake, histVars, EngineInv, Wrapper,
              LoopPlace, Valid, Defaults
<1>3. CASE Subscribe
  BY <1>3 DEF Subscribe, histVars, Go, EngineInv, Wrapper,
              LoopPlace, Valid, Defaults
<1>4. CASE BeginServe
  BY <1>4 DEF BeginServe, histVars, Go, EngineInv, Wrapper,
              LoopPlace, Valid, Defaults
<1>5. CASE BeginStep
  BY <1>5 DEF BeginStep, procVars, histVars, Go, EngineInv, Wrapper,
              LoopPlace, Valid, Defaults
<1>6. CASE EndStep
  BY <1>6 DEF EndStep, procVars, histVars, Go, EngineInv, Wrapper,
              LoopPlace, Valid, Defaults
<1>7. CASE LeaveLoop
  BY <1>7 DEF LeaveLoop, procVars, histVars, Go, EngineInv, Wrapper,
              LoopPlace, Valid, Defaults
<1>8. CASE Teardown
  BY <1>8 DEF Teardown, End, histVars, Go, EngineInv, Wrapper,
              LoopPlace, Valid, Defaults
<1>9. CASE BeginFake
  BY <1>9 DEF BeginFake, AtServe, procVars, histVars, EngineInv,
              Wrapper, LoopPlace, Valid, Defaults
<1>10. CASE FakeSubscribe
  BY <1>10 DEF FakeSubscribe, histVars, Go, EngineInv, Wrapper,
               LoopPlace, Valid, Defaults
<1>11. CASE Pause
  BY <1>11 DEF Pause, procVars, histVars, Go, EngineInv, Wrapper,
               LoopPlace, Valid, Defaults
<1>12. CASE Resume
  BY <1>12 DEF Resume, LeaveFake, End, histVars, EngineInv, Wrapper,
               LoopPlace, Valid, Defaults
<1>13. CASE GoStale
  BY <1>13 DEF GoStale, procVars, histVars, EngineInv, Wrapper,
               LoopPlace, Valid, Defaults
<1>14. CASE AddService
  BY <1>14 DEF AddService, Construct, procVars, histVars, Go, EngineInv,
               Wrapper, LoopPlace, Valid, Defaults
<1>15. CASE Start
  BY <1>15 DEF Start, Fork, EngineInv, Wrapper, LoopPlace, Valid,
               Defaults
<1>16. CASE StartAgain
  BY <1>16 DEF StartAgain, Construct, Fork, EngineInv, Wrapper, LoopPlace,
               Valid, Defaults
<1>17. CASE Kill
  BY <1>17 DEF Kill, Alive, histVars, EngineInv, Wrapper, LoopPlace,
               Valid, Defaults
<1>18. CASE Stop
  BY <1>18 DEF Stop, Deliver, Alive, procVars, Go, EngineInv,
               Wrapper, LoopPlace, Valid, Defaults
<1>19. CASE Joined
  BY <1>19 DEF Joined, procVars, histVars, EngineInv, Wrapper,
               LoopPlace, Valid, Defaults
<1>20. CASE HubDies
  BY <1>20 DEF HubDies, Alive, EngineInv, Wrapper, LoopPlace, Valid,
               Defaults
<1>21. ASSUME NEW s \in Signals, Handle(s)
      PROVE  EngineInv'
  BY <1>21 DEF Handle, Convert, LeaveFake, End, Asks, histVars, Go,
               EngineInv, Wrapper, LoopPlace, Valid, Defaults
<1>22. ASSUME NEW s \in Signals, Send(s)
      PROVE  EngineInv'
  BY <1>22 DEF Send, Deliver, Alive, procVars, Go, EngineInv,
               Wrapper, LoopPlace, Valid, Defaults
<1>. QED
  BY <1>1, <1>2, <1>3, <1>4, <1>5, <1>6, <1>7, <1>8, <1>9, <1>10, <1>11,
     <1>12, <1>13, <1>14, <1>15, <1>16, <1>17, <1>18, <1>19, <1>20, <1>21,
     <1>22 DEF Next, Progress, HubStep

\* _serve_fake() is entered by the services it is for.
LEMMA FakeStep ==
  ASSUME TypeOK, FakeInv, Next
  PROVE  FakeInv'
<1>1. CASE Configure
  BY <1>1 DEF Configure, histVars, FakeInv, Fake, Exempt, Wrapper,
              Bjoern
<1>2. CASE Setup
  BY <1>2 DEF Setup, AtServe, histVars, FakeInv, Fake, Exempt,
              Wrapper, Bjoern
<1>3. CASE Subscribe
  BY <1>3 DEF Subscribe, histVars, Go, FakeInv, Fake, Exempt,
              Wrapper, Bjoern
<1>4. CASE BeginServe
  BY <1>4 DEF BeginServe, histVars, Go, FakeInv, Fake, Exempt,
              Wrapper, Bjoern
<1>5. CASE BeginStep
  BY <1>5 DEF BeginStep, procVars, histVars, Go, FakeInv, Fake,
              Exempt, Wrapper, Bjoern
<1>6. CASE EndStep
  BY <1>6 DEF EndStep, procVars, histVars, Go, FakeInv, Fake,
              Exempt, Wrapper, Bjoern
<1>7. CASE LeaveLoop
  BY <1>7 DEF LeaveLoop, procVars, histVars, Go, FakeInv, Fake,
              Exempt, Wrapper, Bjoern
<1>8. CASE Teardown
  BY <1>8 DEF Teardown, End, histVars, Go, FakeInv, Fake, Exempt,
              Wrapper, Bjoern
<1>9. CASE BeginFake
  BY <1>9 DEF BeginFake, AtServe, procVars, histVars, FakeInv, Fake,
              Exempt, Wrapper, Bjoern
<1>10. CASE FakeSubscribe
  BY <1>10 DEF FakeSubscribe, histVars, Go, FakeInv, Fake, Exempt,
               Wrapper, Bjoern
<1>11. CASE Pause
  BY <1>11 DEF Pause, procVars, histVars, Go, FakeInv, Fake, Exempt,
               Wrapper, Bjoern
<1>12. CASE Resume
  BY <1>12 DEF Resume, LeaveFake, End, histVars, FakeInv, Fake,
               Exempt, Wrapper, Bjoern
<1>13. CASE GoStale
  BY <1>13 DEF GoStale, procVars, histVars, FakeInv, Fake, Exempt,
               Wrapper, Bjoern
<1>14. CASE AddService
  BY <1>14 DEF AddService, Construct, procVars, histVars, Go, FakeInv, Fake,
               Exempt, Wrapper, Bjoern
<1>15. CASE Start
  BY <1>15 DEF Start, Fork, FakeInv, Fake, Exempt, Wrapper, Bjoern
<1>16. CASE StartAgain
  BY <1>16 DEF StartAgain, Construct, Fork, FakeInv, Fake, Exempt, Wrapper,
               Bjoern
<1>17. CASE Kill
  BY <1>17 DEF Kill, Alive, histVars, FakeInv, Fake, Exempt,
               Wrapper, Bjoern
<1>18. CASE Stop
  BY <1>18 DEF Stop, Deliver, Alive, procVars, Go, FakeInv, Fake,
               Exempt, Wrapper, Bjoern
<1>19. CASE Joined
  BY <1>19 DEF Joined, procVars, histVars, FakeInv, Fake, Exempt,
               Wrapper, Bjoern
<1>20. CASE HubDies
  BY <1>20 DEF HubDies, Alive, FakeInv, Fake, Exempt, Wrapper,
               Bjoern
<1>21. ASSUME NEW s \in Signals, Handle(s)
      PROVE  FakeInv'
  BY <1>21 DEF Handle, Convert, LeaveFake, End, Asks, histVars, Go,
               FakeInv, Fake, Exempt, Wrapper, Bjoern
<1>22. ASSUME NEW s \in Signals, Send(s)
      PROVE  FakeInv'
  BY <1>22 DEF Send, Deliver, Alive, procVars, Go, FakeInv, Fake,
               Exempt, Wrapper, Bjoern
<1>. QED
  BY <1>1, <1>2, <1>3, <1>4, <1>5, <1>6, <1>7, <1>8, <1>9, <1>10, <1>11,
     <1>12, <1>13, <1>14, <1>15, <1>16, <1>17, <1>18, <1>19, <1>20, <1>21,
     <1>22 DEF Next, Progress, HubStep

\* A handler that ends the process runs for a signal that asks for it.
LEMMA AskStep ==
  ASSUME TypeOK, FakeInv, AskInv, Next
  PROVE  AskInv'
<1>1. CASE Configure
  BY <1>1 DEF Configure, histVars, FakeInv, AskInv, Asks, LoopPlace,
              Exempt, Wrapper, Bjoern
<1>2. CASE Setup
  BY <1>2 DEF Setup, AtServe, histVars, FakeInv, AskInv, Asks,
              LoopPlace, Exempt, Wrapper, Bjoern
<1>3. CASE Subscribe
  BY <1>3 DEF Subscribe, histVars, Go, FakeInv, AskInv, Asks,
              LoopPlace, Exempt, Wrapper, Bjoern
<1>4. CASE BeginServe
  BY <1>4 DEF BeginServe, histVars, Go, FakeInv, AskInv, Asks,
              LoopPlace, Exempt, Wrapper, Bjoern
<1>5. CASE BeginStep
  BY <1>5 DEF BeginStep, procVars, histVars, Go, FakeInv, AskInv,
              Asks, LoopPlace, Exempt, Wrapper, Bjoern
<1>6. CASE EndStep
  BY <1>6 DEF EndStep, procVars, histVars, Go, FakeInv, AskInv,
              Asks, LoopPlace, Exempt, Wrapper, Bjoern
<1>7. CASE LeaveLoop
  BY <1>7 DEF LeaveLoop, procVars, histVars, Go, FakeInv, AskInv,
              Asks, LoopPlace, Exempt, Wrapper, Bjoern
<1>8. CASE Teardown
  BY <1>8 DEF Teardown, End, histVars, Go, FakeInv, AskInv, Asks,
              LoopPlace, Exempt, Wrapper, Bjoern
<1>9. CASE BeginFake
  BY <1>9 DEF BeginFake, AtServe, Fake, procVars, histVars, FakeInv,
              AskInv, Asks, LoopPlace, Exempt, Wrapper, Bjoern
<1>10. CASE FakeSubscribe
  BY <1>10 DEF FakeSubscribe, histVars, Go, FakeInv, AskInv, Asks,
               LoopPlace, Exempt, Wrapper, Bjoern
<1>11. CASE Pause
  BY <1>11 DEF Pause, procVars, histVars, Go, FakeInv, AskInv, Asks,
               LoopPlace, Exempt, Wrapper, Bjoern
<1>12. CASE Resume
  BY <1>12 DEF Resume, LeaveFake, End, histVars, FakeInv, AskInv,
               Asks, LoopPlace, Exempt, Wrapper, Bjoern
<1>13. CASE GoStale
  BY <1>13 DEF GoStale, procVars, histVars, FakeInv, AskInv, Asks,
               LoopPlace, Exempt, Wrapper, Bjoern
<1>14. CASE AddService
  BY <1>14 DEF AddService, Construct, procVars, histVars, Go, FakeInv,
               AskInv, Asks, LoopPlace, Exempt, Wrapper, Bjoern
<1>15. CASE Start
  BY <1>15 DEF Start, Fork, FakeInv, AskInv, Asks, LoopPlace,
               Exempt, Wrapper, Bjoern
<1>16. CASE StartAgain
  BY <1>16 DEF StartAgain, Construct, Fork, FakeInv, AskInv, Asks, LoopPlace,
               Exempt, Wrapper, Bjoern
<1>17. CASE Kill
  BY <1>17 DEF Kill, Alive, histVars, FakeInv, AskInv, Asks,
               LoopPlace, Exempt, Wrapper, Bjoern
<1>18. CASE Stop
  BY <1>18 DEF Stop, Deliver, Alive, procVars, Go, FakeInv, AskInv,
               Asks, LoopPlace, Exempt, Wrapper, Bjoern
<1>19. CASE Joined
  BY <1>19 DEF Joined, procVars, histVars, FakeInv, AskInv, Asks,
               LoopPlace, Exempt, Wrapper, Bjoern
<1>20. CASE HubDies
  BY <1>20 DEF HubDies, Alive, FakeInv, AskInv, Asks, LoopPlace,
               Exempt, Wrapper, Bjoern
<1>21. ASSUME NEW s \in Signals, Handle(s)
      PROVE  AskInv'
  BY <1>21 DEF Handle, Convert, LeaveFake, End, Asks, histVars, Go,
               FakeInv, AskInv, LoopPlace, Exempt, Wrapper, Bjoern
<1>22. ASSUME NEW s \in Signals, Send(s)
      PROVE  AskInv'
  BY <1>22 DEF Send, Deliver, Alive, procVars, Go, FakeInv, AskInv,
               Asks, LoopPlace, Exempt, Wrapper, Bjoern
<1>. QED
  BY <1>1, <1>2, <1>3, <1>4, <1>5, <1>6, <1>7, <1>8, <1>9, <1>10, <1>11,
     <1>12, <1>13, <1>14, <1>15, <1>16, <1>17, <1>18, <1>19, <1>20, <1>21,
     <1>22 DEF Next, Progress, HubStep

\* So does the end of a process with code 0.
LEMMA EndsStep ==
  ASSUME TypeOK, FakeInv, AskInv, EndsWhenAsked, Next
  PROVE  EndsWhenAsked'
<1>1. CASE Configure
  BY <1>1 DEF Configure, histVars, FakeInv, AskInv, EndsWhenAsked,
              Asks, Exempt, Wrapper, Bjoern
<1>2. CASE Setup
  BY <1>2 DEF Setup, AtServe, histVars, FakeInv, AskInv,
              EndsWhenAsked, Asks, Exempt, Wrapper, Bjoern
<1>3. CASE Subscribe
  BY <1>3 DEF Subscribe, histVars, Go, FakeInv, AskInv,
              EndsWhenAsked, Asks, Exempt, Wrapper, Bjoern
<1>4. CASE BeginServe
  BY <1>4 DEF BeginServe, histVars, Go, FakeInv, AskInv,
              EndsWhenAsked, Asks, Exempt, Wrapper, Bjoern
<1>5. CASE BeginStep
  BY <1>5 DEF BeginStep, procVars, histVars, Go, FakeInv, AskInv,
              EndsWhenAsked, Asks, Exempt, Wrapper, Bjoern
<1>6. CASE EndStep
  BY <1>6 DEF EndStep, procVars, histVars, Go, FakeInv, AskInv,
              EndsWhenAsked, Asks, Exempt, Wrapper, Bjoern
<1>7. CASE LeaveLoop
  BY <1>7 DEF LeaveLoop, procVars, histVars, Go, FakeInv, AskInv,
              EndsWhenAsked, Asks, Exempt, Wrapper, Bjoern
<1>8. CASE Teardown
  BY <1>8 DEF Teardown, End, histVars, Go, FakeInv, AskInv,
              EndsWhenAsked, Asks, Exempt, Wrapper, Bjoern
<1>9. CASE BeginFake
  BY <1>9 DEF BeginFake, AtServe, procVars, histVars, FakeInv,
              AskInv, EndsWhenAsked, Asks, Exempt, Wrapper, Bjoern
<1>10. CASE FakeSubscribe
  BY <1>10 DEF FakeSubscribe, histVars, Go, FakeInv, AskInv,
               EndsWhenAsked, Asks, Exempt, Wrapper, Bjoern
<1>11. CASE Pause
  BY <1>11 DEF Pause, procVars, histVars, Go, FakeInv, AskInv,
               EndsWhenAsked, Asks, Exempt, Wrapper, Bjoern
<1>12. CASE Resume
  BY <1>12 DEF Resume, LeaveFake, End, histVars, FakeInv, AskInv,
               EndsWhenAsked, Asks, Exempt, Wrapper, Bjoern
<1>13. CASE GoStale
  BY <1>13 DEF GoStale, procVars, histVars, FakeInv, AskInv,
               EndsWhenAsked, Asks, Exempt, Wrapper, Bjoern
<1>14. CASE AddService
  BY <1>14 DEF AddService, Construct, procVars, histVars, Go, FakeInv,
               AskInv, EndsWhenAsked, Asks, Exempt, Wrapper, Bjoern
<1>15. CASE Start
  BY <1>15 DEF Start, Fork, FakeInv, AskInv, EndsWhenAsked, Asks,
               Exempt, Wrapper, Bjoern
<1>16. CASE StartAgain
  BY <1>16 DEF StartAgain, Construct, Fork, FakeInv, AskInv, EndsWhenAsked,
               Asks, Exempt, Wrapper, Bjoern
<1>17. CASE Kill
  BY <1>17 DEF Kill, Alive, histVars, FakeInv, AskInv,
               EndsWhenAsked, Asks, Exempt, Wrapper, Bjoern
<1>18. CASE Stop
  BY <1>18 DEF Stop, Deliver, Alive, procVars, Go, FakeInv, AskInv,
               EndsWhenAsked, Asks, Exempt, Wrapper, Bjoern
<1>19. CASE Joined
  BY <1>19 DEF Joined, procVars, histVars, FakeInv, AskInv,
               EndsWhenAsked, Asks, Exempt, Wrapper, Bjoern
<1>20. CASE HubDies
  BY <1>20 DEF HubDies, Alive, FakeInv, AskInv, EndsWhenAsked, Asks,
               Exempt, Wrapper, Bjoern
<1>21. ASSUME NEW s \in Signals, Handle(s)
      PROVE  EndsWhenAsked'
  BY <1>21 DEF Handle, Convert, LeaveFake, End, Asks, histVars, Go,
               FakeInv, AskInv, EndsWhenAsked, Exempt, Wrapper, Bjoern
<1>22. ASSUME NEW s \in Signals, Send(s)
      PROVE  EndsWhenAsked'
  BY <1>22 DEF Send, Deliver, Alive, procVars, Go, FakeInv, AskInv,
               EndsWhenAsked, Asks, Exempt, Wrapper, Bjoern
<1>. QED
  BY <1>1, <1>2, <1>3, <1>4, <1>5, <1>6, <1>7, <1>8, <1>9, <1>10, <1>11,
     <1>12, <1>13, <1>14, <1>15, <1>16, <1>17, <1>18, <1>19, <1>20, <1>21,
     <1>22 DEF Next, Progress, HubStep

\* prctl() comes before anything else a SoftIrqService does.
LEMMA GuardStep ==
  ASSUME TypeOK, FakeInv, GuardInv, Next
  PROVE  GuardInv'
<1>1. CASE Configure
  BY <1>1 DEF Configure, histVars, FakeInv, GuardInv, Alive, Fake,
              Wrapper, Bjoern
<1>2. CASE Setup
  BY <1>2 DEF Setup, AtServe, histVars, FakeInv, GuardInv, Alive,
              Fake, Wrapper, Bjoern
<1>3. CASE Subscribe
  BY <1>3 DEF Subscribe, histVars, Go, FakeInv, GuardInv, Alive,
              Fake, Wrapper, Bjoern
<1>4. CASE BeginServe
  BY <1>4 DEF BeginServe, histVars, Go, FakeInv, GuardInv, Alive,
              Fake, Wrapper, Bjoern
<1>5. CASE BeginStep
  BY <1>5 DEF BeginStep, procVars, histVars, Go, FakeInv, GuardInv,
              Alive, Fake, Wrapper, Bjoern
<1>6. CASE EndStep
  BY <1>6 DEF EndStep, procVars, histVars, Go, FakeInv, GuardInv,
              Alive, Fake, Wrapper, Bjoern
<1>7. CASE LeaveLoop
  BY <1>7 DEF LeaveLoop, procVars, histVars, Go, FakeInv, GuardInv,
              Alive, Fake, Wrapper, Bjoern
<1>8. CASE Teardown
  BY <1>8 DEF Teardown, End, histVars, Go, FakeInv, GuardInv, Alive,
              Fake, Wrapper, Bjoern
<1>9. CASE BeginFake
  BY <1>9 DEF BeginFake, AtServe, procVars, histVars, FakeInv,
              GuardInv, Alive, Fake, Wrapper, Bjoern
<1>10. CASE FakeSubscribe
  BY <1>10 DEF FakeSubscribe, histVars, Go, FakeInv, GuardInv,
               Alive, Fake, Wrapper, Bjoern
<1>11. CASE Pause
  BY <1>11 DEF Pause, procVars, histVars, Go, FakeInv, GuardInv,
               Alive, Fake, Wrapper, Bjoern
<1>12. CASE Resume
  BY <1>12 DEF Resume, LeaveFake, End, histVars, FakeInv, GuardInv,
               Alive, Fake, Wrapper, Bjoern
<1>13. CASE GoStale
  BY <1>13 DEF GoStale, procVars, histVars, FakeInv, GuardInv,
               Alive, Fake, Wrapper, Bjoern
<1>14. CASE AddService
  BY <1>14 DEF AddService, Construct, procVars, histVars, Go, FakeInv,
               GuardInv, Alive, Fake, Wrapper, Bjoern
<1>15. CASE Start
  BY <1>15 DEF Start, Fork, FakeInv, GuardInv, Alive, Fake, Wrapper,
               Bjoern
<1>16. CASE StartAgain
  BY <1>16 DEF StartAgain, Construct, Fork, FakeInv, GuardInv, Alive, Fake,
               Wrapper, Bjoern
<1>17. CASE Kill
  BY <1>17 DEF Kill, histVars, FakeInv, GuardInv, Alive, Fake,
               Wrapper, Bjoern
<1>18. CASE Stop
  BY <1>18 DEF Stop, Deliver, procVars, Go, FakeInv, GuardInv,
               Alive, Fake, Wrapper, Bjoern
<1>19. CASE Joined
  BY <1>19 DEF Joined, procVars, histVars, FakeInv, GuardInv, Alive,
               Fake, Wrapper, Bjoern
<1>20. CASE HubDies
  BY <1>20 DEF HubDies, FakeInv, GuardInv, Alive, Fake, Wrapper,
               Bjoern
<1>21. ASSUME NEW s \in Signals, Handle(s)
      PROVE  GuardInv'
  BY <1>21 DEF Handle, Convert, LeaveFake, End, Asks, histVars, Go,
               FakeInv, GuardInv, Alive, Fake, Wrapper, Bjoern
<1>22. ASSUME NEW s \in Signals, Send(s)
      PROVE  GuardInv'
  BY <1>22 DEF Send, Deliver, Alive, procVars, Go, FakeInv,
               GuardInv, Fake, Wrapper, Bjoern
<1>. QED
  BY <1>1, <1>2, <1>3, <1>4, <1>5, <1>6, <1>7, <1>8, <1>9, <1>10, <1>11,
     <1>12, <1>13, <1>14, <1>15, <1>16, <1>17, <1>18, <1>19, <1>20, <1>21,
     <1>22 DEF Next, Progress, HubStep

\* The hub dies: its process does, or has no guard.
LEMMA OrphanStep ==
  ASSUME TypeOK, GuardInv, OnlyEarlyOrphans, Next
  PROVE  OnlyEarlyOrphans'
<1>1. CASE Configure
  BY <1>1 DEF Configure, histVars, GuardInv, OnlyEarlyOrphans,
              Alive, Fake, Wrapper, Bjoern
<1>2. CASE Setup
  BY <1>2 DEF Setup, AtServe, histVars, GuardInv, OnlyEarlyOrphans,
              Alive, Fake, Wrapper, Bjoern
<1>3. CASE Subscribe
  BY <1>3 DEF Subscribe, histVars, Go, GuardInv, OnlyEarlyOrphans,
              Alive, Fake, Wrapper, Bjoern
<1>4. CASE BeginServe
  BY <1>4 DEF BeginServe, histVars, Go, GuardInv, OnlyEarlyOrphans,
              Alive, Fake, Wrapper, Bjoern
<1>5. CASE BeginStep
  BY <1>5 DEF BeginStep, procVars, histVars, Go, GuardInv,
              OnlyEarlyOrphans, Alive, Fake, Wrapper, Bjoern
<1>6. CASE EndStep
  BY <1>6 DEF EndStep, procVars, histVars, Go, GuardInv,
              OnlyEarlyOrphans, Alive, Fake, Wrapper, Bjoern
<1>7. CASE LeaveLoop
  BY <1>7 DEF LeaveLoop, procVars, histVars, Go, GuardInv,
              OnlyEarlyOrphans, Alive, Fake, Wrapper, Bjoern
<1>8. CASE Teardown
  BY <1>8 DEF Teardown, End, histVars, Go, GuardInv,
              OnlyEarlyOrphans, Alive, Fake, Wrapper, Bjoern
<1>9. CASE BeginFake
  BY <1>9 DEF BeginFake, AtServe, procVars, histVars, GuardInv,
              OnlyEarlyOrphans, Alive, Fake, Wrapper, Bjoern
<1>10. CASE FakeSubscribe
  BY <1>10 DEF FakeSubscribe, histVars, Go, GuardInv,
               OnlyEarlyOrphans, Alive, Fake, Wrapper, Bjoern
<1>11. CASE Pause
  BY <1>11 DEF Pause, procVars, histVars, Go, GuardInv,
               OnlyEarlyOrphans, Alive, Fake, Wrapper, Bjoern
<1>12. CASE Resume
  BY <1>12 DEF Resume, LeaveFake, End, histVars, GuardInv,
               OnlyEarlyOrphans, Alive, Fake, Wrapper, Bjoern
<1>13. CASE GoStale
  BY <1>13 DEF GoStale, procVars, histVars, GuardInv,
               OnlyEarlyOrphans, Alive, Fake, Wrapper, Bjoern
<1>14. CASE AddService
  BY <1>14 DEF AddService, Construct, procVars, histVars, Go, GuardInv,
               OnlyEarlyOrphans, Alive, Fake, Wrapper, Bjoern
<1>15. CASE Start
  BY <1>15 DEF Start, Fork, GuardInv, OnlyEarlyOrphans, Alive, Fake,
               Wrapper, Bjoern
<1>16. CASE StartAgain
  BY <1>16 DEF StartAgain, Construct, Fork, GuardInv, OnlyEarlyOrphans,
               Alive, Fake, Wrapper, Bjoern
<1>17. CASE Kill
  BY <1>17 DEF Kill, histVars, GuardInv, OnlyEarlyOrphans, Alive,
               Fake, Wrapper, Bjoern
<1>18. CASE Stop
  BY <1>18 DEF Stop, Deliver, procVars, Go, GuardInv,
               OnlyEarlyOrphans, Alive, Fake, Wrapper, Bjoern
<1>19. CASE Joined
  BY <1>19 DEF Joined, procVars, histVars, GuardInv,
               OnlyEarlyOrphans, Alive, Fake, Wrapper, Bjoern
<1>20. CASE HubDies
  BY <1>20 DEF HubDies, GuardInv, OnlyEarlyOrphans, Alive, Fake,
               Wrapper, Bjoern
<1>21. ASSUME NEW s \in Signals, Handle(s)
      PROVE  OnlyEarlyOrphans'
  BY <1>21 DEF Handle, Convert, LeaveFake, End, Asks, histVars, Go,
               GuardInv, OnlyEarlyOrphans, Alive, Fake, Wrapper, Bjoern
<1>22. ASSUME NEW s \in Signals, Send(s)
      PROVE  OnlyEarlyOrphans'
  BY <1>22 DEF Send, Deliver, Alive, procVars, Go, GuardInv,
               OnlyEarlyOrphans, Fake, Wrapper, Bjoern
<1>. QED
  BY <1>1, <1>2, <1>3, <1>4, <1>5, <1>6, <1>7, <1>8, <1>9, <1>10, <1>11,
     <1>12, <1>13, <1>14, <1>15, <1>16, <1>17, <1>18, <1>19, <1>20, <1>21,
     <1>22 DEF Next, Progress, HubStep

-----------------------------------------------------------------------------
(* The theorems.                                                           *)

LEMMA KindsStep == KindsInv /\ [Next]_vars => KindsInv'
<1>. SUFFICES ASSUME KindsInv, [Next]_vars
              PROVE  KindsInv'
  OBVIOUS
<1>1. CASE Next
  BY <1>1, TypeStep, EngineStep, FakeStep, AskStep, EndsStep,
     GuardStep, OrphanStep DEF KindsInv
<1>2. CASE UNCHANGED vars
  <2>1. TypeOK' /\ EngineInv' /\ FakeInv'
    BY <1>2 DEF KindsInv, vars, TypeOK, EngineInv, FakeInv, Valid,
                Defaults, Wrapper, Bjoern, Fake, Exempt
  <2>2. AskInv' /\ EndsWhenAsked' /\ GuardInv' /\ OnlyEarlyOrphans'
    BY <1>2 DEF KindsInv, vars, AskInv, EndsWhenAsked, GuardInv,
                OnlyEarlyOrphans, Wrapper, Bjoern, Fake, Exempt, Alive
  <2>. QED  BY <2>1, <2>2 DEF KindsInv
<1>. QED  BY <1>1, <1>2

LEMMA KindsInvariant == Spec => []KindsInv
BY KindsInit, KindsStep, PTL DEF Spec

\* The variables of every kind of service keep their types.  (AbstractService)
THEOREM KindsTypeCorrect == Spec => []TypeOK
<1>1. KindsInv => TypeOK
  BY DEF KindsInv
<1>. QED  BY <1>1, KindsInvariant, PTL

\* A SoftIrqService that outlives its hub was left behind before it came to
\* prctl().  (SoftIrqService._set_pdeathsig())
THEOREM OnlyEarlyOrphansCorrect == Spec => []OnlyEarlyOrphans
<1>1. KindsInv => OnlyEarlyOrphans
  BY DEF KindsInv
<1>. QED  BY <1>1, KindsInvariant, PTL

\* A nested service serves with all the engines of its wrapper, exactly one of
\* them the default.  (MultiMySQLStorageWrapper)
THEOREM ServesWithEnginesCorrect == Spec => []ServesWithEngines
<1>1. KindsInv => ServesWithEngines
  <2>. SUFFICES ASSUME TypeOK, EngineInv, Wrapper,
                       at \in {"set", "ready"} \cup LoopPlace
                PROVE  configured = Len(svc.engines) /\ Defaults = 1
    BY DEF KindsInv, ServesWithEngines
  <2>1. at # "new" /\ configured = Len(svc.engines)
    BY DEF EngineInv, LoopPlace
  <2>2. CASE svc.class = "multi"
    BY <2>1, <2>2 DEF EngineInv, Valid
  <2>3. CASE svc.class = "mysql"
    <3>1. {i \in DOMAIN svc.engines : svc.engines[i] = "default"} = {1}
      BY <2>3 DEF EngineInv
    <3>. QED  BY <2>1, <3>1, FS_Singleton DEF Defaults
  <2>. QED  BY <2>2, <2>3 DEF Wrapper
<1>. QED  BY <1>1, KindsInvariant, PTL

\* Code 0 was asked for, except from the pause() of a wrapper or a
\* BjoernService that is not operated.  (AbstractService.serve())
THEOREM EndsWhenAskedCorrect == Spec => []EndsWhenAsked
<1>1. KindsInv => EndsWhenAsked
  BY DEF KindsInv
<1>. QED  BY <1>1, KindsInvariant, PTL
=============================================================================
