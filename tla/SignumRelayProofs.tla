------------------------- MODULE SignumRelayProofs -------------------------
(***************************************************************************)
(* Proofs about SignumRelay, for every number of services, whichever of    *)
(* their handlers raise.                                                   *)
(***************************************************************************)
EXTENDS SignumRelay, SequenceTheorems, TLAPS

USE RelayAssumption

-----------------------------------------------------------------------------
(* The invariants.                                                         *)

\* What makes LastSignalStays inductive: an integer has the value last written, or
\* zero, and while the child is in the window it is not cleared.
WindowInv ==
    /\ LastSignalStays
    /\ \A c \in Child : signums[c] # NoSig =>
         /\ signums[c] = told[c].sig
         /\ owed[c] \in IF InWindow(c) THEN {"no", "risk"} ELSE {"yes", "redo"}
    /\ \A c \in Child : InWindow(c) => signums[c] # NoSig

\* The numbers of the signals that a service was told last, or has read.
Known(c) == {told[c].id} \cup read[c]

\* A signal is none of these.
New(x, known) == x.id = NoId \/ x.id \notin known

\* Two signals are not the same numbered one.
Apart(x, y) == x.id = NoId \/ x.id # y.id

\* The numbers are of signals that were sent.
BoundInv ==
    /\ \A x \in pending[Hub] : x.id <= sent
    /\ \A i \in DOMAIN frames[Hub] : frames[Hub][i].signal.id <= sent
    /\ \A c \in Child : told[c].id <= sent /\ \A n \in read[c] : n <= sent

\* A numbered signal that is pending in the hub is nowhere else.
PendingInv ==
    \A x \in pending[Hub] :
        /\ \A c \in Child : New(x, Known(c))
        /\ \A y \in pending[Hub] : x = y \/ Apart(x, y)
        /\ \A i \in DOMAIN frames[Hub] : Apart(x, frames[Hub][i].signal)

\* One that a handler of the hub is to pass on is in no other handler, and new to the
\* services which that one has still to tell of it.
HandlerInv ==
    \A i \in DOMAIN frames[Hub] :
        /\ \A c \in Child : c >= frames[Hub][i].next => New(frames[Hub][i].signal, Known(c))
        /\ \A j \in DOMAIN frames[Hub] :
             i = j \/ Apart(frames[Hub][i].signal, frames[Hub][j].signal)

\* What reaches a booting child has no number.
GroupInv ==
    \A c \in Child :
        /\ \A x \in pending[c] : x.id = NoId
        /\ \A i \in DOMAIN frames[c] : frames[c][i].signal.id = NoId

\* A value that is owed to a service is that of a signal it has not read.
UnreadInv ==
    \A c \in Child :
        /\ owed[c] \in {"yes", "risk"} => told[c].id \notin read[c]
        /\ NoId \notin read[c]

\* What makes HandledOnce inductive, with WindowInv.
OnceInv == BoundInv /\ PendingInv /\ HandlerInv /\ GroupInv /\ UnreadInv

\* What makes SameSignalForAll inductive: one handler at most is under way, and
\* it has told its signal to the services before the next one.
SweepInv ==
    ~mixed =>
        /\ SameSignalForAll
        /\ \A p, q \in Process : frames[p] # <<>> /\ frames[q] # <<>> => p = q
        /\ \A p \in Process : frames[p] # <<>> =>
             /\ Tail(frames[p]) = <<>>
             /\ \A c \in Child : c < Head(frames[p]).next => told[c] = Head(frames[p]).signal

-----------------------------------------------------------------------------
(* The stack of handlers.                                                  *)

\* A handler that begins becomes the head of the stack.
LEMMA PushProperties ==
  ASSUME NEW s \in Seq(Frame), NEW f \in Frame
  PROVE  /\ <<f>> \o s \in Seq(Frame)
         /\ <<f>> \o s # <<>>
         /\ Head(<<f>> \o s) = f
         /\ Tail(<<f>> \o s) = s
<1>1. <<f>> \in Seq(Frame) /\ Len(<<f>>) = 1 /\ <<f>>[1] = f
  OBVIOUS
<1>2. <<f>> \o s \in Seq(Frame) /\ Len(<<f>> \o s) = 1 + Len(s)
  BY <1>1, ConcatProperties
<1>3. Len(s) \in Nat
  BY LenProperties
<1>4. \A i \in 1 .. 1 + Len(s) : (<<f>> \o s)[i] = IF i <= 1 THEN f ELSE s[i - 1]
  BY <1>1, ConcatProperties
<1>5. <<f>> \o s # <<>>
  BY <1>1, ConcatEqualIffEmpty
<1>6. Head(<<f>> \o s) = f
  BY <1>2, <1>3, <1>4, <1>5
<1>7. Tail(<<f>> \o s) = s
  <2>1. /\ Tail(<<f>> \o s) \in Seq(Frame)
        /\ Len(Tail(<<f>> \o s)) = Len(s)
        /\ \A i \in 1 .. Len(Tail(<<f>> \o s)) : Tail(<<f>> \o s)[i] = (<<f>> \o s)[i + 1]
    BY <1>2, <1>3, <1>5, HeadTailProperties
  <2>2. \A i \in 1 .. Len(s) : Tail(<<f>> \o s)[i] = s[i]
    BY <2>1, <1>3, <1>4
  <2>. QED  BY <2>1, <2>2, SeqEqual
<1>. QED  BY <1>2, <1>5, <1>6, <1>7

\* The head of a stack and what is below it.
LEMMA StackProperties ==
  /\ <<>> \in Seq(Frame)
  /\ \A s \in Seq(Frame) : s # <<>> =>
       /\ Head(s) \in Frame
       /\ Tail(s) \in Seq(Frame)
       /\ Head(s).next \in Child
       /\ Head(s).signal \in Signal
<1>1. ASSUME NEW s \in Seq(Frame), s # <<>>
      PROVE  Head(s) \in Frame /\ Tail(s) \in Seq(Frame)
  BY <1>1, HeadTailProperties
<1>2. <<>> \in Seq(Frame)
  BY EmptySeq
<1>3. \A f \in Frame : f.next \in Child /\ f.signal \in Signal
  BY DEF Frame
<1>. QED  BY <1>1, <1>2, <1>3

-----------------------------------------------------------------------------
(* Types.                                                                  *)

LEMMA InitType == Init => TypeOK
<1>. SUFFICES ASSUME Init
              PROVE  TypeOK
  OBVIOUS
<1>1. frames \in [Process -> Seq(Frame)]
  BY StackProperties DEF Init
<1>2. pending \in [Process -> SUBSET Signal]
  BY DEF Init
<1>3. sent \in 0 .. MaxSignals /\ crashes \in 0 .. MaxCrashes
  BY DEF Init
<1>4. told \in [Child -> Signal \cup {NoSignal}]
  BY DEF Init
<1>. QED
  BY <1>1, <1>2, <1>3, <1>4 DEF Init, TypeOK, Place, Owed, NoSig

LEMMA SendType ==
  ASSUME TypeOK, NEW s \in Sig, NEW toGroup \in BOOLEAN, Send(s, toGroup)
  PROVE  TypeOK'
<1>1. [sig |-> s, id |-> IF Reached(toGroup) = {Hub} THEN sent + 1 ELSE NoId] \in Signal
  BY DEF Send, TypeOK, Signal, NoId
<1>2. pending' \in [Process -> SUBSET Signal]
  BY <1>1, Zenon DEF Send, TypeOK
<1>3. sent' \in 0 .. MaxSignals
  BY DEF Send, TypeOK
<1>. QED  BY <1>2, <1>3 DEF Send, TypeOK, childVars

LEMMA BeginType ==
  ASSUME TypeOK, NEW p \in Process, NEW x \in Signal, BeginHandler(p, x)
  PROVE  TypeOK'
<1>1. [signal |-> x, next |-> 1] \in Frame
  BY DEF Frame, Child
<1>2. frames' \in [Process -> Seq(Frame)]
  BY <1>1, PushProperties DEF BeginHandler, TypeOK
<1>. QED  BY <1>2 DEF BeginHandler, TypeOK, childVars

\* What a handler's next step writes, and what is left of it.
LEMMA SetSignumFrame ==
  ASSUME TypeOK, NEW p \in Process, SetSignum(p)
  PROVE  /\ Head(frames[p]) \in Frame
         /\ Head(frames[p]).next \in Child
         /\ Head(frames[p]).signal \in Signal
         /\ Head(frames[p]).signal.sig \in Sig
         /\ Tail(frames[p]) \in Seq(Frame)
         /\ Head(frames[p]).next # N =>
              [Head(frames[p]) EXCEPT !.next = Head(frames[p]).next + 1] \in Frame
         /\ frames' \in [Process -> Seq(Frame)]
<1>1. Head(frames[p]) \in Frame /\ Tail(frames[p]) \in Seq(Frame)
  BY StackProperties DEF SetSignum, TypeOK
<1>2. Head(frames[p]).next \in Child /\ Head(frames[p]).signal \in Signal
  BY StackProperties DEF SetSignum, TypeOK
<1>8. Head(frames[p]).signal.sig \in Sig
  BY <1>2 DEF Signal
<1>3. ASSUME Head(frames[p]).next # N
      PROVE  [Head(frames[p]) EXCEPT !.next = Head(frames[p]).next + 1] \in Frame
  BY <1>1, <1>2, <1>3 DEF Frame, Child
<1>4. \A s \in Seq(Frame) :
         [frames EXCEPT ![p] = s] \in [Process -> Seq(Frame)]
  BY DEF TypeOK
<1>5. ASSUME Head(frames[p]).next = N
      PROVE  frames' \in [Process -> Seq(Frame)]
  <2>1. frames' = [frames EXCEPT ![p] = Tail(frames[p])]
    BY <1>5 DEF SetSignum
  <2>. QED  BY <1>1, <1>4, <2>1
<1>6. ASSUME Head(frames[p]).next # N
      PROVE  frames' \in [Process -> Seq(Frame)]
  <2>. DEFINE g == [Head(frames[p]) EXCEPT !.next = Head(frames[p]).next + 1]
  <2>1. frames' = [frames EXCEPT ![p] = <<g>> \o Tail(frames[p])]
    BY <1>6 DEF SetSignum
  <2>2. g \in Frame
    BY <1>3, <1>6
  <2>3. <<g>> \o Tail(frames[p]) \in Seq(Frame)
    BY <1>1, <2>2, PushProperties
  <2>. QED  BY <1>4, <2>1, <2>3
<1>7. frames' \in [Process -> Seq(Frame)]
  BY <1>5, <1>6
<1>. QED  BY <1>1, <1>2, <1>3, <1>7, <1>8

LEMMA ServeType ==
  ASSUME TypeOK, NEW c \in Child, Serve(c)
  PROVE  TypeOK'
<1>. USE DEF TypeOK, Go, Place, hubVars, Owed
<1>1. CASE SetSignum(c)
  BY <1>1, SetSignumFrame DEF SetSignum, Written, childVars, Process
<1>2. CASE Subscribe(c)  BY <1>2 DEF Subscribe, Process
<1>3. CASE Look(c)
  <2>1. {told[c].id} \ {NoId} \subseteq 1 .. MaxSignals
    BY DEF Signal, NoSignal, NoId
  <2>2. read' \in [Child -> SUBSET (1 .. MaxSignals)]
    BY <1>3, <2>1 DEF Look
  <2>. QED  BY <1>3, <2>2 DEF Look
<1>4. CASE Handle(c)  BY <1>4 DEF Handle, Kept
<1>5. CASE Clear(c)  BY <1>5 DEF Clear
<1>6. CASE EndStep(c)  BY <1>6 DEF EndStep
<1>. QED  BY <1>1, <1>2, <1>3, <1>4, <1>5, <1>6 DEF Serve

LEMMA DiesType ==
  ASSUME TypeOK, NEW c \in Child, Dies(c), stuck' \subseteq Child,
         crashes' \in 0 .. MaxCrashes
  PROVE  TypeOK'
<1>1. owed' \in [Child -> Owed]
  BY DEF Dies, TypeOK, Kept, Owed
<1>2. frames' \in [Process -> Seq(Frame)]
  BY StackProperties DEF Dies, TypeOK, Process
<1>3. mixed' \in BOOLEAN
  BY DEF Dies, TypeOK
<1>. QED  BY <1>1, <1>2, <1>3 DEF Dies, TypeOK, Place, Process

LEMMA ProcessType ==
  ASSUME TypeOK, NEW c \in Child, Crash(c) \/ KillNumb(c) \/ Restart(c)
  PROVE  TypeOK'
<1>1. CASE Crash(c)
  <2>1. \A k \in Accessing(c) : k \in Child
    <3>1. frames[c] # <<>> => Head(frames[c]).next \in Child
      BY StackProperties DEF TypeOK, Process
    <3>. QED  BY <3>1 DEF Accessing
  <2>2. stuck' \subseteq Child
    BY <1>1, <2>1 DEF Crash, TypeOK
  <2>3. crashes' \in 0 .. MaxCrashes
    BY <1>1 DEF Crash, TypeOK
  <2>. QED  BY <1>1, <2>2, <2>3, DiesType DEF Crash
<1>2. CASE KillNumb(c)
  BY <1>2, DiesType DEF KillNumb, TypeOK
<1>3. CASE Restart(c)
  BY <1>3 DEF Restart, Go, TypeOK, Place, hubVars
<1>. QED  BY <1>1, <1>2, <1>3

LEMMA HubType ==
  ASSUME TypeOK, SetSignum(Hub)
  PROVE  TypeOK'
<1>1. Hub \in Process  BY DEF Process
<1>. QED  BY <1>1, SetSignumFrame DEF SetSignum, Written, childVars, TypeOK, Owed

LEMMA TypeStep == TypeOK /\ [Next]_vars => TypeOK'
<1>1. ASSUME TypeOK, Next
      PROVE  TypeOK'
  BY <1>1, SendType, BeginType, ServeType, ProcessType, HubType DEF Next, Process
<1>2. ASSUME TypeOK, UNCHANGED vars
      PROVE  TypeOK'
  BY <1>2 DEF TypeOK, vars
<1>. QED  BY <1>1, <1>2

\* The shared integers, the handlers under way and the services keep their types.
\* (ProcessHub._set_signums(), SoftIrqService._on_signum())
THEOREM RelayTypeCorrect == Spec => []TypeOK
  BY InitType, TypeStep, PTL DEF Spec
-----------------------------------------------------------------------------
(* The window between reading and clearing.                                *)

LEMMA InitWindow == Init => WindowInv
  BY DEF Init, WindowInv, LastSignalStays, InWindow

\* An integer is written.
LEMMA SetSignumWindow ==
  ASSUME TypeOK, WindowInv, NEW p \in Process, SetSignum(p)
  PROVE  WindowInv'
<1>. DEFINE k == Head(frames[p]).next
            x == Head(frames[p]).signal
<1>1. k \in Child /\ x \in Signal /\ x.sig \in Sig
  BY SetSignumFrame
<1>2. /\ signums' = [signums EXCEPT ![k] = x.sig]
      /\ told' = [told EXCEPT ![k] = x]
      /\ owed' = [owed EXCEPT ![k] = Written(k)]
      /\ place' = place
  BY DEF SetSignum, childVars
<1>3. x.sig # NoSig
  BY <1>1 DEF Sig, SIGHUP, SIGUSR1, NoSig
<1>. HIDE DEF k, x
<1>. QED  BY <1>1, <1>2, <1>3 DEF WindowInv, LastSignalStays, InWindow, Written, TypeOK

LEMMA ServiceWindow ==
  ASSUME TypeOK, WindowInv, NEW c \in Child,
         Subscribe(c) \/ Look(c) \/ Handle(c) \/ Clear(c) \/ EndStep(c) \/ Restart(c)
  PROVE  WindowInv'
<1>. USE DEF WindowInv, LastSignalStays, InWindow, TypeOK, Go, hubVars
<1>1. CASE Subscribe(c)  BY <1>1 DEF Subscribe
<1>2. CASE Look(c)  BY <1>2 DEF Look
<1>3. CASE Handle(c)  BY <1>3 DEF Handle, Kept
<1>4. CASE Clear(c)  BY <1>4 DEF Clear
<1>5. CASE EndStep(c)  BY <1>5 DEF EndStep
<1>6. CASE Restart(c)  BY <1>6 DEF Restart
<1>. QED  BY <1>1, <1>2, <1>3, <1>4, <1>5, <1>6

LEMMA DiesWindow ==
  ASSUME TypeOK, WindowInv, NEW c \in Child, Dies(c)
  PROVE  WindowInv'
  BY DEF WindowInv, LastSignalStays, InWindow, TypeOK, Dies, Kept

LEMMA WindowStep == TypeOK /\ WindowInv /\ [Next]_vars => WindowInv'
<1>. SUFFICES ASSUME TypeOK, WindowInv, [Next]_vars
              PROVE  WindowInv'
  OBVIOUS
<1>1. ASSUME NEW s \in Sig, NEW toGroup \in BOOLEAN, Send(s, toGroup)
      PROVE  WindowInv'
  BY <1>1 DEF Send, childVars, WindowInv, LastSignalStays, InWindow
<1>6. ASSUME NEW p \in Process, NEW x \in Signal, BeginHandler(p, x)
      PROVE  WindowInv'
  BY <1>6 DEF BeginHandler, childVars, WindowInv, LastSignalStays, InWindow
<1>2. CASE SetSignum(Hub)
  BY <1>2, SetSignumWindow DEF Process
<1>3. ASSUME NEW c \in Child, Serve(c) \/ Restart(c)
      PROVE  WindowInv'
  BY <1>3, SetSignumWindow, ServiceWindow DEF Serve, Process
<1>4. ASSUME NEW c \in Child, Crash(c) \/ KillNumb(c)
      PROVE  WindowInv'
  BY <1>4, DiesWindow DEF Crash, KillNumb
<1>5. CASE UNCHANGED vars
  BY <1>5 DEF vars, WindowInv, LastSignalStays, InWindow
<1>. QED  BY <1>1, <1>2, <1>3, <1>4, <1>5, <1>6 DEF Next, Process

LEMMA WindowCorrect == Spec => []WindowInv
  BY InitWindow, RelayTypeCorrect, WindowStep, PTL DEF Spec

\* The last signal written while the child is not between reading and clearing its
\* integer stays until the child has read it.  (_on_signum())
THEOREM LastSignalStaysCorrect == Spec => []LastSignalStays
  BY WindowCorrect, PTL DEF WindowInv

-----------------------------------------------------------------------------
(* No service reads a signal twice.                                        *)

\* The places of a stack on which a handler is put.
LEMMA PushIndices ==
  ASSUME NEW s \in Seq(Frame), NEW f \in Frame,
         NEW i \in DOMAIN (<<f>> \o s)
  PROVE  /\ i \in Nat \ {0}
         /\ i = 1 => (<<f>> \o s)[i] = f
         /\ i # 1 => i - 1 \in DOMAIN s /\ (<<f>> \o s)[i] = s[i - 1]
<1>1. <<f>> \in Seq(Frame) /\ Len(<<f>>) = 1 /\ <<f>>[1] = f
  OBVIOUS
<1>2. <<f>> \o s \in Seq(Frame) /\ Len(<<f>> \o s) = 1 + Len(s)
  BY <1>1, ConcatProperties
<1>3. Len(s) \in Nat /\ DOMAIN s = 1 .. Len(s)
  BY LenProperties
<1>4. DOMAIN (<<f>> \o s) = 1 .. 1 + Len(s)
  BY <1>2, LenProperties
<1>5. \A j \in 1 .. 1 + Len(s) : (<<f>> \o s)[j] = IF j <= 1 THEN f ELSE s[j - 1]
  BY <1>1, ConcatProperties
<1>. QED  BY <1>3, <1>4, <1>5

\* The places of a stack from which the innermost handler is taken.
LEMMA TailIndices ==
  ASSUME NEW s \in Seq(Frame), s # <<>>
  PROVE  /\ 1 \in DOMAIN s /\ s[1] = Head(s)
         /\ \A i \in DOMAIN Tail(s) :
              /\ i \in Nat \ {0}
              /\ i + 1 \in DOMAIN s
              /\ Tail(s)[i] = s[i + 1]
<1>1. /\ Tail(s) \in Seq(Frame)
      /\ Len(Tail(s)) = Len(s) - 1
      /\ \A i \in 1 .. Len(Tail(s)) : Tail(s)[i] = s[i + 1]
      /\ Head(s) = s[1]
  BY HeadTailProperties
<1>2. Len(s) \in Nat \ {0} /\ DOMAIN s = 1 .. Len(s)
  BY LenProperties, EmptySeq
<1>3. DOMAIN Tail(s) = 1 .. Len(s) - 1
  BY <1>1, LenProperties
<1>. QED  BY <1>1, <1>2, <1>3

\* A step of a handler leaves every other one as it is, with its signal, and its own
\* with one service less to tell.
LEMMA SetSignumStack ==
  ASSUME TypeOK, NEW p \in Process, SetSignum(p)
  PROVE  /\ 1 \in DOMAIN frames[p] /\ frames[p][1] = Head(frames[p])
         /\ \E d \in {0, 1} : \A i \in DOMAIN frames'[p] :
              /\ i \in Nat \ {0}
              /\ i + d \in DOMAIN frames[p]
              /\ frames'[p][i].signal = frames[p][i + d].signal
              /\ frames'[p][i].next \in Child
              /\ frames'[p][i].next >= frames[p][i + d].next
              /\ i + d = 1 => frames'[p][i].next > Head(frames[p]).next
         /\ \A q \in Process : q # p => frames'[q] = frames[q]
<1>. DEFINE s == frames[p]
            t == frames'[p]
            f == Head(s)
            g == [f EXCEPT !.next = f.next + 1]
<1>1. s \in Seq(Frame) /\ s # <<>>
  BY DEF SetSignum, TypeOK
<1>2. f \in Frame /\ f.next \in Child /\ Tail(s) \in Seq(Frame)
  BY SetSignumFrame
<1>3. 1 \in DOMAIN s /\ s[1] = f
  BY <1>1, TailIndices
<1>4. \A i \in DOMAIN Tail(s) :
        i \in Nat \ {0} /\ i + 1 \in DOMAIN s /\ Tail(s)[i] = s[i + 1]
  BY <1>1, TailIndices
<1>5. \A i \in DOMAIN s : s[i] \in Frame /\ s[i].next \in Child
  <2>. HIDE DEF s
  <2>1. \A i \in DOMAIN s : s[i] \in Frame
    BY <1>1, ElementOfSeq, LenProperties
  <2>. QED  BY <2>1 DEF Frame
<1>6. \A k, l \in Child : k \in Nat /\ (k = l => k >= l)
  BY DEF Child
<1>7. CASE f.next = N
  <2>1. t = Tail(s)
    BY <1>7 DEF SetSignum, TypeOK
  <2>2. ASSUME NEW i \in DOMAIN t
        PROVE  /\ i \in Nat \ {0}
               /\ i + 1 \in DOMAIN s
               /\ t[i].signal = s[i + 1].signal
               /\ t[i].next \in Child
               /\ t[i].next >= s[i + 1].next
               /\ i + 1 # 1
    BY <2>1, <1>4, <1>5, <1>6
  <2>3. \E d \in {0, 1} : \A i \in DOMAIN t :
              /\ i \in Nat \ {0}
              /\ i + d \in DOMAIN s
              /\ t[i].signal = s[i + d].signal
              /\ t[i].next \in Child
              /\ t[i].next >= s[i + d].next
              /\ i + d = 1 => t[i].next > f.next
    <3>. HIDE DEF s, t, f
    <3>. QED  BY <2>2
  <2>4. \A q \in Process : q # p => frames'[q] = frames[q]
    BY DEF SetSignum, TypeOK
  <2>. QED  BY <1>3, <2>3, <2>4
<1>8. CASE f.next # N
  <2>1. t = <<g>> \o Tail(s)
    BY <1>8 DEF SetSignum, TypeOK
  <2>2. /\ g \in Frame /\ g.signal = f.signal /\ g.next = f.next + 1
        /\ g.next \in Child /\ g.next > f.next /\ g.next >= f.next
    BY <1>2, <1>8, SetSignumFrame DEF Frame, Child
  <2>3. ASSUME NEW i \in DOMAIN t
        PROVE  /\ i \in Nat \ {0}
               /\ i = 1 => t[i] = g
               /\ i # 1 => i - 1 \in DOMAIN Tail(s) /\ t[i] = Tail(s)[i - 1]
    BY <1>2, <2>1, <2>2, PushIndices
  <2>4. ASSUME NEW i \in DOMAIN t
        PROVE  /\ i \in Nat \ {0}
               /\ i \in DOMAIN s
               /\ t[i].signal = s[i].signal
               /\ t[i].next \in Child
               /\ t[i].next >= s[i].next
               /\ i = 1 => t[i].next > f.next
    <3>. HIDE DEF t, s, f, g
    <3>1. CASE i = 1
      BY <1>3, <2>2, <2>3, <3>1
    <3>2. CASE i # 1
      <4>1. i - 1 \in DOMAIN Tail(s) /\ t[i] = Tail(s)[i - 1] /\ i \in Nat
        BY <2>3, <3>2
      <4>2. (i - 1) + 1 = i
        BY <4>1
      <4>3. i \in DOMAIN s /\ t[i] = s[i]
        BY <1>4, <4>1, <4>2
      <4>. QED  BY <1>5, <1>6, <2>3, <3>2, <4>3
    <3>. QED  BY <3>1, <3>2
  <2>5. \E d \in {0, 1} : \A i \in DOMAIN t :
              /\ i \in Nat \ {0}
              /\ i + d \in DOMAIN s
              /\ t[i].signal = s[i + d].signal
              /\ t[i].next \in Child
              /\ t[i].next >= s[i + d].next
              /\ i + d = 1 => t[i].next > f.next
    <3>. HIDE DEF s, t, f
    <3>1. \A i \in Nat : i + 0 = i
      OBVIOUS
    <3>. QED  BY <2>4, <3>1
  <2>6. \A q \in Process : q # p => frames'[q] = frames[q]
    BY DEF SetSignum, TypeOK
  <2>. QED  BY <1>3, <2>5, <2>6
<1>. QED  BY <1>7, <1>8

LEMMA InitOnce == Init => OnceInv
<1>1. DOMAIN <<>> = {}
  OBVIOUS
<1>. QED
  BY <1>1 DEF Init, OnceInv, BoundInv, PendingInv, HandlerInv, GroupInv, UnreadInv,
              New, Known, NoSignal, NoId, Process

\* A signal that only the hub will handle gets a number that nothing has yet.
LEMMA SendOnce ==
  ASSUME TypeOK, OnceInv, NEW s \in Sig, NEW toGroup \in BOOLEAN, Send(s, toGroup)
  PROVE  OnceInv'
<1>. DEFINE reached == Reached(toGroup)
            new == [sig |-> s, id |-> IF reached = {Hub} THEN sent + 1 ELSE NoId]
<1>1. /\ frames' = frames /\ told' = told /\ read' = read /\ owed' = owed
      /\ sent' = sent + 1 /\ sent \in Nat
  BY DEF Send, childVars, TypeOK
<1>2. /\ Hub \in Process /\ \A c \in Child : c \in Process /\ c # Hub
  BY DEF Process, Child, Hub
<1>3. \A x \in pending'[Hub] : x \in pending[Hub] \/ x = new
  BY <1>2 DEF Send
<1>4. ASSUME NEW c \in Child, NEW x \in pending'[c]
      PROVE  x.id = NoId
  <2>1. CASE c \in reached
    <3>1. new.id = NoId
      BY <1>2, <2>1
    <3>2. x \in pending[c] \/ x = new
      BY <1>2, <1>4 DEF Send
    <3>. QED  BY <3>1, <3>2 DEF OnceInv, GroupInv
  <2>2. CASE c \notin reached
    BY <1>2, <1>4, <2>2 DEF Send, OnceInv, GroupInv
  <2>. QED  BY <2>1, <2>2
<1>5. new.id = NoId \/ new.id = sent + 1
  OBVIOUS
<1>6. /\ \A x \in pending[Hub] : x.id \in Nat /\ x.id <= sent
      /\ \A i \in DOMAIN frames[Hub] :
           frames[Hub][i].signal.id \in Nat /\ frames[Hub][i].signal.id <= sent
      /\ \A c \in Child : told[c].id \in Nat /\ told[c].id <= sent
      /\ \A c \in Child : \A n \in read[c] : n \in Nat /\ n <= sent
  <2>1. \A x \in pending[Hub] : x.id \in Nat
    BY <1>2 DEF TypeOK, Signal
  <2>2. \A i \in DOMAIN frames[Hub] : frames[Hub][i].signal.id \in Nat
    <3>1. frames[Hub] \in Seq(Frame)
      BY <1>2 DEF TypeOK
    <3>2. \A i \in DOMAIN frames[Hub] : frames[Hub][i] \in Frame
      BY <3>1, ElementOfSeq, LenProperties
    <3>. QED  BY <3>2 DEF Frame, Signal
  <2>3. \A c \in Child : told[c].id \in Nat
    BY DEF TypeOK, Signal, NoSignal, NoId
  <2>4. \A c \in Child : \A n \in read[c] : n \in Nat
    BY DEF TypeOK
  <2>. QED  BY <2>1, <2>2, <2>3, <2>4 DEF OnceInv, BoundInv
<1>. HIDE DEF new
<1>7. BoundInv'
  <2>1. \A n \in Nat : n <= sent => n <= sent + 1
    BY <1>1
  <2>2. \A x \in pending'[Hub] : x.id <= sent + 1
    BY <1>1, <1>3, <1>5, <1>6, <2>1 DEF NoId
  <2>. QED  BY <1>1, <1>6, <2>1, <2>2 DEF BoundInv
<1>8. PendingInv'
  <2>1. \A c \in Child : New(new, Known(c)')
    BY <1>1, <1>5, <1>6 DEF New, Known
  <2>2. \A x \in pending[Hub] : Apart(x, new) /\ Apart(new, x)
    BY <1>1, <1>5, <1>6 DEF Apart
  <2>3. \A i \in DOMAIN frames[Hub] : Apart(new, frames[Hub][i].signal)
    BY <1>1, <1>5, <1>6 DEF Apart
  <2>4. \A x \in pending[Hub] : \A c \in Child : New(x, Known(c)')
    BY <1>1 DEF New, Known, OnceInv, PendingInv
  <2>. QED
    BY <1>1, <1>3, <2>1, <2>2, <2>3, <2>4 DEF PendingInv, OnceInv, Apart
<1>9. HandlerInv'
  BY <1>1 DEF OnceInv, HandlerInv, New, Known, Apart
<1>10. GroupInv'
  BY <1>1, <1>4 DEF OnceInv, GroupInv
<1>11. UnreadInv'
  BY <1>1 DEF OnceInv, UnreadInv
<1>. QED  BY <1>7, <1>8, <1>9, <1>10, <1>11 DEF OnceInv

\* A pending signal becomes that of the innermost handler of the hub, or of a child.
LEMMA BeginOnce ==
  ASSUME TypeOK, OnceInv, NEW p \in Process, NEW x \in Signal, BeginHandler(p, x)
  PROVE  OnceInv'
<1>. DEFINE f == [signal |-> x, next |-> 1]
<1>1. /\ told' = told /\ read' = read /\ owed' = owed /\ sent' = sent
      /\ x \in pending[p]
      /\ pending' = [pending EXCEPT ![p] = @ \ {x}]
      /\ frames' = [frames EXCEPT ![p] = <<f>> \o @]
  BY DEF BeginHandler, childVars
<1>2. f \in Frame /\ f.signal = x /\ f.next = 1
  BY DEF Frame, Child
<1>3. /\ Hub \in Process /\ \A c \in Child : c \in Process /\ c # Hub
  BY DEF Process, Child, Hub
<1>4. ASSUME NEW i \in DOMAIN frames'[p]
      PROVE  /\ i \in Nat \ {0}
             /\ i = 1 => frames'[p][i] = f
             /\ i # 1 => i - 1 \in DOMAIN frames[p] /\ frames'[p][i] = frames[p][i - 1]
  <2>1. frames'[p] = <<f>> \o frames[p] /\ frames[p] \in Seq(Frame)
    BY <1>1 DEF TypeOK
  <2>. HIDE DEF f
  <2>. QED  BY <1>2, <2>1, PushIndices
<1>5. \A q \in Process : q # p => frames'[q] = frames[q] /\ pending'[q] = pending[q]
  BY <1>1 DEF TypeOK
<1>6. \A q \in Process : \A y \in pending'[q] : y \in pending[q]
  BY <1>1 DEF TypeOK
<1>7. x \notin pending'[p]
  BY <1>1 DEF TypeOK
<1>. HIDE DEF f
<1>8. CASE p = Hub
  <2>1. BoundInv'
    <3>1. \A i \in DOMAIN frames'[Hub] : frames'[Hub][i].signal.id <= sent
      BY <1>1, <1>2, <1>4, <1>8 DEF OnceInv, BoundInv
    <3>. QED  BY <1>1, <1>3, <1>6, <3>1 DEF OnceInv, BoundInv
  <2>2. PendingInv'
    <3>1. ASSUME NEW y \in pending'[Hub], NEW i \in DOMAIN frames'[Hub]
          PROVE  Apart(y, frames'[Hub][i].signal)
      <4>1. y \in pending[Hub] /\ y # x
        BY <1>3, <1>6, <1>7, <1>8
      <4>2. Apart(y, x)
        BY <1>1, <1>8, <4>1 DEF OnceInv, PendingInv
      <4>. QED  BY <1>2, <1>4, <1>8, <4>1, <4>2 DEF OnceInv, PendingInv
    <3>2. \A y \in pending'[Hub] : \A c \in Child : New(y, Known(c)')
      BY <1>1, <1>3, <1>6 DEF OnceInv, PendingInv, New, Known
    <3>3. \A y, z \in pending'[Hub] : y = z \/ Apart(y, z)
      BY <1>3, <1>6 DEF OnceInv, PendingInv
    <3>. QED  BY <3>1, <3>2, <3>3 DEF PendingInv, Apart
  <2>3. HandlerInv'
    <3>1. \A c \in Child : New(x, Known(c)')
      BY <1>1, <1>8 DEF OnceInv, PendingInv, New, Known
    <3>2. \A i \in DOMAIN frames[Hub] :
            Apart(x, frames[Hub][i].signal) /\ Apart(frames[Hub][i].signal, x)
      BY <1>1, <1>8 DEF OnceInv, PendingInv, Apart
    <3>3. ASSUME NEW i \in DOMAIN frames'[Hub], NEW c \in Child, c >= frames'[Hub][i].next
          PROVE  New(frames'[Hub][i].signal, Known(c)')
      <4>1. CASE i = 1
        BY <1>2, <1>4, <1>8, <3>1, <4>1
      <4>2. CASE i # 1
        <5>1. i - 1 \in DOMAIN frames[Hub] /\ frames'[Hub][i] = frames[Hub][i - 1]
          BY <1>4, <1>8, <4>2
        <5>2. New(frames[Hub][i - 1].signal, Known(c))
          BY <3>3, <5>1 DEF OnceInv, HandlerInv
        <5>. QED  BY <1>1, <5>1, <5>2 DEF New, Known
      <4>. QED  BY <4>1, <4>2
    <3>4. ASSUME NEW i \in DOMAIN frames'[Hub], NEW j \in DOMAIN frames'[Hub], i # j
          PROVE  Apart(frames'[Hub][i].signal, frames'[Hub][j].signal)
      <4>1. CASE i = 1
        BY <1>2, <1>4, <1>8, <3>2, <3>4, <4>1
      <4>2. CASE j = 1
        BY <1>2, <1>4, <1>8, <3>2, <3>4, <4>2
      <4>3. CASE i # 1 /\ j # 1
        <5>1. /\ i - 1 \in DOMAIN frames[Hub] /\ frames'[Hub][i] = frames[Hub][i - 1]
              /\ j - 1 \in DOMAIN frames[Hub] /\ frames'[Hub][j] = frames[Hub][j - 1]
          BY <1>4, <1>8, <4>3
        <5>2. i - 1 # j - 1
          BY <1>4, <1>8, <3>4
        <5>. QED  BY <5>1, <5>2 DEF OnceInv, HandlerInv
      <4>. QED  BY <4>1, <4>2, <4>3
    <3>. QED  BY <3>3, <3>4 DEF HandlerInv
  <2>4. GroupInv'
    BY <1>3, <1>5, <1>8 DEF OnceInv, GroupInv
  <2>. QED  BY <1>1, <2>1, <2>2, <2>3, <2>4 DEF OnceInv, UnreadInv
<1>9. CASE p # Hub
  <2>1. x.id = NoId
    BY <1>1, <1>9 DEF OnceInv, GroupInv, Process
  <2>2. frames'[Hub] = frames[Hub] /\ pending'[Hub] = pending[Hub]
    BY <1>3, <1>5, <1>9
  <2>3. GroupInv'
    <3>1. \A c \in Child : \A y \in pending'[c] : y.id = NoId
      BY <1>3, <1>6 DEF OnceInv, GroupInv
    <3>2. ASSUME NEW c \in Child, NEW i \in DOMAIN frames'[c]
          PROVE  frames'[c][i].signal.id = NoId
      <4>1. CASE c = p
        BY <1>2, <1>4, <2>1, <4>1 DEF OnceInv, GroupInv
      <4>2. CASE c # p
        BY <1>3, <1>5, <4>2 DEF OnceInv, GroupInv
      <4>. QED  BY <4>1, <4>2
    <3>. QED  BY <3>1, <3>2 DEF GroupInv
  <2>4. BoundInv' /\ PendingInv' /\ HandlerInv' /\ UnreadInv'
    BY <1>1, <2>2 DEF OnceInv, BoundInv, PendingInv, HandlerInv, UnreadInv, Known
  <2>. QED  BY <2>3, <2>4 DEF OnceInv
<1>. QED  BY <1>8, <1>9

\* The hub writes a signal for the next service: one that is new to it.
LEMMA HubSetsOnce ==
  ASSUME TypeOK, OnceInv, SetSignum(Hub)
  PROVE  OnceInv'
<1>. DEFINE s == frames[Hub]
            t == frames'[Hub]
            k == Head(s).next
            x == Head(s).signal
<1>1. Hub \in Process /\ \A c \in Child : c \in Process /\ c # Hub
  BY DEF Process, Child, Hub
<1>2. k \in Child /\ x \in Signal /\ \A c \in Child : c \in Nat
  <2>1. k \in Child /\ x \in Signal
    BY <1>1, SetSignumFrame
  <2>2. \A c \in Child : c \in Nat
    BY DEF Child
  <2>. QED  BY <2>1, <2>2
<1>3. /\ told' = [told EXCEPT ![k] = x]
      /\ owed' = [owed EXCEPT ![k] = Written(k)]
      /\ read' = read /\ pending' = pending /\ sent' = sent
  BY DEF SetSignum, childVars
<1>4. 1 \in DOMAIN s /\ s[1] = Head(s) /\ s[1].signal = x /\ s[1].next = k
  BY <1>1, SetSignumStack
<1>5. PICK d \in {0, 1} : \A i \in DOMAIN t :
              /\ i \in Nat \ {0}
              /\ i + d \in DOMAIN s
              /\ t[i].signal = s[i + d].signal
              /\ t[i].next \in Child
              /\ t[i].next >= s[i + d].next
              /\ i + d = 1 => t[i].next > k
  BY <1>1, SetSignumStack
<1>6. \A c \in Child : frames'[c] = frames[c]
  BY <1>1, SetSignumStack
<1>7. told'[k] = x /\ \A c \in Child : c # k => told'[c] = told[c]
  BY <1>2, <1>3 DEF TypeOK
<1>8. \A i \in DOMAIN s : s[i].next \in Nat
  <2>1. s \in Seq(Frame)
    BY <1>1 DEF TypeOK
  <2>2. \A i \in DOMAIN s : s[i] \in Frame
    BY <2>1, ElementOfSeq, LenProperties
  <2>. QED  BY <2>2 DEF Frame, Child
<1>9. New(x, Known(k))
  BY <1>2, <1>4 DEF OnceInv, HandlerInv
<1>. HIDE DEF s, t, k, x
<1>10. BoundInv'
  <2>1. x.id <= sent /\ \A i \in DOMAIN t : t[i].signal.id <= sent
    BY <1>4, <1>5 DEF OnceInv, BoundInv, s
  <2>. QED  BY <1>3, <1>7, <2>1 DEF OnceInv, BoundInv, t
<1>11. PendingInv'
  <2>1. ASSUME NEW y \in pending[Hub], NEW c \in Child
        PROVE  New(y, Known(c)')
    <3>1. Apart(y, x) /\ New(y, Known(c))
      BY <1>4 DEF OnceInv, PendingInv, s
    <3>. QED  BY <1>3, <1>7, <3>1 DEF New, Known, Apart
  <2>2. \A y \in pending[Hub] : \A i \in DOMAIN t : Apart(y, t[i].signal)
    BY <1>5 DEF OnceInv, PendingInv, s, Apart
  <2>. QED  BY <1>3, <2>1, <2>2 DEF OnceInv, PendingInv, Apart, t
<1>12. HandlerInv'
  <2>1. ASSUME NEW i \in DOMAIN t, NEW c \in Child, c >= t[i].next
        PROVE  New(t[i].signal, Known(c)')
    <3>1. i + d \in DOMAIN s /\ t[i].signal = s[i + d].signal
      BY <1>5
    <3>2. c >= s[i + d].next
      <4>1. t[i].next \in Nat /\ s[i + d].next \in Nat /\ c \in Nat
        BY <1>2, <1>5, <1>8, <3>1
      <4>2. t[i].next >= s[i + d].next
        BY <1>5
      <4>. QED  BY <2>1, <4>1, <4>2
    <3>3. New(s[i + d].signal, Known(c))
      BY <3>1, <3>2 DEF OnceInv, HandlerInv, s
    <3>4. CASE c # k
      BY <1>3, <1>7, <3>1, <3>3, <3>4 DEF New, Known
    <3>5. CASE c = k
      <4>1. i + d # 1
        <5>1. t[i].next \in Nat /\ k \in Nat
          BY <1>2, <1>5
        <5>2. ~(t[i].next > k)
          BY <2>1, <3>5, <5>1
        <5>. QED  BY <1>5, <5>2
      <4>2. Apart(s[i + d].signal, s[1].signal)
        BY <1>4, <3>1, <4>1 DEF OnceInv, HandlerInv, s
      <4>. QED  BY <1>3, <1>4, <1>7, <3>1, <3>3, <3>5, <4>2 DEF New, Known, Apart
    <3>. QED  BY <3>4, <3>5
  <2>2. ASSUME NEW i \in DOMAIN t, NEW j \in DOMAIN t, i # j
        PROVE  Apart(t[i].signal, t[j].signal)
    <3>1. i + d # j + d
      BY <1>5, <2>2
    <3>2. Apart(s[i + d].signal, s[j + d].signal)
      BY <1>5, <3>1 DEF OnceInv, HandlerInv, s
    <3>. QED  BY <1>5, <3>2
  <2>. QED  BY <2>1, <2>2 DEF HandlerInv, t
<1>13. GroupInv'
  BY <1>3, <1>6 DEF OnceInv, GroupInv
<1>14. UnreadInv'
  BY <1>2, <1>3, <1>7, <1>9 DEF OnceInv, UnreadInv, New, Known, TypeOK
<1>. QED  BY <1>10, <1>11, <1>12, <1>13, <1>14 DEF OnceInv

\* A booting child writes a signal without a number.
LEMMA ChildSetsOnce ==
  ASSUME TypeOK, OnceInv, NEW p \in Child, SetSignum(p)
  PROVE  OnceInv'
<1>. DEFINE s == frames[p]
            k == Head(s).next
            x == Head(s).signal
<1>1. Hub \in Process /\ \A c \in Child : c \in Process /\ c # Hub
  BY DEF Process, Child, Hub
<1>2. k \in Child /\ x \in Signal
  BY <1>1, SetSignumFrame
<1>3. /\ told' = [told EXCEPT ![k] = x]
      /\ owed' = [owed EXCEPT ![k] = Written(k)]
      /\ read' = read /\ pending' = pending /\ sent' = sent /\ sent \in Nat
  BY DEF SetSignum, childVars, TypeOK
<1>4. 1 \in DOMAIN s /\ s[1] = Head(s)
  BY <1>1, SetSignumStack
<1>5. x.id = NoId
  BY <1>4 DEF OnceInv, GroupInv
<1>6. \A i \in DOMAIN frames'[p] : frames'[p][i].signal.id = NoId
  <2>1. PICK d \in {0, 1} : \A i \in DOMAIN frames'[p] :
           i + d \in DOMAIN s /\ frames'[p][i].signal = s[i + d].signal
    BY <1>1, SetSignumStack
  <2>. QED  BY <2>1 DEF OnceInv, GroupInv
<1>7. \A q \in Process : q # p => frames'[q] = frames[q]
  BY <1>1, SetSignumStack
<1>8. told'[k] = x /\ \A c \in Child : c # k => told'[c] = told[c]
  BY <1>2, <1>3 DEF TypeOK
<1>. HIDE DEF s, k, x
<1>9. frames'[Hub] = frames[Hub]
  BY <1>1, <1>7
<1>10. \A c \in Child : \A y : New(y, Known(c)) => New(y, Known(c)')
  BY <1>3, <1>5, <1>8 DEF New, Known
<1>11. BoundInv'
  BY <1>3, <1>5, <1>8, <1>9 DEF OnceInv, BoundInv, NoId
<1>12. PendingInv'
  <2>1. \A y \in pending[Hub] : \A c \in Child : New(y, Known(c)')
    BY <1>10 DEF OnceInv, PendingInv
  <2>. QED  BY <1>3, <1>9, <2>1 DEF OnceInv, PendingInv, Apart
<1>13. HandlerInv'
  <2>1. \A i \in DOMAIN frames[Hub] : \A c \in Child :
           c >= frames[Hub][i].next => New(frames[Hub][i].signal, Known(c)')
    BY <1>3, <1>5, <1>8 DEF OnceInv, HandlerInv, New, Known
  <2>. QED  BY <1>3, <1>9, <2>1 DEF OnceInv, HandlerInv, Apart, New, Known
<1>14. GroupInv'
  <2>1. ASSUME NEW c \in Child, NEW i \in DOMAIN frames'[c]
        PROVE  frames'[c][i].signal.id = NoId
    <3>1. CASE c = p
      BY <1>6, <3>1
    <3>2. CASE c # p
      BY <1>1, <1>7, <3>2 DEF OnceInv, GroupInv
    <3>. QED  BY <3>1, <3>2
  <2>. QED  BY <1>3, <2>1 DEF OnceInv, GroupInv
<1>15. UnreadInv'
  BY <1>2, <1>3, <1>5, <1>8 DEF OnceInv, UnreadInv, TypeOK
<1>. QED  BY <1>11, <1>12, <1>13, <1>14, <1>15 DEF OnceInv

\* A service reads the signal it was told last, which is pending in no hub's handler
\* that has still to tell it.
LEMMA LookOnce ==
  ASSUME TypeOK, OnceInv, NEW c \in Child, Look(c)
  PROVE  OnceInv'
<1>1. /\ told' = told /\ pending' = pending /\ frames' = frames /\ sent' = sent
  BY DEF Look, hubVars
<1>2. \A d \in Child : \A n \in read'[d] :
         n \in read[d] \/ (d = c /\ n = told[c].id /\ n # NoId)
  BY DEF Look, TypeOK
<1>3. \A d \in Child :
         owed'[d] \in {"yes", "risk"} => owed[d] = owed'[d] /\ read'[d] = read[d]
  BY DEF Look, TypeOK
<1>4. \A d \in Child : \A y : New(y, Known(d)) => New(y, Known(d)')
  BY <1>1, <1>2 DEF New, Known
<1>5. BoundInv'
  BY <1>1, <1>2 DEF OnceInv, BoundInv
<1>6. PendingInv'
  BY <1>1, <1>2 DEF OnceInv, PendingInv, New, Known, Apart
<1>7. HandlerInv'
  BY <1>1, <1>2 DEF OnceInv, HandlerInv, New, Known, Apart
<1>8. GroupInv'
  BY <1>1 DEF OnceInv, GroupInv
<1>9. UnreadInv'
  BY <1>1, <1>2, <1>3 DEF OnceInv, UnreadInv
<1>. QED  BY <1>5, <1>6, <1>7, <1>8, <1>9 DEF OnceInv

\* Whatever else a service does tells it nothing and reads nothing.
LEMMA ServiceOnce ==
  ASSUME TypeOK, OnceInv, NEW c \in Child,
         \/ Subscribe(c) \/ Handle(c) \/ Clear(c) \/ EndStep(c) \/ Restart(c) \/ Dies(c)
  PROVE  OnceInv'
<1>1. Hub \in Process /\ \A d \in Child : d \in Process /\ d # Hub
  BY DEF Process, Child, Hub
<1>2. told' = told /\ read' = read /\ sent' = sent
  BY DEF Subscribe, Handle, Clear, EndStep, Restart, Dies, hubVars
<1>3. /\ pending'[Hub] = pending[Hub] /\ frames'[Hub] = frames[Hub]
      /\ \A d \in Child : /\ pending'[d] \in {pending[d], {}}
                          /\ frames'[d] \in {frames[d], <<>>}
  BY <1>1 DEF Subscribe, Handle, Clear, EndStep, Restart, Dies, hubVars, TypeOK
<1>4. ASSUME NEW d \in Child, owed'[d] \in {"yes", "risk"}
      PROVE  owed[d] \in {"yes", "risk"}
  <2>1. CASE owed' = owed
    BY <1>4, <2>1
  <2>2. CASE owed' = [owed EXCEPT ![c] = Kept(c)]
    BY <1>4, <2>2 DEF Kept, TypeOK
  <2>3. CASE owed' = [owed EXCEPT ![c] = IF @ = "risk" THEN "lost" ELSE @]
    BY <1>4, <2>3 DEF TypeOK
  <2>. QED
    BY <2>1, <2>2, <2>3 DEF Subscribe, Handle, Clear, EndStep, Restart, Dies
<1>5. DOMAIN <<>> = {}
  OBVIOUS
<1>6. BoundInv' /\ PendingInv' /\ HandlerInv'
  BY <1>2, <1>3 DEF OnceInv, BoundInv, PendingInv, HandlerInv, New, Known, Apart
<1>7. GroupInv'
  BY <1>3, <1>5 DEF OnceInv, GroupInv
<1>8. UnreadInv'
  BY <1>2, <1>4 DEF OnceInv, UnreadInv
<1>. QED  BY <1>6, <1>7, <1>8 DEF OnceInv

LEMMA OnceStep == TypeOK /\ OnceInv /\ [Next]_vars => OnceInv'
<1>. SUFFICES ASSUME TypeOK, OnceInv, [Next]_vars
              PROVE  OnceInv'
  OBVIOUS
<1>1. ASSUME NEW s \in Sig, NEW toGroup \in BOOLEAN, Send(s, toGroup)
      PROVE  OnceInv'
  BY <1>1, SendOnce
<1>2. ASSUME NEW p \in Process, NEW x \in Signal, BeginHandler(p, x)
      PROVE  OnceInv'
  BY <1>2, BeginOnce
<1>3. CASE SetSignum(Hub)
  BY <1>3, HubSetsOnce
<1>4. ASSUME NEW c \in Child, Serve(c) \/ Restart(c)
      PROVE  OnceInv'
  BY <1>4, ChildSetsOnce, LookOnce, ServiceOnce DEF Serve
<1>5. ASSUME NEW c \in Child, Crash(c) \/ KillNumb(c)
      PROVE  OnceInv'
  BY <1>5, ServiceOnce DEF Crash, KillNumb
<1>6. CASE UNCHANGED vars
  BY <1>6 DEF vars, OnceInv, BoundInv, PendingInv, HandlerInv, GroupInv, UnreadInv,
              New, Known, Apart
<1>. QED  BY <1>1, <1>2, <1>3, <1>4, <1>5, <1>6 DEF Next

LEMMA OnceCorrect == Spec => []OnceInv
  BY InitOnce, RelayTypeCorrect, OnceStep, PTL DEF Spec

\* A service reads no signal a second time, unless its handler raised, the process died
\* before it cleared the integer, or a booting child handled the signal too.
\* (_on_signum(), _set_signums())
THEOREM HandledOnceCorrect == Spec => []HandledOnce
<1>1. WindowInv /\ OnceInv => HandledOnce
  <2>. SUFFICES ASSUME WindowInv, OnceInv,
                       NEW c \in Child, signums[c] # NoSig, ~InWindow(c)
                PROVE  owed[c] = "redo" \/ (owed[c] = "yes" /\ told[c].id \notin read[c])
    BY DEF HandledOnce
  <2>1. owed[c] \in {"yes", "redo"}
    BY DEF WindowInv
  <2>. QED  BY <2>1 DEF OnceInv, UnreadInv
<1>. QED  BY <1>1, WindowCorrect, OnceCorrect, PTL

-----------------------------------------------------------------------------
(* All services are told the same.                                         *)

LEMMA InitSweep == Init => SweepInv
  BY DEF Init, SweepInv, SameSignalForAll

\* The only handler there is tells its signal to the next service.
LEMMA SetSignumSweep ==
  ASSUME TypeOK, SweepInv, NEW p \in Process, SetSignum(p)
  PROVE  SweepInv'
<1>. SUFFICES ASSUME ~mixed
              PROVE  /\ SameSignalForAll'
                     /\ \A q, r \in Process : frames'[q] # <<>> /\ frames'[r] # <<>> => q = r
                     /\ \A q \in Process : frames'[q] # <<>> =>
                          /\ Tail(frames'[q]) = <<>>
                          /\ \A c \in Child : c < Head(frames'[q]).next =>
                               told'[c] = Head(frames'[q]).signal
  BY DEF SweepInv, SetSignum
<1>. DEFINE f == Head(frames[p])
            g == [f EXCEPT !.next = f.next + 1]
<1>1. f \in Frame /\ f.next \in Child /\ f.signal \in Signal
  BY SetSignumFrame
<1>2. told' = [told EXCEPT ![f.next] = f.signal]
  BY DEF SetSignum
<1>3. /\ Tail(frames[p]) = <<>>
      /\ \A c \in Child : c < f.next => told[c] = f.signal
      /\ \A q \in Process : q # p => frames[q] = <<>>
  BY DEF SweepInv, SetSignum
<1>4. ASSUME NEW c \in Child, c < f.next + 1
      PROVE  told'[c] = f.signal
  <2>. HIDE DEF f
  <2>1. CASE c = f.next
    BY <1>1, <1>2, <2>1 DEF TypeOK
  <2>2. CASE c # f.next
    <3>1. c < f.next
      BY <1>1, <1>4, <2>2 DEF Child
    <3>. QED  BY <1>1, <1>2, <1>3, <2>2, <3>1 DEF TypeOK
  <2>. QED  BY <2>1, <2>2
<1>5. CASE f.next = N
  <2>1. \A q \in Process : frames'[q] = <<>>
    BY <1>3, <1>5 DEF SetSignum, TypeOK
  <2>2. \A c \in Child : told'[c] = f.signal
    BY <1>4, <1>5 DEF Child
  <2>. QED  BY <2>1, <2>2 DEF SameSignalForAll
<1>6. CASE f.next # N
  <2>1. g \in Frame /\ g.next = f.next + 1 /\ g.signal = f.signal
    BY <1>1, <1>6, SetSignumFrame DEF Frame
  <2>2. frames'[p] = <<g>> \o Tail(frames[p])
    BY <1>6 DEF SetSignum, TypeOK
  <2>3. frames'[p] # <<>> /\ Head(frames'[p]) = g /\ Tail(frames'[p]) = <<>>
    BY <1>3, <2>1, <2>2, PushProperties, StackProperties
  <2>4. \A q \in Process : q # p => frames'[q] = <<>>
    BY <1>3 DEF SetSignum, TypeOK
  <2>5. SameSignalForAll'
    BY <2>3 DEF SameSignalForAll
  <2>. QED  BY <1>4, <2>1, <2>3, <2>4, <2>5
<1>. QED  BY <1>5, <1>6

\* A handler begins while no other is under way.
LEMMA BeginSweep ==
  ASSUME TypeOK, NEW p \in Process, NEW x \in Signal, BeginHandler(p, x)
  PROVE  SweepInv'
<1>. SUFFICES ASSUME ~mixed'
              PROVE  SweepInv'
  BY DEF SweepInv
<1>. DEFINE f == [signal |-> x, next |-> 1]
<1>1. \A q \in Process : frames[q] = <<>>
  BY DEF BeginHandler
<1>2. f \in Frame /\ f.next = 1
  BY DEF Frame, Child
<1>3. frames'[p] = <<f>> \o <<>>
  BY <1>1 DEF BeginHandler, TypeOK
<1>4. frames'[p] # <<>> /\ Head(frames'[p]) = f /\ Tail(frames'[p]) = <<>>
  BY <1>2, <1>3, PushProperties, StackProperties
<1>5. \A q \in Process : q # p => frames'[q] = <<>>
  BY <1>1 DEF BeginHandler, TypeOK
<1>6. \A c \in Child : ~(c < 1)
  BY DEF Child
<1>7. SameSignalForAll'
  BY <1>4 DEF SameSignalForAll
<1>. QED  BY <1>2, <1>4, <1>5, <1>6, <1>7 DEF SweepInv

\* A process that dies in a handler leaves a mixture; any other has no handler.
LEMMA DiesSweep ==
  ASSUME TypeOK, SweepInv, NEW c \in Child, Dies(c)
  PROVE  SweepInv'
<1>. SUFFICES ASSUME ~mixed'
              PROVE  SweepInv'
  BY DEF SweepInv
<1>1. frames[c] = <<>> /\ ~mixed
  BY DEF Dies
<1>2. frames' = frames /\ told' = told
  BY <1>1 DEF Dies, TypeOK, Process
<1>. QED  BY <1>1, <1>2 DEF SweepInv, SameSignalForAll

LEMMA SweepStep == TypeOK /\ SweepInv /\ [Next]_vars => SweepInv'
<1>. SUFFICES ASSUME TypeOK, SweepInv, [Next]_vars
              PROVE  SweepInv'
  OBVIOUS
<1>. USE DEF hubVars, Process
<1>1. ASSUME NEW x \in Signal, NEW p \in Process, BeginHandler(p, x)
      PROVE  SweepInv'
  BY <1>1, BeginSweep
<1>2. ASSUME NEW c \in Process, SetSignum(c)
      PROVE  SweepInv'
  BY <1>2, SetSignumSweep
<1>3. ASSUME NEW c \in Child, Crash(c) \/ KillNumb(c)
      PROVE  SweepInv'
  BY <1>3, DiesSweep DEF Crash, KillNumb
<1>4. ASSUME UNCHANGED <<frames, told, mixed>>
      PROVE  SweepInv'
  BY <1>4 DEF SweepInv, SameSignalForAll
<1>5. ASSUME NEW s \in Sig, NEW toGroup \in BOOLEAN, Send(s, toGroup)
      PROVE  SweepInv'
  BY <1>4, <1>5 DEF Send
<1>6. ASSUME NEW c \in Child,
             Subscribe(c) \/ Look(c) \/ Handle(c) \/ Clear(c) \/ EndStep(c) \/ Restart(c)
      PROVE  SweepInv'
  BY <1>4, <1>6 DEF Subscribe, Look, Handle, Clear, EndStep, Restart
<1>7. CASE UNCHANGED vars
  BY <1>4, <1>7 DEF vars
<1>. QED  BY <1>1, <1>2, <1>3, <1>5, <1>6, <1>7 DEF Next, Serve

\* Unless handlers overlapped, all services were given the same signal.
\* (ProcessHub._set_signums())
THEOREM SameSignalForAllCorrect == Spec => []SameSignalForAll
<1>1. SweepInv => SameSignalForAll
  BY DEF SweepInv, SameSignalForAll
<1>. QED  BY <1>1, InitSweep, RelayTypeCorrect, SweepStep, PTL DEF Spec
=============================================================================
