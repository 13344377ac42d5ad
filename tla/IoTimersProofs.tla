---------------------------- MODULE IoTimersProofs ----------------------------
(***************************************************************************)
(* Proofs about timers used from several threads, for any number of them,  *)
(* any handlers and any times: the handler queue's own guarantees hold     *)
(* under such callers, and a cancel never overtakes the add it belongs to  *)
(* if only periodic handlers are cancelled and by other threads only.      *)
(***************************************************************************)
EXTENDS IoTimers, TimerQueueProofs

-----------------------------------------------------------------------------
(* Sequences of functors.                                                  *)
LEMMA AppendFacts ==
  ASSUME NEW S, NEW s \in Seq(S), NEW x \in S
  PROVE  LET t == Append(s, x) IN
         /\ t \in Seq(S)
         /\ Len(s) \in Nat /\ Len(t) = Len(s) + 1
         /\ DOMAIN s = 1 .. Len(s) /\ DOMAIN t = 1 .. Len(t)
         /\ \A n \in DOMAIN t :
              \/ n = Len(t) /\ t[n] = x
              \/ n \in DOMAIN s /\ t[n] = s[n]
OBVIOUS

LEMMA TailFacts ==
  ASSUME NEW S, NEW s \in Seq(S), s # <<>>
  PROVE  LET t == Tail(s) IN
         /\ t \in Seq(S)
         /\ Len(s) \in Nat \ {0} /\ Len(t) = Len(s) - 1
         /\ DOMAIN s = 1 .. Len(s) /\ DOMAIN t = 1 .. Len(t)
         /\ Head(s) = s[1] /\ 1 \in DOMAIN s /\ s[1] \in S
         /\ \A n \in DOMAIN t : n + 1 \in DOMAIN s /\ t[n] = s[n + 1]
OBVIOUS

-----------------------------------------------------------------------------
(* What is in flight after each kind of step.                              *)
LEMMA InFlightTyped ==
  ASSUME CallsTypeOK
  PROVE  /\ \A n \in DOMAIN pendingFunctors :
              /\ pendingFunctors[n] \in Functor
              /\ pendingFunctors[n] \in InFlight
         /\ \A c \in Clients : call[c] \in InFlight
         /\ \A f \in InFlight :
              \/ \E n \in DOMAIN pendingFunctors : f = pendingFunctors[n]
              \/ \E c \in Clients : f = call[c]
BY DEF CallsTypeOK, InFlight, Range

(* The two kinds of functors are told apart.                               *)
LEMMA FunctorKinds ==
  ASSUME NEW f
  PROVE  ~ (f \in AddFunctor /\ f \in CancelFunctor)
BY DEF AddFunctor, CancelFunctor

(* A new handler has an id nobody has, and a time that is due after some   *)
(* delay: what addHandler would be called with at once.                    *)
LEMMA NewHandlerFacts ==
  ASSUME TypeOK, NEW h \in NewHandlers
  PROVE  /\ h \in Handler
         /\ h.id \in Ids \ created
         /\ \E d \in CallDelays \cup Intervals : h.expiredTime = clock + d
<1>1. PICK id \in Ids \ created, r \in Requests :
        h = [id |-> id, expiredTime |-> clock + r.delay,
             interval |-> r.interval]
  BY DEF NewHandlers
<1>2. r.delay \in CallDelays \cup Intervals /\ r.interval \in Intervals
  BY DelaysAssumption DEF Requests
<1>3. clock \in Int
  BY TimeAssumption DEF TypeOK
<1>4. CallDelays \cup Intervals \subseteq Int
  BY TimeAssumption, DelaysAssumption
<1>5. clock + r.delay \in Int
  BY <1>2, <1>3, <1>4
<1>6. QED
  BY <1>1, <1>2, <1>5 DEF Handler

(* A handler that was timed at some earlier or later now comes to the      *)
(* handler queue with one of the delays of TimerQueue.                     *)
LEMMA InsertIsAdd ==
  ASSUME TypeOK, process = "running", UserCode,
         NEW h \in Handler, h.id \notin added,
         NEW d \in CallDelays \cup Intervals, NEW now \in 0 .. MaxTime,
         h.expiredTime = now + d,
         Insert(h), added' = added \cup {h.id},
         UNCHANGED <<timeVars, readVars, pc>>
  PROVE  Next
<1>1. /\ now - clock \in -MaxTime .. MaxTime /\ d \in Int /\ now \in Int
      /\ clock \in Int
  BY TimeAssumption, DelaysAssumption DEF TypeOK
<1> DEFINE late == d + (now - clock)
<1>2. late \in Delays
  BY <1>1, DelaysAssumption
<1>3. h.expiredTime = clock + late
  BY <1>1
<1>4. /\ h = [id |-> h.id, expiredTime |-> clock + late,
              interval |-> h.interval]
      /\ h.id \in Ids /\ h.interval \in Intervals
  BY <1>3 DEF Handler
<1> HIDE DEF late
<1>5. AddHandler(h.id, late, h.interval)
  BY <1>4 DEF AddHandler
<1>6. QED
  BY <1>2, <1>4, <1>5 DEF Next

(* The oldest functor, run on the I/O thread, is a call TimerQueue knows.  *)
LEMMA RunPendingIsStep ==
  ASSUME CallsIndInv, RunPending
  PROVE  Next
<1> DEFINE f == Head(pendingFunctors)
<1>1. CallsTypeOK /\ TypeOK
  BY DEF CallsIndInv, CallsTypeOK
<1>2. pendingFunctors \in Seq(Functor) /\ pendingFunctors # <<>>
  BY <1>1 DEF RunPending, CallsTypeOK
<1>3. f \in Functor /\ f \in InFlight
  BY <1>1, <1>2, TailFacts, InFlightTyped
<1>4. /\ process = "running" /\ UserCode /\ Run(f)
      /\ UNCHANGED <<timeVars, readVars, pc>>
  BY DEF RunPending, UserCode
<1> HIDE DEF f
<1>5. CASE /\ f \in AddFunctor
           /\ Insert(f.handler) /\ added' = added \cup {f.handler.id}
  <2>1. f.handler \in Scheduled /\ f.handler \in Handler
    BY <1>3, <1>5 DEF Scheduled, AddFunctor
  <2>2. f.handler.id \notin added
    BY <2>1 DEF CallsIndInv, ScheduledInv
  <2>3. PICK d \in CallDelays \cup Intervals, now \in 0 .. MaxTime :
          f.handler.expiredTime = now + d
    BY <2>1 DEF CallsIndInv, ScheduledInv
  <2>4. QED
    BY <1>1, <1>4, <1>5, <2>1, <2>2, <2>3, InsertIsAdd
<1>6. CASE f \in CancelFunctor /\ Erase(f.id) /\ UNCHANGED added
  <2>1. f.id \in Ids
    BY <1>6 DEF CancelFunctor
  <2>2. CancelHandler(f.id)
    BY <1>4, <1>6 DEF CancelHandler
  <2>3. QED
    BY <2>1, <2>2 DEF Next
<1>7. QED
  BY <1>4, <1>5, <1>6 DEF Run

LEMMA IoRunTimerIsStep ==
  ASSUME CallsIndInv, NEW h \in NewHandlers, IoRunTimer(h)
  PROVE  Next
<1>1. TypeOK /\ clock \in 0 .. MaxTime
  BY DEF CallsIndInv, CallsTypeOK, TypeOK
<1>2. h \in Handler /\ h.id \notin added
  BY <1>1, NewHandlerFacts DEF CallsIndInv, ScheduledInv
<1>3. PICK d \in CallDelays \cup Intervals : h.expiredTime = clock + d
  BY <1>1, NewHandlerFacts
<1>4. QED
  BY <1>1, <1>2, <1>3, InsertIsAdd DEF IoRunTimer

LEMMA IoCancelIsStep ==
  ASSUME CallsIndInv, NEW h \in known, IoCancelTimerHandler(h)
  PROVE  Next
<1>1. h.id \in Ids
  BY DEF CallsIndInv, CallsTypeOK, Handler
<1>2. CancelHandler(h.id)
  BY DEF IoCancelTimerHandler, CancelHandler
<1>3. QED
  BY <1>1, <1>2 DEF Next

(* Every step of IoTimers is a step of TimerQueue or does not concern it.  *)
LEMMA CallsStepIsTimerStep ==
  ASSUME CallsIndInv, [CallsNext]_allVars
  PROVE  [Next]_vars
<1>1. ASSUME NEW c \in Clients,
             \/ \E h \in NewHandlers : CreateHandler(c, h)
             \/ \E h \in known : CancelTimerHandler(c, h)
             \/ Post(c)
      PROVE  UNCHANGED vars
  BY <1>1 DEF CreateHandler, CancelTimerHandler, Post
<1>2. CASE ServeTimers \/ TimePasses \/ \E j \in ClockJumps : SetClock(j)
  BY <1>2 DEF ServeTimers, TimePasses, Next
<1>3. CASE UNCHANGED allVars
  BY <1>3 DEF allVars
<1>4. QED
  BY <1>1, <1>2, <1>3, RunPendingIsStep, IoRunTimerIsStep, IoCancelIsStep
    DEF CallsNext

-----------------------------------------------------------------------------
(* Every step keeps every variable in its type.                            *)
LEMMA CallsTypePreserved ==
  ASSUME CallsIndInv, [CallsNext]_allVars
  PROVE  CallsTypeOK'
<1>1. CallsTypeOK /\ TypeOK
  BY DEF CallsIndInv, CallsTypeOK
<1>2. TypeOK'
  BY <1>1, CallsStepIsTimerStep, TypePreserved
<1> USE DEF CallsTypeOK
<1>3. ASSUME NEW c \in Clients, NEW h \in NewHandlers, CreateHandler(c, h)
      PROVE  CallsTypeOK'
  <2>1. h \in Handler /\ h.id \in Ids
    BY <1>1, NewHandlerFacts
  <2>2. [op |-> "addHandler", handler |-> h] \in Functor
    BY <2>1 DEF Functor, AddFunctor
  <2>3. QED
    BY <1>1, <1>2, <1>3, <2>1, <2>2 DEF CreateHandler
<1>4. ASSUME NEW c \in Clients, NEW h \in known, CancelTimerHandler(c, h)
      PROVE  CallsTypeOK'
  <2>1. h.id \in Ids
    BY <1>1 DEF Handler
  <2>2. [op |-> "cancelHandler", id |-> h.id] \in Functor
    BY <2>1 DEF Functor, CancelFunctor
  <2>3. QED
    BY <1>1, <1>2, <1>4, <2>1, <2>2 DEF CancelTimerHandler
<1>5. ASSUME NEW c \in Clients, Post(c)
      PROVE  CallsTypeOK'
  <2>1. call[c] \in Functor
    BY <1>1, <1>5 DEF Post
  <2>2. {f.handler : f \in {call[c]} \cap AddFunctor} \subseteq Handler
    BY DEF AddFunctor
  <2>3. pendingFunctors' \in Seq(Functor)
    BY <1>1, <1>5, <2>1, AppendFacts DEF Post
  <2>4. QED
    BY <1>1, <1>2, <1>5, <2>2, <2>3 DEF Post
<1>6. CASE RunPending
  <2>1. pendingFunctors' \in Seq(Functor)
    BY <1>1, <1>6, TailFacts DEF RunPending
  <2>2. QED
    BY <1>1, <1>2, <1>6, <2>1 DEF RunPending
<1>7. ASSUME NEW h \in NewHandlers, IoRunTimer(h)
      PROVE  CallsTypeOK'
  <2>1. h \in Handler /\ h.id \in Ids
    BY <1>1, NewHandlerFacts
  <2>2. QED
    BY <1>1, <1>2, <1>7, <2>1 DEF IoRunTimer
<1>8. ASSUME NEW h \in known, IoCancelTimerHandler(h)
      PROVE  CallsTypeOK'
  <2>1. h.id \in Ids
    BY <1>1 DEF Handler
  <2>2. QED
    BY <1>1, <1>2, <1>8, <2>1 DEF IoCancelTimerHandler
<1>9. ASSUME UNCHANGED callVars
      PROVE  CallsTypeOK'
  BY <1>1, <1>2, <1>9 DEF callVars
<1>10. QED
  BY <1>3, <1>4, <1>5, <1>6, <1>7, <1>8, <1>9
    DEF CallsNext, ServeTimers, TimePasses, allVars

-----------------------------------------------------------------------------
(* No step puts a functor in flight but the calls of the clients.          *)
LEMMA CallInFlight ==
  ASSUME CallsTypeOK, CallsTypeOK', NEW c \in Clients, NEW f,
         call' = [call EXCEPT ![c] = f], UNCHANGED pendingFunctors
  PROVE  InFlight' \subseteq InFlight \cup {f}
<1>1. \A d \in Clients : call'[d] = f \/ call'[d] = call[d]
  BY DEF CallsTypeOK
<1>2. ASSUME NEW g \in InFlight' PROVE g \in InFlight \cup {f}
  <2>1. \/ \E n \in DOMAIN pendingFunctors : g = pendingFunctors[n]
        \/ \E d \in Clients : g = call'[d]
    BY DEF CallsTypeOK, InFlight, Range
  <2>2. QED
    BY <1>1, <2>1, InFlightTyped
<1>3. QED
  BY <1>2

LEMMA PostInFlight ==
  ASSUME CallsTypeOK, CallsTypeOK', NEW c \in Clients, Post(c)
  PROVE  InFlight' \subseteq InFlight \cup {NoCall}
<1>1. \A d \in Clients : call'[d] = NoCall \/ call'[d] = call[d]
  BY DEF CallsTypeOK, Post
<1>2. call[c] \in Functor /\ pendingFunctors \in Seq(Functor)
  BY DEF CallsTypeOK, Post
<1>3. \A n \in DOMAIN pendingFunctors' :
        \/ pendingFunctors'[n] = call[c]
        \/ n \in DOMAIN pendingFunctors
             /\ pendingFunctors'[n] = pendingFunctors[n]
  BY <1>2, AppendFacts DEF Post
<1>4. ASSUME NEW g \in InFlight' PROVE g \in InFlight \cup {NoCall}
  <2>1. \/ \E n \in DOMAIN pendingFunctors' : g = pendingFunctors'[n]
        \/ \E d \in Clients : g = call'[d]
    BY DEF CallsTypeOK, InFlight, Range
  <2>2. QED
    BY <1>1, <1>3, <2>1, InFlightTyped
<1>5. QED
  BY <1>4

LEMMA RunInFlight ==
  ASSUME CallsTypeOK, RunPending
  PROVE  InFlight' \subseteq InFlight
<1>1. pendingFunctors \in Seq(Functor) /\ pendingFunctors # <<>>
  BY DEF CallsTypeOK, RunPending
<1>2. \A n \in DOMAIN pendingFunctors' :
        /\ n + 1 \in DOMAIN pendingFunctors
        /\ pendingFunctors'[n] = pendingFunctors[n + 1]
  BY <1>1, TailFacts DEF RunPending
<1>3. UNCHANGED call
  BY DEF RunPending
<1>4. QED
  BY <1>2, <1>3 DEF InFlight, Range

(* The functor that runs is unlike all that stay in flight.                *)
LEMMA RunLeavesOthers ==
  ASSUME CallsTypeOK, OnceInv, RunPending
  PROVE  \A g \in InFlight' : ~ Alike(Head(pendingFunctors), g)
<1>1. pendingFunctors \in Seq(Functor) /\ pendingFunctors # <<>>
  BY DEF CallsTypeOK, RunPending
<1>2. /\ Head(pendingFunctors) = pendingFunctors[1]
      /\ 1 \in DOMAIN pendingFunctors
      /\ \A n \in DOMAIN pendingFunctors' :
           /\ n + 1 \in DOMAIN pendingFunctors /\ n + 1 # 1
           /\ pendingFunctors'[n] = pendingFunctors[n + 1]
  BY <1>1, TailFacts DEF RunPending
<1>3. UNCHANGED call /\ call \in [Clients -> Functor \cup {NoCall}]
  BY DEF RunPending, CallsTypeOK
<1>4. ASSUME NEW g \in InFlight' PROVE ~ Alike(pendingFunctors[1], g)
  <2>1. \/ \E n \in DOMAIN pendingFunctors' : g = pendingFunctors'[n]
        \/ \E c \in Clients : g = call[c]
    BY <1>3 DEF InFlight, Range
  <2>2. ASSUME NEW n \in DOMAIN pendingFunctors', g = pendingFunctors'[n]
        PROVE  ~ Alike(pendingFunctors[1], g)
    BY <1>2, <2>2 DEF OnceInv
  <2>3. ASSUME NEW c \in Clients, g = call[c]
        PROVE  ~ Alike(pendingFunctors[1], g)
    <3>1. ~ Alike(g, pendingFunctors[1])
      BY <1>2, <2>3 DEF OnceInv
    <3>2. QED
      BY <3>1 DEF Alike
  <2>4. QED
    BY <2>1, <2>2, <2>3
<1>5. QED
  BY <1>2, <1>4

-----------------------------------------------------------------------------
(* No functor that is alike comes in flight: a new handler has a new id, a *)
(* cancelled one was not cancelled before.                                 *)
LEMMA NewFunctorIsUnlike ==
  ASSUME CallsTypeOK, ScheduledInv, AskedInv, NEW f,
         \/ f \in AddFunctor /\ f.handler.id \notin created
         \/ f \in CancelFunctor /\ f.id \notin asked
  PROVE  \A g \in InFlight : ~ Alike(f, g) /\ ~ Alike(g, f)
<1>1. \A g \in InFlight \cap AddFunctor : g.handler.id \in created
  BY DEF ScheduledInv, Scheduled
<1>2. \A g \in InFlight \cap CancelFunctor : g.id \in asked
  BY DEF AskedInv
<1>3. QED
  BY <1>1, <1>2, FunctorKinds DEF Alike

LEMMA CallKeepsOnce ==
  ASSUME CallsTypeOK, OnceInv, NEW c \in Clients, NEW f,
         \A g \in InFlight : ~ Alike(f, g) /\ ~ Alike(g, f),
         call' = [call EXCEPT ![c] = f], UNCHANGED pendingFunctors
  PROVE  OnceInv'
<1>1. \A d \in Clients :
        \/ d = c /\ call'[d] = f
        \/ d # c /\ call'[d] = call[d] /\ call[d] \in InFlight
  BY InFlightTyped DEF CallsTypeOK
<1>2. \A n \in DOMAIN pendingFunctors : pendingFunctors[n] \in InFlight
  BY InFlightTyped
<1>3. \A d, e \in Clients : Alike(call'[d], call'[e]) => d = e
  BY <1>1 DEF OnceInv
<1>4. \A d \in Clients, n \in DOMAIN pendingFunctors :
        ~ Alike(call'[d], pendingFunctors[n])
  BY <1>1, <1>2 DEF OnceInv
<1>5. QED
  BY <1>3, <1>4 DEF OnceInv, Alike

LEMMA PostKeepsOnce ==
  ASSUME CallsTypeOK, OnceInv, NEW c \in Clients, Post(c)
  PROVE  OnceInv'
<1>1. call[c] \in Functor /\ pendingFunctors \in Seq(Functor)
  BY DEF CallsTypeOK, Post
<1> DEFINE t == Append(pendingFunctors, call[c])
<1>2. \A n \in DOMAIN t :
        \/ n = Len(t) /\ t[n] = call[c]
        \/ n \in DOMAIN pendingFunctors /\ n # Len(t)
             /\ t[n] = pendingFunctors[n]
  BY <1>1, AppendFacts
<1> HIDE DEF t
<1>3. pendingFunctors' = t
  BY DEF Post, t
<1>4. \A d \in Clients :
        \/ d = c /\ call'[d] = NoCall
        \/ d # c /\ call'[d] = call[d]
  BY DEF CallsTypeOK, Post
<1>5. \A f : ~ Alike(NoCall, f) /\ ~ Alike(f, NoCall)
  BY NoCallAssumption DEF Alike, Functor
<1>6. \A d \in Clients, n \in DOMAIN pendingFunctors :
        /\ ~ Alike(call[d], pendingFunctors[n])
        /\ ~ Alike(pendingFunctors[n], call[d])
  BY DEF OnceInv, Alike
<1>7. \A m, n \in DOMAIN t : Alike(t[m], t[n]) => m = n
  <2> TAKE m, n \in DOMAIN t
  <2> HAVE Alike(t[m], t[n])
  <2>1. CASE m = Len(t) \/ n = Len(t)
    BY <1>2, <1>6, <2>1
  <2>2. CASE m # Len(t) /\ n # Len(t)
    BY <1>2, <2>2 DEF OnceInv
  <2>3. QED
    BY <2>1, <2>2
<1>8. \A d, e \in Clients : Alike(call'[d], call'[e]) => d = e
  BY <1>4, <1>5 DEF OnceInv
<1>9. \A d \in Clients, n \in DOMAIN t : ~ Alike(call'[d], t[n])
  BY <1>2, <1>4, <1>5, <1>6 DEF OnceInv
<1>10. QED
  BY <1>3, <1>7, <1>8, <1>9 DEF OnceInv, Alike

LEMMA RunKeepsOnce ==
  ASSUME CallsTypeOK, OnceInv, RunPending
  PROVE  OnceInv'
<1>1. pendingFunctors \in Seq(Functor) /\ pendingFunctors # <<>>
  BY DEF CallsTypeOK, RunPending
<1>2. /\ DOMAIN pendingFunctors' \subseteq Nat
      /\ \A n \in DOMAIN pendingFunctors' :
           /\ n + 1 \in DOMAIN pendingFunctors
           /\ pendingFunctors'[n] = pendingFunctors[n + 1]
  BY <1>1, TailFacts DEF RunPending
<1>3. UNCHANGED call
  BY DEF RunPending
<1>4. \A m, n \in DOMAIN pendingFunctors' :
        Alike(pendingFunctors'[m], pendingFunctors'[n]) => m = n
  <2> TAKE m, n \in DOMAIN pendingFunctors'
  <2> HAVE Alike(pendingFunctors'[m], pendingFunctors'[n])
  <2>1. m + 1 = n + 1
    BY <1>2 DEF OnceInv
  <2>2. QED
    BY <1>2, <2>1
<1>5. QED
  BY <1>2, <1>3, <1>4 DEF OnceInv, Alike

LEMMA OncePreserved ==
  ASSUME CallsIndInv, [CallsNext]_allVars
  PROVE  OnceInv'
<1>1. CallsTypeOK /\ TypeOK /\ OnceInv /\ ScheduledInv /\ AskedInv
  BY DEF CallsIndInv, CallsTypeOK
<1>2. ASSUME NEW c \in Clients, NEW h \in NewHandlers, CreateHandler(c, h)
      PROVE  OnceInv'
  <2> DEFINE f == [op |-> "addHandler", handler |-> h]
  <2>1. f \in AddFunctor /\ f.handler.id \notin created
    BY <1>1, NewHandlerFacts DEF AddFunctor
  <2>2. call' = [call EXCEPT ![c] = f] /\ UNCHANGED pendingFunctors
    BY <1>2 DEF CreateHandler
  <2> HIDE DEF f
  <2>3. QED
    BY <1>1, <2>1, <2>2, NewFunctorIsUnlike, CallKeepsOnce
<1>3. ASSUME NEW c \in Clients, NEW h \in known, CancelTimerHandler(c, h)
      PROVE  OnceInv'
  <2> DEFINE f == [op |-> "cancelHandler", id |-> h.id]
  <2>1. h.id \in Ids /\ h.id \notin asked
    BY <1>1, <1>3 DEF CallsTypeOK, Handler, CancelTimerHandler, Cancellable
  <2>2. f \in CancelFunctor /\ f.id \notin asked
    BY <2>1 DEF CancelFunctor
  <2>3. call' = [call EXCEPT ![c] = f] /\ UNCHANGED pendingFunctors
    BY <1>3 DEF CancelTimerHandler
  <2> HIDE DEF f
  <2>4. QED
    BY <1>1, <2>2, <2>3, NewFunctorIsUnlike, CallKeepsOnce
<1>4. ASSUME UNCHANGED <<call, pendingFunctors>>
      PROVE  OnceInv'
  BY <1>1, <1>4 DEF OnceInv, Alike
<1>5. ASSUME \/ \E h \in NewHandlers : IoRunTimer(h)
             \/ \E h \in known : IoCancelTimerHandler(h)
             \/ UNCHANGED callVars
      PROVE  OnceInv'
  BY <1>4, <1>5 DEF IoRunTimer, IoCancelTimerHandler, callVars
<1>6. QED
  BY <1>1, <1>2, <1>3, <1>5, PostKeepsOnce, RunKeepsOnce
    DEF CallsNext, ServeTimers, TimePasses, allVars

-----------------------------------------------------------------------------
(* A moment and a delay account for the time of every scheduled handler.   *)
Timed(h) ==
  \E d \in CallDelays \cup Intervals, now \in 0 .. MaxTime :
    h.expiredTime = now + d

LEMMA FewerScheduled ==
  ASSUME ScheduledInv, NEW x, x \notin AddFunctor,
         InFlight' \subseteq InFlight \cup {x},
         created \subseteq created', added' = added
  PROVE  ScheduledInv'
BY DEF ScheduledInv, Scheduled

LEMMA ScheduledPreserved ==
  ASSUME CallsIndInv, [CallsNext]_allVars
  PROVE  ScheduledInv'
<1>1. /\ CallsTypeOK /\ TypeOK /\ OnceInv /\ ScheduledInv
      /\ clock \in 0 .. MaxTime
  BY DEF CallsIndInv, CallsTypeOK, TypeOK
<1>2. CallsTypeOK'
  BY CallsTypePreserved
<1>3. \A h \in Scheduled : h.id \in created \ added /\ Timed(h)
  BY <1>1 DEF ScheduledInv, Timed
<1>4. NoCall \notin AddFunctor
  BY NoCallAssumption DEF Functor
<1>5. ASSUME NEW c \in Clients, NEW h \in NewHandlers, CreateHandler(c, h)
      PROVE  ScheduledInv'
  <2> DEFINE f == [op |-> "addHandler", handler |-> h]
  <2>1. InFlight' \subseteq InFlight \cup {f}
    BY <1>1, <1>2, <1>5, CallInFlight DEF CreateHandler
  <2>2. Scheduled' \subseteq Scheduled \cup {h}
    BY <2>1 DEF Scheduled
  <2>3. h.id \notin created /\ Timed(h)
    BY <1>1, NewHandlerFacts DEF Timed
  <2>4. /\ created' = created \cup {h.id} /\ added' = added
        /\ added \subseteq created
    BY <1>1, <1>5 DEF CreateHandler, vars, ScheduledInv
  <2>5. \A g \in Scheduled' : g.id \in created' \ added' /\ Timed(g)
    BY <1>3, <2>2, <2>3, <2>4
  <2>6. QED
    BY <2>4, <2>5 DEF ScheduledInv, Timed
<1>6. ASSUME NEW c \in Clients, NEW h \in known, CancelTimerHandler(c, h)
      PROVE  ScheduledInv'
  <2> DEFINE f == [op |-> "cancelHandler", id |-> h.id]
  <2>1. InFlight' \subseteq InFlight \cup {f}
    BY <1>1, <1>2, <1>6, CallInFlight DEF CancelTimerHandler
  <2>2. f \notin AddFunctor /\ UNCHANGED <<created, added>>
    BY <1>6 DEF AddFunctor, CancelTimerHandler, vars
  <2> HIDE DEF f
  <2>3. QED
    BY <1>1, <2>1, <2>2, FewerScheduled
<1>7. ASSUME NEW c \in Clients, Post(c)
      PROVE  ScheduledInv'
  <2>1. UNCHANGED <<created, added>>
    BY <1>7 DEF Post, vars
  <2>2. QED
    BY <1>1, <1>2, <1>4, <1>7, <2>1, PostInFlight, FewerScheduled
<1>8. CASE RunPending
  <2> DEFINE f == Head(pendingFunctors)
  <2>1. InFlight' \subseteq InFlight /\ f \in InFlight /\ f \in Functor
    BY <1>1, <1>8, RunInFlight, InFlightTyped, TailFacts
      DEF RunPending, CallsTypeOK
  <2>2. \A g \in InFlight' : ~ Alike(f, g)
    BY <1>1, <1>8, RunLeavesOthers
  <2>3. Run(f) /\ UNCHANGED created
    BY <1>8 DEF RunPending
  <2> HIDE DEF f
  <2>4. CASE f \in AddFunctor /\ added' = added \cup {f.handler.id}
    <3>1. \A g \in Scheduled' : g \in Scheduled /\ g.id # f.handler.id
      BY <2>1, <2>2, <2>4 DEF Scheduled, Alike
    <3>2. f.handler.id \in created
      BY <1>3, <2>1, <2>4 DEF Scheduled
    <3>3. QED
      BY <1>1, <2>3, <2>4, <3>1, <3>2 DEF ScheduledInv
  <2>5. CASE added' = added
    BY <1>1, <1>4, <2>1, <2>3, <2>5, FewerScheduled
  <2>6. QED
    BY <2>3, <2>4, <2>5 DEF Run
<1>9. ASSUME NEW h \in NewHandlers, IoRunTimer(h)
      PROVE  ScheduledInv'
  <2>1. h.id \notin created
    BY <1>1, NewHandlerFacts
  <2>2. Scheduled' = Scheduled
    BY <1>9 DEF IoRunTimer, Scheduled, InFlight
  <2>3. QED
    BY <1>1, <1>9, <2>1, <2>2 DEF ScheduledInv, IoRunTimer
<1>10. ASSUME \/ \E h \in known : IoCancelTimerHandler(h)
              \/ ServeTimers \/ TimePasses
              \/ (\E j \in ClockJumps : SetClock(j)) /\ UNCHANGED callVars
              \/ UNCHANGED allVars
       PROVE  ScheduledInv'
  <2>1. UNCHANGED <<call, pendingFunctors, created, added>>
    BY <1>10 DEF IoCancelTimerHandler, ServeTimers, TimePasses, LoopStep,
      PollReports, TakeNow, HandleRead, RunHandler, CallbackReturns, TriggerEvent, Tick,
      SetClock, callVars, allVars, vars
  <2>2. QED
    BY <1>1, <2>1 DEF ScheduledInv, Scheduled, InFlight
<1>11. QED
  BY <1>5, <1>6, <1>7, <1>8, <1>9, <1>10 DEF CallsNext

LEMMA AskedPreserved ==
  ASSUME CallsIndInv, [CallsNext]_allVars
  PROVE  AskedInv'
<1>1. CallsTypeOK /\ AskedInv /\ CallsTypeOK'
  BY CallsTypePreserved DEF CallsIndInv
<1>2. ASSUME NEW x, InFlight' \subseteq InFlight \cup {x},
             x \in CancelFunctor => x.id \in asked', asked \subseteq asked'
      PROVE  AskedInv'
  BY <1>1, <1>2 DEF AskedInv
<1>3. ASSUME NEW c \in Clients, NEW h \in NewHandlers, CreateHandler(c, h)
      PROVE  AskedInv'
  <2> DEFINE f == [op |-> "addHandler", handler |-> h]
  <2>1. InFlight' \subseteq InFlight \cup {f} /\ UNCHANGED asked
    BY <1>1, <1>3, CallInFlight DEF CreateHandler
  <2>2. f \notin CancelFunctor
    BY DEF CancelFunctor
  <2> HIDE DEF f
  <2>3. QED
    BY <1>2, <2>1, <2>2
<1>4. ASSUME NEW c \in Clients, NEW h \in known, CancelTimerHandler(c, h)
      PROVE  AskedInv'
  <2> DEFINE f == [op |-> "cancelHandler", id |-> h.id]
  <2>1. /\ InFlight' \subseteq InFlight \cup {f}
        /\ asked' = asked \cup {f.id}
    BY <1>1, <1>4, CallInFlight DEF CancelTimerHandler
  <2> HIDE DEF f
  <2>2. QED
    BY <1>2, <2>1
<1>5. ASSUME NEW c \in Clients, Post(c)
      PROVE  AskedInv'
  <2>1. UNCHANGED asked /\ NoCall \notin CancelFunctor
    BY <1>5, NoCallAssumption DEF Post, Functor
  <2>2. QED
    BY <1>1, <1>2, <1>5, <2>1, PostInFlight
<1>6. CASE RunPending
  <2>1. UNCHANGED asked
    BY <1>6 DEF RunPending
  <2>2. QED
    BY <1>1, <1>6, <2>1, RunInFlight DEF AskedInv
<1>7. ASSUME \/ \E h \in NewHandlers : IoRunTimer(h)
             \/ \E h \in known : IoCancelTimerHandler(h)
             \/ UNCHANGED callVars
      PROVE  AskedInv'
  <2>1. UNCHANGED InFlight /\ asked \subseteq asked'
    BY <1>7 DEF IoRunTimer, IoCancelTimerHandler, callVars, InFlight
  <2>2. QED
    BY <1>1, <2>1 DEF AskedInv
<1>8. QED
  BY <1>3, <1>4, <1>5, <1>6, <1>7
    DEF CallsNext, ServeTimers, TimePasses, allVars

-----------------------------------------------------------------------------
(* The invariant of IoTimers holds for any threads, handlers and times,    *)
(* whoever cancels what.                                                   *)
THEOREM CallsInvariance == CallsSpec => []CallsIndInv
<1>1. CallsInit => CallsIndInv
  <2> SUFFICES ASSUME CallsInit PROVE CallsIndInv
    OBVIOUS
  <2>1. TypeOK
    BY InitIndInv DEF CallsInit, IndInv
  <2>2. CallsTypeOK
    BY <2>1 DEF CallsInit, CallsTypeOK
  <2>3. InFlight \subseteq {NoCall} /\ DOMAIN pendingFunctors = {}
    BY DEF CallsInit, InFlight, Range
  <2>4. NoCall \notin AddFunctor /\ NoCall \notin CancelFunctor
    BY NoCallAssumption DEF Functor
  <2>5. OnceInv
    BY <2>3, <2>4 DEF OnceInv, Alike, CallsInit
  <2>6. ScheduledInv /\ AskedInv
    BY <2>3, <2>4 DEF ScheduledInv, Scheduled, AskedInv, CallsInit, Init
  <2>7. QED
    BY <2>2, <2>5, <2>6 DEF CallsIndInv
<1>2. CallsIndInv /\ [CallsNext]_allVars => CallsIndInv'
  BY CallsTypePreserved, OncePreserved, ScheduledPreserved, AskedPreserved
    DEF CallsIndInv
<1>3. QED
  BY <1>1, <1>2, PTL DEF CallsSpec

(* The calls on their way, the vector and the handles the callers hold keep*)
(* their types (IoManager.cpp:57-112).                                     *)
THEOREM CallsTypeCorrect == CallsSpec => []CallsTypeOK
<1>1. CallsIndInv => CallsTypeOK
  BY DEF CallsIndInv
<1>2. QED
  BY <1>1, CallsInvariance, PTL

(* Whatever threads create and cancel handlers, and however late their     *)
(* functors run, the handler queue behaves as TimerQueue: all that is      *)
(* proved of TimerQueue holds.                                             *)
THEOREM CallsImplementation == CallsSpec => ImplementsTimerQueue
<1>1. CallsInit => Init
  BY DEF CallsInit
<1>2. CallsIndInv /\ [CallsNext]_allVars => [Next]_vars
  BY CallsStepIsTimerStep
<1>3. QED
  BY <1>1, <1>2, CallsInvariance, PTL DEF CallsSpec, ImplementsTimerQueue, Spec

(* Callers on other threads never leave a handler without a wake-up.       *)
THEOREM CallersNeverStall == CallsSpec => []NotStalled
BY CallsImplementation, NeverStalled, PTL DEF ImplementsTimerQueue

-----------------------------------------------------------------------------
(* A periodic handler stays in the queue or in the batch being served      *)
(* until it is cancelled.                                                  *)
LEMMA LoopKeepsPresent ==
  ASSUME TypeOK, LocalsEmpty, NEW id, Present(Handlers, id), LoopStep
  PROVE  Present(Handlers', id)
<1> USE DEF Present, Handlers
<1>1. PICK h \in handlerQueue \cup toRun \cup hasRun :
        h.id = id /\ h.interval # 0
  OBVIOUS
<1>2. CASE PollReports \/ CallbackReturns
  BY <1>1, <1>2 DEF PollReports, CallbackReturns, readVars
<1>3. CASE TakeNow \/ HandleRead
  BY <1>1, <1>3 DEF TakeNow, HandleRead, LocalsEmpty, readVars
<1>4. ASSUME NEW g \in toRun, RunHandler(g)
      PROVE  Present(Handlers', id)
  BY <1>1, <1>4 DEF RunHandler
<1>5. CASE TriggerEvent
  <2>1. h \in handlerQueue \cup hasRun
    BY <1>1, <1>5 DEF TriggerEvent
  <2>2. CASE h \in handlerQueue
    BY <1>1, <1>5, <2>2 DEF TriggerEvent
  <2>3. CASE h \in hasRun
    <3> DEFINE r == [h EXCEPT !.expiredTime = handleTime + h.interval]
    <3>1. h \in Handler
      BY <2>3 DEF TypeOK
    <3>2. r.id = id /\ r.interval # 0
      BY <1>1, <3>1 DEF Handler
    <3>3. r \in handlerQueue'
      BY <1>1, <1>5, <2>3 DEF TriggerEvent, Renewed
    <3> HIDE DEF r
    <3>4. QED
      BY <3>2, <3>3
  <2>4. QED
    BY <2>1, <2>2, <2>3
<1>6. QED
  BY <1>2, <1>3, <1>4, <1>5 DEF LoopStep

(* cancelHandler finds a handler that is present while nothing is served.  *)
LEMMA EraseFinds ==
  ASSUME LocalsEmpty, pc = "loop", NEW id, Present(Handlers, id), Erase(id)
  PROVE  UNCHANGED process
BY DEF LocalsEmpty, Present, Handlers, Erase

-----------------------------------------------------------------------------
LEMMA AddedByAppend ==
  ASSUME NEW s \in Seq(Functor), NEW x \in Functor, NEW n \in 0 .. Len(s)
  PROVE  LET t == Append(s, x) IN
         /\ AddedBy(s, n) \subseteq AddedBy(t, n)
         /\ AddedBy(t, n) \subseteq AddedBy(t, n + 1)
         /\ x \in AddFunctor => x.handler \in AddedBy(t, Len(t))
<1> DEFINE t == Append(s, x)
<1>1. /\ \A m \in 1 .. n : t[m] = s[m] /\ m \in 1 .. n + 1
      /\ Len(t) \in 1 .. Len(t) /\ t[Len(t)] = x
  BY AppendFacts
<1> HIDE DEF t
<1>2. QED
  BY <1>1 DEF AddedBy, t

LEMMA AddedByTail ==
  ASSUME NEW s \in Seq(Functor), s # <<>>, NEW n \in Nat, n + 1 <= Len(s)
  PROVE  AddedBy(s, n + 1) \subseteq
           AddedBy(Tail(s), n)
             \cup {f.handler : f \in {Head(s)} \cap AddFunctor}
<1> DEFINE t == Tail(s)
<1>1. /\ Head(s) = s[1]
      /\ \A m \in 1 .. n : t[m] = s[m + 1]
      /\ \A m \in 1 .. n + 1 : m # 1 => m - 1 \in 1 .. n /\ m - 1 + 1 = m
  BY TailFacts
<1> HIDE DEF t
<1>2. ASSUME NEW m \in 1 .. n + 1, s[m] \in AddFunctor
      PROVE  \/ s[m].handler \in AddedBy(t, n)
             \/ s[m] = Head(s)
  <2>1. CASE m = 1
    BY <1>1, <2>1
  <2>2. CASE m # 1
    <3>1. t[m - 1] = s[m]
      BY <1>1, <2>2
    <3>2. QED
      BY <1>2, <2>2, <3>1 DEF AddedBy
  <2>3. QED
    BY <1>1, <2>1, <2>2
<1>3. QED
  BY <1>2 DEF AddedBy, t

LEMMA PresentInMore ==
  ASSUME NEW G, NEW H, G \subseteq H, NEW id, Present(G, id)
  PROVE  Present(H, id)
BY DEF Present

(* Running the oldest functor keeps what CancelInv says of an id that it   *)
(* does not cancel, one place nearer to the front.                         *)
LEMMA RunKeepsPresent ==
  ASSUME CallsIndInv, RunPending, NEW id,
         \A f \in CancelFunctor : f = Head(pendingFunctors) => f.id # id,
         NEW n \in Nat, n + 1 <= Len(pendingFunctors),
         Present(Handlers \cup AddedBy(pendingFunctors, n + 1), id)
  PROVE  Present(Handlers' \cup AddedBy(pendingFunctors', n), id)
<1> DEFINE f == Head(pendingFunctors)
<1>1. /\ pendingFunctors \in Seq(Functor) /\ pendingFunctors # <<>>
      /\ pendingFunctors' = Tail(pendingFunctors)
  BY DEF CallsIndInv, CallsTypeOK, RunPending
<1>2. PICK h \in Handlers \cup AddedBy(pendingFunctors, n + 1) :
        h.id = id /\ h.interval # 0
  BY DEF Present
<1>3. \/ h \in Handlers
      \/ h \in AddedBy(pendingFunctors', n)
      \/ f \in AddFunctor /\ h = f.handler
  BY <1>1, AddedByTail
<1>4. Run(f) /\ UNCHANGED <<toRun, hasRun>>
  BY DEF RunPending, readVars
<1>5. \A g \in CancelFunctor : g = f => g.id # id
  OBVIOUS
<1> HIDE DEF f
<1>6. CASE h \in Handlers
  BY <1>2, <1>4, <1>5, <1>6 DEF Run, Insert, Erase, Handlers, Present
<1>7. CASE f \in AddFunctor /\ h = f.handler
  <2>1. h \in handlerQueue'
    BY <1>4, <1>7, FunctorKinds DEF Run, Insert
  <2>2. QED
    BY <1>2, <2>1 DEF Handlers, Present
<1>8. QED
  BY <1>2, <1>3, <1>6, <1>7 DEF Present

-----------------------------------------------------------------------------
(* CancelInv when nobody posts, runs or cancels.                           *)
LEMMA OthersKeepCancelInv ==
  ASSUME CancelInv, CancelFinds',
         UNCHANGED <<pendingFunctors, call, asked>>,
         \A id : Present(Handlers, id) => Present(Handlers', id),
         \A h \in known' \ known :
           h.interval # 0 => Present(Handlers', h.id)
  PROVE  CancelInv'
<1>1. ASSUME NEW A, NEW id, Present(Handlers \cup A, id)
      PROVE  Present(Handlers' \cup A, id)
  BY <1>1 DEF Present
<1>2. \A id : Present(Coming, id) => Present(Coming', id)
  BY <1>1 DEF Coming
<1>3. \A id : Present(Handlers', id) => Present(Coming', id)
  BY PresentInMore DEF Coming
<1>4. QED
  BY <1>1, <1>2, <1>3 DEF CancelInv

LEMMA CallKeepsCancelInv ==
  ASSUME CallsTypeOK, CancelInv, NEW c \in Clients, NEW f,
         call' = [call EXCEPT ![c] = f],
         UNCHANGED <<vars, pendingFunctors, known>>, asked \subseteq asked',
         f \in CancelFunctor => Present(Coming, f.id)
  PROVE  CancelInv'
<1>1. UNCHANGED <<Handlers, Coming, process>>
  BY DEF Coming, Handlers, vars, readVars
<1>2. \A d \in Clients : call'[d] = f \/ call'[d] = call[d]
  BY DEF CallsTypeOK
<1>3. QED
  BY <1>1, <1>2 DEF CancelInv, CancelFinds

LEMMA PostKeepsCancelInv ==
  ASSUME CallsTypeOK, CancelInv, NEW c \in Clients, Post(c)
  PROVE  CancelInv'
<1>1. call[c] \in Functor /\ pendingFunctors \in Seq(Functor)
  BY DEF CallsTypeOK, Post
<1> DEFINE s == pendingFunctors
           t == Append(pendingFunctors, call[c])
<1>2. /\ Len(s) \in Nat /\ Len(t) = Len(s) + 1
      /\ DOMAIN s = 1 .. Len(s)
      /\ \A n \in DOMAIN t :
           \/ n = Len(s) + 1 /\ t[n] = call[c]
           \/ n \in DOMAIN s /\ t[n] = s[n]
  BY <1>1, AppendFacts
<1>3. /\ pendingFunctors' = t
      /\ UNCHANGED <<Handlers, process, asked>>
  BY DEF Post, Handlers, vars, readVars
<1>4. \A n \in 0 .. Len(s) :
        /\ AddedBy(s, n) \subseteq AddedBy(t, n)
        /\ AddedBy(s, n) \subseteq AddedBy(t, n + 1)
  BY <1>1, AddedByAppend
<1>5. Len(s) \in 0 .. Len(s) /\ DOMAIN s \subseteq 0 .. Len(s)
  BY <1>2
<1>6. call[c] \in AddFunctor => call[c].handler \in AddedBy(t, Len(t))
  BY <1>1, <1>5, AddedByAppend
<1>7. Coming = Handlers \cup AddedBy(s, Len(s))
      /\ Coming' = Handlers \cup AddedBy(t, Len(s) + 1)
  BY <1>2, <1>3 DEF Coming
<1> HIDE DEF s, t
<1>8. Coming \subseteq Coming'
  BY <1>4, <1>5, <1>7
<1>9. ASSUME NEW n \in DOMAIN t, t[n] \in CancelFunctor
      PROVE  Present(Handlers \cup AddedBy(t, n), t[n].id)
  <2>1. CASE n = Len(s) + 1 /\ t[n] = call[c]
    <3>1. Present(Coming, t[n].id)
      BY <1>9, <2>1 DEF CancelInv
    <3>2. QED
      BY <1>7, <1>8, <2>1, <3>1, PresentInMore
  <2>2. CASE n \in DOMAIN s /\ t[n] = s[n]
    <3>1. Present(Handlers \cup AddedBy(s, n), s[n].id)
      BY <1>9, <2>2 DEF CancelInv, s
    <3>2. AddedBy(s, n) \subseteq AddedBy(t, n)
      BY <1>4, <1>5, <2>2
    <3>3. QED
      BY <2>2, <3>1, <3>2, PresentInMore
  <2>3. QED
    BY <1>2, <2>1, <2>2
<1>10. ASSUME NEW d \in Clients, call'[d] \in CancelFunctor
       PROVE  Present(Coming', call'[d].id)
  <2>1. call'[d] = call[d]
    BY <1>10, NoCallAssumption DEF CallsTypeOK, Post, Functor
  <2>2. Present(Coming, call'[d].id)
    BY <1>10, <2>1 DEF CancelInv
  <2>3. QED
    BY <1>8, <2>2, PresentInMore
<1>11. ASSUME NEW h \in known', h.id \notin asked, h.interval # 0
       PROVE  Present(Coming', h.id)
  <2>1. CASE h \in known
    BY <1>8, <1>11, <2>1, PresentInMore DEF CancelInv
  <2>2. CASE call[c] \in AddFunctor /\ h = call[c].handler
    BY <1>2, <1>6, <1>7, <1>11, <2>2 DEF Present
  <2>3. QED
    BY <2>1, <2>2 DEF Post
<1>12. QED
  BY <1>3, <1>9, <1>10, <1>11 DEF CancelInv, CancelFinds

LEMMA RunKeepsCancelInv ==
  ASSUME CallsIndInv, LocalsEmpty, CancelInv, RunPending
  PROVE  CancelInv'
<1> DEFINE f == Head(pendingFunctors)
           k == Len(pendingFunctors')
<1>1. /\ CallsTypeOK /\ OnceInv /\ AskedInv
      /\ pendingFunctors \in Seq(Functor) /\ pendingFunctors # <<>>
  BY DEF CallsIndInv, CallsTypeOK, RunPending
<1>2. /\ f = pendingFunctors[1] /\ 1 \in DOMAIN pendingFunctors
      /\ k \in Nat /\ k + 1 = Len(pendingFunctors)
      /\ DOMAIN pendingFunctors' = 1 .. k
      /\ \A n \in DOMAIN pendingFunctors' :
           /\ n + 1 \in DOMAIN pendingFunctors
           /\ pendingFunctors'[n] = pendingFunctors[n + 1]
  BY <1>1, TailFacts DEF RunPending
<1>3. /\ Run(f) /\ pc = "loop" /\ process = "running"
      /\ UNCHANGED <<call, known, asked>>
  BY DEF RunPending
<1>4. f \in InFlight /\ \A g \in InFlight' : ~ Alike(f, g)
  BY <1>1, <1>2, InFlightTyped, RunLeavesOthers
<1>5. /\ \A n \in DOMAIN pendingFunctors' : pendingFunctors'[n] \in InFlight'
      /\ \A c \in Clients : call[c] \in InFlight'
  BY <1>1, <1>3 DEF InFlight, Range, CallsTypeOK
<1>6. ASSUME NEW n \in 0 .. k, NEW id,
             Present(Handlers \cup AddedBy(pendingFunctors, n + 1), id),
             \A g \in CancelFunctor : g = f => g.id # id
      PROVE  Present(Handlers' \cup AddedBy(pendingFunctors', n), id)
  <2>1. n \in Nat /\ n + 1 <= Len(pendingFunctors)
    BY <1>2
  <2>2. QED
    BY <1>6, <2>1, RunKeepsPresent
<1>7. Coming = Handlers \cup AddedBy(pendingFunctors, k + 1)
      /\ Coming' = Handlers' \cup AddedBy(pendingFunctors', k)
  BY <1>2 DEF Coming
<1> HIDE DEF f, k
<1>8. ASSUME NEW id, Present(Coming, id),
             \A g \in CancelFunctor : g = f => g.id # id
      PROVE  Present(Coming', id)
  <2>1. k \in 0 .. k
    BY <1>2
  <2>2. QED
    BY <1>6, <1>7, <1>8, <2>1
<1>9. CancelFinds'
  <2>1. CASE f \in CancelFunctor /\ Erase(f.id)
    <3>1. Present(Handlers \cup AddedBy(pendingFunctors, 1), f.id)
      BY <1>2, <2>1 DEF CancelInv
    <3>2. AddedBy(pendingFunctors, 1) = {}
      BY <1>2, <2>1, FunctorKinds DEF AddedBy
    <3>3. Present(Handlers, f.id)
      BY <3>1, <3>2
    <3>4. QED
      BY <1>3, <2>1, <3>3, EraseFinds DEF CancelFinds
  <2>2. CASE f \in AddFunctor /\ Insert(f.handler)
    BY <1>3, <2>2 DEF Insert, CancelFinds
  <2>3. QED
    BY <1>3, <2>1, <2>2 DEF Run
<1>10. ASSUME NEW n \in DOMAIN pendingFunctors',
              pendingFunctors'[n] \in CancelFunctor
       PROVE  Present(Handlers' \cup AddedBy(pendingFunctors', n),
                      pendingFunctors'[n].id)
  <2>1. Present(Handlers \cup AddedBy(pendingFunctors, n + 1),
                pendingFunctors'[n].id)
    BY <1>2, <1>10 DEF CancelInv
  <2>2. \A g \in CancelFunctor : g = f => g.id # pendingFunctors'[n].id
    BY <1>4, <1>5, <1>10 DEF Alike
  <2>3. n \in 0 .. k
    BY <1>2
  <2>4. QED
    BY <1>6, <2>1, <2>2, <2>3
<1>11. ASSUME NEW c \in Clients, call[c] \in CancelFunctor
       PROVE  Present(Coming', call[c].id)
  <2>1. Present(Coming, call[c].id)
    BY <1>11 DEF CancelInv
  <2>2. \A g \in CancelFunctor : g = f => g.id # call[c].id
    BY <1>4, <1>5, <1>11 DEF Alike
  <2>3. QED
    BY <1>8, <2>1, <2>2
<1>12. ASSUME NEW h \in known, h.id \notin asked, h.interval # 0
       PROVE  Present(Coming', h.id)
  <2>1. Present(Coming, h.id)
    BY <1>12 DEF CancelInv
  <2>2. \A g \in CancelFunctor : g = f => g.id # h.id
    BY <1>1, <1>4, <1>12 DEF AskedInv
  <2>3. QED
    BY <1>8, <2>1, <2>2
<1>13. QED
  BY <1>3, <1>9, <1>10, <1>11, <1>12 DEF CancelInv

LEMMA CancelPreserved ==
  ASSUME ~ CancelsOneShots, ~ CancelsInline,
         CallsIndInv, LocalsEmpty, CancelInv, [CallsNext]_allVars
  PROVE  CancelInv'
<1>1. CallsTypeOK /\ TypeOK /\ CancelFinds
  BY DEF CallsIndInv, CallsTypeOK, CancelInv
<1>2. ASSUME NEW c \in Clients, NEW h \in NewHandlers, CreateHandler(c, h)
      PROVE  CancelInv'
  <2> DEFINE f == [op |-> "addHandler", handler |-> h]
  <2>1. f \notin CancelFunctor
    BY DEF CancelFunctor
  <2>2. /\ call' = [call EXCEPT ![c] = f]
        /\ UNCHANGED <<vars, pendingFunctors, known, asked>>
    BY <1>2 DEF CreateHandler
  <2> HIDE DEF f
  <2>3. QED
    BY <1>1, <2>1, <2>2, CallKeepsCancelInv
<1>3. ASSUME NEW c \in Clients, NEW h \in known, CancelTimerHandler(c, h)
      PROVE  CancelInv'
  <2> DEFINE f == [op |-> "cancelHandler", id |-> h.id]
  <2>1. Present(Coming, f.id)
    BY <1>3 DEF CancelInv, CancelTimerHandler, Cancellable
  <2>2. /\ call' = [call EXCEPT ![c] = f] /\ asked \subseteq asked'
        /\ UNCHANGED <<vars, pendingFunctors, known>>
    BY <1>3 DEF CancelTimerHandler
  <2> HIDE DEF f
  <2>3. QED
    BY <1>1, <2>1, <2>2, CallKeepsCancelInv
<1>4. ASSUME NEW h \in NewHandlers, IoRunTimer(h)
      PROVE  CancelInv'
  <2>1. /\ UNCHANGED <<pendingFunctors, call, asked, toRun, hasRun, process>>
        /\ handlerQueue' = handlerQueue \cup {h}
        /\ known' = known \cup {h}
    BY <1>4 DEF IoRunTimer, Insert, readVars
  <2>2. Handlers' = Handlers \cup {h} /\ CancelFinds'
    BY <1>1, <2>1 DEF Handlers, CancelFinds
  <2>3. /\ \A id : Present(Handlers, id) => Present(Handlers', id)
        /\ \A g \in known' \ known :
             g.interval # 0 => Present(Handlers', g.id)
    BY <2>1, <2>2 DEF Present
  <2>4. QED
    BY <2>1, <2>2, <2>3, OthersKeepCancelInv
<1>5. CASE ServeTimers
  <2>1. CancelFinds'
    BY <1>1, <1>5 DEF ServeTimers, LoopStep, PollReports, TakeNow, HandleRead,
      RunHandler, CallbackReturns, TriggerEvent, CancelFinds
  <2>2. \A id : Present(Handlers, id) => Present(Handlers', id)
    BY <1>1, <1>5, LoopKeepsPresent DEF ServeTimers
  <2>3. QED
    BY <1>5, <2>1, <2>2, OthersKeepCancelInv DEF ServeTimers, callVars
<1>6. ASSUME \/ TimePasses
             \/ (\E j \in ClockJumps : SetClock(j)) /\ UNCHANGED callVars
             \/ UNCHANGED allVars
      PROVE  CancelInv'
  <2>1. UNCHANGED <<Handlers, process, pendingFunctors, call, asked, known>>
    BY <1>6 DEF TimePasses, Tick, SetClock, callVars, allVars, vars, readVars,
      Handlers
  <2>2. QED
    BY <1>1, <2>1, OthersKeepCancelInv DEF CancelFinds
<1>7. QED
  BY <1>1, <1>2, <1>3, <1>4, <1>5, <1>6, PostKeepsCancelInv, RunKeepsCancelInv
    DEF CallsNext, IoCancelTimerHandler

(* As long as only periodic handlers are cancelled, and by other threads   *)
(* than the I/O thread, no cancel overtakes the add it belongs to: every   *)
(* handler that is about to be cancelled, or that may be, is in the queue  *)
(* or will be by then.                                                     *)
THEOREM CancelsFollowAdds ==
  ASSUME ~ CancelsOneShots, ~ CancelsInline
  PROVE  CallsSpec => []CancelInv
<1>1. CallsInit => CancelInv
  <2>1. ASSUME CallsInit
        PROVE  /\ DOMAIN pendingFunctors = {} /\ known = {}
               /\ process = "running"
               /\ \A c \in Clients : call[c] \notin CancelFunctor
    BY <2>1, NoCallAssumption DEF CallsInit, Init, Functor
  <2>2. QED
    BY <2>1 DEF CancelInv, CancelFinds
<1>2. CallsIndInv /\ IndInv /\ CancelInv /\ [CallsNext]_allVars => CancelInv'
  BY CancelPreserved DEF IndInv
<1>3. CallsSpec => []IndInv
  BY CallsImplementation, Invariance, PTL DEF ImplementsTimerQueue
<1>4. QED
  BY <1>1, <1>2, <1>3, CallsInvariance, PTL DEF CallsSpec

(* Under the same discipline cancelTimerHandler never ends the process:    *)
(* whichever threads create and cancel, the handler is found.              *)
THEOREM CancelsFind ==
  ASSUME ~ CancelsOneShots, ~ CancelsInline
  PROVE  CallsSpec => []CancelFinds
<1>1. CancelInv => CancelFinds
  BY DEF CancelInv
<1>2. QED
  BY <1>1, CancelsFollowAdds, PTL

-----------------------------------------------------------------------------
(* What TimerPromise sees of a step of the handler queue, seen by callers  *)
(* whose scheduled handlers are none of those the step is about.           *)
LEMMA LiftToCallers ==
  ASSUME [TP!Next]_TP!vars, UNCHANGED <<added, created, Scheduled>>,
         \A g \in Scheduled, h \in Waiting : g.id # h.id
  PROVE  [Calls!Next]_Calls!vars
<1> DEFINE All == Scheduled \cup Waiting
<1>1. /\ \A h \in Waiting : h \notin Scheduled
      /\ All' = Scheduled \cup Waiting'
  OBVIOUS
<1>2. CASE UNCHANGED TP!vars
  BY <1>2 DEF TP!vars, Calls!vars, Waiting
<1>3. CASE TP!TimePasses
  <2>1. Calls!TimePasses
    BY <1>3 DEF TP!TimePasses, Calls!TimePasses, Waiting
  <2>2. QED
    BY <2>1 DEF Calls!Next
<1>4. CASE TP!Add
  BY <1>4 DEF TP!Add
<1>5. ASSUME NEW id \in Ids, TP!Cancel(id)
      PROVE  Calls!Next
  <2>1. PICK h \in Waiting : h.id = id
    BY <1>5 DEF TP!Cancel, Waiting
  <2>2. /\ Waiting' = {g \in Waiting : g.id # id}
        /\ UNCHANGED <<reached, created>>
    BY <1>5 DEF TP!Cancel, Waiting
  <2>3. All' = {g \in All : g.id # id}
    BY <1>1, <2>1, <2>2
  <2>4. Calls!Cancel(id)
    BY <2>1, <2>2, <2>3 DEF Calls!Cancel, Waiting
  <2>5. QED
    BY <2>4 DEF Calls!Next
<1>6. ASSUME NEW h \in Waiting, TP!RunOnce(h)
      PROVE  Calls!Next
  <2>1. Waiting' = Waiting \ {h} /\ UNCHANGED <<reached, created>>
    BY <1>6 DEF TP!RunOnce, Waiting
  <2>2. All' = All \ {h}
    BY <1>1, <2>1
  <2>3. Calls!RunOnce(h)
    BY <1>6, <2>1, <2>2 DEF TP!RunOnce, Calls!RunOnce, Waiting
  <2>4. QED
    BY <2>3 DEF Calls!Next, Waiting
<1>7. ASSUME NEW h \in Waiting, TP!RunAgainLater(h)
      PROVE  Calls!Next
  <2>1. PICK decided \in h.expiredTime .. reached :
          Waiting' = (Waiting \ {h})
            \cup {[h EXCEPT !.expiredTime = decided + h.interval]}
    BY <1>7 DEF TP!RunAgainLater, Waiting
  <2>2. All' = (All \ {h})
          \cup {[h EXCEPT !.expiredTime = decided + h.interval]}
    BY <1>1, <2>1
  <2>3. Calls!RunAgainLater(h)
    BY <1>7, <2>2 DEF TP!RunAgainLater, Calls!RunAgainLater, Waiting
  <2>4. QED
    BY <2>3 DEF Calls!Next, Waiting
<1>8. QED
  BY <1>2, <1>3, <1>4, <1>5, <1>6, <1>7 DEF TP!Next, Waiting

(* A handler added by a new call is a handler the callers have added.      *)
LEMMA NewIsAdded ==
  ASSUME TypeOK, NEW h \in NewHandlers,
         created' = created \cup {h.id}, UNCHANGED reached,
         (Scheduled \cup Waiting)' = Scheduled \cup Waiting \cup {h}
  PROVE  Calls!Next
<1>1. h \in Calls!Handler /\ h.id \notin created
  BY NewHandlerFacts DEF Handler, Calls!Handler
<1>2. Calls!Add
  BY <1>1 DEF Calls!Add, Waiting
<1>3. QED
  BY <1>2 DEF Calls!Next

(* Which handlers are scheduled after each kind of step.                   *)
LEMMA CreateSchedules ==
  ASSUME CallsTypeOK, NEW c \in Clients, NEW h, CreateHandler(c, h)
  PROVE  Scheduled' = Scheduled \cup {h}
<1> DEFINE f == [op |-> "addHandler", handler |-> h]
<1>1. h \in Handler /\ f \in AddFunctor /\ f.handler = h
  <2>1. TypeOK /\ h \in NewHandlers
    BY DEF CallsTypeOK, CreateHandler
  <2>2. QED
    BY <2>1, NewHandlerFacts DEF AddFunctor
<1>2. /\ call[c] = NoCall /\ NoCall \notin AddFunctor
      /\ call' = [call EXCEPT ![c] = f] /\ UNCHANGED pendingFunctors
      /\ call \in [Clients -> Functor \cup {NoCall}]
  BY NoCallAssumption DEF CallsTypeOK, CreateHandler, Functor
<1> HIDE DEF f
<1>3. InFlight' \cap AddFunctor = (InFlight \cap AddFunctor) \cup {f}
  BY <1>1, <1>2 DEF InFlight, Range
<1>4. QED
  BY <1>1, <1>3 DEF Scheduled

LEMMA CancelSchedulesNone ==
  ASSUME CallsTypeOK, NEW c \in Clients, NEW h, CancelTimerHandler(c, h)
  PROVE  UNCHANGED Scheduled
<1> DEFINE f == [op |-> "cancelHandler", id |-> h.id]
<1>1. /\ call[c] = NoCall /\ NoCall \notin AddFunctor
      /\ call' = [call EXCEPT ![c] = f] /\ UNCHANGED pendingFunctors
      /\ call \in [Clients -> Functor \cup {NoCall}]
      /\ f \notin AddFunctor
  BY NoCallAssumption DEF CallsTypeOK, CancelTimerHandler, Functor, AddFunctor
<1> HIDE DEF f
<1>2. InFlight' \cap AddFunctor = InFlight \cap AddFunctor
  BY <1>1 DEF InFlight, Range
<1>3. QED
  BY <1>2 DEF Scheduled

LEMMA PostSchedulesNone ==
  ASSUME CallsTypeOK, NEW c \in Clients, Post(c)
  PROVE  UNCHANGED Scheduled
<1>1. call[c] \in Functor /\ pendingFunctors \in Seq(Functor)
  BY DEF CallsTypeOK, Post
<1>2. Range(pendingFunctors') = Range(pendingFunctors) \cup {call[c]}
  <2> DEFINE s == pendingFunctors
             t == Append(pendingFunctors, call[c])
  <2>1. /\ DOMAIN s = 1 .. Len(s) /\ DOMAIN t = 1 .. Len(s) + 1
        /\ Len(s) \in Nat
        /\ t[Len(s) + 1] = call[c] /\ \A n \in DOMAIN s : t[n] = s[n]
    BY <1>1, AppendFacts
  <2>2. Len(s) + 1 \in DOMAIN t /\ DOMAIN s \subseteq DOMAIN t
        /\ \A n \in DOMAIN t : n \in DOMAIN s \/ n = Len(s) + 1
    BY <2>1
  <2> HIDE DEF s, t
  <2>3. Range(t) = Range(s) \cup {call[c]}
    BY <2>1, <2>2 DEF Range
  <2>4. QED
    BY <2>3 DEF Post, s, t
<1>3. /\ call' = [call EXCEPT ![c] = NoCall] /\ NoCall \notin AddFunctor
      /\ call \in [Clients -> Functor \cup {NoCall}]
  BY NoCallAssumption DEF CallsTypeOK, Post, Functor
<1>4. Range(call) \subseteq Range(call') \cup {call[c]}
      /\ Range(call') \subseteq Range(call) \cup {NoCall}
      /\ call[c] \in Range(call)
  BY <1>3 DEF Range
<1>5. InFlight' \cap AddFunctor = InFlight \cap AddFunctor
  BY <1>2, <1>3, <1>4 DEF InFlight
<1>6. QED
  BY <1>5 DEF Scheduled

LEMMA RunUnschedules ==
  ASSUME CallsTypeOK, RunPending
  PROVE  /\ Head(pendingFunctors) \notin AddFunctor => UNCHANGED Scheduled
         /\ Head(pendingFunctors) \in AddFunctor =>
              Scheduled = Scheduled' \cup {Head(pendingFunctors).handler}
<1> DEFINE s == pendingFunctors
           t == Tail(pendingFunctors)
<1>1. s \in Seq(Functor) /\ s # <<>> /\ pendingFunctors' = t /\ UNCHANGED call
  BY DEF CallsTypeOK, RunPending
<1>2. /\ DOMAIN s = 1 .. Len(s) /\ DOMAIN t = 1 .. Len(s) - 1
      /\ Len(s) \in Nat \ {0}
      /\ Head(s) = s[1] /\ \A n \in DOMAIN t : t[n] = s[n + 1]
  BY <1>1, TailFacts
<1>3. /\ 1 \in DOMAIN s /\ \A n \in DOMAIN t : n + 1 \in DOMAIN s
      /\ \A n \in DOMAIN s :
           n # 1 => n - 1 \in DOMAIN t /\ t[n - 1] = s[n]
  <2>1. 1 \in DOMAIN s /\ \A n \in DOMAIN t : n + 1 \in DOMAIN s
    BY <1>2
  <2>2. ASSUME NEW n \in DOMAIN s, n # 1
        PROVE  n - 1 \in DOMAIN t /\ t[n - 1] = s[n]
    <3>1. n - 1 \in DOMAIN t /\ n - 1 + 1 = n
      BY <1>2, <2>2
    <3>2. t[n - 1] = s[n - 1 + 1]
      BY <1>2, <3>1
    <3>3. QED
      BY <3>1, <3>2
  <2>3. QED
    BY <2>1, <2>2
<1> HIDE DEF s, t
<1>4. Range(s) = Range(t) \cup {Head(s)}
  <2>1. \A n \in DOMAIN s : s[n] \in Range(t) \cup {Head(s)}
    BY <1>2, <1>3 DEF Range
  <2>2. \A n \in DOMAIN t : t[n] \in Range(s)
    BY <1>2, <1>3 DEF Range
  <2>3. Head(s) \in Range(s)
    BY <1>2, <1>3 DEF Range
  <2>4. QED
    BY <2>1, <2>2, <2>3 DEF Range
<1>5. InFlight = InFlight' \cup {Head(s)}
  BY <1>1, <1>4 DEF InFlight, s
<1>6. QED
  BY <1>5 DEF Scheduled, s

(* Every step, as the callers see it, is a step of TimerPromise or changes *)
(* nothing that TimerPromise sees.                                         *)
LEMMA CallsStepKeepsPromise ==
  ASSUME CallsIndInv, IndInv, [CallsNext]_allVars
  PROVE  [Calls!Next]_Calls!vars
<1>1. CallsTypeOK /\ TypeOK /\ OnePlace /\ ScheduledInv
  BY DEF CallsIndInv, CallsTypeOK, IndInv
<1>2. [TP!Next]_TP!vars
  BY CallsStepIsTimerStep, StepImplements
<1>3. \A g \in Scheduled, h \in Waiting : g.id # h.id
  <2>1. \A h \in Waiting : h.id \in added
    BY <1>1, RenewedKeepsIds DEF Waiting, OnePlace, Handlers, TypeOK
  <2>2. QED
    BY <1>1, <2>1 DEF ScheduledInv
<1>4. ASSUME UNCHANGED <<vars, created, Scheduled>>
      PROVE  [Calls!Next]_Calls!vars
  BY <1>2, <1>3, <1>4, LiftToCallers DEF vars
<1>5. ASSUME NEW c \in Clients, NEW h \in NewHandlers, CreateHandler(c, h)
      PROVE  [Calls!Next]_Calls!vars
  <2>1. /\ UNCHANGED <<handlerQueue, toRun, hasRun, handleTime, reached>>
        /\ created' = created \cup {h.id}
    BY <1>5 DEF CreateHandler, vars, timeVars, readVars
  <2>2. UNCHANGED Waiting
    BY <2>1 DEF Waiting, Renewed
  <2>3. QED
    BY <1>1, <1>5, <2>1, <2>2, CreateSchedules, NewIsAdded
<1>6. ASSUME NEW c \in Clients, NEW h \in known, CancelTimerHandler(c, h)
      PROVE  [Calls!Next]_Calls!vars
  BY <1>1, <1>4, <1>6, CancelSchedulesNone DEF CancelTimerHandler
<1>7. ASSUME NEW c \in Clients, Post(c)
      PROVE  [Calls!Next]_Calls!vars
  BY <1>1, <1>4, <1>7, PostSchedulesNone DEF Post
<1>8. CASE RunPending
  <2> DEFINE f == Head(pendingFunctors)
  <2>1. Run(f) /\ UNCHANGED <<timeVars, readVars, created>>
    BY <1>8 DEF RunPending
  <2>2. /\ f \notin AddFunctor => UNCHANGED Scheduled
        /\ f \in AddFunctor => Scheduled = Scheduled' \cup {f.handler}
    BY <1>1, <1>8, RunUnschedules
  <2> HIDE DEF f
  <2>3. CASE f \in CancelFunctor /\ UNCHANGED added
    <3>1. UNCHANGED Scheduled
      BY <2>2, <2>3, FunctorKinds
    <3>2. QED
      BY <1>2, <1>3, <2>1, <2>3, <3>1, LiftToCallers
  <2>4. CASE f \in AddFunctor /\ Insert(f.handler)
    <3>1. Waiting' = Waiting \cup {f.handler}
      BY <2>1, <2>4 DEF Insert, Waiting, Renewed, readVars
    <3>2. UNCHANGED (Scheduled \cup Waiting)
      BY <2>2, <2>4, <3>1
    <3>3. QED
      BY <2>1, <3>2 DEF Calls!vars, Waiting, timeVars
  <2>5. QED
    BY <2>1, <2>3, <2>4 DEF Run
<1>9. ASSUME NEW h \in NewHandlers, IoRunTimer(h)
      PROVE  [Calls!Next]_Calls!vars
  <2>1. /\ UNCHANGED <<call, pendingFunctors, reached, toRun, hasRun,
                       handleTime>>
        /\ handlerQueue' = handlerQueue \cup {h}
        /\ created' = created \cup {h.id}
    BY <1>9 DEF IoRunTimer, Insert, timeVars, readVars
  <2>2. UNCHANGED Scheduled /\ Waiting' = Waiting \cup {h}
    BY <2>1 DEF Waiting, Renewed, Scheduled, InFlight
  <2>3. QED
    BY <1>1, <2>1, <2>2, NewIsAdded
<1>10. ASSUME \/ \E h \in known : IoCancelTimerHandler(h)
              \/ ServeTimers \/ TimePasses
              \/ (\E j \in ClockJumps : SetClock(j)) /\ UNCHANGED callVars
              \/ UNCHANGED allVars
       PROVE  [Calls!Next]_Calls!vars
  <2>1. UNCHANGED <<call, pendingFunctors, created, added>>
    BY <1>10 DEF IoCancelTimerHandler, ServeTimers, TimePasses, LoopStep,
      PollReports, TakeNow, HandleRead, RunHandler, CallbackReturns, TriggerEvent, Tick,
      SetClock, callVars, allVars, vars
  <2>2. UNCHANGED Scheduled
    BY <2>1 DEF Scheduled, InFlight
  <2>3. QED
    BY <1>2, <1>3, <2>1, <2>2, LiftToCallers
<1>11. QED
  BY <1>5, <1>6, <1>7, <1>8, <1>9, <1>10 DEF CallsNext

(* To any number of callers on any threads the timers keep TimerPromise,   *)
(* counted from the moment a handler is created: none runs before its time,*)
(* none is lost or run twice on its way through the queues.                *)
THEOREM CallersPromise == CallsSpec => ImplementsCallersPromise
<1>1. CallsInit => Calls!Init
  <2> SUFFICES ASSUME CallsInit PROVE Calls!Init
    OBVIOUS
  <2>1. InFlight \subseteq {NoCall} /\ NoCall \notin AddFunctor
    BY NoCallAssumption DEF CallsInit, InFlight, Range, Functor
  <2>2. Scheduled = {}
    BY <2>1 DEF Scheduled
  <2>3. QED
    BY <2>2 DEF CallsInit, Init, Calls!Init, Renewed
<1>2. CallsIndInv /\ IndInv /\ [CallsNext]_allVars => [Calls!Next]_Calls!vars
  BY CallsStepKeepsPromise
<1>3. CallsSpec => []IndInv
  BY CallsImplementation, Invariance, PTL DEF ImplementsTimerQueue
<1>4. QED
  BY <1>1, <1>2, <1>3, CallsInvariance, PTL
    DEF CallsSpec, ImplementsCallersPromise, Calls!Spec
=============================================================================
