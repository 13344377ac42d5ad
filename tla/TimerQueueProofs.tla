--------------------------- MODULE TimerQueueProofs ---------------------------
(***************************************************************************)
(* Proofs that the timers of cbee keep their promises for any number of    *)
(* handlers, any deadlines and intervals and, except for Punctual, however *)
(* the clock is set: the invariants of TimerQueue, and that it implements  *)
(* TimerPromise.                                                           *)
(***************************************************************************)
EXTENDS TimerQueue, TLAPS

-----------------------------------------------------------------------------
(* triggerEventAt always arms the timerfd, for the deadline it was given   *)
(* or, if that is closer than the least interval, for that interval.       *)
LEMMA TriggerArms ==
  ASSUME TypeOK, NEW time \in Int, TriggerEventAt(time)
  PROVE  /\ armed' \in Nat \ {0}
         /\ expirations' = 0
         /\ armed' <= Larger(MinInterval, time - clock)
BY TimeAssumption DEF TypeOK, TriggerEventAt, Larger

(* The bound on the time left only grows with the deadline.                *)
LEMMA LargerMonotone ==
  ASSUME NEW a \in Int, NEW b \in Int, a <= b
  PROVE  Larger(MinInterval, a) <= Larger(MinInterval, b)
BY TimeAssumption DEF Larger

LEMMA RenewedIsHandler ==
  ASSUME TypeOK, NEW H \in SUBSET Handler
  PROVE  Renewed(H) \subseteq Handler
BY TimeAssumption DEF TypeOK, Renewed, Handler

-----------------------------------------------------------------------------
(* Every step keeps every variable in its type.                            *)
LEMMA TypePreserved ==
  ASSUME TypeOK, [Next]_vars
  PROVE  TypeOK'
<1> USE DEF TypeOK
<1>1. ASSUME NEW id \in Ids, NEW d \in Delays, NEW i \in Intervals,
             AddHandler(id, d, i)
      PROVE  TypeOK'
  <2> DEFINE h == [id |-> id, expiredTime |-> clock + d, interval |-> i]
  <2>1. /\ added' = added \cup {id}
        /\ handlerQueue' = handlerQueue \cup {h}
        /\ TriggerEventAt(h.expiredTime) \/ UNCHANGED fdVars
        /\ UNCHANGED <<timeVars, readVars, pc, process>>
    BY <1>1 DEF AddHandler, Insert
  <2>2. h \in Handler
    BY <2>1, TimeAssumption DEF Handler
  <2>3. armed' \in Nat /\ expirations' \in {0, 1}
    BY <2>1, <2>2, TriggerArms DEF fdVars, Handler
  <2>4. QED
    BY <2>1, <2>2, <2>3 DEF timeVars, readVars
<1>2. ASSUME NEW id \in Ids, CancelHandler(id)
      PROVE  TypeOK'
  BY <1>2 DEF CancelHandler, Erase, timeVars, fdVars, readVars
<1>3. CASE PollReports \/ CallbackReturns
  BY <1>3 DEF PollReports, CallbackReturns, timeVars, fdVars, readVars
<1>4. CASE TakeNow \/ HandleRead
  BY <1>4 DEF TakeNow, HandleRead, timeVars, fdVars, readVars
<1>5. ASSUME NEW h \in toRun, RunHandler(h)
      PROVE  TypeOK'
  BY <1>5 DEF RunHandler, timeVars, fdVars
<1>6. CASE TriggerEvent
  <2>1. handlerQueue' \subseteq Handler
    BY <1>6, RenewedIsHandler DEF TriggerEvent
  <2>2. \/ UNCHANGED fdVars
        \/ \E h \in handlerQueue' : TriggerEventAt(h.expiredTime)
    BY <1>6 DEF TriggerEvent, Earliest
  <2>3. armed' \in Nat /\ expirations' \in {0, 1}
    BY <2>1, <2>2, TriggerArms DEF fdVars, Handler
  <2>4. QED
    BY <1>6, <2>1, <2>3 DEF TriggerEvent, timeVars
<1>7. CASE Tick
  BY <1>7, TimeAssumption DEF Tick, Larger, readVars
<1>8. ASSUME NEW j \in ClockJumps, SetClock(j)
      PROVE  TypeOK'
  BY <1>8, TimeAssumption DEF SetClock, Larger, fdVars, readVars
<1>9. CASE UNCHANGED vars
  BY <1>9 DEF vars, timeVars, fdVars, readVars
<1>10. QED
  BY <1>1, <1>2, <1>3, <1>4, <1>5, <1>6, <1>7, <1>8, <1>9 DEF Next, LoopStep

-----------------------------------------------------------------------------
(* Whenever the loop may block, a queue that is not empty has the timerfd  *)
(* armed or readable.                                                      *)
LEMMA NotStalledPreserved ==
  ASSUME TypeOK, NotStalled, [Next]_vars
  PROVE  NotStalled'
<1> USE DEF NotStalled
<1>1. ASSUME NEW id \in Ids, NEW d \in Delays, NEW i \in Intervals,
             AddHandler(id, d, i)
      PROVE  NotStalled'
  <2>1. clock + d \in Int
    BY TimeAssumption DEF TypeOK
  <2>2. \/ armed' > 0
        \/ handlerQueue # {} /\ UNCHANGED fdVars
    BY <1>1, <2>1, TriggerArms DEF AddHandler, Insert
  <2>3. QED
    BY <1>1, <2>2 DEF AddHandler, Insert, fdVars
<1>2. ASSUME NEW id \in Ids, CancelHandler(id)
      PROVE  NotStalled'
  BY <1>2 DEF CancelHandler, Erase, fdVars
<1>3. CASE PollReports \/ TakeNow \/ HandleRead \/ CallbackReturns
  BY <1>3 DEF PollReports, TakeNow, HandleRead, CallbackReturns, fdVars
<1>4. ASSUME NEW h \in toRun, RunHandler(h)
      PROVE  NotStalled'
  BY <1>4 DEF RunHandler
<1>5. CASE TriggerEvent
  <2>1. handlerQueue' \subseteq Handler
    BY <1>5, TypePreserved DEF TypeOK, Next, LoopStep
  <2>2. ASSUME NEW h \in Earliest(handlerQueue'), TriggerEventAt(h.expiredTime)
        PROVE  armed' > 0
    BY <2>1, <2>2, TriggerArms DEF Earliest, Handler
  <2>3. QED
    BY <1>5, <2>2 DEF TriggerEvent
<1>6. CASE Tick
  <2>1. \/ armed' > 0 /\ expirations' = expirations
        \/ expirations' = 1
        \/ armed = 0 /\ armed' = 0 /\ expirations' = expirations
    BY <1>6 DEF Tick, TypeOK
  <2>2. QED
    BY <1>6, <2>1 DEF Tick
<1>7. ASSUME NEW j \in ClockJumps, SetClock(j)
      PROVE  NotStalled'
  BY <1>7 DEF SetClock, fdVars
<1>8. CASE UNCHANGED vars
  BY <1>8 DEF vars, fdVars
<1>9. QED
  BY <1>1, <1>2, <1>3, <1>4, <1>5, <1>6, <1>7, <1>8 DEF Next, LoopStep

-----------------------------------------------------------------------------
(* What Punctual says of one handler.                                      *)
InTime(h) ==
  \/ expirations = 1
  \/ armed > 0 /\ armed <= Larger(MinInterval, h.expiredTime - clock)

(* Arming for the earliest handler is in time for every later one.         *)
LEMMA EarliestInTime ==
  ASSUME TypeOK, NEW h \in Handler, TriggerEventAt(h.expiredTime),
         UNCHANGED clock,
         NEW g \in Handler, h.expiredTime <= g.expiredTime
  PROVE  InTime(g)'
<1>1. h.expiredTime \in Int /\ g.expiredTime \in Int /\ clock \in Int
  BY DEF Handler, TypeOK
<1>2. Larger(MinInterval, h.expiredTime - clock)
        <= Larger(MinInterval, g.expiredTime - clock)
  BY <1>1, LargerMonotone
<1>3. /\ Larger(MinInterval, h.expiredTime - clock) \in Int
      /\ Larger(MinInterval, g.expiredTime - clock) \in Int
  BY <1>1, TimeAssumption DEF Larger
<1>4. /\ armed' \in Nat \ {0}
      /\ armed' <= Larger(MinInterval, h.expiredTime - clock)
  BY <1>1, TriggerArms
<1>5. armed' > 0 /\ armed' <= Larger(MinInterval, g.expiredTime - clock)
  BY <1>2, <1>3, <1>4
<1>6. QED
  BY <1>5 DEF InTime

(* A tick takes as much from the count-down as from the time left.         *)
LEMMA TickInTime ==
  ASSUME TypeOK, Tick, NEW g \in Handler, InTime(g)
  PROVE  InTime(g)'
<1>1. /\ g.expiredTime \in Int /\ clock \in Int /\ armed \in Nat
      /\ clock' \in Int /\ clock' <= clock + 1
  BY DEF Handler, TypeOK, Tick
<1>2. CASE armed > 1
  <2>1. armed' = armed - 1 /\ expirations' = expirations
    BY <1>1, <1>2 DEF Tick
  <2>2. ASSUME armed <= Larger(MinInterval, g.expiredTime - clock)
        PROVE  armed' <= Larger(MinInterval, g.expiredTime - clock')
    BY <1>1, <2>1, <2>2, TimeAssumption DEF Larger
  <2>3. QED
    BY <1>1, <1>2, <2>1, <2>2 DEF InTime
<1>3. CASE armed <= 1
  BY <1>1, <1>3 DEF InTime, Tick
<1>4. QED
  BY <1>1, <1>2, <1>3

(* A clock set back leaves more time.                                      *)
LEMMA SetBackInTime ==
  ASSUME TypeOK, NEW j \in ClockJumps, j <= 0, SetClock(j),
         NEW g \in Handler, InTime(g)
  PROVE  InTime(g)'
<1>1. /\ g.expiredTime \in Int /\ clock \in Int /\ armed \in Nat
      /\ clock' \in Int /\ clock' <= clock
      /\ armed' = armed /\ expirations' = expirations
  BY TimeAssumption DEF Handler, TypeOK, SetClock, fdVars
<1>2. ASSUME armed <= Larger(MinInterval, g.expiredTime - clock)
      PROVE  armed' <= Larger(MinInterval, g.expiredTime - clock')
  BY <1>1, <1>2, TimeAssumption DEF Larger
<1>3. QED
  BY <1>1, <1>2 DEF InTime

(* With nobody setting the clock forward, the timerfd is never late.       *)
LEMMA PunctualPreserved ==
  ASSUME TypeOK, Punctual, [Next]_vars
  PROVE  Punctual'
<1> SUFFICES ASSUME (pc \in {"loop", "batch", "read"})',
                    \A j \in ClockJumps : j <= 0,
                    NEW g \in handlerQueue'
             PROVE  InTime(g)'
  BY DEF Punctual, InTime
<1>1. g \in Handler
  BY TypePreserved DEF TypeOK
<1>2. ASSUME pc \in {"loop", "batch", "read"}, NEW h \in handlerQueue
      PROVE  InTime(h)
  BY <1>2 DEF Punctual, InTime
<1>3. ASSUME g \in handlerQueue, UNCHANGED <<clock, fdVars>>,
             pc \in {"loop", "batch", "read"}
      PROVE  InTime(g)'
  BY <1>2, <1>3 DEF InTime, fdVars
<1>4. ASSUME NEW id \in Ids, NEW d \in Delays, NEW i \in Intervals,
             AddHandler(id, d, i)
      PROVE  InTime(g)'
  <2> DEFINE h == [id |-> id, expiredTime |-> clock + d, interval |-> i]
  <2>1. /\ handlerQueue' = handlerQueue \cup {h} /\ pc \in {"loop", "batch", "read"}
        /\ UNCHANGED clock
        /\ IF \A f \in handlerQueue : h.expiredTime < f.expiredTime
           THEN TriggerEventAt(h.expiredTime)
           ELSE UNCHANGED fdVars
    BY <1>4 DEF AddHandler, Insert, timeVars
  <2>2. h \in Handler
    BY <2>1, TimeAssumption DEF TypeOK, Handler
  <2>3. CASE \A f \in handlerQueue : h.expiredTime < f.expiredTime
    <3>1. h.expiredTime <= g.expiredTime
      BY <1>1, <2>1, <2>2, <2>3 DEF Handler
    <3>2. QED
      BY <1>1, <2>1, <2>2, <2>3, <3>1, EarliestInTime
  <2>4. ASSUME NEW f \in handlerQueue, ~(h.expiredTime < f.expiredTime),
               UNCHANGED fdVars
        PROVE  InTime(g)'
    <3>1. CASE g \in handlerQueue
      BY <1>3, <2>1, <2>4, <3>1
    <3>2. CASE g = h
      <4>1. InTime(f)
        BY <1>2, <2>1
      <4>2. /\ f.expiredTime \in Int /\ h.expiredTime \in Int /\ clock \in Int
            /\ armed \in Nat
        BY <2>2 DEF TypeOK, Handler
      <4>3. Larger(MinInterval, f.expiredTime - clock)
              <= Larger(MinInterval, h.expiredTime - clock)
        BY <2>4, <4>2, LargerMonotone
      <4>4. InTime(h)
        BY <4>1, <4>2, <4>3, TimeAssumption DEF InTime, Larger
      <4>5. QED
        BY <2>1, <2>4, <3>2, <4>4 DEF InTime, fdVars
    <3>3. QED
      BY <2>1, <3>1, <3>2
  <2>5. QED
    BY <2>1, <2>3, <2>4
<1>5. CASE TriggerEvent
  <2>1. PICK h \in Earliest(handlerQueue') : TriggerEventAt(h.expiredTime)
    BY <1>5 DEF TriggerEvent
  <2>2. h \in Handler /\ h.expiredTime <= g.expiredTime
    BY TypePreserved DEF Earliest, TypeOK
  <2>3. UNCHANGED clock
    BY <1>5 DEF TriggerEvent, timeVars
  <2>4. QED
    BY <1>1, <2>1, <2>2, <2>3, EarliestInTime
<1>6. CASE Tick
  BY <1>1, <1>2, <1>6, TickInTime DEF Tick
<1>7. ASSUME \/ \E id \in Ids : CancelHandler(id)
             \/ PollReports \/ TakeNow \/ HandleRead \/ UNCHANGED vars
      PROVE  InTime(g)'
  <2>1. /\ g \in handlerQueue /\ UNCHANGED <<clock, fdVars>>
        /\ pc \in {"loop", "batch", "read"}
    BY <1>7
    DEF CancelHandler, Erase, PollReports, TakeNow, HandleRead, vars, timeVars, fdVars
  <2>2. QED
    BY <1>3, <2>1
<1>8. CASE CallbackReturns \/ \E h \in toRun : RunHandler(h)
  BY <1>8 DEF CallbackReturns, RunHandler
<1>9. CASE \E j \in ClockJumps : SetClock(j)
  BY <1>1, <1>2, <1>9, SetBackInTime DEF SetClock
<1>10. QED
  BY <1>4, <1>5, <1>6, <1>7, <1>8, <1>9 DEF Next, LoopStep

-----------------------------------------------------------------------------
(* handleRead empties its locals before it returns.                        *)
LEMMA LocalsPreserved ==
  ASSUME LocalsEmpty, [Next]_vars
  PROVE  LocalsEmpty'
<1>1. ASSUME UNCHANGED readVars, pc' = pc \/ pc' \notin {"loop", "batch", "read"}
                                       \/ pc \in {"loop", "batch", "read"}
      PROVE  LocalsEmpty'
  BY <1>1 DEF LocalsEmpty, readVars
<1>2. CASE TakeNow \/ HandleRead \/ TriggerEvent
  BY <1>2 DEF LocalsEmpty, TakeNow, HandleRead, TriggerEvent, readVars
<1>3. CASE \E h \in toRun : RunHandler(h)
  BY <1>3 DEF LocalsEmpty, RunHandler
<1>4. CASE UNCHANGED vars
  BY <1>1, <1>4 DEF vars
<1>5. ASSUME \/ \E id \in Ids, d \in Delays, i \in Intervals :
                  AddHandler(id, d, i)
             \/ \E id \in Ids : CancelHandler(id)
             \/ PollReports \/ CallbackReturns \/ Tick
             \/ \E j \in ClockJumps : SetClock(j)
      PROVE  LocalsEmpty'
  BY <1>1, <1>5 DEF AddHandler, Insert, CancelHandler, Erase, PollReports,
    CallbackReturns,
    Tick, SetClock
<1>6. QED
  BY <1>2, <1>3, <1>4, <1>5 DEF Next, LoopStep

(* reached never goes back, and what is to run was due at handleTime.      *)
LEMMA DuePreserved ==
  ASSUME TypeOK, LocalsEmpty, DueInv, [Next]_vars
  PROVE  DueInv'
<1>1. CASE TakeNow \/ HandleRead
  BY <1>1 DEF LocalsEmpty, DueInv, TypeOK, TakeNow, HandleRead, timeVars, readVars
<1>2. ASSUME NEW h \in toRun, RunHandler(h)
      PROVE  DueInv'
  BY <1>2 DEF DueInv, RunHandler, timeVars
<1>3. CASE TriggerEvent
  BY <1>3 DEF DueInv, TriggerEvent, timeVars
<1>4. CASE Tick \/ \E j \in ClockJumps : SetClock(j)
  <2>1. /\ clock' \in Int /\ reached' = Larger(reached, clock')
        /\ UNCHANGED readVars
    BY <1>4, TypePreserved DEF TypeOK, Tick, SetClock
  <2>2. reached <= reached' /\ clock' <= reached' /\ reached' \in Int
    BY <2>1 DEF TypeOK, Larger
  <2>3. handleTime \in Int /\ reached \in Int
    BY DEF TypeOK
  <2>4. QED
    BY <2>1, <2>2, <2>3 DEF DueInv, readVars
<1>5. ASSUME \/ \E id \in Ids, d \in Delays, i \in Intervals :
                  AddHandler(id, d, i)
             \/ \E id \in Ids : CancelHandler(id)
             \/ PollReports \/ CallbackReturns \/ UNCHANGED vars
      PROVE  DueInv'
  BY <1>5 DEF DueInv, AddHandler, Insert, CancelHandler, Erase, PollReports,
    CallbackReturns,
    vars, timeVars, readVars
<1>6. QED
  BY <1>1, <1>2, <1>3, <1>4, <1>5 DEF Next, LoopStep

(* A handler that runs again keeps its id.                                 *)
LEMMA RenewedKeepsIds ==
  ASSUME NEW H \in SUBSET Handler
  PROVE  /\ \A g \in Renewed(H) : \E h \in H : g.id = h.id
         /\ \A g1, g2 \in Renewed(H) : \E h1, h2 \in H :
              /\ g1.id = h1.id /\ g2.id = h2.id
              /\ h1 = h2 => g1 = g2
BY DEF Renewed, Handler

(* Each id stays in one of the queue, the batch and what has run of it.    *)
LEMMA OnePlacePreserved ==
  ASSUME TypeOK, OnePlace, LocalsEmpty, [Next]_vars
  PROVE  OnePlace'
<1> USE DEF Handlers
<1>1. ASSUME UNCHANGED <<toRun, hasRun, added>>,
             handlerQueue' \subseteq handlerQueue
      PROVE  OnePlace'
  BY <1>1 DEF OnePlace
<1>2. ASSUME NEW id \in Ids, NEW d \in Delays, NEW i \in Intervals,
             AddHandler(id, d, i)
      PROVE  OnePlace'
  <2> DEFINE h == [id |-> id, expiredTime |-> clock + d, interval |-> i]
  <2>1. /\ handlerQueue' = handlerQueue \cup {h}
        /\ id \notin added /\ added' = added \cup {id}
        /\ UNCHANGED <<toRun, hasRun>>
    BY <1>2 DEF AddHandler, Insert, readVars
  <2>2. /\ h.id \in added'
        /\ \A g \in Handlers : g.id # h.id /\ g.id \in added'
    BY <2>1 DEF OnePlace
  <2>3. Handlers' = Handlers \cup {h} /\ h \notin Handlers
    BY <2>1, <2>2
  <2> HIDE DEF h
  <2>4. QED
    BY <2>1, <2>2, <2>3 DEF OnePlace
<1>3. CASE TakeNow \/ HandleRead
  BY <1>1, <1>3 DEF OnePlace, LocalsEmpty, TakeNow, HandleRead, readVars
<1>4. ASSUME NEW h \in toRun, RunHandler(h)
      PROVE  OnePlace'
  BY <1>4 DEF OnePlace, RunHandler
<1>5. CASE TriggerEvent
  <2>1. /\ handlerQueue' = handlerQueue \cup Renewed(hasRun)
        /\ toRun' = {} /\ hasRun' = {} /\ added' = added
    BY <1>5 DEF TriggerEvent
  <2>2. hasRun \subseteq Handler
    BY DEF TypeOK
  <2>3. \A g \in Renewed(hasRun) : g.id \in added
    BY <2>2, RenewedKeepsIds DEF OnePlace
  <2>4. \A g \in Renewed(hasRun), f \in handlerQueue : g.id # f.id
    BY <2>2, RenewedKeepsIds DEF OnePlace
  <2>5. \A g1, g2 \in Renewed(hasRun) : g1.id = g2.id => g1 = g2
    BY <2>2, RenewedKeepsIds DEF OnePlace
  <2>6. QED
    BY <2>1, <2>3, <2>4, <2>5 DEF OnePlace
<1>6. ASSUME \/ \E id \in Ids : CancelHandler(id)
             \/ PollReports \/ CallbackReturns \/ Tick
             \/ \E j \in ClockJumps : SetClock(j)
             \/ UNCHANGED vars
      PROVE  OnePlace'
  BY <1>1, <1>6 DEF CancelHandler, Erase, PollReports, CallbackReturns, Tick,
    SetClock,
    vars, readVars
<1>7. QED
  BY <1>2, <1>3, <1>4, <1>5, <1>6 DEF Next, LoopStep

-----------------------------------------------------------------------------
LEMMA InitIndInv == Init => IndInv
BY TimeAssumption
  DEF Init, IndInv, TypeOK, NotStalled, Punctual, OnePlace, Handlers,
    LocalsEmpty, DueInv

LEMMA IndInvPreserved == IndInv /\ [Next]_vars => IndInv'
BY TypePreserved, NotStalledPreserved, PunctualPreserved, OnePlacePreserved,
  LocalsPreserved, DuePreserved DEF IndInv

(* Everything a reachable state of the timers satisfies (IndInv in         *)
(* TimerQueue.tla).                                                        *)
THEOREM Invariance == Spec => []IndInv
BY InitIndInv, IndInvPreserved, PTL DEF Spec

(* The type invariant holds in every reachable state.                      *)
THEOREM TypeCorrect == Spec => []TypeOK
<1>1. IndInv => TypeOK
  BY DEF IndInv
<1>2. QED
  BY <1>1, Invariance, PTL

(* No queue of handlers is left with a timerfd that will not wake the loop.*)
THEOREM NeverStalled == Spec => []NotStalled
<1>1. IndInv => NotStalled
  BY DEF IndInv
<1>2. QED
  BY <1>1, Invariance, PTL

(* Nobody setting it forward, the timerfd wakes the loop in time for every *)
(* handler.                                                                *)
THEOREM AlwaysPunctual == Spec => []Punctual
<1>1. IndInv => Punctual
  BY DEF IndInv
<1>2. QED
  BY <1>1, Invariance, PTL

-----------------------------------------------------------------------------
(* The handlers still to run, as TimerPromise sees them.                   *)
Waiting == handlerQueue \cup toRun \cup Renewed(hasRun)

(* A handler that has run waits under its own id, which no other has.      *)
LEMMA WaitingIds ==
  ASSUME TypeOK, OnePlace
  PROVE  /\ \A g \in Renewed(hasRun), h \in handlerQueue \cup toRun : g.id # h.id
         /\ \A g, h \in handlerQueue \cup toRun : g.id = h.id => g = h
<1>1. hasRun \subseteq Handler
  BY DEF TypeOK
<1>2. QED
  BY <1>1, RenewedKeepsIds DEF OnePlace, Handlers

(* A run of handler h takes it off the waiting ones, or moves it to a later*)
(* time if it has an interval.                                             *)
LEMMA RunLeaves ==
  ASSUME TypeOK, OnePlace, NEW h \in toRun, RunHandler(h)
  PROVE  Waiting' = IF h.interval = 0
                    THEN Waiting \ {h}
                    ELSE (Waiting \ {h})
                         \cup {[h EXCEPT !.expiredTime = handleTime + h.interval]}
<1>1. /\ handlerQueue' = handlerQueue /\ toRun' = toRun \ {h}
      /\ hasRun' = hasRun \cup {h} /\ handleTime' = handleTime
  BY DEF RunHandler
<1>2. Renewed(hasRun)' = Renewed(hasRun) \cup
        IF h.interval = 0 THEN {}
        ELSE {[h EXCEPT !.expiredTime = handleTime + h.interval]}
  BY <1>1 DEF Renewed
<1>3. h \notin handlerQueue /\ h \notin Renewed(hasRun)
  BY WaitingIds DEF OnePlace
<1>4. QED
  BY <1>1, <1>2, <1>3 DEF Waiting

(* Every step of TimerQueue is a step of TimerPromise or changes nothing   *)
(* that TimerPromise sees.                                                 *)
LEMMA StepImplements ==
  ASSUME IndInv, [Next]_vars
  PROVE  [TP!Next]_TP!vars
<1> USE DEF Waiting
<1>1. TypeOK /\ OnePlace /\ LocalsEmpty /\ DueInv
  BY DEF IndInv
<1>2. ASSUME NEW id \in Ids, NEW d \in Delays, NEW i \in Intervals,
             AddHandler(id, d, i)
      PROVE  TP!Next
  <2> DEFINE h == [id |-> id, expiredTime |-> clock + d, interval |-> i]
  <2>1. /\ id \notin added /\ added' = added \cup {id}
        /\ handlerQueue' = handlerQueue \cup {h}
        /\ UNCHANGED <<reached, toRun, hasRun, handleTime>>
    BY <1>2 DEF AddHandler, Insert, timeVars, readVars
  <2>2. h \in TP!Handler /\ h.id = id
    BY <1>1, <2>1, TimeAssumption DEF TypeOK, TP!Handler
  <2> HIDE DEF h
  <2>3. Waiting' = Waiting \cup {h}
    BY <2>1 DEF Renewed
  <2>4. TP!Add
    BY <2>1, <2>2, <2>3 DEF TP!Add
  <2>5. QED
    BY <2>4 DEF TP!Next
<1>3. ASSUME NEW id \in Ids, CancelHandler(id)
      PROVE  [TP!Next]_TP!vars
  <2>1. /\ handlerQueue' = {h \in handlerQueue : h.id # id}
        /\ UNCHANGED <<reached, added, toRun, hasRun, handleTime>>
    BY <1>3 DEF CancelHandler, Erase, timeVars, readVars
  <2>2. UNCHANGED Renewed(hasRun)
    BY <2>1 DEF Renewed
  <2>3. CASE handlerQueue' = handlerQueue
    BY <2>1, <2>2, <2>3 DEF TP!vars
  <2>4. CASE handlerQueue' # handlerQueue
    <3>1. PICK h \in handlerQueue : h.id = id
      BY <2>1, <2>4
    <3>2. \A g \in toRun \cup Renewed(hasRun) : g.id # id
      BY <1>1, <3>1, WaitingIds DEF OnePlace
    <3>3. Waiting' = {g \in Waiting : g.id # id}
      BY <2>1, <2>2, <3>2
    <3>4. TP!Cancel(id)
      BY <2>1, <3>1, <3>3 DEF TP!Cancel
    <3>5. QED
      BY <3>4 DEF TP!Next
  <2>5. QED
    BY <2>3, <2>4
<1>4. CASE TakeNow \/ HandleRead
  <2>1. /\ handlerQueue' \cup toRun' = handlerQueue \cup toRun
        /\ hasRun = {} /\ hasRun' = {}
        /\ UNCHANGED <<reached, added>>
    BY <1>1, <1>4 DEF LocalsEmpty, TakeNow, HandleRead, timeVars, readVars
  <2>2. Renewed(hasRun) = {} /\ Renewed(hasRun)' = {}
    BY <2>1 DEF Renewed
  <2>3. QED
    BY <2>1, <2>2 DEF TP!vars
<1>5. ASSUME NEW h \in toRun, RunHandler(h)
      PROVE  TP!Next
  <2>1. UNCHANGED <<reached, added>>
    BY <1>5 DEF RunHandler, timeVars
  <2>2. /\ h \in Waiting
        /\ h.expiredTime \in Int /\ handleTime \in Int /\ reached \in Int
        /\ h.expiredTime <= handleTime /\ handleTime <= reached
    BY <1>1 DEF DueInv, TypeOK, Handler
  <2>3. CASE h.interval = 0
    <3>1. TP!RunOnce(h)
      BY <1>1, <1>5, <2>1, <2>2, <2>3, RunLeaves DEF TP!RunOnce
    <3>2. QED
      BY <2>2, <3>1 DEF TP!Next
  <2>4. CASE h.interval # 0
    <3>1. handleTime \in h.expiredTime .. reached
      BY <2>2
    <3>2. Waiting' = (Waiting \ {h})
            \cup {[h EXCEPT !.expiredTime = handleTime + h.interval]}
      BY <1>1, <1>5, <2>4, RunLeaves
    <3>3. TP!RunAgainLater(h)
      BY <2>1, <2>4, <3>1, <3>2 DEF TP!RunAgainLater
    <3>4. QED
      BY <2>2, <3>3 DEF TP!Next
  <2>5. QED
    BY <2>3, <2>4
<1>6. CASE TriggerEvent
  <2>1. /\ handlerQueue' = handlerQueue \cup Renewed(hasRun)
        /\ toRun = {} /\ toRun' = {} /\ hasRun' = {}
        /\ UNCHANGED <<reached, added>>
    BY <1>6 DEF TriggerEvent, timeVars
  <2>2. Renewed(hasRun)' = {}
    BY <2>1 DEF Renewed
  <2>3. QED
    BY <2>1, <2>2 DEF TP!vars
<1>7. ASSUME Tick \/ \E j \in ClockJumps : SetClock(j)
      PROVE  [TP!Next]_TP!vars
  <2>1. /\ reached' = Larger(reached, clock') /\ clock' \in Nat
        /\ UNCHANGED <<handlerQueue, toRun, hasRun, handleTime, added>>
    BY <1>1, <1>7, TypePreserved, TimeAssumption
      DEF TypeOK, Tick, SetClock, readVars
  <2>2. reached \in Nat
    BY <1>1 DEF TypeOK
  <2>3. reached' \in Nat /\ (reached' > reached \/ reached' = reached)
    BY <2>1, <2>2 DEF Larger
  <2>4. UNCHANGED Renewed(hasRun)
    BY <2>1 DEF Renewed
  <2>5. TP!TimePasses \/ UNCHANGED TP!vars
    BY <2>1, <2>3, <2>4 DEF TP!TimePasses, TP!vars
  <2>6. QED
    BY <2>5 DEF TP!Next
<1>8. ASSUME PollReports \/ CallbackReturns \/ UNCHANGED vars
      PROVE  UNCHANGED TP!vars
  BY <1>8 DEF PollReports, CallbackReturns, vars, timeVars, readVars, Renewed,
    TP!vars
<1>9. QED
  BY <1>2, <1>3, <1>4, <1>5, <1>6, <1>7, <1>8 DEF Next, LoopStep

(* The timers implement TimerPromise: no handler runs before its time, none*)
(* is lost or run twice, one that is cancelled does not run, however the   *)
(* clock is set.                                                           *)
THEOREM Implementation == Spec => ImplementsTimerPromise
<1>1. Init => TP!Init
  BY DEF Init, TP!Init, Renewed
<1>2. IndInv /\ [Next]_vars => [TP!Next]_TP!vars
  BY StepImplements
<1>3. QED
  BY <1>1, <1>2, Invariance, PTL DEF Spec, ImplementsTimerPromise, TP!Spec
=============================================================================
