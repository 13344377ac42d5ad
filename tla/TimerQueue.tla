------------------------------ MODULE TimerQueue ------------------------------
(***************************************************************************)
(* The timers of cbee: EventTimerHandlerQueue, the TimerHandlers it keeps, *)
(* and the one timerfd (EventTimerFd) that wakes it.  Everything here runs *)
(* on the I/O thread; what interferes is time, the order of the callbacks  *)
(* of one poll batch, and callbacks that use the queue while it is being   *)
(* served.                                                                 *)
(*                                                                         *)
(* Deadlines are Timestamps, read from gettimeofday; the timerfd counts    *)
(* down on CLOCK_MONOTONIC.  So clock may jump and armed does not follow.  *)
(***************************************************************************)
EXTENDS Integers, FiniteSets

CONSTANTS
  Ids,            \* bound: what TimerHandler::s_numberOfCreated gives out
  MaxTime,        \* bound: clock stops here (the timerfd does not)
  Delays,         \* deadline minus now when addHandler is called; negative
                  \* when the call has waited in the loop's vector
  Intervals,      \* intervalSeconds of the handlers; 0 is one-shot
  ClockJumps,     \* by how much somebody may set the clock
  MinInterval,    \* kMinimalTimerIntervalUs
  BatchCallbacks  \* whether callbacks of other descriptors that run in the
                  \* same batch, before the timer's, use the queue

ASSUME TimeAssumption ==
  /\ MinInterval \in Nat \ {0}
  /\ MaxTime \in Nat
  /\ Delays \subseteq Int
  /\ Intervals \subseteq Int
  /\ ClockJumps \subseteq Int

ASSUME CallbacksAssumption == BatchCallbacks \in BOOLEAN

VARIABLES
  clock,         \* Timestamp::now()
  reached,       \* history: the latest time clock has shown
  armed,         \* time until the timerfd expires, 0 when it is disarmed
  expirations,   \* expirations of the timerfd that have not been read
  handlerQueue,  \* EventTimerHandlerQueue::handlerQueue
  toRun,         \* handleRead's expiredHandlers that are still to run
  hasRun,        \* those that have been run
  handleTime,    \* handleRead's now
  pc,            \* where the I/O thread is
  added,         \* history: ids of the handlers given to addHandler
  process        \* "running", or the function whose failure ended it

timeVars == <<clock, reached>>
fdVars == <<armed, expirations>>
readVars == <<toRun, hasRun, handleTime>>
vars == <<timeVars, fdVars, handlerQueue, readVars, pc, added,
          process>>

Handler == [id : Ids, expiredTime : Int, interval : Intervals]

TypeOK ==
  /\ clock \in 0 .. MaxTime
  /\ reached \in 0 .. MaxTime
  /\ armed \in Nat
  /\ expirations \in {0, 1}
  /\ handlerQueue \subseteq Handler
  /\ toRun \subseteq Handler
  /\ hasRun \subseteq Handler
  /\ handleTime \in 0 .. MaxTime
  /\ pc \in {"loop", "batch", "read", "run", "callback"}
  /\ added \subseteq Ids
  /\ process \in {"running", "cleanEvent", "cancelHandler"}

Init ==
  /\ clock = 0
  /\ reached = 0
  /\ armed = 0
  /\ expirations = 0
  /\ handlerQueue = {}
  /\ toRun = {}
  /\ hasRun = {}
  /\ handleTime = 0
  /\ pc = "loop"
  /\ added = {}
  /\ process = "running"

-----------------------------------------------------------------------------
Larger(a, b) == IF a >= b THEN a ELSE b

(* Seeded fault: no least interval, so a deadline that has passed does not *)
(* arm the timerfd.                                                        *)
TriggerEventAt_NoFloor(time) ==
  /\ armed' = time - clock
  /\ expirations' = 0

(* triggerEventAt: timerfd_settime starts a new count-down, never of 0     *)
(* (which would disarm), and forgets an expiration that was not read.      *)
TriggerEventAt(time) ==
  /\ armed' = Larger(MinInterval, time - clock)
  /\ expirations' = 0

(* multimap::begin(); handlers of one time are in no particular order here.*)
Earliest(H) == {h \in H : \A g \in H : h.expiredTime <= g.expiredTime}

-----------------------------------------------------------------------------
(* Calls from user code on the I/O thread: functors, handler callbacks and,*)
(* with BatchCallbacks, callbacks of the descriptors served in this batch  *)
(* before the timerfd.                                                     *)
UserCode == pc \in {"loop", "callback"} \/ (BatchCallbacks /\ pc = "batch")

(* Seeded fault: the timerfd is armed only for the first handler.          *)
Insert_ArmsOnce(h) ==
  /\ handlerQueue' = handlerQueue \cup {h}
  /\ IF handlerQueue = {}
     THEN TriggerEventAt(h.expiredTime)
     ELSE UNCHANGED fdVars
  /\ UNCHANGED process

(* addHandler: the timerfd follows a handler that becomes the first.       *)
Insert(h) ==
  /\ handlerQueue' = handlerQueue \cup {h}
  /\ IF \A g \in handlerQueue : h.expiredTime < g.expiredTime
     THEN TriggerEventAt(h.expiredTime)
     ELSE UNCHANGED fdVars
  /\ UNCHANGED process

(* cancelHandler: the timerfd is left as it is, and an id that is not in   *)
(* the queue ends the process.                                             *)
Erase(id) ==
  /\ handlerQueue' = {h \in handlerQueue : h.id # id}
  /\ IF handlerQueue' = handlerQueue
     THEN process' = "cancelHandler"
     ELSE UNCHANGED process
  /\ UNCHANGED fdVars

(* Each TimerHandler has an id of its own; they need not come in the order *)
(* of their ids, which the threads that create handlers draw.              *)
AddHandler(id, delay, i) ==
  /\ process = "running"
  /\ UserCode
  /\ id \notin added
  /\ added' = added \cup {id}
  /\ Insert([id |-> id, expiredTime |-> clock + delay, interval |-> i])
  /\ UNCHANGED <<timeVars, readVars, pc>>

CancelHandler(id) ==
  /\ process = "running"
  /\ UserCode
  /\ Erase(id)
  /\ UNCHANGED <<timeVars, readVars, pc, added>>

-----------------------------------------------------------------------------
(* The loop and handleRead().                                              *)

(* epoll reports the timerfd.                                              *)
PollReports ==
  /\ process = "running"
  /\ pc = "loop"
  /\ expirations > 0
  /\ pc' = "batch"
  /\ UNCHANGED <<timeVars, fdVars, handlerQueue, readVars, added, process>>

(* handleRead begins: it takes the time before it reads the timerfd.       *)
TakeNow ==
  /\ process = "running"
  /\ pc = "batch"
  /\ handleTime' = clock
  /\ pc' = "read"
  /\ UNCHANGED <<timeVars, fdVars, handlerQueue, toRun, hasRun, added, process>>

(* Seeded fault: an expired handler is not erased from the multimap.       *)
HandleRead_KeepsExpired ==
  /\ process = "running"
  /\ pc = "read"
  /\ IF expirations = 0
     THEN process' = "cleanEvent" /\ UNCHANGED <<fdVars, readVars, pc>>
     ELSE /\ expirations' = 0
          /\ toRun' = {h \in handlerQueue : h.expiredTime <= handleTime}
          /\ pc' = "run"
          /\ UNCHANGED <<armed, hasRun, handleTime, process>>
  /\ UNCHANGED <<timeVars, handlerQueue, added>>

(* cleanEvent, and extractExpiredHandlers with the time that was taken.    *)
HandleRead ==
  /\ process = "running"
  /\ pc = "read"
  /\ IF expirations = 0
     THEN /\ process' = "cleanEvent"
          /\ UNCHANGED <<fdVars, handlerQueue, readVars, pc>>
     ELSE /\ expirations' = 0
          /\ toRun' = {h \in handlerQueue : h.expiredTime <= handleTime}
          /\ handlerQueue' = handlerQueue \ toRun'
          /\ pc' = "run"
          /\ UNCHANGED <<armed, hasRun, handleTime, process>>
  /\ UNCHANGED <<timeVars, added>>

RunHandler(h) ==
  /\ process = "running"
  /\ pc = "run"
  /\ h \in Earliest(toRun)
  /\ toRun' = toRun \ {h}
  /\ hasRun' = hasRun \cup {h}
  /\ pc' = "callback"
  /\ UNCHANGED <<timeVars, fdVars, handlerQueue, handleTime, added, process>>

CallbackReturns ==
  /\ process = "running"
  /\ pc = "callback"
  /\ pc' = "run"
  /\ UNCHANGED <<timeVars, fdVars, handlerQueue, readVars, added, process>>

(* updateExpiredTime for the handlers with an interval.                    *)
Renewed(H) == {[h EXCEPT !.expiredTime = handleTime + h.interval] :
                 h \in {g \in H : g.interval # 0}}

(* Seeded fault: the handlers that have run are not queued again.          *)
TriggerEvent_Forgets ==
  /\ process = "running"
  /\ pc = "run"
  /\ toRun = {}
  /\ IF handlerQueue = {}
     THEN UNCHANGED fdVars
     ELSE \E h \in Earliest(handlerQueue) : TriggerEventAt(h.expiredTime)
  /\ hasRun' = {}
  /\ pc' = "loop"
  /\ UNCHANGED <<timeVars, handlerQueue, toRun, handleTime, added, process>>

(* Seeded fault: the timerfd is not armed again after a batch of handlers. *)
TriggerEvent_NotArmed ==
  /\ process = "running"
  /\ pc = "run"
  /\ toRun = {}
  /\ handlerQueue' = handlerQueue \cup Renewed(hasRun)
  /\ hasRun' = {}
  /\ pc' = "loop"
  /\ UNCHANGED <<timeVars, fdVars, toRun, handleTime, added, process>>

TriggerEvent ==
  /\ process = "running"
  /\ pc = "run"
  /\ toRun = {}
  /\ handlerQueue' = handlerQueue \cup Renewed(hasRun)
  /\ IF handlerQueue' = {}
     THEN UNCHANGED fdVars
     ELSE \E h \in Earliest(handlerQueue') : TriggerEventAt(h.expiredTime)
  /\ hasRun' = {}
  /\ pc' = "loop"
  /\ UNCHANGED <<timeVars, toRun, handleTime, added, process>>

-----------------------------------------------------------------------------
(* Time passes, whatever the I/O thread is doing.                          *)
Tick ==
  /\ process = "running"
  /\ clock' = IF clock < MaxTime THEN clock + 1 ELSE clock
  /\ reached' = Larger(reached, clock')
  /\ armed' = IF armed > 0 THEN armed - 1 ELSE 0
  /\ expirations' = IF armed = 1 THEN 1 ELSE expirations
  /\ UNCHANGED <<handlerQueue, readVars, pc, added, process>>

SetClock(j) ==
  /\ process = "running"
  /\ clock + j \in 0 .. MaxTime
  /\ clock' = clock + j
  /\ reached' = Larger(reached, clock')
  /\ UNCHANGED <<fdVars, handlerQueue, readVars, pc, added, process>>

-----------------------------------------------------------------------------
LoopStep ==
  \/ PollReports \/ TakeNow \/ HandleRead
  \/ \E h \in toRun : RunHandler(h)
  \/ CallbackReturns \/ TriggerEvent

Next ==
  \/ \E id \in Ids, d \in Delays, i \in Intervals : AddHandler(id, d, i)
  \/ \E id \in Ids : CancelHandler(id)
  \/ LoopStep
  \/ Tick
  \/ \E j \in ClockJumps : SetClock(j)

Spec == Init /\ [][Next]_vars

(* The loop runs, callbacks return and time passes.                        *)
FairSpec == Spec /\ WF_vars(LoopStep) /\ WF_vars(Tick)

-----------------------------------------------------------------------------
(* Handlers are never forgotten: while the I/O thread is in the loop, a    *)
(* queue that is not empty has the timerfd counting or already readable,   *)
(* however the clock has been set, whatever was cancelled or added from    *)
(* callbacks (EventTimerHandlerQueue.cpp:21-28, 30-47, 92-96).             *)
NotStalled ==
  pc \in {"loop", "batch", "read"} /\ handlerQueue # {} => armed > 0 \/ expirations = 1

(* Deadlines are kept: if nobody sets the clock forward, the timerfd wakes *)
(* the loop no later than the deadline of every handler in the queue, or   *)
(* kMinimalTimerIntervalUs from now for one that is overdue.  It may well  *)
(* wake it earlier, after a cancel.                                        *)
Punctual ==
  pc \in {"loop", "batch", "read"} /\ (\A j \in ClockJumps : j <= 0) =>
    \A h \in handlerQueue :
      \/ expirations = 1
      \/ armed > 0 /\ armed <= Larger(MinInterval, h.expiredTime - clock)

(* The queue with its batches of expired handlers and the two clocks       *)
(* implements TimerPromise: no handler runs before its time, none is lost  *)
(* or run twice, a cancelled one does not run.                             *)
TP == INSTANCE TimerPromise
        WITH waiting <- handlerQueue \cup toRun \cup Renewed(hasRun),
             used <- added

ImplementsTimerPromise == TP!Spec

(* A handler in the queue whose deadline the clock does reach leaves the   *)
(* queue: it is run, or cancelled, or the process has ended.               *)
HandlerStarts ==
  \A h \in [id : Ids, expiredTime : -MaxTime .. MaxTime, interval : Intervals] :
    h \in handlerQueue ~> (h \notin handlerQueue \/ process # "running")

(* EventTimerFd.cpp:31, assert(numberOfEvents == 1): whenever handleRead is*)
(* called the timerfd has expired and the read succeeds.                   *)
CleanEventFindsOne == process # "cleanEvent"

-----------------------------------------------------------------------------
(* The inductive invariant behind the safety properties above.             *)

Handlers == handlerQueue \cup toRun \cup hasRun

(* A handler is in one place only, and ids are never used again.           *)
OnePlace ==
  /\ \A h \in Handlers : h.id \in added
  /\ \A g, h \in Handlers : g.id = h.id => g = h
  /\ handlerQueue \cap (toRun \cup hasRun) = {}
  /\ toRun \cap hasRun = {}

(* handleRead's locals are empty outside handleRead.                       *)
LocalsEmpty == pc \in {"loop", "batch", "read"} => toRun = {} /\ hasRun = {}

(* What waits to run was due when handleRead looked, which is not later    *)
(* than now.                                                               *)
DueInv ==
  /\ clock <= reached
  /\ handleTime <= reached
  /\ \A h \in toRun : h.expiredTime <= handleTime

(* All of the above together: what every reachable state satisfies and     *)
(* every step of TimerQueue preserves.                                     *)
IndInv ==
  /\ TypeOK
  /\ NotStalled
  /\ Punctual
  /\ OnePlace
  /\ LocalsEmpty
  /\ DueInv
=============================================================================
