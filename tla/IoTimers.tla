------------------------------- MODULE IoTimers -------------------------------
(***************************************************************************)
(* The timers as callers see them: IoManager::runAfter, runEvery and       *)
(* cancelTimerHandler from any thread.  The caller's thread takes the time *)
(* and creates the TimerHandler; the handler queue of TimerQueue, on the   *)
(* I/O thread, learns of it through runInIoThread.  That is the queue of   *)
(* FunctorQueue here, which IoManager implements: the vector and its local *)
(* copy are one sequence, an inline functor overtakes it.                  *)
(***************************************************************************)
EXTENDS TimerQueue, Sequences, Functions

CONSTANTS
  Clients,          \* threads other than the I/O thread
  NoCall,           \* a client with no call in progress
  CallDelays,       \* delay of runAfter; Delays are those addHandler sees
  CancelsOneShots,  \* whether handlers that run only once are cancelled
  CancelsInline     \* whether code on the I/O thread cancels

(* A deadline may be past by as long as the functor has waited, or further *)
(* away if the clock was set back meanwhile.                               *)
ASSUME DelaysAssumption ==
  /\ CallDelays \subseteq Int
  /\ 0 \in Intervals
  /\ \A d \in CallDelays \cup Intervals, waited \in -MaxTime .. MaxTime :
       d + waited \in Delays

ASSUME CancelsAssumption ==
  /\ CancelsOneShots \in BOOLEAN
  /\ CancelsInline \in BOOLEAN

VARIABLES
  call,             \* the functor a client's call is about to queue
  pendingFunctors,  \* the functors queued for the I/O thread
  created,          \* the ids drawn from TimerHandler::s_numberOfCreated
  known,            \* handlers whose id has been returned to a caller
  asked             \* ids for which cancelTimerHandler has been called

callVars == <<call, pendingFunctors, created, known, asked>>
allVars == <<vars, callVars>>

AddFunctor == [op : {"addHandler"}, handler : Handler]
CancelFunctor == [op : {"cancelHandler"}, id : Ids]
Functor == AddFunctor \cup CancelFunctor

ASSUME NoCallAssumption == NoCall \notin Functor

CallsTypeOK ==
  /\ TypeOK
  /\ call \in [Clients -> Functor \cup {NoCall}]
  /\ pendingFunctors \in Seq(Functor)
  /\ created \subseteq Ids
  /\ known \subseteq Handler
  /\ asked \subseteq Ids

CallsInit ==
  /\ Init
  /\ call = [c \in Clients |-> NoCall]
  /\ pendingFunctors = <<>>
  /\ created = {}
  /\ known = {}
  /\ asked = {}

-----------------------------------------------------------------------------
(* The arguments of runAfter and of runEvery.                              *)
Requests ==
  [delay : CallDelays, interval : {0}]
    \cup {[delay |-> i, interval |-> i] : i \in Intervals}

(* What they construct: an expiredTime from the caller's now, and an id    *)
(* that no other handler has.                                              *)
NewHandlers ==
  {[id |-> id, expiredTime |-> clock + r.delay, interval |-> r.interval] :
     id \in Ids \ created, r \in Requests}

(* Bound: callers cancel a handler once; which handlers they may cancel,   *)
(* and where, is set by CancelsOneShots and CancelsInline.                 *)
Cancellable ==
  {h \in known : h.id \notin asked /\ (CancelsOneShots \/ h.interval # 0)}

(* Seeded fault: the caller's thread lets others see the id before the     *)
(* functor that adds the handler is queued.                                *)
CreateHandler_ShowsId(c, h) ==
  /\ process = "running"
  /\ call[c] = NoCall
  /\ h \in NewHandlers
  /\ created' = created \cup {h.id}
  /\ known' = known \cup {h}
  /\ call' = [call EXCEPT ![c] = [op |-> "addHandler", handler |-> h]]
  /\ UNCHANGED <<vars, pendingFunctors, asked>>

(* runAfter or runEvery, up to runInIoThread.                              *)
CreateHandler(c, h) ==
  /\ process = "running"
  /\ call[c] = NoCall
  /\ h \in NewHandlers
  /\ created' = created \cup {h.id}
  /\ call' = [call EXCEPT ![c] = [op |-> "addHandler", handler |-> h]]
  /\ UNCHANGED <<vars, pendingFunctors, known, asked>>

CancelTimerHandler(c, h) ==
  /\ process = "running"
  /\ call[c] = NoCall
  /\ h \in Cancellable
  /\ asked' = asked \cup {h.id}
  /\ call' = [call EXCEPT ![c] = [op |-> "cancelHandler", id |-> h.id]]
  /\ UNCHANGED <<vars, pendingFunctors, created, known>>

(* Seeded fault: the functor is moved from before it is queued, and the    *)
(* vector gets an empty one.                                               *)
Post_MovedFrom(c) ==
  /\ process = "running"
  /\ call[c] # NoCall
  /\ pendingFunctors' = Append(pendingFunctors, NoCall)
  /\ known' = known \cup {f.handler : f \in {call[c]} \cap AddFunctor}
  /\ call' = [call EXCEPT ![c] = NoCall]
  /\ UNCHANGED <<vars, created, asked>>

(* runInIoThread queues the functor; runAfter and runEvery return the id.  *)
Post(c) ==
  /\ process = "running"
  /\ call[c] # NoCall
  /\ pendingFunctors' = Append(pendingFunctors, call[c])
  /\ known' = known \cup {f.handler : f \in {call[c]} \cap AddFunctor}
  /\ call' = [call EXCEPT ![c] = NoCall]
  /\ UNCHANGED <<vars, created, asked>>

-----------------------------------------------------------------------------
(* The I/O thread: runPendingFunctors, and the same calls made by code that*)
(* runs on the I/O thread, whose functors are run at once.                 *)

Run(f) ==
  \/ /\ f \in AddFunctor
     /\ Insert(f.handler)
     /\ added' = added \cup {f.handler.id}
  \/ /\ f \in CancelFunctor
     /\ Erase(f.id)
     /\ UNCHANGED added

(* Seeded fault: the functors are run from a copy of the vector.           *)
RunPending_Copies ==
  /\ process = "running"
  /\ pc = "loop"
  /\ pendingFunctors # <<>>
  /\ Run(Head(pendingFunctors))
  /\ UNCHANGED <<timeVars, readVars, pc, callVars>>

(* Seeded fault: the vector is cleared after a functor was run from it.    *)
RunPending_Clears ==
  /\ process = "running"
  /\ pc = "loop"
  /\ pendingFunctors # <<>>
  /\ Run(Head(pendingFunctors))
  /\ pendingFunctors' = <<>>
  /\ UNCHANGED <<timeVars, readVars, pc, call, created, known, asked>>

RunPending ==
  /\ process = "running"
  /\ pc = "loop"
  /\ pendingFunctors # <<>>
  /\ Run(Head(pendingFunctors))
  /\ pendingFunctors' = Tail(pendingFunctors)
  /\ UNCHANGED <<timeVars, readVars, pc, call, created, known, asked>>

IoRunTimer(h) ==
  /\ process = "running"
  /\ UserCode
  /\ h \in NewHandlers
  /\ Insert(h)
  /\ created' = created \cup {h.id}
  /\ added' = added \cup {h.id}
  /\ known' = known \cup {h}
  /\ UNCHANGED <<timeVars, readVars, pc, call, pendingFunctors, asked>>

IoCancelTimerHandler(h) ==
  /\ process = "running"
  /\ CancelsInline
  /\ UserCode
  /\ h \in Cancellable
  /\ Erase(h.id)
  /\ asked' = asked \cup {h.id}
  /\ UNCHANGED <<timeVars, readVars, pc, added, call, pendingFunctors, created,
                 known>>

-----------------------------------------------------------------------------
ServeTimers == LoopStep /\ UNCHANGED callVars

TimePasses == Tick /\ UNCHANGED callVars

CallsNext ==
  \/ \E c \in Clients :
       \/ \E h \in NewHandlers : CreateHandler(c, h)
       \/ \E h \in known : CancelTimerHandler(c, h)
       \/ Post(c)
  \/ RunPending
  \/ \E h \in NewHandlers : IoRunTimer(h)
  \/ \E h \in known : IoCancelTimerHandler(h)
  \/ ServeTimers
  \/ TimePasses
  \/ (\E j \in ClockJumps : SetClock(j)) /\ UNCHANGED callVars

CallsSpec == CallsInit /\ [][CallsNext]_allVars

(* A call that has begun returns and the loop goes round: it comes to      *)
(* runPendingFunctors again and again, between services of the timerfd.    *)
FairCallsSpec ==
  /\ CallsSpec
  /\ \A c \in Clients : WF_allVars(Post(c))
  /\ SF_allVars(RunPending)
  /\ WF_allVars(ServeTimers)
  /\ WF_allVars(TimePasses)

-----------------------------------------------------------------------------
(* The handler queue cannot tell these callers from those of TimerQueue:  *)
(* everything shown of TimerQueue holds here too (IoManager.cpp:89-112).   *)
ImplementsTimerQueue == Spec

(* To the callers, too, timers keep the promises of TimerPromise: a handler*)
(* counts from the moment runAfter or runEvery has created it, whichever   *)
(* thread, queue or batch it is in (IoManager.cpp:89-112).                 *)
InFlight == Range(pendingFunctors) \cup Range(call)

Scheduled == {f.handler : f \in InFlight \cap AddFunctor}

Calls == INSTANCE TimerPromise
           WITH waiting <- Scheduled \cup handlerQueue \cup toRun
                             \cup Renewed(hasRun),
                used <- created

ImplementsCallersPromise == Calls!Spec

(* "IoManager member functions must be thread safe" (IoManager.h:18): a    *)
(* handler whose id a caller has been given can be cancelled, once, by any *)
(* thread and does not end the process (EventTimerHandlerQueue.cpp:46).    *)
CancelFinds == process # "cancelHandler"

(* Once cancelTimerHandler has been called the handler is out of the queue *)
(* for good, sooner or later, and so no longer runs.                       *)
CancelTakesEffect ==
  \A id \in Ids :
    id \in asked ~>
      [](process = "running" =>
           \A h \in handlerQueue \cup toRun \cup Renewed(hasRun) : h.id # id)

(* A handler created by any thread does reach the handler queue.           *)
HandlerReachesQueue ==
  \A id \in Ids : id \in created ~> (id \in added \/ process # "running")

-----------------------------------------------------------------------------
(* The inductive invariants behind the safety properties above.            *)

Alike(f, g) ==
  \/ f \in AddFunctor /\ g \in AddFunctor /\ f.handler.id = g.handler.id
  \/ f \in CancelFunctor /\ g \in CancelFunctor /\ f.id = g.id

(* No handler is added or cancelled by two functors.                       *)
OnceInv ==
  /\ \A m, n \in DOMAIN pendingFunctors :
       Alike(pendingFunctors[m], pendingFunctors[n]) => m = n
  /\ \A c, d \in Clients : Alike(call[c], call[d]) => c = d
  /\ \A c \in Clients, n \in DOMAIN pendingFunctors :
       ~ Alike(call[c], pendingFunctors[n])

(* A handler on its way has been created and not been added; its time is   *)
(* some moment's now and what the caller asked for.                        *)
ScheduledInv ==
  /\ added \subseteq created
  /\ \A h \in Scheduled :
       /\ h.id \in created \ added
       /\ \E d \in CallDelays \cup Intervals, now \in 0 .. MaxTime :
            h.expiredTime = now + d

AskedInv == \A f \in InFlight \cap CancelFunctor : f.id \in asked

CallsIndInv ==
  /\ CallsTypeOK
  /\ OnceInv
  /\ ScheduledInv
  /\ AskedInv

(* The handlers that the first n functors of fs add to the queue.          *)
AddedBy(fs, n) ==
  {fs[m].handler : m \in {k \in 1 .. n : fs[k] \in AddFunctor}}

Present(H, id) == \E h \in H : h.id = id /\ h.interval # 0

(* Those that are, or will be once the functors have run, in the queue.    *)
Coming == Handlers \cup AddedBy(pendingFunctors, Len(pendingFunctors))

(* No cancel overtakes the add it belongs to, provided that only periodic  *)
(* handlers are cancelled, and by other threads.                           *)
CancelInv ==
  /\ CancelFinds
  /\ \A n \in DOMAIN pendingFunctors :
       pendingFunctors[n] \in CancelFunctor =>
         Present(Handlers \cup AddedBy(pendingFunctors, n),
                 pendingFunctors[n].id)
  /\ \A c \in Clients : call[c] \in CancelFunctor => Present(Coming, call[c].id)
  /\ \A h \in known :
       h.id \notin asked /\ h.interval # 0 => Present(Coming, h.id)
=============================================================================
