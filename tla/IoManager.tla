------------------------------ MODULE IoManager ------------------------------
(***************************************************************************)
(* The event loop of cbee: IoManager with its EventTrigger (an eventfd),   *)
(* the batch that EPoller::poll returns, and the mutex-protected vector of *)
(* pending functors.                                                       *)
(*                                                                         *)
(* One I/O thread runs loop(); the threads of Clients call runInIoThread   *)
(* and quit concurrently.  A step is what one thread does between two      *)
(* points at which another can observe or disturb it; in particular        *)
(* vector::push_back is a read of the vector and a later write, so that it *)
(* is the mutex, not the model, that keeps two of them apart.              *)
(*                                                                         *)
(* Level-triggered epoll reports the eventfd while its counter is not 0.   *)
(* The other descriptors (timers, sockets) are Sources: any of them may be *)
(* ready at any poll and its callback is user code, which may itself call  *)
(* runInIoThread or return whenever it likes.                              *)
(***************************************************************************)
EXTENDS Naturals, Sequences, FiniteSets, Functions

CONSTANTS
  Clients,        \* threads other than the I/O thread
  IoThread,       \* the thread that constructed the IoManager
  Unlocked,       \* owner of mtx when nobody holds it
  Functors,       \* closures the application may hand over, each once
  NoFunctor,      \* a client with no runInIoThread call in progress
  QuitFunctors,   \* the closures whose body calls quit()
  Sources,        \* the events of all descriptors but the eventfd
  Trigger,        \* the event of EventTrigger's eventfd
  EventFdMax,     \* the largest count of an eventfd (2^64 - 2 in Linux)
  InitialActiveEventsSize,  \* kInitialActiveEventsSize, 16 in the code
  SignalsArrive   \* whether a signal may interrupt epoll_wait

ASSUME ThreadsAssumption ==
  /\ IoThread \notin Clients
  /\ Unlocked \notin Clients \cup {IoThread}

ASSUME FunctorsAssumption ==
  /\ NoFunctor \notin Functors
  /\ QuitFunctors \subseteq Functors

ASSUME EventsAssumption == Trigger \notin Sources

ASSUME BoundsAssumption ==
  /\ EventFdMax \in Nat \ {0}
  /\ InitialActiveEventsSize \in Nat \ {0}
  /\ SignalsArrive \in BOOLEAN

VARIABLES
  quitFlag,         \* IoManager::quitFlag
  mtx,              \* the thread holding IoManager::mtx, or Unlocked
  pendingFunctors,  \* IoManager::pendingFunctors
  eventCount,       \* the counter of the eventfd
  containerSize,    \* EPoller::pollContainer.size()
  activeEvents,     \* loop's batch: the events not yet handled
  functors,         \* runPendingFunctors' local vector, what is left of it
  ioPc,             \* where the I/O thread is
  clientPc,         \* where each client is in its call
  hand,             \* the functor a client's call carries
  snapshot,         \* the vector as a client's push_back has read it
  handed,           \* history: functors given to runInIoThread
  ran,              \* history: functors run, in order
  process           \* "running", or the call whose failure ended it

ioVars == <<activeEvents, functors, containerSize, ioPc>>
clientVars == <<clientPc, hand, snapshot>>
vars == <<quitFlag, mtx, pendingFunctors, eventCount, ioVars, clientVars,
          handed, ran, process>>

IoPcs == {"before", "check", "poll", "dispatch", "source", "lock", "swap",
          "run", "functor", "returned"}
ClientPcs == {"ready", "lock", "push", "trigger", "quitTrigger", "gone"}

TypeOK ==
  /\ quitFlag \in BOOLEAN
  /\ mtx \in Clients \cup {IoThread, Unlocked}
  /\ pendingFunctors \in Seq(Functors)
  /\ eventCount \in 0 .. EventFdMax
  /\ containerSize \in Nat \ {0}
  /\ activeEvents \subseteq Sources \cup {Trigger}
  /\ functors \in Seq(Functors)
  /\ ioPc \in IoPcs
  /\ clientPc \in [Clients -> ClientPcs]
  /\ hand \in [Clients -> Functors \cup {NoFunctor}]
  /\ snapshot \in [Clients -> Seq(Functors)]
  /\ handed \subseteq Functors
  /\ ran \in Seq(Functors)
  /\ process \in {"running", "eventfd", "epoll_wait"}

Init ==
  /\ quitFlag = FALSE
  /\ mtx = Unlocked
  /\ pendingFunctors = <<>>
  /\ eventCount = 0
  /\ containerSize = InitialActiveEventsSize
  /\ activeEvents = {}
  /\ functors = <<>>
  /\ ioPc = "before"
  /\ clientPc = [c \in Clients |-> "ready"]
  /\ hand = [c \in Clients |-> NoFunctor]
  /\ snapshot = [c \in Clients |-> <<>>]
  /\ handed = {}
  /\ ran = <<>>
  /\ process = "running"

-----------------------------------------------------------------------------
(* The eventfd.  Both of its system calls end the process when they fail:  *)
(* a non-blocking write that would pass the limit, a non-blocking read of  *)
(* a counter that is 0.                                                    *)

(* Seeded fault: the write is not checked against the limit.               *)
TriggerOnce_Unchecked ==
  eventCount' = eventCount + 1 /\ UNCHANGED process

TriggerOnce ==
  IF eventCount < EventFdMax
  THEN eventCount' = eventCount + 1 /\ UNCHANGED process
  ELSE process' = "eventfd" /\ UNCHANGED eventCount

CleanEvents ==
  IF eventCount > 0
  THEN eventCount' = 0 /\ UNCHANGED process
  ELSE process' = "eventfd" /\ UNCHANGED eventCount

-----------------------------------------------------------------------------
(* Calls of the other threads.  Nothing happens once the process has ended.*)

CallRunInIoThread(c, f) ==
  /\ process = "running"
  /\ clientPc[c] = "ready"
  /\ f \notin handed
  /\ clientPc' = [clientPc EXCEPT ![c] = "lock"]
  /\ hand' = [hand EXCEPT ![c] = f]
  /\ handed' = handed \cup {f}
  /\ UNCHANGED <<quitFlag, mtx, pendingFunctors, eventCount, ioVars, snapshot,
                 ran, process>>

(* Seeded fault: push_back outside the lock_guard.                         *)
LockPost_NoGuard(c) ==
  /\ process = "running"
  /\ clientPc[c] = "lock"
  /\ mtx' = c
  /\ snapshot' = [snapshot EXCEPT ![c] = pendingFunctors]
  /\ clientPc' = [clientPc EXCEPT ![c] = "push"]
  /\ UNCHANGED <<quitFlag, pendingFunctors, eventCount, ioVars, hand, handed,
                 ran, process>>

(* The lock_guard is constructed and push_back reads the vector.           *)
LockPost(c) ==
  /\ process = "running"
  /\ clientPc[c] = "lock"
  /\ mtx = Unlocked
  /\ mtx' = c
  /\ snapshot' = [snapshot EXCEPT ![c] = pendingFunctors]
  /\ clientPc' = [clientPc EXCEPT ![c] = "push"]
  /\ UNCHANGED <<quitFlag, pendingFunctors, eventCount, ioVars, hand, handed,
                 ran, process>>

(* push_back writes and the lock_guard's scope ends.                       *)
PushPost(c) ==
  /\ process = "running"
  /\ clientPc[c] = "push"
  /\ pendingFunctors' = Append(snapshot[c], hand[c])
  /\ snapshot' = [snapshot EXCEPT ![c] = <<>>]
  /\ mtx' = Unlocked
  /\ clientPc' = [clientPc EXCEPT ![c] = "trigger"]
  /\ UNCHANGED <<quitFlag, eventCount, ioVars, hand, handed, ran, process>>

(* Seeded fault: runInIoThread only pushes.                                *)
TriggerPost_NoWrite(c) ==
  /\ process = "running"
  /\ clientPc[c] = "trigger"
  /\ clientPc' = [clientPc EXCEPT ![c] = "ready"]
  /\ hand' = [hand EXCEPT ![c] = NoFunctor]
  /\ UNCHANGED <<quitFlag, mtx, pendingFunctors, eventCount, ioVars, snapshot,
                 handed, ran, process>>

TriggerPost(c) ==
  /\ process = "running"
  /\ clientPc[c] = "trigger"
  /\ TriggerOnce
  /\ clientPc' = [clientPc EXCEPT ![c] = "ready"]
  /\ hand' = [hand EXCEPT ![c] = NoFunctor]
  /\ UNCHANGED <<quitFlag, mtx, pendingFunctors, ioVars, snapshot, handed, ran>>

CallQuit(c) ==
  /\ process = "running"
  /\ clientPc[c] = "ready"
  /\ quitFlag' = TRUE
  /\ clientPc' = [clientPc EXCEPT ![c] = "quitTrigger"]
  /\ UNCHANGED <<mtx, pendingFunctors, eventCount, ioVars, hand, snapshot,
                 handed, ran, process>>

(* Seeded fault: quit() only sets the flag.                                *)
TriggerQuit_NoWrite(c) ==
  /\ process = "running"
  /\ clientPc[c] = "quitTrigger"
  /\ clientPc' = [clientPc EXCEPT ![c] = "gone"]
  /\ UNCHANGED <<quitFlag, mtx, pendingFunctors, eventCount, ioVars, hand,
                 snapshot, handed, ran, process>>

(* Bound: a client that has quit makes no further call.                    *)
TriggerQuit(c) ==
  /\ process = "running"
  /\ clientPc[c] = "quitTrigger"
  /\ TriggerOnce
  /\ clientPc' = [clientPc EXCEPT ![c] = "gone"]
  /\ UNCHANGED <<quitFlag, mtx, pendingFunctors, ioVars, hand, snapshot, handed,
                 ran>>

-----------------------------------------------------------------------------
(* The I/O thread: loop() and runPendingFunctors().                        *)

(* The I/O thread starts a functor; one whose body calls quit() has set    *)
(* the flag and written the eventfd before it returns.                     *)
Execute(f) ==
  /\ ran' = Append(ran, f)
  /\ IF f \in QuitFunctors
     THEN quitFlag' = TRUE /\ TriggerOnce
     ELSE UNCHANGED <<quitFlag, eventCount, process>>

Loop ==
  /\ process = "running"
  /\ ioPc \in {"before", "returned"}
  /\ quitFlag' = FALSE
  /\ ioPc' = "check"
  /\ UNCHANGED <<mtx, pendingFunctors, eventCount, activeEvents, functors,
                 containerSize, clientVars, handed, ran, process>>

CheckQuit ==
  /\ process = "running"
  /\ ioPc = "check"
  /\ ioPc' = IF quitFlag THEN "returned" ELSE "poll"
  /\ UNCHANGED <<quitFlag, mtx, pendingFunctors, eventCount, activeEvents,
                 functors, containerSize, clientVars, handed, ran, process>>

(* What epoll_wait can report when the descriptors of up are ready.        *)
ReadyEvents(up) == up \cup {e \in {Trigger} : eventCount > 0}

(* epoll_wait fills the container; a full one is doubled for the next poll.*)
Poll(up) ==
  /\ process = "running"
  /\ ioPc = "poll"
  /\ ReadyEvents(up) # {}
  /\ \E batch \in SUBSET ReadyEvents(up) :
       /\ \/ batch = ReadyEvents(up) /\ Cardinality(batch) <= containerSize
          \/ Cardinality(batch) = containerSize
       /\ activeEvents' = batch
       /\ containerSize' = IF Cardinality(batch) = containerSize
                           THEN 2 * containerSize ELSE containerSize
  /\ ioPc' = "dispatch"
  /\ UNCHANGED <<quitFlag, mtx, pendingFunctors, eventCount, functors,
                 clientVars, handed, ran, process>>

(* kPollTimeoutMs passes with nothing ready: an empty batch.               *)
PollTimeout ==
  /\ process = "running"
  /\ ioPc = "poll"
  /\ ReadyEvents({}) = {}
  /\ activeEvents' = {}
  /\ ioPc' = "dispatch"
  /\ UNCHANGED <<quitFlag, mtx, pendingFunctors, eventCount, functors,
                 containerSize, clientVars, handed, ran, process>>

(* epoll_wait returns -1 with EINTR, an error like any other to poll().     *)
PollInterrupted ==
  /\ process = "running"
  /\ SignalsArrive
  /\ ioPc = "poll"
  /\ process' = "epoll_wait"
  /\ UNCHANGED <<quitFlag, mtx, pendingFunctors, eventCount, ioVars, clientVars,
                 handed, ran>>

(* Seeded fault: the event is handled but stays in the batch.              *)
HandleTrigger_Twice ==
  /\ process = "running"
  /\ ioPc = "dispatch"
  /\ Trigger \in activeEvents
  /\ CleanEvents
  /\ UNCHANGED <<quitFlag, mtx, pendingFunctors, ioVars, clientVars, handed,
                 ran>>

HandleTrigger ==
  /\ process = "running"
  /\ ioPc = "dispatch"
  /\ Trigger \in activeEvents
  /\ activeEvents' = activeEvents \ {Trigger}
  /\ CleanEvents
  /\ UNCHANGED <<quitFlag, mtx, pendingFunctors, functors, containerSize, ioPc,
                 clientVars, handed, ran>>

HandleSource(s) ==
  /\ process = "running"
  /\ ioPc = "dispatch"
  /\ s \in activeEvents
  /\ activeEvents' = activeEvents \ {s}
  /\ ioPc' = "source"
  /\ UNCHANGED <<quitFlag, mtx, pendingFunctors, eventCount, functors,
                 containerSize, clientVars, handed, ran, process>>

SourceReturns ==
  /\ process = "running"
  /\ ioPc = "source"
  /\ ioPc' = "dispatch"
  /\ UNCHANGED <<quitFlag, mtx, pendingFunctors, eventCount, activeEvents,
                 functors, containerSize, clientVars, handed, ran, process>>

BatchDone ==
  /\ process = "running"
  /\ ioPc = "dispatch"
  /\ activeEvents = {}
  /\ ioPc' = "lock"
  /\ UNCHANGED <<quitFlag, mtx, pendingFunctors, eventCount, activeEvents,
                 functors, containerSize, clientVars, handed, ran, process>>

LockPending ==
  /\ process = "running"
  /\ ioPc = "lock"
  /\ mtx = Unlocked
  /\ mtx' = IoThread
  /\ ioPc' = "swap"
  /\ UNCHANGED <<quitFlag, pendingFunctors, eventCount, activeEvents, functors,
                 containerSize, clientVars, handed, ran, process>>

(* Seeded fault: the lock_guard's scope covers the loop over functors.     *)
SwapPending_KeepsLock ==
  /\ process = "running"
  /\ ioPc = "swap"
  /\ functors' = pendingFunctors
  /\ pendingFunctors' = <<>>
  /\ ioPc' = "run"
  /\ UNCHANGED <<quitFlag, mtx, eventCount, activeEvents, containerSize,
                 clientVars, handed, ran, process>>

(* functors.swap(pendingFunctors) with functors freshly constructed, hence *)
(* empty, and the lock_guard's scope ends.                                 *)
SwapPending ==
  /\ process = "running"
  /\ ioPc = "swap"
  /\ functors' = pendingFunctors
  /\ pendingFunctors' = <<>>
  /\ mtx' = Unlocked
  /\ ioPc' = "run"
  /\ UNCHANGED <<quitFlag, eventCount, activeEvents, containerSize, clientVars,
                 handed, ran, process>>

RunFunctor ==
  /\ process = "running"
  /\ ioPc = "run"
  /\ functors # <<>>
  /\ functors' = Tail(functors)
  /\ Execute(Head(functors))
  /\ ioPc' = "functor"
  /\ UNCHANGED <<mtx, pendingFunctors, activeEvents, containerSize, clientVars,
                 handed>>

FunctorReturns ==
  /\ process = "running"
  /\ ioPc = "functor"
  /\ ioPc' = "run"
  /\ UNCHANGED <<quitFlag, mtx, pendingFunctors, eventCount, activeEvents,
                 functors, containerSize, clientVars, handed, ran, process>>

(* Seeded fault: the eventfd is drained again after the functors have run. *)
RunDone_Drains ==
  /\ process = "running"
  /\ ioPc = "run"
  /\ functors = <<>>
  /\ ioPc' = "check"
  /\ eventCount' = 0
  /\ UNCHANGED <<quitFlag, mtx, pendingFunctors, activeEvents, functors,
                 containerSize, clientVars, handed, ran, process>>

RunDone ==
  /\ process = "running"
  /\ ioPc = "run"
  /\ functors = <<>>
  /\ ioPc' = "check"
  /\ UNCHANGED <<quitFlag, mtx, pendingFunctors, eventCount, activeEvents,
                 functors, containerSize, clientVars, handed, ran, process>>

(* User code on the I/O thread (a callback, a functor, or the code around  *)
(* loop()) calls runInIoThread: isInIoThread() holds and the functor runs. *)
RunInline(f) ==
  /\ process = "running"
  /\ ioPc \in {"before", "source", "functor", "returned"}
  /\ f \notin handed
  /\ handed' = handed \cup {f}
  /\ Execute(f)
  /\ UNCHANGED <<mtx, pendingFunctors, ioVars, clientVars>>

-----------------------------------------------------------------------------
ClientNext(c) ==
  \/ \E f \in Functors : CallRunInIoThread(c, f)
  \/ LockPost(c) \/ PushPost(c) \/ TriggerPost(c)
  \/ CallQuit(c) \/ TriggerQuit(c)

IoNext ==
  \/ Loop \/ CheckQuit
  \/ \E up \in SUBSET Sources : Poll(up)
  \/ PollTimeout \/ PollInterrupted
  \/ HandleTrigger
  \/ \E s \in Sources : HandleSource(s)
  \/ SourceReturns \/ BatchDone
  \/ LockPending \/ SwapPending
  \/ RunFunctor \/ FunctorReturns \/ RunDone
  \/ \E f \in Functors : RunInline(f)

Next == IoNext \/ \E c \in Clients : ClientNext(c)

Spec == Init /\ [][Next]_vars

-----------------------------------------------------------------------------
(* What the scheduler owes: the I/O thread keeps moving wherever the code  *)
(* gives it something to do, and so does a client inside a call.  Nothing  *)
(* is owed by the outside: neither a ready source nor the poll timeout may *)
(* be counted on to wake the loop.  A client waiting for mtx gets it if mtx*)
(* is free again and again, for the loop may take it endlessly often.      *)

LoopSteps ==
  \/ CheckQuit
  \/ eventCount > 0 /\ \E up \in SUBSET Sources : Poll(up)
  \/ HandleTrigger
  \/ \E s \in Sources : HandleSource(s)
  \/ BatchDone \/ LockPending \/ SwapPending \/ RunFunctor \/ RunDone

UserCodeReturns == SourceReturns \/ FunctorReturns

ClientFairness ==
  \A c \in Clients :
    /\ SF_vars(LockPost(c))
    /\ WF_vars(PushPost(c) \/ TriggerPost(c) \/ TriggerQuit(c))

(* Callbacks and functors may block forever ...                            *)
FairSpec == Spec /\ ClientFairness /\ WF_vars(LoopSteps)

(* ... or not, where a property needs it.                                  *)
CallbacksReturn == WF_vars(UserCodeReturns)

(* The application does call loop().                                       *)
LoopedSpec == FairSpec /\ CallbacksReturn /\ WF_vars(Loop)

-----------------------------------------------------------------------------
OutsideLoop == ioPc \in {"before", "returned"}

(* While the loop sleeps in epoll_wait with the eventfd at 0, every functor*)
(* in pendingFunctors belongs to a client that has yet to write the eventfd*)
(* (IoManager.cpp:67-71 against 27-32): nobody waits for the poll timeout. *)
WakeupNotLost ==
  ioPc = "poll" /\ eventCount = 0 =>
    \A f \in Range(pendingFunctors) :
      \E c \in Clients : clientPc[c] = "trigger" /\ hand[c] = f

(* The same for quit() (IoManager.cpp:36-40): a loop asleep with quitFlag  *)
(* set is about to be woken by the thread that set it.                     *)
QuitNotSleptOver ==
  ioPc = "poll" /\ quitFlag /\ eventCount = 0 =>
    \E c \in Clients : clientPc[c] = "quitTrigger"

(* The eventfd read of EventTrigger::handleRead never fails, although it is*)
(* decided at the poll and made later, with other callbacks in between: the*)
(* eventfd ends the process only when its counter is at the limit.         *)
ExitOnlyAtLimit == process = "eventfd" => eventCount = EventFdMax

(* runInIoThread with its two vectors, its lock and its wake-ups implements*)
(* the queue of FunctorQueue: nothing lost, nothing run twice, FIFO.       *)
FQ == INSTANCE FunctorQueue WITH queue <- functors \o pendingFunctors

ImplementsFunctorQueue == FQ!Spec

(* A functor that waits while the loop runs is run, or the loop returns;   *)
(* the eventfd alone brings this about, if no callback blocks the loop.    *)
FunctorRuns ==
  CallbacksReturn =>
    \A f \in Functors :
      (f \in Range(pendingFunctors) /\ ~OutsideLoop)
        ~> (f \in Range(ran) \/ OutsideLoop)

(* A quit() that finds the loop running makes it return.                   *)
QuitReturns ==
  CallbacksReturn => ((quitFlag /\ ~OutsideLoop) ~> OutsideLoop)

(* runInIoThread does not wait for user code: a thread that asks for mtx   *)
(* finishes its call even if a functor or a callback never returns, since  *)
(* runPendingFunctors runs the functors after it has released mtx.         *)
PosterProgress ==
  \A c \in Clients : (clientPc[c] = "lock") ~> (clientPc[c] = "ready")

(* "IoManager member functions must be thread safe" (IoManager.h:18): a    *)
(* thread that calls quit() sees loop() return, as the thread of           *)
(* IoManagerTest.cpp:48-62 expects.                                        *)
QuitStopsLoop ==
  \A c \in Clients : (clientPc[c] = "gone") ~> (ioPc = "returned")

-----------------------------------------------------------------------------
(* The inductive invariant behind the safety properties above.             *)

Posting == {"lock", "push", "trigger"}

(* A call in progress carries a functor.                                   *)
HandInv ==
  \A c \in Clients : clientPc[c] \in Posting => hand[c] \in Functors

(* mtx is held exactly where the code is inside a lock_guard's scope, and  *)
(* what push_back has read is still what the vector holds.                 *)
LockInv ==
  /\ \A c \in Clients :
       /\ mtx = c <=> clientPc[c] = "push"
       /\ clientPc[c] = "push" => snapshot[c] = pendingFunctors
  /\ mtx = IoThread <=> ioPc = "swap"

(* The loop's locals are empty outside the code that uses them, and the    *)
(* eventfd stays readable as long as its event waits in the batch.         *)
BatchInv ==
  /\ functors # <<>> => ioPc \in {"run", "functor"}
  /\ activeEvents # {} => ioPc \in {"dispatch", "source"}
  /\ Trigger \in activeEvents => eventCount > 0

(* Between one drain of the vector and the next drain of the eventfd, an   *)
(* eventfd at 0 means that whoever has pushed has yet to write.            *)
WakeupInv ==
  ioPc \notin {"dispatch", "source", "lock", "swap"} /\ eventCount = 0 =>
    \A f \in Range(pendingFunctors) :
      \E c \in Clients : clientPc[c] = "trigger" /\ hand[c] = f

(* The functors that have left the hands of the callers.                   *)
Placed == Range(functors) \cup Range(pendingFunctors) \cup Range(ran)

Carrying(c) == clientPc[c] \in {"lock", "push"}

(* Every functor handed over is in one place only: in the hand of one      *)
(* client that has not pushed it, in one of the vectors, or run.           *)
PlaceInv ==
  /\ Placed \subseteq handed
  /\ \A c \in Clients : Carrying(c) => hand[c] \in handed \ Placed
  /\ \A c, d \in Clients :
       Carrying(c) /\ Carrying(d) /\ hand[c] = hand[d] => c = d

(* All of the above together: what every reachable state satisfies and     *)
(* every step of IoManager preserves.                                      *)
IndInv ==
  /\ TypeOK
  /\ HandInv
  /\ LockInv
  /\ BatchInv
  /\ WakeupInv
  /\ QuitNotSleptOver
  /\ ExitOnlyAtLimit
  /\ PlaceInv
=============================================================================
