--------------------------- MODULE IoManagerProofs ---------------------------
(***************************************************************************)
(* Proofs that IoManager keeps its safety properties for any number of     *)
(* threads, functors and sources and any limits, and that it implements    *)
(* FunctorQueue.  The invariant that carries them all is IndInv; one lemma *)
(* per conjunct shows that every step preserves it, from the conjuncts it  *)
(* depends on and no others.                                               *)
(***************************************************************************)
EXTENDS IoManager, SequenceTheorems, TLAPS

-----------------------------------------------------------------------------
(* What the vectors hold, as sets, and how push_back and taking the oldest *)
(* functor change it.                                                      *)

LEMMA RangeOfEmpty == Range(<<>>) = {}
  BY DEF Range

LEMMA RangeOfAppend ==
  ASSUME NEW S, NEW s \in Seq(S), NEW e \in S
  PROVE  Range(Append(s, e)) = Range(s) \cup {e}
<1>1. <<e>> \in Seq(S) /\ Range(<<e>>) = {e}
  BY DEF Range
<1>2. Append(s, e) = s \o <<e>>
  BY AppendIsConcat
<1>3. Range(s \o <<e>>) = Range(s) \cup Range(<<e>>)
  BY <1>1, RangeConcatenation
<1>4. QED
  BY <1>1, <1>2, <1>3

LEMMA HeadThenTail ==
  ASSUME NEW S, NEW s \in Seq(S), s # <<>>
  PROVE  s = <<Head(s)>> \o Tail(s)
<1>1. Head(s) \in S /\ Tail(s) \in Seq(S) /\ Len(s) \in Nat \ {0}
  BY HeadTailProperties, EmptySeq, LenProperties
<1>2. <<Head(s)>> \in Seq(S) /\ Len(<<Head(s)>>) = 1
  BY <1>1
<1>3. /\ <<Head(s)>> \o Tail(s) \in Seq(S)
      /\ Len(<<Head(s)>> \o Tail(s)) = Len(s)
      /\ \A i \in 1 .. Len(s) : (<<Head(s)>> \o Tail(s))[i] = s[i]
  BY <1>1, <1>2, ConcatProperties, HeadTailProperties
<1>4. QED
  BY <1>3, SeqEqual

LEMMA RangeOfPrepend ==
  ASSUME NEW S, NEW s \in Seq(S), NEW e \in S
  PROVE  Range(<<e>> \o s) = {e} \cup Range(s)
<1>1. <<e>> \in Seq(S) /\ Range(<<e>>) = {e}
  BY DEF Range
<1>2. Range(<<e>> \o s) = Range(<<e>>) \cup Range(s)
  BY <1>1, RangeConcatenation
<1>3. QED
  BY <1>1, <1>2

LEMMA RangeOfTail ==
  ASSUME NEW S, NEW s \in Seq(S), s # <<>>
  PROVE  Range(s) = {Head(s)} \cup Range(Tail(s))
<1>1. Head(s) \in S /\ Tail(s) \in Seq(S)
  BY HeadTailProperties
<1>2. Range(<<Head(s)>> \o Tail(s)) = {Head(s)} \cup Range(Tail(s))
  BY <1>1, RangeOfPrepend
<1>3. QED
  BY <1>2, HeadThenTail

-----------------------------------------------------------------------------
(* After triggerOnce() the eventfd is readable, even if the write failed.  *)
LEMMA TriggerReadable ==
  ASSUME TypeOK, TriggerOnce
  PROVE  eventCount' # 0
<1>1. eventCount \in Nat /\ EventFdMax \in Nat \ {0}
  BY BoundsAssumption DEF TypeOK
<1>2. QED
  BY <1>1 DEF TriggerOnce

-----------------------------------------------------------------------------
(* Every step keeps every variable in its type; push_back appends a functor*)
(* because the call that makes it carries one.                             *)
LEMMA TypePreserved ==
  ASSUME TypeOK, HandInv, [Next]_vars
  PROVE  TypeOK'
<1>1. ASSUME Loop \/ CheckQuit \/ PollTimeout \/ PollInterrupted
             \/ SourceReturns \/ BatchDone \/ FunctorReturns \/ RunDone
      PROVE  TypeOK'
  BY <1>1 DEF TypeOK, IoPcs, ioVars, clientVars, Loop, CheckQuit, PollTimeout,
    PollInterrupted, SourceReturns, BatchDone, FunctorReturns, RunDone
<1>2. ASSUME NEW up \in SUBSET Sources, Poll(up)
      PROVE  TypeOK'
  <2>1. activeEvents' \subseteq Sources \cup {Trigger}
    BY <1>2 DEF Poll, ReadyEvents
  <2>2. containerSize' \in Nat \ {0}
    <3>1. containerSize' = containerSize \/ containerSize' = 2 * containerSize
      BY <1>2 DEF Poll
    <3>2. QED
      BY <3>1 DEF TypeOK
  <2>3. QED
    BY <1>2, <2>1, <2>2 DEF TypeOK, IoPcs, clientVars, Poll
<1>3. ASSUME HandleTrigger \/ \E s \in Sources : HandleSource(s)
      PROVE  TypeOK'
  BY <1>3, BoundsAssumption DEF TypeOK, IoPcs, clientVars, HandleTrigger,
    CleanEvents, HandleSource
<1>4. ASSUME LockPending \/ SwapPending
      PROVE  TypeOK'
  BY <1>4, EmptySeq DEF TypeOK, IoPcs, clientVars, LockPending, SwapPending
<1>5. ASSUME NEW f \in Functors, Execute(f)
      PROVE  /\ quitFlag' \in BOOLEAN
             /\ eventCount' \in 0 .. EventFdMax
             /\ ran' \in Seq(Functors)
             /\ process' \in {"running", "eventfd", "epoll_wait"}
  <2>1. \/ eventCount' = eventCount
        \/ eventCount < EventFdMax /\ eventCount' = eventCount + 1
    BY <1>5 DEF Execute, TriggerOnce
  <2>2. eventCount' \in 0 .. EventFdMax
    BY <2>1, BoundsAssumption DEF TypeOK
  <2>3. ran' \in Seq(Functors)
    BY <1>5, AppendProperties DEF TypeOK, Execute
  <2>4. QED
    BY <1>5, <2>2, <2>3 DEF TypeOK, Execute, TriggerOnce
<1>6. CASE RunFunctor
  <2>1. Head(functors) \in Functors /\ functors' \in Seq(Functors)
    BY <1>6, HeadTailProperties DEF TypeOK, RunFunctor
  <2>2. QED
    BY <1>5, <1>6, <2>1 DEF TypeOK, IoPcs, clientVars, RunFunctor
<1>7. ASSUME NEW f \in Functors, RunInline(f)
      PROVE  TypeOK'
  BY <1>5, <1>7 DEF TypeOK, ioVars, clientVars, RunInline
<1>8. ASSUME NEW c \in Clients, NEW f \in Functors, CallRunInIoThread(c, f)
      PROVE  TypeOK'
  BY <1>8 DEF TypeOK, ClientPcs, ioVars, CallRunInIoThread
<1>9. ASSUME NEW c \in Clients, LockPost(c) \/ CallQuit(c)
      PROVE  TypeOK'
  BY <1>9 DEF TypeOK, ClientPcs, ioVars, LockPost, CallQuit
<1>10. ASSUME NEW c \in Clients, PushPost(c)
       PROVE  TypeOK'
  <2>1. pendingFunctors' \in Seq(Functors)
    BY <1>10, AppendProperties DEF TypeOK, HandInv, Posting, PushPost
  <2>2. snapshot' \in [Clients -> Seq(Functors)]
    BY <1>10, EmptySeq DEF TypeOK, PushPost
  <2>3. QED
    BY <1>10, <2>1, <2>2 DEF TypeOK, ClientPcs, ioVars, PushPost
<1>11. ASSUME NEW c \in Clients, TriggerPost(c) \/ TriggerQuit(c)
       PROVE  TypeOK'
  <2>1. eventCount' \in 0 .. EventFdMax
    BY <1>11, BoundsAssumption DEF TypeOK, TriggerPost, TriggerQuit, TriggerOnce
  <2>2. process' \in {"running", "eventfd", "epoll_wait"}
    BY <1>11 DEF TypeOK, TriggerPost, TriggerQuit, TriggerOnce
  <2>3. QED
    BY <1>11, <2>1, <2>2 DEF TypeOK, ClientPcs, ioVars, TriggerPost, TriggerQuit
<1>12. CASE UNCHANGED vars
  BY <1>12 DEF TypeOK, vars, ioVars, clientVars
<1>13. QED
  BY <1>1, <1>2, <1>3, <1>4, <1>6, <1>7, <1>8, <1>9, <1>10, <1>11, <1>12
    DEF Next, IoNext, ClientNext

-----------------------------------------------------------------------------
(* No step of the I/O thread touches what belongs to a client's call.      *)
LEMMA IoLeavesClients ==
  ASSUME IoNext \/ UNCHANGED vars
  PROVE  UNCHANGED clientVars
BY DEF IoNext, vars, clientVars, ioVars, Loop, CheckQuit, Poll, PollTimeout,
  PollInterrupted, HandleTrigger, HandleSource, SourceReturns, BatchDone,
  LockPending, SwapPending, RunFunctor, FunctorReturns, RunDone, RunInline

(* No step of a client touches the locals of loop().                       *)
LEMMA ClientsLeaveIo ==
  ASSUME NEW c \in Clients, ClientNext(c)
  PROVE  UNCHANGED <<ioVars, ran>>
BY DEF ClientNext, CallRunInIoThread, LockPost, PushPost, TriggerPost,
  CallQuit, TriggerQuit

(* A step of a client is a step of its own call and of no other's.         *)
LEMMA ClientsApart ==
  ASSUME TypeOK, NEW c \in Clients, ClientNext(c)
  PROVE  \A d \in Clients \ {c} : /\ clientPc'[d] = clientPc[d]
                                  /\ hand'[d] = hand[d]
                                  /\ snapshot'[d] = snapshot[d]
BY DEF TypeOK, ClientNext, clientVars, CallRunInIoThread, LockPost, PushPost,
  TriggerPost, CallQuit, TriggerQuit

(* A functor is in the hand of its caller until its call returns.          *)
LEMMA HandPreserved ==
  ASSUME TypeOK, HandInv, [Next]_vars
  PROVE  HandInv'
<1>1. CASE IoNext \/ UNCHANGED vars
  BY <1>1, IoLeavesClients DEF HandInv, clientVars
<1>2. ASSUME NEW c \in Clients, ClientNext(c)
      PROVE  HandInv'
  <2>1. clientPc'[c] \in Posting => hand'[c] \in Functors
    BY <1>2 DEF TypeOK, HandInv, Posting, ClientNext, CallRunInIoThread,
      LockPost, PushPost, TriggerPost, CallQuit, TriggerQuit
  <2>2. QED
    BY <1>2, <2>1, ClientsApart DEF HandInv
<1>3. QED
  BY <1>1, <1>2 DEF Next

-----------------------------------------------------------------------------
(* The mutex does its work: between push_back's read of the vector and its *)
(* write nobody else writes, since whoever writes it holds mtx.            *)
LEMMA LockPreserved ==
  ASSUME TypeOK, LockInv, [Next]_vars
  PROVE  LockInv'
<1>1. CASE UNCHANGED vars
  BY <1>1 DEF LockInv, vars, ioVars, clientVars
<1>2. ASSUME IoNext, UNCHANGED <<mtx, pendingFunctors>>, ioPc # "swap",
             ioPc' # "swap"
      PROVE  LockInv'
  BY <1>2, IoLeavesClients DEF LockInv, clientVars
<1>3. CASE LockPending
  <2>1. \A c \in Clients : clientPc[c] # "push"
    BY <1>3, ThreadsAssumption DEF LockInv, LockPending
  <2>2. QED
    BY <1>3, <2>1, ThreadsAssumption DEF LockInv, LockPending, clientVars
<1>4. CASE SwapPending
  <2>1. \A c \in Clients : clientPc[c] # "push"
    BY <1>4, ThreadsAssumption DEF LockInv, SwapPending
  <2>2. QED
    BY <1>4, <2>1, ThreadsAssumption DEF LockInv, SwapPending, clientVars
<1>5. ASSUME NEW c \in Clients, LockPost(c)
      PROVE  LockInv'
  <2>1. /\ \A d \in Clients : clientPc[d] # "push"
        /\ ioPc # "swap"
    BY <1>5, ThreadsAssumption DEF LockInv, LockPost
  <2>2. QED
    BY <1>5, <2>1, ThreadsAssumption DEF TypeOK, LockInv, LockPost, ioVars
<1>6. ASSUME NEW c \in Clients, PushPost(c)
      PROVE  LockInv'
  <2>1. /\ \A d \in Clients \ {c} : clientPc[d] # "push"
        /\ ioPc # "swap"
    BY <1>6, ThreadsAssumption DEF LockInv, PushPost
  <2>2. QED
    BY <1>6, <2>1, ThreadsAssumption DEF TypeOK, LockInv, PushPost, ioVars
<1>7. ASSUME NEW c \in Clients,
             \/ \E f \in Functors : CallRunInIoThread(c, f)
             \/ TriggerPost(c) \/ CallQuit(c) \/ TriggerQuit(c)
      PROVE  LockInv'
  <2>1. /\ UNCHANGED <<mtx, pendingFunctors, snapshot, ioPc>>
        /\ \A d \in Clients : clientPc'[d] = "push" <=> clientPc[d] = "push"
    BY <1>7 DEF TypeOK, CallRunInIoThread, TriggerPost, CallQuit, TriggerQuit,
      ioVars
  <2>2. QED
    BY <2>1 DEF LockInv
<1>8. ASSUME IoNext
      PROVE  \/ UNCHANGED <<mtx, pendingFunctors>> /\ ioPc # "swap" /\ ioPc' # "swap"
             \/ LockPending \/ SwapPending
  BY <1>8 DEF IoNext, ioVars, Loop, CheckQuit, Poll, PollTimeout,
    PollInterrupted, HandleTrigger, HandleSource, SourceReturns, BatchDone,
    RunFunctor, FunctorReturns, RunDone, RunInline
<1>9. QED
  BY <1>1, <1>2, <1>3, <1>4, <1>5, <1>6, <1>7, <1>8 DEF Next, ClientNext

-----------------------------------------------------------------------------
(* Only the I/O thread lowers the eventfd's counter, in HandleTrigger, and *)
(* it takes its event out of the batch in the same step.                   *)
LEMMA BatchPreserved ==
  ASSUME TypeOK, BatchInv, [Next]_vars
  PROVE  BatchInv'
<1>1. ASSUME UNCHANGED ioVars, eventCount > 0 => eventCount' > 0
      PROVE  BatchInv'
  BY <1>1 DEF BatchInv, ioVars
<1>2. ASSUME NEW c \in Clients, ClientNext(c)
      PROVE  BatchInv'
  <2>1. eventCount > 0 => eventCount' > 0
    BY <1>2 DEF TypeOK, ClientNext, CallRunInIoThread, LockPost, PushPost,
      TriggerPost, CallQuit, TriggerQuit, TriggerOnce
  <2>2. QED
    BY <1>1, <1>2, <2>1, ClientsLeaveIo
<1>3. ASSUME NEW f \in Functors, Execute(f)
      PROVE  eventCount > 0 => eventCount' > 0
  BY <1>3 DEF TypeOK, Execute, TriggerOnce
<1>4. ASSUME NEW f \in Functors, RunInline(f)
      PROVE  BatchInv'
  BY <1>1, <1>3, <1>4 DEF RunInline
<1>5. CASE RunFunctor
  <2>1. functors # <<>> => Head(functors) \in Functors
    BY HeadTailProperties DEF TypeOK
  <2>2. QED
    BY <1>3, <1>5, <2>1 DEF BatchInv, RunFunctor
<1>6. ASSUME NEW up \in SUBSET Sources, Poll(up)
      PROVE  BatchInv'
  <2>1. Trigger \in activeEvents' => eventCount > 0
    BY <1>6, EventsAssumption DEF Poll, ReadyEvents
  <2>2. QED
    BY <1>6, <2>1 DEF BatchInv, Poll
<1>7. CASE HandleTrigger
  BY <1>7, EventsAssumption DEF BatchInv, HandleTrigger
<1>8. CASE \E s \in Sources : HandleSource(s)
  BY <1>8 DEF BatchInv, HandleSource
<1>9. ASSUME \/ Loop \/ CheckQuit \/ PollTimeout \/ PollInterrupted
             \/ SourceReturns \/ BatchDone
             \/ LockPending \/ SwapPending \/ FunctorReturns \/ RunDone
      PROVE  BatchInv'
  BY <1>9 DEF BatchInv, ioVars, Loop, CheckQuit, PollTimeout, PollInterrupted,
    SourceReturns, BatchDone, LockPending, SwapPending, FunctorReturns, RunDone
<1>10. CASE UNCHANGED vars
  BY <1>1, <1>10 DEF vars
<1>11. QED
  BY <1>2, <1>4, <1>5, <1>6, <1>7, <1>8, <1>9, <1>10 DEF Next, IoNext

-----------------------------------------------------------------------------
(* Outside the drain of eventfd and vector the loop only adds to the       *)
(* eventfd and leaves the vector alone.                                    *)
Draining == ioPc \in {"dispatch", "source", "lock", "swap"}

LEMMA OutsideDrain ==
  ASSUME TypeOK, IoNext \/ UNCHANGED vars, ~Draining'
  PROVE  \/ SwapPending
         \/ /\ ~Draining
            /\ UNCHANGED pendingFunctors
            /\ eventCount' = 0 => eventCount = 0
<1>1. ASSUME NEW f \in Functors, Execute(f)
      PROVE  eventCount' = 0 => eventCount = 0
  BY <1>1 DEF TypeOK, Execute, TriggerOnce
<1>2. CASE RunFunctor
  <2>1. functors # <<>> => Head(functors) \in Functors
    BY HeadTailProperties DEF TypeOK
  <2>2. QED
    BY <1>1, <1>2, <2>1 DEF Draining, RunFunctor
<1>3. ASSUME NEW f \in Functors, RunInline(f)
      PROVE  /\ ~Draining
             /\ UNCHANGED pendingFunctors
             /\ eventCount' = 0 => eventCount = 0
  BY <1>1, <1>3 DEF Draining, ioVars, RunInline
<1>4. ASSUME \/ Loop \/ CheckQuit \/ PollInterrupted
             \/ FunctorReturns \/ RunDone \/ UNCHANGED vars
      PROVE  /\ ~Draining
             /\ UNCHANGED pendingFunctors
             /\ eventCount' = 0 => eventCount = 0
  BY <1>4 DEF Draining, vars, ioVars, Loop, CheckQuit, PollInterrupted,
    FunctorReturns, RunDone
<1>5. ASSUME \/ \E up \in SUBSET Sources : Poll(up)
             \/ PollTimeout \/ HandleTrigger
             \/ \E s \in Sources : HandleSource(s)
             \/ SourceReturns \/ BatchDone \/ LockPending
      PROVE  FALSE
  BY <1>5 DEF Draining, Poll, PollTimeout, HandleTrigger, HandleSource,
    SourceReturns, BatchDone, LockPending
<1>6. QED
  BY <1>2, <1>3, <1>4, <1>5 DEF IoNext

(* A functor in the vector with the eventfd at 0 still has its client.     *)
LEMMA WakeupPreserved ==
  ASSUME TypeOK, HandInv, LockInv, WakeupInv, [Next]_vars
  PROVE  WakeupInv'
<1> SUFFICES ASSUME ~Draining', eventCount' = 0
             PROVE  \A f \in Range(pendingFunctors') :
                      \E c \in Clients : clientPc'[c] = "trigger" /\ hand'[c] = f
  BY DEF WakeupInv, Draining
<1>1. CASE SwapPending
  BY <1>1, RangeOfEmpty DEF SwapPending
<1>2. CASE (IoNext \/ UNCHANGED vars) /\ ~SwapPending
  BY <1>2, OutsideDrain, IoLeavesClients DEF WakeupInv, Draining, clientVars
<1>3. ASSUME NEW c \in Clients, ClientNext(c)
      PROVE  ~Draining /\ eventCount = 0
  BY <1>3 DEF TypeOK, Draining, ioVars, ClientNext, CallRunInIoThread, LockPost,
    PushPost, TriggerPost, CallQuit, TriggerQuit, TriggerOnce
<1>4. ASSUME NEW c \in Clients, TriggerPost(c) \/ TriggerQuit(c)
      PROVE  FALSE
  BY <1>4, TriggerReadable DEF TriggerPost, TriggerQuit
<1>5. ASSUME NEW c \in Clients,
             \/ \E f \in Functors : CallRunInIoThread(c, f)
             \/ LockPost(c) \/ CallQuit(c)
      PROVE  \A f \in Range(pendingFunctors') :
               \E d \in Clients : clientPc'[d] = "trigger" /\ hand'[d] = f
  <2>1. UNCHANGED pendingFunctors /\ clientPc[c] # "trigger"
    BY <1>5 DEF CallRunInIoThread, LockPost, CallQuit
  <2>2. QED
    BY <1>3, <1>5, <2>1, ClientsApart DEF WakeupInv, Draining, ClientNext
<1>6. ASSUME NEW c \in Clients, PushPost(c)
      PROVE  \A f \in Range(pendingFunctors') :
               \E d \in Clients : clientPc'[d] = "trigger" /\ hand'[d] = f
  <2>1. pendingFunctors' = Append(pendingFunctors, hand[c]) /\ hand[c] \in Functors
    BY <1>6 DEF LockInv, HandInv, Posting, PushPost
  <2>2. Range(pendingFunctors') = Range(pendingFunctors) \cup {hand[c]}
    BY <2>1, RangeOfAppend DEF TypeOK
  <2>3. /\ clientPc[c] = "push"
        /\ clientPc'[c] = "trigger" /\ hand'[c] = hand[c]
    BY <1>6 DEF TypeOK, PushPost
  <2>4. QED
    BY <1>3, <1>6, <2>2, <2>3, ClientsApart DEF WakeupInv, Draining, ClientNext
<1>7. QED
  BY <1>1, <1>2, <1>4, <1>5, <1>6 DEF Next, ClientNext

-----------------------------------------------------------------------------
(* A client that sets the flag while the loop sleeps writes the eventfd    *)
(* next; the loop does not go to sleep with the flag set.                  *)
LEMMA QuitPreserved ==
  ASSUME TypeOK, QuitNotSleptOver, [Next]_vars
  PROVE  QuitNotSleptOver'
<1> SUFFICES ASSUME ioPc' = "poll", quitFlag', eventCount' = 0
             PROVE  \E c \in Clients : clientPc'[c] = "quitTrigger"
  BY DEF QuitNotSleptOver
<1>1. ASSUME IoNext
      PROVE  PollInterrupted
  BY <1>1 DEF IoNext, ioVars, Loop, CheckQuit, Poll, PollTimeout, HandleTrigger,
    HandleSource, SourceReturns, BatchDone, LockPending, SwapPending,
    RunFunctor, FunctorReturns, RunDone, RunInline
<1>2. ASSUME NEW c \in Clients, TriggerPost(c) \/ TriggerQuit(c)
      PROVE  FALSE
  BY <1>2, TriggerReadable DEF TriggerPost, TriggerQuit
<1>3. ASSUME NEW c \in Clients, CallQuit(c)
      PROVE  clientPc'[c] = "quitTrigger"
  BY <1>3 DEF TypeOK, CallQuit
<1>4. ASSUME NEW c \in Clients,
             \/ \E f \in Functors : CallRunInIoThread(c, f)
             \/ LockPost(c) \/ PushPost(c)
      PROVE  \E d \in Clients : clientPc'[d] = "quitTrigger"
  <2>1. /\ UNCHANGED <<ioPc, quitFlag, eventCount>>
        /\ clientPc[c] # "quitTrigger"
    BY <1>4 DEF CallRunInIoThread, LockPost, PushPost, ioVars
  <2>2. QED
    BY <1>4, <2>1, ClientsApart DEF QuitNotSleptOver, ClientNext
<1>5. CASE PollInterrupted \/ UNCHANGED vars
  BY <1>5 DEF QuitNotSleptOver, vars, ioVars, clientVars, PollInterrupted
<1>6. QED
  BY <1>1, <1>2, <1>3, <1>4, <1>5 DEF Next, ClientNext

(* A write fails only at the limit, and a read never does.                 *)
LEMMA ExitPreserved ==
  ASSUME TypeOK, BatchInv, ExitOnlyAtLimit, [Next]_vars
  PROVE  ExitOnlyAtLimit'
<1>1. ASSUME TriggerOnce, process = "running"
      PROVE  ExitOnlyAtLimit'
  BY <1>1, BoundsAssumption DEF TypeOK, ExitOnlyAtLimit, TriggerOnce
<1>2. ASSUME NEW f \in Functors, Execute(f), process = "running"
      PROVE  ExitOnlyAtLimit'
  BY <1>1, <1>2 DEF ExitOnlyAtLimit, Execute
<1>3. CASE RunFunctor
  <2>1. Head(functors) \in Functors
    BY <1>3, HeadTailProperties DEF TypeOK, RunFunctor
  <2>2. QED
    BY <1>2, <1>3, <2>1 DEF RunFunctor
<1>4. ASSUME NEW f \in Functors, RunInline(f)
      PROVE  ExitOnlyAtLimit'
  BY <1>2, <1>4 DEF RunInline
<1>5. CASE HandleTrigger
  BY <1>5 DEF BatchInv, ExitOnlyAtLimit, HandleTrigger, CleanEvents
<1>6. ASSUME \/ Loop \/ CheckQuit \/ PollTimeout \/ PollInterrupted
             \/ \E up \in SUBSET Sources : Poll(up)
             \/ \E s \in Sources : HandleSource(s)
             \/ SourceReturns \/ BatchDone \/ LockPending \/ SwapPending
             \/ FunctorReturns \/ RunDone
      PROVE  process' # "eventfd"
  BY <1>6 DEF Loop, CheckQuit, Poll, PollTimeout, PollInterrupted, HandleSource,
    SourceReturns, BatchDone, LockPending, SwapPending, FunctorReturns, RunDone
<1>7. ASSUME NEW c \in Clients, ClientNext(c)
      PROVE  process = "running" /\ (TriggerOnce \/ process' # "eventfd")
  BY <1>7 DEF ClientNext, CallRunInIoThread, LockPost, PushPost, TriggerPost,
    CallQuit, TriggerQuit
<1>8. CASE UNCHANGED vars
  BY <1>8 DEF ExitOnlyAtLimit, vars
<1>9. QED
  BY <1>1, <1>3, <1>4, <1>5, <1>6, <1>7, <1>8 DEF Next, IoNext, ExitOnlyAtLimit

-----------------------------------------------------------------------------
(* What a step does to the two vectors and to what has run.  In the words  *)
(* of FunctorQueue: it enqueues, runs the oldest, runs at once, or nothing.*)
Queue == functors \o pendingFunctors

LEMMA PushEnqueues ==
  ASSUME TypeOK, HandInv, LockInv, NEW c \in Clients, PushPost(c)
  PROVE  /\ hand[c] \in Functors
         /\ Queue' = Append(Queue, hand[c])
         /\ Placed' = Placed \cup {hand[c]}
         /\ UNCHANGED <<handed, ran, hand>>
<1>1. /\ hand[c] \in Functors
      /\ pendingFunctors' = Append(pendingFunctors, hand[c])
      /\ UNCHANGED <<functors, handed, ran, hand>>
  BY DEF LockInv, HandInv, Posting, PushPost, ioVars
<1>2. Queue' = Append(Queue, hand[c])
  BY <1>1, ConcatAssociative, AppendIsConcat, ConcatProperties
    DEF TypeOK, Queue
<1>3. Range(pendingFunctors') = Range(pendingFunctors) \cup {hand[c]}
  BY <1>1, RangeOfAppend DEF TypeOK
<1>4. QED
  BY <1>1, <1>2, <1>3 DEF Placed

LEMMA SwapMoves ==
  ASSUME TypeOK, BatchInv, SwapPending
  PROVE  Queue' = Queue /\ Placed' = Placed
<1>1. /\ functors = <<>> /\ functors' = pendingFunctors
      /\ pendingFunctors' = <<>> /\ ran' = ran
  BY DEF BatchInv, SwapPending
<1>2. QED
  BY <1>1, ConcatEmptySeq, RangeOfEmpty DEF TypeOK, Queue, Placed

LEMMA ExecuteRuns ==
  ASSUME TypeOK, NEW f \in Functors, Execute(f)
  PROVE  ran' = Append(ran, f) /\ Range(ran') = Range(ran) \cup {f}
BY RangeOfAppend DEF TypeOK, Execute

LEMMA RunTakesOldest ==
  ASSUME TypeOK, RunFunctor
  PROVE  /\ Queue # <<>>
         /\ ran' = Append(ran, Head(Queue))
         /\ Queue' = Tail(Queue)
         /\ Placed' = Placed
<1>1. /\ functors # <<>> /\ functors' = Tail(functors)
      /\ Head(functors) \in Functors /\ Tail(functors) \in Seq(Functors)
      /\ Execute(Head(functors)) /\ pendingFunctors' = pendingFunctors
  BY HeadTailProperties DEF TypeOK, RunFunctor
<1>2. Queue # <<>>
  BY <1>1, ConcatEqualIffEmpty DEF TypeOK, Queue
<1>3. Queue = <<Head(functors)>> \o Queue'
  BY <1>1, HeadThenTail, ConcatAssociative DEF TypeOK, Queue
<1>4. Head(Queue) = Head(functors) /\ Tail(Queue) = Queue'
  <2>1. Queue' \in Seq(Functors)
    BY <1>1, ConcatProperties DEF TypeOK, Queue
  <2>2. QED
    BY <1>1, <1>3, <2>1
<1>5. Range(functors) = {Head(functors)} \cup Range(functors')
  BY <1>1, RangeOfTail DEF TypeOK
<1>6. Range(ran') = Range(ran) \cup {Head(functors)}
  BY <1>1, ExecuteRuns
<1>7. QED
  BY <1>1, <1>2, <1>4, <1>5, <1>6, ExecuteRuns DEF Placed

-----------------------------------------------------------------------------
(* The other steps of the I/O thread leave both vectors and ran alone.     *)
LEMMA IoRestStutters ==
  ASSUME IoNext \/ UNCHANGED vars, ~SwapPending, ~RunFunctor,
         \A f \in Functors : ~RunInline(f)
  PROVE  UNCHANGED <<functors, pendingFunctors, handed, ran>>
BY DEF IoNext, vars, ioVars, clientVars, Loop, CheckQuit, Poll, PollTimeout,
  PollInterrupted, HandleTrigger, HandleSource, SourceReturns, BatchDone,
  LockPending, FunctorReturns, RunDone

(* Every functor stays in one place; FunctorQueue's guards rest on it.     *)
LEMMA PlacePreserved ==
  ASSUME TypeOK, HandInv, LockInv, BatchInv, PlaceInv, [Next]_vars
  PROVE  PlaceInv'
<1>1. ASSUME UNCHANGED clientVars, Placed' \ Placed \subseteq handed' \ handed,
             handed \subseteq handed'
      PROVE  PlaceInv'
  BY <1>1 DEF PlaceInv, Carrying, clientVars
<1>2. CASE SwapPending
  BY <1>1, <1>2, SwapMoves DEF SwapPending
<1>3. CASE RunFunctor
  BY <1>1, <1>3, RunTakesOldest DEF RunFunctor
<1>4. ASSUME NEW f \in Functors, RunInline(f)
      PROVE  PlaceInv'
  <2>1. Placed' = Placed \cup {f}
    BY <1>4, ExecuteRuns DEF RunInline, ioVars, Placed
  <2>2. QED
    BY <1>1, <1>4, <2>1 DEF RunInline
<1>5. CASE /\ IoNext \/ UNCHANGED vars
           /\ ~SwapPending /\ ~RunFunctor
           /\ \A f \in Functors : ~RunInline(f)
  <2>1. Placed' = Placed /\ handed' = handed
    BY <1>5, IoRestStutters DEF Placed
  <2>2. QED
    BY <1>1, <1>5, <2>1, IoLeavesClients
<1>6. ASSUME NEW c \in Clients, NEW f \in Functors, CallRunInIoThread(c, f)
      PROVE  PlaceInv'
  <2>1. Placed' = Placed /\ f \notin handed /\ handed' = handed \cup {f}
    BY <1>6 DEF CallRunInIoThread, ioVars, Placed
  <2>2. hand'[c] = f /\ \A d \in Clients \ {c} :
          hand'[d] = hand[d] /\ clientPc'[d] = clientPc[d]
    BY <1>6 DEF TypeOK, CallRunInIoThread
  <2>3. \A d \in Clients \ {c} : Carrying(d)' => Carrying(d) /\ hand'[d] \in handed
    BY <2>2 DEF Carrying, PlaceInv
  <2>4. QED
    BY <2>1, <2>2, <2>3 DEF PlaceInv
<1>7. ASSUME NEW c \in Clients, PushPost(c)
      PROVE  PlaceInv'
  <2>1. /\ Placed' = Placed \cup {hand[c]} /\ UNCHANGED <<handed, hand>>
    BY <1>7, PushEnqueues
  <2>2. /\ Carrying(c) /\ ~Carrying(c)'
        /\ \A d \in Clients \ {c} : clientPc'[d] = clientPc[d]
    BY <1>7 DEF TypeOK, PushPost, Carrying
  <2>3. QED
    BY <2>1, <2>2 DEF PlaceInv, Carrying
<1>8. ASSUME NEW c \in Clients,
             LockPost(c) \/ TriggerPost(c) \/ CallQuit(c) \/ TriggerQuit(c)
      PROVE  PlaceInv'
  <2>1. Placed' = Placed /\ handed' = handed
    BY <1>8 DEF LockPost, TriggerPost, CallQuit, TriggerQuit, ioVars, Placed
  <2>2. \A d \in Clients : Carrying(d)' => Carrying(d) /\ hand'[d] = hand[d]
    BY <1>8 DEF TypeOK, LockPost, TriggerPost, CallQuit, TriggerQuit, Carrying
  <2>3. QED
    BY <2>1, <2>2 DEF PlaceInv
<1>9. QED
  BY <1>2, <1>3, <1>4, <1>5, <1>6, <1>7, <1>8 DEF Next, ClientNext

-----------------------------------------------------------------------------
LEMMA InitIndInv == Init => IndInv
<1> SUFFICES ASSUME Init
             PROVE  IndInv
  OBVIOUS
<1>1. TypeOK
  <2>1. 0 \in 0 .. EventFdMax /\ InitialActiveEventsSize \in Nat \ {0}
    BY BoundsAssumption
  <2>2. snapshot \in [Clients -> Seq(Functors)]
    BY EmptySeq DEF Init
  <2>3. QED
    BY <2>1, <2>2, EmptySeq DEF Init, TypeOK, IoPcs, ClientPcs
<1>2. HandInv /\ LockInv /\ BatchInv
  BY ThreadsAssumption
    DEF Init, HandInv, Posting, LockInv, BatchInv
<1>3. WakeupInv /\ QuitNotSleptOver /\ ExitOnlyAtLimit
  BY RangeOfEmpty DEF Init, WakeupInv, QuitNotSleptOver, ExitOnlyAtLimit
<1>4. PlaceInv
  BY RangeOfEmpty DEF Init, PlaceInv, Placed, Carrying
<1>5. QED
  BY <1>1, <1>2, <1>3, <1>4 DEF IndInv

LEMMA IndInvPreserved == IndInv /\ [Next]_vars => IndInv'
BY TypePreserved, HandPreserved, LockPreserved, BatchPreserved,
  WakeupPreserved, QuitPreserved, ExitPreserved, PlacePreserved DEF IndInv

(* Everything a reachable state of the event loop satisfies, whatever the  *)
(* number of threads, functors and sources (IndInv in IoManager.tla).      *)
THEOREM Invariance == Spec => []IndInv
BY InitIndInv, IndInvPreserved, PTL DEF Spec

(* The type invariant holds in every reachable state.                      *)
THEOREM TypeCorrect == Spec => []TypeOK
<1>1. IndInv => TypeOK
  BY DEF IndInv
<1>2. QED
  BY <1>1, Invariance, PTL

(* No wake-up is lost: a loop asleep with functors in its vector is about  *)
(* to be woken (runInIoThread against the drain of eventfd and vector).    *)
THEOREM NoWakeupLost == Spec => []WakeupNotLost
<1>1. IndInv => WakeupNotLost
  BY DEF IndInv, WakeupInv, WakeupNotLost
<1>2. QED
  BY <1>1, Invariance, PTL

(* A quit() during the loop does not leave it asleep.                      *)
THEOREM NoQuitSleptOver == Spec => []QuitNotSleptOver
<1>1. IndInv => QuitNotSleptOver
  BY DEF IndInv
<1>2. QED
  BY <1>1, Invariance, PTL

(* The non-blocking read of the eventfd never fails.                       *)
THEOREM ReadNeverFails == Spec => []ExitOnlyAtLimit
<1>1. IndInv => ExitOnlyAtLimit
  BY DEF IndInv
<1>2. QED
  BY <1>1, Invariance, PTL

-----------------------------------------------------------------------------
(* Every step of IoManager is a step of FunctorQueue or changes nothing    *)
(* that FunctorQueue sees.                                                 *)
LEMMA StepImplements ==
  ASSUME IndInv, [Next]_vars
  PROVE  [FQ!Next]_FQ!vars
<1> USE DEF Queue
<1>1. TypeOK /\ HandInv /\ LockInv /\ BatchInv /\ PlaceInv
  BY DEF IndInv
<1>2. CASE SwapPending
  BY <1>1, <1>2, SwapMoves DEF SwapPending, FQ!vars
<1>3. CASE RunFunctor
  <2>1. FQ!RunOldest
    BY <1>1, <1>3, RunTakesOldest DEF RunFunctor, FQ!RunOldest
  <2>2. QED
    BY <2>1 DEF FQ!Next
<1>4. ASSUME NEW f \in Functors, RunInline(f)
      PROVE  FQ!Next
  <2>1. FQ!RunAtOnce(f)
    BY <1>1, <1>4, ExecuteRuns DEF RunInline, ioVars, FQ!RunAtOnce
  <2>2. QED
    BY <2>1 DEF FQ!Next
<1>5. CASE /\ IoNext \/ UNCHANGED vars
           /\ ~SwapPending /\ ~RunFunctor
           /\ \A f \in Functors : ~RunInline(f)
  BY <1>5, IoRestStutters DEF FQ!vars
<1>6. ASSUME NEW c \in Clients, NEW f \in Functors, CallRunInIoThread(c, f)
      PROVE  FQ!Next
  <2>1. FQ!Hand(f)
    BY <1>6 DEF CallRunInIoThread, ioVars, FQ!Hand
  <2>2. QED
    BY <2>1 DEF FQ!Next
<1>7. ASSUME NEW c \in Clients, PushPost(c)
      PROVE  FQ!Next
  <2>1. /\ hand[c] \in Functors
        /\ Queue' = Append(Queue, hand[c])
        /\ UNCHANGED <<handed, ran>>
    BY <1>1, <1>7, PushEnqueues
  <2>2. hand[c] \in handed \ Placed
    BY <1>1, <1>7 DEF PlaceInv, Carrying, PushPost
  <2>3. Placed = Range(Queue) \cup Range(ran)
    BY <1>1, RangeConcatenation DEF TypeOK, Placed
  <2>4. FQ!Enqueue(hand[c])
    BY <2>1, <2>2, <2>3 DEF FQ!Enqueue, FQ!Range, Range
  <2>5. QED
    BY <2>1, <2>4 DEF FQ!Next
<1>8. ASSUME NEW c \in Clients,
             LockPost(c) \/ TriggerPost(c) \/ CallQuit(c) \/ TriggerQuit(c)
      PROVE  UNCHANGED FQ!vars
  BY <1>8 DEF LockPost, TriggerPost, CallQuit, TriggerQuit, ioVars, FQ!vars
<1>9. QED
  BY <1>2, <1>3, <1>4, <1>5, <1>6, <1>7, <1>8 DEF Next, ClientNext

(* runInIoThread implements FunctorQueue: no functor is lost or run twice, *)
(* and those that are queued run in the order in which they were queued.   *)
THEOREM Implementation == Spec => ImplementsFunctorQueue
<1>1. Init => FQ!Init
  BY ConcatEmptySeq, EmptySeq DEF Init, FQ!Init
<1>2. IndInv /\ [Next]_vars => [FQ!Next]_FQ!vars
  BY StepImplements
<1>3. QED
  BY <1>1, <1>2, Invariance, PTL DEF Spec, ImplementsFunctorQueue, FQ!Spec
=============================================================================
