------------------------------- MODULE Reactor -------------------------------
(***************************************************************************)
(* Sockets and the event loop: EPoller's registrations and its batches of  *)
(* plain Event pointers, Acceptor, Connection and SocketFd, the descriptor *)
(* table of the process and the sockets of the kernel.                     *)
(*                                                                         *)
(* One I/O thread polls, handles the batch, and runs the pending functors. *)
(* The application owns the connections: it makes one in                   *)
(* newConnectionCallback and destroys it in the ways that Destroyers names.*)
(* Callbacks are atomic here (what runs between them is in IoManager.tla); *)
(* the other threads and the peers act at any moment.                      *)
(*                                                                         *)
(* A handler is the address of an Event: Listener's is inside the Acceptor,*)
(* the others are inside Connections.  An address is used again once its   *)
(* object has been destroyed, and so is a descriptor once it is closed.    *)
(***************************************************************************)
EXTENDS Naturals, Sequences, FiniteSets, SequencesExt, Event

CONSTANTS
  Peers,        \* clients on the other end, each with one socket at a time
  Fds,          \* the descriptors the process may have open for sockets
  Connections,  \* the addresses at which a Connection can be allocated
  Listener,     \* the address of the Acceptor
  ListenSocket, \* what the descriptor of the Acceptor stands for
  OtherSocket,  \* what a SocketFd outside Acceptor and Connection stands for
  Nothing,      \* no socket, no handler, no descriptor
  Destroyers,   \* who destroys Connections, beside the pending functors
  InitialActiveEventsSize  \* kInitialActiveEventsSize, 16 in the code

(* "remove": a removeCallback, its own connection (as EPollerTest.cpp:137);*)
(* "accept": newConnectionCallback, any connection; "thread": any thread,  *)
(* any connection.                                                         *)
ASSUME DestroyersAssumption == Destroyers \subseteq {"remove", "accept", "thread"}

ASSUME NamesAssumption ==
  /\ Listener \notin Connections
  /\ ListenSocket # OtherSocket
  /\ {ListenSocket, OtherSocket} \cap Peers = {}
  /\ Nothing \notin Fds \cup Peers \cup {ListenSocket, OtherSocket}
                    \cup Connections \cup {Listener}

ASSUME BoundsAssumption ==
  /\ Fds \subseteq Nat
  /\ IsFiniteSet(Fds)
  /\ InitialActiveEventsSize \in Nat \ {0}

VARIABLES
  sign,           \* what each peer and its connection have come to
  backlog,        \* kernel: connections made and not accepted, oldest first
  socket,         \* kernel: what each descriptor stands for
  registered,     \* epoll: the pointer registered with each descriptor
  fdOf,           \* the member fd of each live handler, Nothing when dead
  activeEvents,   \* Event::activeEvents at each address, until it is handled
  pollContainer,  \* EPoller::pollContainer: the bits reported with each pointer
  containerSize,  \* EPoller::pollContainer.size()
  batch,          \* loop's vector: pointers not yet handled
  ioPc,           \* where the I/O thread is
  lastCall,       \* history: descriptor and kind of the batch's last callback
  strays,         \* history: destroyed while reported, not by itself
  process         \* "running", or what has ended it

kernelVars == <<sign, backlog, socket, registered>>
objectVars == <<fdOf, activeEvents>>
loopVars == <<pollContainer, containerSize, batch, ioPc>>
vars == <<kernelVars, objectVars, loopVars, lastCall, strays, process>>

Handlers == Connections \cup {Listener}
Sockets == Peers \cup {ListenSocket, OtherSocket}

(* away: no connection.  idle, data, closed: what the peer has done.       *)
(* shut: this side has shut down both directions.  reset: RST received.    *)
Signs == {"away", "idle", "data", "closed", "shut", "reset"}

Kinds == {"error", "remove", "read", "write"}
NoCall == [fd |-> Nothing, kind |-> "none"]
Calls == [fd : Fds, kind : Kinds] \cup {NoCall}

(* The endings: the kernel refuses a call; accept has nothing to accept;   *)
(* deletePollerEvent finds no registration; a dangling pointer is followed.*)
Fates == {"running", "refused", "nothing to accept", "not registered", "dangling"}

TypeOK ==
  /\ sign \in [Peers -> Signs]
  /\ backlog \in Seq(Peers)
  /\ socket \in [Fds -> Sockets \cup {Nothing}]
  /\ registered \in [Fds -> Handlers \cup {Nothing}]
  /\ fdOf \in [Handlers -> Fds \cup {Nothing}]
  /\ activeEvents \in [Handlers -> SUBSET Bits]
  /\ pollContainer \in [Handlers -> SUBSET Bits]
  /\ containerSize \in Nat \ {0}
  /\ batch \subseteq Handlers
  /\ ioPc \in {"poll", "collect", "dispatch", "functors"}
  /\ lastCall \in Calls
  /\ strays \subseteq Handlers
  /\ process \in Fates

Init ==
  /\ sign = [p \in Peers |-> "away"]
  /\ backlog = <<>>
  /\ socket = [fd \in Fds |-> Nothing]
  /\ registered = [fd \in Fds |-> Nothing]
  /\ fdOf = [h \in Handlers |-> Nothing]
  /\ activeEvents = [h \in Handlers |-> kNoneEvent]
  /\ pollContainer = [h \in Handlers |-> {}]
  /\ containerSize = InitialActiveEventsSize
  /\ batch = {}
  /\ ioPc = "functors"
  /\ lastCall = NoCall
  /\ strays = {}
  /\ process = "running"

Alive(h) == fdOf[h] # Nothing
FreeFds == {fd \in Fds : socket[fd] = Nothing}

(* The descriptor socket and accept return: the lowest that is not open.   *)
NewFds == {fd \in FreeFds : \A gd \in FreeFds : fd <= gd}

Connected(p) == \E fd \in Fds : socket[fd] = p

-----------------------------------------------------------------------------
(* The kernel's sockets.                                                   *)

(* The signs with which tcp_poll reports each bit.                         *)
ShownBy ==
  [IN |-> {"data", "closed", "shut", "reset"},
   PRI |-> {},
   RDHUP |-> {"closed", "shut", "reset"},
   OUT |-> {"idle", "data", "closed", "shut", "reset"},
   HUP |-> {"shut", "reset"},
   ERR |-> {"reset"}]

SignBits(s) == {bit \in Bits : s \in ShownBy[bit]}

Condition(fd) ==
  IF socket[fd] \in Peers THEN SignBits(sign[socket[fd]])
  ELSE IF socket[fd] = ListenSocket /\ backlog # <<>> THEN {"IN"}
  ELSE {}

(* A connection is made once the peer is in the backlog.                   *)
PeerConnects(p) ==
  /\ process = "running"
  /\ sign[p] = "away"
  /\ \E fd \in Fds : socket[fd] = ListenSocket
  /\ sign' = [sign EXCEPT ![p] = "idle"]
  /\ backlog' = Append(backlog, p)
  /\ UNCHANGED <<socket, registered, objectVars, loopVars, lastCall, strays,
                 process>>

PeerSignals(p) ==
  /\ process = "running"
  /\ \/ sign[p] = "idle" /\ sign' = [sign EXCEPT ![p] = "data"]
     \/ sign[p] \in {"idle", "data"} /\ sign' = [sign EXCEPT ![p] = "closed"]
     \/ sign[p] \notin {"away", "reset"} /\ sign' = [sign EXCEPT ![p] = "reset"]
  /\ UNCHANGED <<backlog, socket, registered, objectVars, loopVars, lastCall,
                 strays, process>>

(* SocketFd::shutdown on the descriptor of a connection.                   *)
ShutDown(p) ==
  /\ process = "running"
  /\ Connected(p)
  /\ sign[p] \in {"idle", "data", "closed"}
  /\ sign' = [sign EXCEPT ![p] = "shut"]
  /\ UNCHANGED <<backlog, socket, registered, objectVars, loopVars, lastCall,
                 strays, process>>

-----------------------------------------------------------------------------
(* Registrations and the life of the objects that hold them.               *)

(* The interest both constructors configure before updatePollerEvent.      *)
AllEvents(h) ==
  IF h = Listener THEN EnableReadEvent(kNoneEvent)
  ELSE EnableWriteEvent(EnableReadEvent(kNoneEvent))

(* EPOLL_CTL_ADD for an open descriptor, EPOLL_CTL_MOD when it is known    *)
(* already: either way the pointer given now is the one reported.          *)
UpdateEvent(fd, h) == registered' = [registered EXCEPT ![fd] = h]

(* socket, accept or EPOLL_CTL_ADD (then EPOLL_CTL_MOD too: the descriptor *)
(* is not known) is refused: no descriptor, no memory, no watch left, the  *)
(* connection aborted.  HANDLE_ERROR or an assert ends the process there,  *)
(* and nobody sees what the handler had done before.                       *)
Refused ==
  /\ process' = "refused"
  /\ UNCHANGED <<kernelVars, fdOf>>

(* Seeded faults: the destructor leaves the descriptor open; it closes it  *)
(* before deletePollerEvent.                                               *)
Destroy_Leak(h) ==
  /\ registered' = [registered EXCEPT ![fdOf[h]] = Nothing]
  /\ fdOf' = [fdOf EXCEPT ![h] = Nothing]
  /\ UNCHANGED <<sign, backlog, socket, process>>

Destroy_CloseFirst(h) ==
  /\ process' = "not registered"
  /\ socket' = [socket EXCEPT ![fdOf[h]] = Nothing]
  /\ registered' = [registered EXCEPT ![fdOf[h]] = Nothing]
  /\ UNCHANGED <<sign, backlog, fdOf>>

(* ~Acceptor and ~Connection: deletePollerEvent, then the members: the     *)
(* Event, and SocketFd, whose destructor closes the descriptor.  The kernel*)
(* ends the connection, or refuses those the listening socket had queued.  *)
Destroy(h) ==
  LET fd == fdOf[h]
      ended(p) == p = socket[fd] \/ (h = Listener /\ Contains(backlog, p)) IN
  IF registered[fd] = Nothing
  THEN /\ process' = "not registered"
       /\ UNCHANGED <<kernelVars, fdOf>>
  ELSE /\ registered' = [registered EXCEPT ![fd] = Nothing]
       /\ socket' = [socket EXCEPT ![fd] = Nothing]
       /\ fdOf' = [fdOf EXCEPT ![h] = Nothing]
       /\ sign' = [p \in Peers |-> IF ended(p) THEN "away" ELSE sign[p]]
       /\ backlog' = IF h = Listener THEN <<>> ELSE backlog
       /\ UNCHANGED process

(* Acceptor::Acceptor: a listening socket of its own, read interest.       *)
ConstructAcceptor ==
  /\ process = "running"
  /\ ioPc = "functors"
  /\ ~Alive(Listener)
  /\ \E fd \in NewFds :
       /\ socket' = [socket EXCEPT ![fd] = ListenSocket]
       /\ fdOf' = [fdOf EXCEPT ![Listener] = fd]
       /\ UpdateEvent(fd, Listener)
  /\ activeEvents' = [activeEvents EXCEPT ![Listener] = kNoneEvent]
  /\ UNCHANGED <<sign, backlog, loopVars, lastCall, strays, process>>

ConstructAcceptorFails ==
  /\ process = "running"
  /\ ioPc = "functors"
  /\ ~Alive(Listener)
  /\ Refused
  /\ UNCHANGED <<activeEvents, loopVars, lastCall, strays>>

-----------------------------------------------------------------------------
(* EPoller::poll.                                                          *)

ReadyFds ==
  {fd \in Fds :
     /\ registered[fd] # Nothing
     /\ Condition(fd) \cap (AllEvents(registered[fd]) \cup kRemoveEvent
                              \cup kErrorEvent) # {}}

Report(fd) ==
  Condition(fd) \cap (AllEvents(registered[fd]) \cup kRemoveEvent \cup kErrorEvent)

(* Seeded faults: the container keeps its size when it was full; it is cut *)
(* to what was reported.                                                   *)
Resized_Never(n) == containerSize

Resized_Cut(n) == n

(* The container after a poll that filled n of its entries.                *)
Resized(n) == IF n = containerSize THEN 2 * containerSize ELSE containerSize

(* The pointers epoll_wait has put into the container.                     *)
Reported == {h \in Handlers : pollContainer[h] # {}}

(* epoll_wait: all that is ready, or as much of it as the container holds. *)
EpollWait ==
  /\ process = "running"
  /\ ioPc = "poll"
  /\ \E fds \in SUBSET ReadyFds :
       /\ \/ Cardinality(fds) = containerSize
          \/ Cardinality(fds) < containerSize /\ fds = ReadyFds
       /\ pollContainer' = [h \in Handlers |->
            UNION {Report(fd) : fd \in {gd \in fds : registered[gd] = h}}]
  /\ ioPc' = "collect"
  /\ UNCHANGED <<kernelVars, objectVars, containerSize, batch, lastCall, strays,
                 process>>

(* The loop over the container tells each Event what is active and fills   *)
(* the vector.  One step for all turns: each touches its own Event only, so*)
(* an Event destroyed between two of them might as well have been destroyed*)
(* after the last, if its turn is over, or before the first.               *)
Collect ==
  /\ process = "running"
  /\ ioPc = "collect"
  /\ \A h \in Reported : Alive(h)
  /\ activeEvents' = [h \in Handlers |->
       IF h \in Reported THEN pollContainer[h] ELSE activeEvents[h]]
  /\ batch' = Reported
  /\ containerSize' = Resized(Cardinality(Reported))
  /\ pollContainer' = [h \in Handlers |-> {}]
  /\ ioPc' = "dispatch"
  /\ UNCHANGED <<kernelVars, fdOf, lastCall, strays, process>>

(* What the I/O thread is going to follow: the container's pointers, then  *)
(* those of the batch.                                                     *)
Pointers == Reported \cup batch

(* setActiveEvents or handleEvent on an object that is no more: undefined  *)
(* behaviour.                                                              *)
FollowDangling(h) ==
  /\ process = "running"
  /\ h \in Pointers
  /\ ~Alive(h)
  /\ process' = "dangling"
  /\ UNCHANGED <<kernelVars, objectVars, loopVars, lastCall, strays>>

-----------------------------------------------------------------------------
(* Event::handleEvent for the pointers of the batch.                       *)

(* The next pointer of the batch; its callback is the one of its report.   *)
Taking(h, kind) ==
  /\ process = "running"
  /\ ioPc = "dispatch"
  /\ h \in batch
  /\ Alive(h)
  /\ HandleEvent(activeEvents[h]) = kind
  /\ batch' = batch \ {h}
  /\ strays' = strays \ {h}
  /\ UNCHANGED <<pollContainer, containerSize, ioPc>>

Calling(h, kind) ==
  /\ Taking(h, kind)
  /\ lastCall' = [fd |-> fdOf[h], kind |-> kind]

(* Nothing reads a report after handleEvent has.                           *)
Handled(h) == [activeEvents EXCEPT ![h] = kNoneEvent]

(* No bit at all: a new object at the address of one that was reported.    *)
DispatchNothing(h) ==
  /\ Taking(h, "none")
  /\ UNCHANGED <<kernelVars, objectVars, lastCall, process>>

(* Connection::handleRead, handleWrite and handleError change nothing, and *)
(* read nothing from the socket either.                                    *)
DispatchConnection(h) ==
  /\ h \in Connections
  /\ \E kind \in {"read", "write", "error"} : Calling(h, kind)
  /\ activeEvents' = Handled(h)
  /\ UNCHANGED <<kernelVars, fdOf, process>>

(* The removeCallback of a connection: its owner destroys it on the spot,  *)
(* or notes that it is to be destroyed later.                              *)
DispatchRemove(h) ==
  /\ h \in Connections
  /\ Calling(h, "remove")
  /\ \/ "remove" \in Destroyers /\ Destroy(h)
     \/ UNCHANGED <<kernelVars, fdOf, process>>
  /\ activeEvents' = Handled(h)

(* SocketFd::accept is refused, always so without a free descriptor, or the*)
(* registration of the new Connection is; or, the socket being             *)
(* non-blocking, accept fails because there is nothing to accept.          *)
AcceptFails ==
  /\ Calling(Listener, "read")
  /\ \/ Refused
     \/ /\ backlog = <<>>
        /\ process' = "nothing to accept"
        /\ UNCHANGED <<kernelVars, fdOf>>
  /\ activeEvents' = Handled(Listener)

(* Seeded fault: the Event of a new Connection keeps what was in memory.   *)
Constructed_Stale(events, h) == events

(* The Event of a new Connection has nothing active.                       *)
Constructed(events, h) == [events EXCEPT ![h] = kNoneEvent]

(* One accept, and newConnectionCallback makes a Connection of it.         *)
AcceptConnection(h) ==
  /\ Calling(Listener, "read")
  /\ backlog # <<>>
  /\ ~Alive(h)
  /\ \E fd \in NewFds :
       /\ socket' = [socket EXCEPT ![fd] = Head(backlog)]
       /\ fdOf' = [fdOf EXCEPT ![h] = fd]
       /\ UpdateEvent(fd, h)
  /\ activeEvents' = Constructed(Handled(Listener), h)
  /\ backlog' = Tail(backlog)
  /\ UNCHANGED <<sign, process>>

(* One accept, and newConnectionCallback keeps a SocketFd of its own, as   *)
(* AcceptorTest.cpp:20-23; the peer is out of the loop's sight.            *)
AcceptUnwatched ==
  /\ Calling(Listener, "read")
  /\ backlog # <<>>
  /\ \E fd \in NewFds : socket' = [socket EXCEPT ![fd] = OtherSocket]
  /\ sign' = [sign EXCEPT ![Head(backlog)] = "away"]
  /\ activeEvents' = Handled(Listener)
  /\ backlog' = Tail(backlog)
  /\ UNCHANGED <<registered, fdOf, process>>

(* SocketFd::~SocketFd of such a socket.                                   *)
CloseUnwatched(fd) ==
  /\ process = "running"
  /\ socket[fd] = OtherSocket
  /\ socket' = [socket EXCEPT ![fd] = Nothing]
  /\ UNCHANGED <<sign, backlog, registered, objectVars, loopVars, lastCall,
                 strays, process>>

-----------------------------------------------------------------------------
(* Destruction from elsewhere.                                             *)

(* The I/O thread is in newConnectionCallback: the last call of the batch. *)
InNewConnectionCallback ==
  ioPc = "dispatch" /\ lastCall = [fd |-> fdOf[Listener], kind |-> "read"]

(* That callback or another thread destroys h, whose pointer may be waiting*)
(* in the container or in the batch.                                       *)
DestroyAnyTime(h) ==
  /\ process = "running"
  /\ h \in Connections /\ Alive(h)
  /\ \/ "thread" \in Destroyers
     \/ "accept" \in Destroyers /\ InNewConnectionCallback
  /\ Destroy(h)
  /\ strays' = strays \cup ({h} \cap Pointers)
  /\ UNCHANGED <<activeEvents, loopVars, lastCall>>

(* The end of the loop over the batch.                                     *)
BatchDone ==
  /\ process = "running"
  /\ ioPc = "dispatch"
  /\ batch = {}
  /\ ioPc' = "functors"
  /\ lastCall' = NoCall
  /\ UNCHANGED <<kernelVars, objectVars, pollContainer, containerSize, batch, strays,
                 process>>

(* Seeded fault: the loop runs the pending functors between the handlers of*)
(* a batch too.                                                            *)
FunctorDestroys_InBatch(h) ==
  /\ process = "running"
  /\ ioPc \in {"dispatch", "functors"}
  /\ Alive(h)
  /\ Destroy(h)
  /\ UNCHANGED <<activeEvents, loopVars, lastCall, strays>>

(* A pending functor destroys any connection, or the Acceptor.             *)
FunctorDestroys(h) ==
  /\ process = "running"
  /\ ioPc = "functors"
  /\ Alive(h)
  /\ Destroy(h)
  /\ UNCHANGED <<activeEvents, loopVars, lastCall, strays>>

FunctorsDone ==
  /\ process = "running"
  /\ ioPc = "functors"
  /\ ioPc' = "poll"
  /\ UNCHANGED <<kernelVars, objectVars, pollContainer, containerSize, batch, lastCall,
                 strays, process>>

-----------------------------------------------------------------------------
Dispatch(h) ==
  \/ DispatchNothing(h)
  \/ DispatchConnection(h)
  \/ DispatchRemove(h)

HandleRead ==
  \/ AcceptFails
  \/ \E h \in Connections : AcceptConnection(h)
  \/ AcceptUnwatched

LoopNext ==
  \/ EpollWait
  \/ Collect
  \/ \E h \in Handlers : FollowDangling(h) \/ Dispatch(h)
  \/ HandleRead
  \/ BatchDone
  \/ FunctorsDone

OwnerNext ==
  \/ ConstructAcceptor
  \/ ConstructAcceptorFails
  \/ \E h \in Handlers : FunctorDestroys(h) \/ DestroyAnyTime(h)
  \/ \E fd \in Fds : CloseUnwatched(fd)

PeerNext == \E p \in Peers : PeerConnects(p) \/ PeerSignals(p) \/ ShutDown(p)

Next == LoopNext \/ OwnerNext \/ PeerNext

Spec == Init /\ [][Next]_vars

(* The I/O thread keeps running; peers, owners and other threads need not. *)
FairSpec == Spec /\ WF_vars(LoopNext)

-----------------------------------------------------------------------------
(* Every descriptor of the loop has exactly one object that will close it, *)
(* and the pointer epoll holds for it is that object, alive, so that       *)
(* epoll_wait reports living objects only: none is leaked or closed twice, *)
(* also when other threads destroy them (Connection.cpp:30-33).            *)
OneOwner ==
  /\ \A fd \in Fds :
       registered[fd] = Nothing <=> socket[fd] \in {Nothing, OtherSocket}
  /\ \A fd \in Fds : registered[fd] # Nothing => fdOf[registered[fd]] = fd
  /\ \A h \in Handlers : Alive(h) => registered[fdOf[h]] = h
  /\ \A h \in Handlers :
       Alive(h) => (h = Listener <=> socket[fdOf[h]] = ListenSocket)

(* A peer is in one place: queued once, or served on one descriptor, or    *)
(* away; accept never hands a connection out twice.                        *)
PeerInOnePlace ==
  /\ IsInjective(backlog)
  /\ \A p \in Peers : Connected(p) => ~Contains(backlog, p)
  /\ \A fd, gd \in Fds : socket[fd] \in Peers /\ socket[fd] = socket[gd] => fd = gd
  /\ \A p \in Peers : sign[p] = "away" <=> ~Connected(p) /\ ~Contains(backlog, p)

(* What a live handler was reported for is still true when setActiveEvents *)
(* is told and when its turn in the batch comes, whatever has been closed, *)
(* accepted and allocated in between (EPoller.cpp:39-44, IoManager.cpp:28-31*)
(* and Event.cpp:18-19).                                                   *)
ReportStillTrue ==
  /\ \A h \in Reported : Alive(h) => pollContainer[h] \subseteq Condition(fdOf[h])
  /\ \A h \in batch : Alive(h) => activeEvents[h] \subseteq Condition(fdOf[h])

(* A pointer of the container or of the batch dangles only if another      *)
(* callback or thread has destroyed its object since epoll_wait            *)
(* (EPoller.cpp:27-44, IoManager.cpp:28-31): a connection destroyed in its *)
(* own removeCallback or by a functor never leaves one.                    *)
DanglingOnlyStrays ==
  /\ \A h \in Pointers : Alive(h) \/ h \in strays
  /\ Reported # {} => ioPc = "collect"
  /\ batch # {} => ioPc = "dispatch"

(* The process never ends because the state of the reactor made a call     *)
(* fail: when Acceptor::handleRead calls accept there is a connection to   *)
(* accept, although it is the report of an earlier poll that has led there *)
(* (Acceptor.cpp:39), and a destructor finds its descriptor registered     *)
(* (Connection.cpp:32).  The kernel may still refuse a call.               *)
NoCallInVain == process \notin {"nothing to accept", "not registered"}

(* The registrations, the batch and the objects implement ConnectionLife:  *)
(* accepts in order, and no callback that the socket its descriptor stands *)
(* for now does not justify, also when descriptors and addresses are used  *)
(* again inside one batch.                                                 *)
CL == INSTANCE ConnectionLife WITH running <- process = "running"

ImplementsConnectionLife == CL!Spec

(* A connection in the backlog is accepted, although handleRead accepts one*)
(* per report and the container may be smaller than the ready descriptors. *)
BacklogServed ==
  \A p \in Peers :
    Contains(backlog, p) ~> (~Contains(backlog, p) \/ process # "running")

(* A connection shut down in both directions gets its removeCallback, even *)
(* with unread data (Event.cpp:77-89), unless a reset intervenes: with     *)
(* EPOLLERR the removal is never announced.                                *)
HangUpServed ==
  \A fd \in Fds, p \in Peers :
    (socket[fd] = p /\ sign[p] = "shut") ~>
      \/ lastCall = [fd |-> fd, kind |-> "remove"]
      \/ socket[fd] # p
      \/ sign[p] # "shut"
      \/ process # "running"

(* A connection that is reset gets its errorCallback, also one that was    *)
(* about to be removed, unless it is closed first (Event.cpp:70-75).       *)
ErrorServed ==
  \A fd \in Fds, p \in Peers :
    (socket[fd] = p /\ sign[p] = "reset") ~>
      \/ lastCall = [fd |-> fd, kind |-> "error"]
      \/ socket[fd] # p
      \/ process # "running"

(* The loop follows a pointer to nothing only if another callback or thread*)
(* has destroyed what it pointed to (EPoller.cpp:42, IoManager.cpp:30).    *)
OwnDiscipline == process = "dangling" => strays # {}

(* What every reachable state satisfies and every step preserves.          *)
IndInv ==
  /\ TypeOK
  /\ OneOwner
  /\ PeerInOnePlace
  /\ ReportStillTrue
  /\ DanglingOnlyStrays
  /\ NoCallInVain
  /\ OwnDiscipline
=============================================================================
