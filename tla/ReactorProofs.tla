---------------------------- MODULE ReactorProofs ----------------------------
(***************************************************************************)
(* Proofs that Reactor keeps its safety properties for any number of       *)
(* peers, descriptors and connections and any initial container, and that  *)
(* it implements ConnectionLife.  IndInv carries them all.                 *)
(***************************************************************************)
EXTENDS Reactor, SequenceTheorems, TLAPS

-----------------------------------------------------------------------------
(* The accept queue: what it contains after a connect and after an accept. *)

LEMMA QueueGrows ==
  ASSUME NEW S, NEW s \in Seq(S), NEW e \in S, IsInjective(s), ~Contains(s, e)
  PROVE  /\ Append(s, e) \in Seq(S)
         /\ IsInjective(Append(s, e))
         /\ \A x : Contains(Append(s, e), x) <=> Contains(s, x) \/ x = e
<1>1. /\ Append(s, e) \in Seq(S)
      /\ Len(Append(s, e)) = Len(s) + 1
      /\ \A i \in 1 .. Len(s) : Append(s, e)[i] = s[i]
      /\ Append(s, e)[Len(s) + 1] = e
      /\ Len(s) \in Nat
  BY AppendProperties, LenProperties
<1>2. DOMAIN Append(s, e) = 1 .. Len(s) + 1 /\ DOMAIN s = 1 .. Len(s)
  BY <1>1, LenProperties
<1>3. \A i \in 1 .. Len(s) + 1 : i \in 1 .. Len(s) \/ i = Len(s) + 1
  BY <1>1
<1>4. IsInjective(Append(s, e))
  BY <1>1, <1>2, <1>3 DEF IsInjective, Contains
<1>5. \A x : Contains(Append(s, e), x) <=> Contains(s, x) \/ x = e
  BY <1>1, <1>2, <1>3 DEF Contains
<1>6. QED
  BY <1>1, <1>4, <1>5

LEMMA QueueShrinks ==
  ASSUME NEW S, NEW s \in Seq(S), IsInjective(s), s # <<>>
  PROVE  /\ Head(s) \in S
         /\ Tail(s) \in Seq(S)
         /\ IsInjective(Tail(s))
         /\ Contains(s, Head(s))
         /\ \A x : Contains(Tail(s), x) <=> Contains(s, x) /\ x # Head(s)
<1>1. /\ Head(s) \in S
      /\ Tail(s) \in Seq(S)
      /\ Len(Tail(s)) = Len(s) - 1
      /\ \A i \in 1 .. Len(Tail(s)) : Tail(s)[i] = s[i + 1]
      /\ Len(s) \in Nat \ {0}
      /\ Head(s) = s[1]
  BY HeadTailProperties, EmptySeq, LenProperties
<1>2. DOMAIN Tail(s) = 1 .. Len(s) - 1 /\ DOMAIN s = 1 .. Len(s)
  BY <1>1, LenProperties
<1>3. IsInjective(Tail(s))
  BY <1>1, <1>2 DEF IsInjective
<1>4. Contains(s, Head(s))
  BY <1>1 DEF Contains
<1>5. ASSUME NEW x, Contains(Tail(s), x)
      PROVE  Contains(s, x) /\ x # Head(s)
  BY <1>1, <1>2, <1>5 DEF Contains, IsInjective
<1>6. ASSUME NEW x, Contains(s, x), x # Head(s)
      PROVE  Contains(Tail(s), x)
  <2>1. PICK i \in 1 .. Len(s) : s[i] = x
    BY <1>6 DEF Contains
  <2>2. i - 1 \in 1 .. Len(Tail(s)) /\ Tail(s)[i - 1] = x
    BY <1>1, <1>6, <2>1
  <2>3. QED
    BY <2>2 DEF Contains
<1>7. QED
  BY <1>1, <1>3, <1>4, <1>5, <1>6

LEMMA EmptyQueue ==
  ASSUME NEW S
  PROVE  /\ <<>> \in Seq(S)
         /\ IsInjective(<<>>)
         /\ \A x : ~Contains(<<>>, x)
  BY EmptySeq DEF IsInjective, Contains

-----------------------------------------------------------------------------
(* A destructor finds its descriptor registered, so it always succeeds.    *)
LEMMA DestroySucceeds ==
  ASSUME TypeOK, OneOwner, NEW h \in Handlers, Alive(h), Destroy(h)
  PROVE  /\ fdOf[h] \in Fds
         /\ registered[fdOf[h]] = h
         /\ socket[fdOf[h]] \in Peers \cup {ListenSocket}
         /\ h = Listener <=> socket[fdOf[h]] = ListenSocket
         /\ registered' = [registered EXCEPT ![fdOf[h]] = Nothing]
         /\ socket' = [socket EXCEPT ![fdOf[h]] = Nothing]
         /\ fdOf' = [fdOf EXCEPT ![h] = Nothing]
         /\ sign' = [p \in Peers |->
              IF p = socket[fdOf[h]] \/ (h = Listener /\ Contains(backlog, p))
              THEN "away" ELSE sign[p]]
         /\ backlog' = IF h = Listener THEN <<>> ELSE backlog
         /\ UNCHANGED process
<1>1. fdOf[h] \in Fds /\ registered[fdOf[h]] = h
  BY DEF TypeOK, OneOwner, Alive
<1>2. registered[fdOf[h]] # Nothing
  BY <1>1, NamesAssumption DEF Handlers
<1>3. /\ socket[fdOf[h]] \in Peers \cup {ListenSocket}
      /\ h = Listener <=> socket[fdOf[h]] = ListenSocket
  BY <1>1, <1>2 DEF TypeOK, OneOwner, Sockets, Alive
<1>4. QED
  BY <1>1, <1>2, <1>3 DEF Destroy

LEMMA DestroyTypes ==
  ASSUME TypeOK, NEW h \in Handlers, Destroy(h)
  PROVE  /\ sign' \in [Peers -> Signs]
         /\ backlog' \in Seq(Peers)
         /\ socket' \in [Fds -> Sockets \cup {Nothing}]
         /\ registered' \in [Fds -> Handlers \cup {Nothing}]
         /\ fdOf' \in [Handlers -> Fds \cup {Nothing}]
         /\ process' \in Fates
<1>1. <<>> \in Seq(Peers)
  BY EmptySeq
<1>2. CASE registered[fdOf[h]] = Nothing
  BY <1>2 DEF TypeOK, Destroy, Fates, kernelVars
<1>3. CASE registered[fdOf[h]] # Nothing
  BY <1>1, <1>3 DEF TypeOK, Destroy, Signs
<1>4. QED
  BY <1>2, <1>3

LEMMA ConditionIsBits ==
  ASSUME NEW fd
  PROVE  Condition(fd) \subseteq Bits
  BY DEF Condition, SignBits, Bits

(* The report of a poll: bits, all of them true of the descriptor.         *)
LEMMA ReportIsCondition ==
  ASSUME NEW fd
  PROVE  Report(fd) \subseteq Condition(fd) /\ Report(fd) \subseteq Bits
  BY ConditionIsBits DEF Report

(* The handler a callback is called for, and what the call leaves behind.  *)
LEMMA CallingTypes ==
  ASSUME TypeOK, NEW h \in Handlers, NEW kind \in Kinds, Calling(h, kind)
  PROVE  /\ fdOf[h] \in Fds
         /\ batch' \subseteq Handlers
         /\ strays' \subseteq Handlers
         /\ lastCall' \in Calls
         /\ UNCHANGED <<pollContainer, containerSize, ioPc>>
         /\ Handled(h) \in [Handlers -> SUBSET Bits]
<1>1. fdOf[h] \in Fds
  BY DEF TypeOK, Calling, Taking, Alive
<1>2. lastCall' \in Calls
  BY <1>1 DEF Calling, Calls
<1>3. Handled(h) \in [Handlers -> SUBSET Bits]
  BY DEF TypeOK, Handled, kNoneEvent
<1>4. QED
  BY <1>1, <1>2, <1>3 DEF TypeOK, Calling, Taking

LEMMA PollTypes ==
  ASSUME TypeOK, EpollWait \/ Collect
  PROVE  TypeOK'
<1>1. CASE EpollWait
  <2>1. pollContainer' \in [Handlers -> SUBSET Bits]
    BY <1>1, ReportIsCondition DEF EpollWait
  <2>2. QED
    BY <1>1, <2>1 DEF TypeOK, EpollWait, kernelVars, objectVars
<1>2. CASE Collect
  <2>1. activeEvents' \in [Handlers -> SUBSET Bits]
    BY <1>2 DEF TypeOK, Collect
  <2>2. pollContainer' \in [Handlers -> SUBSET Bits]
    BY <1>2 DEF Collect
  <2>3. containerSize' \in Nat \ {0}
    BY <1>2 DEF TypeOK, Collect, Resized
  <2>4. QED
    BY <1>2, <2>1, <2>2, <2>3 DEF TypeOK, Collect, Reported, kernelVars
<1>3. QED
  BY <1>1, <1>2

LEMMA TypeInvariance ==
  ASSUME TypeOK, [Next]_vars
  PROVE  TypeOK'
<1> USE DEF kernelVars, objectVars, loopVars
<1>1. ASSUME NEW p \in Peers, PeerConnects(p) \/ PeerSignals(p) \/ ShutDown(p)
      PROVE  TypeOK'
  <2>1. sign' \in [Peers -> Signs]
    BY <1>1 DEF TypeOK, PeerConnects, PeerSignals, ShutDown, Signs
  <2>2. backlog' = Append(backlog, p) \/ UNCHANGED backlog
    BY <1>1 DEF PeerConnects, PeerSignals, ShutDown
  <2>3. backlog' \in Seq(Peers)
    BY <2>2, AppendProperties DEF TypeOK
  <2>4. QED
    BY <1>1, <2>1, <2>3 DEF TypeOK, PeerConnects, PeerSignals, ShutDown
<1>2. CASE ConstructAcceptor
  <2>1. PICK fd \in NewFds :
          /\ socket' = [socket EXCEPT ![fd] = ListenSocket]
          /\ fdOf' = [fdOf EXCEPT ![Listener] = fd]
          /\ UpdateEvent(fd, Listener)
    BY <1>2 DEF ConstructAcceptor
  <2>2. fd \in Fds
    BY DEF NewFds, FreeFds
  <2>3. activeEvents' \in [Handlers -> SUBSET Bits]
    BY <1>2 DEF TypeOK, ConstructAcceptor, kNoneEvent
  <2>4. QED
    BY <1>2, <2>1, <2>2, <2>3
    DEF TypeOK, ConstructAcceptor, UpdateEvent, Sockets, Handlers
<1>3. ASSUME NEW h \in Handlers, DispatchConnection(h) \/ DispatchRemove(h)
      PROVE  TypeOK'
  <2>1. CASE DispatchConnection(h)
    <3>1. PICK kind \in {"read", "write", "error"} : Calling(h, kind)
      BY <2>1 DEF DispatchConnection
    <3>2. kind \in Kinds
      BY DEF Kinds
    <3>3. QED
      BY <2>1, <3>1, <3>2, CallingTypes DEF TypeOK, DispatchConnection
  <2>2. CASE DispatchRemove(h)
    <3>1. Calling(h, "remove") /\ "remove" \in Kinds
      BY <2>2 DEF DispatchRemove, Kinds
    <3>2. CASE Destroy(h)
      BY <2>2, <3>1, <3>2, CallingTypes, DestroyTypes DEF TypeOK, DispatchRemove
    <3>3. CASE UNCHANGED <<kernelVars, fdOf, process>>
      BY <2>2, <3>1, <3>3, CallingTypes DEF TypeOK, DispatchRemove
    <3>4. QED
      BY <2>2, <3>2, <3>3 DEF DispatchRemove
  <2>3. QED
    BY <1>3, <2>1, <2>2
<1>4. ASSUME NEW h \in Handlers, FollowDangling(h) \/ DispatchNothing(h)
      PROVE  TypeOK'
  BY <1>4 DEF TypeOK, FollowDangling, DispatchNothing, Taking, Fates
<1>5. CASE HandleRead
  <2>1. Calling(Listener, "read") /\ Listener \in Handlers /\ "read" \in Kinds
    BY <1>5
    DEF HandleRead, AcceptFails, AcceptConnection, AcceptUnwatched, Handlers, Kinds
  <2>2. backlog # <<>> => Head(backlog) \in Peers /\ Tail(backlog) \in Seq(Peers)
    BY HeadTailProperties DEF TypeOK
  <2>3. \A fd \in NewFds : fd \in Fds
    BY DEF NewFds, FreeFds
  <2>4. CASE AcceptFails
    BY <2>1, <2>4, CallingTypes DEF TypeOK, AcceptFails, Refused, Fates
  <2>5. ASSUME NEW h \in Connections, AcceptConnection(h)
        PROVE  TypeOK'
    <3>1. Handled(Listener) \in [Handlers -> SUBSET Bits] /\ h \in Handlers
      BY <2>1, CallingTypes DEF Handlers
    <3>2. activeEvents' \in [Handlers -> SUBSET Bits]
      BY <2>5, <3>1 DEF AcceptConnection, Constructed, kNoneEvent
    <3>3. PICK fd \in NewFds :
            /\ socket' = [socket EXCEPT ![fd] = Head(backlog)]
            /\ fdOf' = [fdOf EXCEPT ![h] = fd]
            /\ registered' = [registered EXCEPT ![fd] = h]
      BY <2>5 DEF AcceptConnection, UpdateEvent
    <3>4. /\ socket' \in [Fds -> Sockets \cup {Nothing}]
          /\ fdOf' \in [Handlers -> Fds \cup {Nothing}]
          /\ registered' \in [Fds -> Handlers \cup {Nothing}]
      BY <2>2, <2>3, <2>5, <3>1, <3>3 DEF TypeOK, AcceptConnection, Sockets
    <3>5. QED
      BY <2>1, <2>2, <2>5, <3>2, <3>4, CallingTypes DEF TypeOK, AcceptConnection
  <2>6. CASE AcceptUnwatched
    BY <2>1, <2>2, <2>3, <2>6, CallingTypes
    DEF TypeOK, AcceptUnwatched, Sockets, Signs
  <2>7. QED
    BY <1>5, <2>4, <2>5, <2>6 DEF HandleRead
<1>6. ASSUME NEW h \in Handlers, FunctorDestroys(h) \/ DestroyAnyTime(h)
      PROVE  TypeOK'
  <2>1. Destroy(h)
    BY <1>6 DEF FunctorDestroys, DestroyAnyTime
  <2>2. strays' \subseteq Handlers
    BY <1>6 DEF FunctorDestroys, DestroyAnyTime, TypeOK
  <2>3. QED
    BY <1>6, <2>1, <2>2, DestroyTypes DEF FunctorDestroys, DestroyAnyTime, TypeOK
<1>7. ASSUME NEW fd \in Fds, CloseUnwatched(fd)
      PROVE  TypeOK'
  BY <1>7 DEF TypeOK, CloseUnwatched
<1>8. CASE EpollWait \/ Collect
  BY <1>8, PollTypes
<1>9. CASE BatchDone \/ FunctorsDone \/ ConstructAcceptorFails
  BY <1>9
  DEF TypeOK, BatchDone, FunctorsDone, ConstructAcceptorFails, Refused, Calls, Fates
<1>10. CASE UNCHANGED vars
  BY <1>10 DEF TypeOK, vars
<1>11. QED
  BY <1>1, <1>2, <1>3, <1>4, <1>5, <1>6, <1>7, <1>8, <1>9, <1>10
  DEF Next, LoopNext, OwnerNext, PeerNext, Dispatch

-----------------------------------------------------------------------------
(* OneOwner.                                                               *)

LEMMA DestroyKeepsOwner ==
  ASSUME TypeOK, OneOwner, NEW h \in Handlers, Alive(h), Destroy(h)
  PROVE  OneOwner'
<1> DEFINE d == fdOf[h]
<1>1. /\ d \in Fds
      /\ registered[d] = h
      /\ registered' = [registered EXCEPT ![d] = Nothing]
      /\ socket' = [socket EXCEPT ![d] = Nothing]
      /\ fdOf' = [fdOf EXCEPT ![h] = Nothing]
  BY DestroySucceeds
<1>2. \A g \in Handlers : g # h /\ Alive(g) => fdOf[g] # d /\ fdOf[g] \in Fds
  BY <1>1 DEF TypeOK, OneOwner, Alive
<1>3. \A g \in Handlers : Alive(g)' <=> Alive(g) /\ g # h
  BY <1>1 DEF TypeOK, Alive
<1>4. \A fd \in Fds : fd # d => registered[fd] # h
  BY <1>1, NamesAssumption DEF OneOwner, Handlers
<1> HIDE DEF d
<1>5. \A fd \in Fds :
        registered'[fd] = Nothing <=> socket'[fd] \in {Nothing, OtherSocket}
  BY <1>1 DEF TypeOK, OneOwner
<1>6. ASSUME NEW fd \in Fds, registered'[fd] # Nothing
      PROVE  fdOf'[registered'[fd]] = fd
  <2>1. fd # d /\ registered'[fd] = registered[fd] /\ registered[fd] \in Handlers \ {h}
    BY <1>1, <1>4, <1>6 DEF TypeOK
  <2>2. fdOf[registered[fd]] = fd
    BY <1>6, <2>1 DEF OneOwner
  <2>3. QED
    BY <1>1, <2>1, <2>2 DEF TypeOK
<1>7. ASSUME NEW g \in Handlers, Alive(g)'
      PROVE  /\ registered'[fdOf'[g]] = g
             /\ g = Listener <=> socket'[fdOf'[g]] = ListenSocket
  <2>1. g # h /\ Alive(g) /\ fdOf'[g] = fdOf[g] /\ fdOf[g] # d /\ fdOf[g] \in Fds
    BY <1>1, <1>2, <1>3, <1>7 DEF TypeOK
  <2>2. registered'[fdOf[g]] = registered[fdOf[g]] /\ socket'[fdOf[g]] = socket[fdOf[g]]
    BY <1>1, <2>1 DEF TypeOK
  <2>3. QED
    BY <2>1, <2>2 DEF OneOwner
<1>8. QED
  BY <1>5, <1>6, <1>7 DEF OneOwner

(* A new handler on a descriptor that was free.                            *)
LEMMA ConstructKeepsOwner ==
  ASSUME TypeOK, OneOwner, NEW h \in Handlers, ~Alive(h), NEW fd \in NewFds,
         NEW s \in Sockets \ {OtherSocket}, h = Listener <=> s = ListenSocket,
         socket' = [socket EXCEPT ![fd] = s],
         fdOf' = [fdOf EXCEPT ![h] = fd],
         registered' = [registered EXCEPT ![fd] = h]
  PROVE  OneOwner'
<1>1. fd \in Fds /\ socket[fd] = Nothing /\ registered[fd] = Nothing
  BY DEF NewFds, FreeFds, OneOwner
<1>2. h # Nothing /\ s # Nothing /\ fd # Nothing
  BY <1>1, NamesAssumption DEF Handlers, Sockets
<1>3. \A gd \in Fds : registered[gd] # h
  BY <1>2, NamesAssumption DEF OneOwner, Alive
<1>4. \A g \in Handlers : g # h /\ Alive(g) => fdOf[g] # fd /\ fdOf[g] \in Fds
  BY <1>1, NamesAssumption DEF TypeOK, OneOwner, Alive, Handlers
<1>5. \A gd \in Fds :
        registered'[gd] = Nothing <=> socket'[gd] \in {Nothing, OtherSocket}
  BY <1>1, <1>2 DEF TypeOK, OneOwner
<1>6. ASSUME NEW gd \in Fds, registered'[gd] # Nothing
      PROVE  fdOf'[registered'[gd]] = gd
  <2>1. CASE gd = fd
    BY <1>1, <2>1 DEF TypeOK
  <2>2. CASE gd # fd
    <3>1. registered'[gd] = registered[gd] /\ registered[gd] \in Handlers \ {h}
      BY <1>1, <1>3, <1>6, <2>2 DEF TypeOK
    <3>2. fdOf[registered[gd]] = gd
      BY <1>6, <3>1 DEF OneOwner
    <3>3. QED
      BY <3>1, <3>2 DEF TypeOK
  <2>3. QED
    BY <2>1, <2>2
<1>7. ASSUME NEW g \in Handlers, Alive(g)'
      PROVE  /\ registered'[fdOf'[g]] = g
             /\ g = Listener <=> socket'[fdOf'[g]] = ListenSocket
  <2>1. CASE g = h
    BY <1>1, <2>1 DEF TypeOK
  <2>2. CASE g # h
    <3>1. fdOf'[g] = fdOf[g] /\ Alive(g) /\ fdOf[g] # fd /\ fdOf[g] \in Fds
      BY <1>4, <1>7, <2>2 DEF TypeOK, Alive
    <3>2. registered'[fdOf[g]] = registered[fdOf[g]] /\ socket'[fdOf[g]] = socket[fdOf[g]]
      BY <1>1, <3>1 DEF TypeOK
    <3>3. QED
      BY <3>1, <3>2 DEF OneOwner
  <2>3. QED
    BY <2>1, <2>2
<1>8. QED
  BY <1>5, <1>6, <1>7 DEF OneOwner

LEMMA OwnerInvariance ==
  ASSUME TypeOK, OneOwner, [Next]_vars
  PROVE  OneOwner'
<1> USE DEF kernelVars, objectVars, loopVars
<1>1. CASE UNCHANGED <<socket, registered, fdOf>>
  BY <1>1 DEF OneOwner, Alive
<1>2. CASE ConstructAcceptor
  <2>1. Listener \in Handlers /\ ListenSocket \in Sockets \ {OtherSocket}
    BY NamesAssumption DEF Handlers, Sockets
  <2>2. PICK fd \in NewFds :
          /\ socket' = [socket EXCEPT ![fd] = ListenSocket]
          /\ fdOf' = [fdOf EXCEPT ![Listener] = fd]
          /\ registered' = [registered EXCEPT ![fd] = Listener]
    BY <1>2 DEF ConstructAcceptor, UpdateEvent
  <2>3. ~Alive(Listener)
    BY <1>2 DEF ConstructAcceptor
  <2>4. QED
    BY <2>1, <2>2, <2>3, ConstructKeepsOwner
<1>3. ASSUME NEW h \in Connections, AcceptConnection(h)
      PROVE  OneOwner'
  <2>1. h \in Handlers /\ ~Alive(h) /\ h # Listener
    BY <1>3, NamesAssumption DEF AcceptConnection, Handlers
  <2>2. Head(backlog) \in Sockets \ {OtherSocket} /\ Head(backlog) # ListenSocket
    BY <1>3, NamesAssumption, HeadTailProperties DEF AcceptConnection, TypeOK, Sockets
  <2>3. PICK fd \in NewFds :
          /\ socket' = [socket EXCEPT ![fd] = Head(backlog)]
          /\ fdOf' = [fdOf EXCEPT ![h] = fd]
          /\ registered' = [registered EXCEPT ![fd] = h]
    BY <1>3 DEF AcceptConnection, UpdateEvent
  <2>4. QED
    BY <2>1, <2>2, <2>3, ConstructKeepsOwner
<1>4. CASE AcceptUnwatched
  <2>1. PICK fd \in NewFds : socket' = [socket EXCEPT ![fd] = OtherSocket]
    BY <1>4 DEF AcceptUnwatched
  <2>2. fd \in Fds /\ socket[fd] = Nothing /\ registered[fd] = Nothing
    BY DEF NewFds, FreeFds, OneOwner
  <2>3. \A h \in Handlers : Alive(h) => fdOf[h] # fd /\ fdOf[h] \in Fds
    BY <2>2, NamesAssumption DEF TypeOK, OneOwner, Alive, Handlers
  <2>4. QED
    BY <1>4, <2>1, <2>2, <2>3 DEF OneOwner, TypeOK, AcceptUnwatched, Alive
<1>5. ASSUME NEW fd \in Fds, CloseUnwatched(fd)
      PROVE  OneOwner'
  <2>1. registered[fd] = Nothing
    BY <1>5 DEF CloseUnwatched, OneOwner
  <2>2. \A h \in Handlers : Alive(h) => fdOf[h] # fd /\ fdOf[h] \in Fds
    BY <2>1, NamesAssumption DEF TypeOK, OneOwner, Alive, Handlers
  <2>3. QED
    BY <1>5, <2>1, <2>2 DEF OneOwner, TypeOK, CloseUnwatched, Alive
<1>6. ASSUME NEW h \in Handlers, Alive(h), Destroy(h)
      PROVE  OneOwner'
  BY <1>6, DestroyKeepsOwner
<1>7. ASSUME NEW h \in Handlers, Dispatch(h)
      PROVE  OneOwner'
  <2>1. CASE DispatchRemove(h)
    BY <1>1, <1>6, <2>1 DEF DispatchRemove, Calling, Taking
  <2>2. CASE DispatchConnection(h) \/ DispatchNothing(h)
    BY <1>1, <2>2 DEF DispatchConnection, DispatchNothing
  <2>3. QED
    BY <1>7, <2>1, <2>2 DEF Dispatch
<1>8. ASSUME NEW h \in Handlers, FunctorDestroys(h) \/ DestroyAnyTime(h)
      PROVE  OneOwner'
  BY <1>6, <1>8 DEF FunctorDestroys, DestroyAnyTime
<1>9. CASE PeerNext
  BY <1>1, <1>9 DEF PeerNext, PeerConnects, PeerSignals, ShutDown
<1>10. CASE EpollWait \/ Collect \/ BatchDone \/ FunctorsDone \/ UNCHANGED vars
  BY <1>1, <1>10 DEF EpollWait, Collect, BatchDone, FunctorsDone, vars
<1>11. CASE AcceptFails \/ ConstructAcceptorFails
            \/ (\E h \in Handlers : FollowDangling(h))
  BY <1>1, <1>11 DEF AcceptFails, ConstructAcceptorFails, FollowDangling, Refused
<1>12. QED
  BY <1>2, <1>3, <1>4, <1>5, <1>7, <1>8, <1>9, <1>10, <1>11
  DEF Next, LoopNext, OwnerNext, HandleRead

-----------------------------------------------------------------------------
(* PeerInOnePlace.                                                         *)

LEMMA DestroyKeepsPlaces ==
  ASSUME TypeOK, OneOwner, PeerInOnePlace, NEW h \in Handlers, Alive(h), Destroy(h)
  PROVE  PeerInOnePlace'
<1> DEFINE d == fdOf[h]
<1>1. /\ d \in Fds
      /\ socket[d] \in Peers \cup {ListenSocket}
      /\ h = Listener <=> socket[d] = ListenSocket
      /\ socket' = [socket EXCEPT ![d] = Nothing]
      /\ sign' = [p \in Peers |->
           IF p = socket[d] \/ (h = Listener /\ Contains(backlog, p))
           THEN "away" ELSE sign[p]]
      /\ backlog' = IF h = Listener THEN <<>> ELSE backlog
  BY DestroySucceeds
<1> HIDE DEF d
<1>2. \A p \in Peers : Connected(p)' <=> Connected(p) /\ p # socket[d]
  BY <1>1, NamesAssumption DEF Connected, TypeOK, PeerInOnePlace
<1>3. \A p : Contains(backlog', p) <=> Contains(backlog, p) /\ h # Listener
  BY <1>1, EmptyQueue
<1>4. IsInjective(backlog')
  BY <1>1, EmptyQueue DEF PeerInOnePlace
<1>5. \A fd, gd \in Fds : socket'[fd] \in Peers /\ socket'[fd] = socket'[gd] => fd = gd
  BY <1>1, NamesAssumption DEF PeerInOnePlace, TypeOK
<1>6. ASSUME NEW p \in Peers
      PROVE  sign'[p] = "away" <=> ~Connected(p)' /\ ~Contains(backlog', p)
  <2>1. CASE p = socket[d]
    <3>1. ~Contains(backlog, p)
      BY <1>1, <2>1 DEF PeerInOnePlace, Connected
    <3>2. QED
      BY <1>1, <1>2, <1>3, <2>1, <3>1
  <2>2. CASE p # socket[d]
    BY <1>1, <1>2, <1>3, <2>2 DEF PeerInOnePlace
  <2>3. QED
    BY <2>1, <2>2
<1>7. QED
  BY <1>2, <1>3, <1>4, <1>5, <1>6 DEF PeerInOnePlace

(* An accept takes the oldest connection off the queue; its peer is then   *)
(* on a descriptor, or out of sight.                                       *)
LEMMA AcceptKeepsPlaces ==
  ASSUME TypeOK, PeerInOnePlace, backlog # <<>>,
         backlog' = Tail(backlog), NEW fd \in NewFds,
         \/ /\ socket' = [socket EXCEPT ![fd] = Head(backlog)]
            /\ sign' = sign
         \/ /\ socket' = [socket EXCEPT ![fd] = OtherSocket]
            /\ sign' = [sign EXCEPT ![Head(backlog)] = "away"]
  PROVE  PeerInOnePlace'
<1> DEFINE first == Head(backlog)
<1>1. fd \in Fds /\ socket[fd] = Nothing
  BY DEF NewFds, FreeFds
<1>2. /\ first \in Peers
      /\ IsInjective(backlog')
      /\ Contains(backlog, first)
      /\ \A p : Contains(backlog', p) <=> Contains(backlog, p) /\ p # first
  BY QueueShrinks DEF TypeOK, PeerInOnePlace
<1>3. ~Connected(first) /\ sign[first] # "away"
  BY <1>2 DEF PeerInOnePlace
<1> HIDE DEF first
<1>4. CASE socket' = [socket EXCEPT ![fd] = first] /\ sign' = sign
  <2>1. \A p \in Peers : Connected(p)' <=> Connected(p) \/ p = first
    BY <1>1, <1>4, NamesAssumption DEF Connected, TypeOK
  <2>2. \A gd \in Fds : socket[gd] # first
    BY <1>3 DEF Connected
  <2>3. \A gd, ed \in Fds : socket'[gd] \in Peers /\ socket'[gd] = socket'[ed] => gd = ed
    BY <1>1, <1>4, <2>2 DEF PeerInOnePlace, TypeOK
  <2>4. QED
    BY <1>2, <1>3, <1>4, <2>1, <2>3 DEF PeerInOnePlace
<1>5. CASE /\ socket' = [socket EXCEPT ![fd] = OtherSocket]
           /\ sign' = [sign EXCEPT ![first] = "away"]
  <2>1. \A p \in Peers : Connected(p)' <=> Connected(p)
    BY <1>1, <1>5, NamesAssumption DEF Connected, TypeOK
  <2>2. \A gd, ed \in Fds : socket'[gd] \in Peers /\ socket'[gd] = socket'[ed] => gd = ed
    BY <1>1, <1>5, NamesAssumption DEF PeerInOnePlace, TypeOK
  <2>3. \A p \in Peers : sign'[p] = (IF p = first THEN "away" ELSE sign[p])
    BY <1>2, <1>5 DEF TypeOK
  <2>4. QED
    BY <1>2, <1>3, <2>1, <2>2, <2>3 DEF PeerInOnePlace
<1>6. QED
  BY <1>4, <1>5 DEF first

LEMMA PlaceInvariance ==
  ASSUME TypeOK, OneOwner, PeerInOnePlace, [Next]_vars
  PROVE  PeerInOnePlace'
<1> USE DEF kernelVars, objectVars, loopVars
<1>1. CASE UNCHANGED <<socket, backlog, sign>>
  BY <1>1 DEF PeerInOnePlace, Connected
<1>2. ASSUME NEW p \in Peers, PeerConnects(p)
      PROVE  PeerInOnePlace'
  <2>1. ~Contains(backlog, p) /\ ~Connected(p)
    BY <1>2 DEF PeerConnects, PeerInOnePlace
  <2>2. /\ IsInjective(backlog')
        /\ \A q : Contains(backlog', q) <=> Contains(backlog, q) \/ q = p
    BY <1>2, <2>1, QueueGrows DEF PeerConnects, TypeOK, PeerInOnePlace
  <2>3. \A q \in Peers : sign'[q] = (IF q = p THEN "idle" ELSE sign[q])
    BY <1>2 DEF PeerConnects, TypeOK
  <2>4. \A q \in Peers : Connected(q)' <=> Connected(q)
    BY <1>2 DEF PeerConnects, Connected
  <2>5. QED
    BY <1>2, <2>1, <2>2, <2>3, <2>4 DEF PeerConnects, PeerInOnePlace
<1>3. ASSUME NEW p \in Peers, PeerSignals(p) \/ ShutDown(p)
      PROVE  PeerInOnePlace'
  <2>1. \A q \in Peers : sign'[q] = "away" <=> sign[q] = "away"
    BY <1>3 DEF PeerSignals, ShutDown, TypeOK
  <2>2. UNCHANGED <<socket, backlog>>
    BY <1>3 DEF PeerSignals, ShutDown
  <2>3. QED
    BY <2>1, <2>2 DEF PeerInOnePlace, Connected
<1>4. CASE ConstructAcceptor
  <2>1. PICK fd \in NewFds : socket' = [socket EXCEPT ![fd] = ListenSocket]
    BY <1>4 DEF ConstructAcceptor
  <2>2. fd \in Fds /\ socket[fd] = Nothing
    BY DEF NewFds, FreeFds
  <2>3. \A p \in Peers : Connected(p)' <=> Connected(p)
    BY <2>1, <2>2, NamesAssumption DEF Connected, TypeOK
  <2>4. \A gd, ed \in Fds : socket'[gd] \in Peers /\ socket'[gd] = socket'[ed] => gd = ed
    BY <2>1, <2>2, NamesAssumption DEF PeerInOnePlace, TypeOK
  <2>5. QED
    BY <1>4, <2>3, <2>4 DEF PeerInOnePlace, ConstructAcceptor
<1>5. ASSUME NEW h \in Connections, AcceptConnection(h)
      PROVE  PeerInOnePlace'
  <2>1. PICK fd \in NewFds : socket' = [socket EXCEPT ![fd] = Head(backlog)]
    BY <1>5 DEF AcceptConnection
  <2>2. QED
    BY <1>5, <2>1, AcceptKeepsPlaces DEF AcceptConnection
<1>6. CASE AcceptUnwatched
  <2>1. PICK fd \in NewFds : socket' = [socket EXCEPT ![fd] = OtherSocket]
    BY <1>6 DEF AcceptUnwatched
  <2>2. QED
    BY <1>6, <2>1, AcceptKeepsPlaces DEF AcceptUnwatched
<1>7. ASSUME NEW fd \in Fds, CloseUnwatched(fd)
      PROVE  PeerInOnePlace'
  <2>1. socket' = [socket EXCEPT ![fd] = Nothing] /\ socket[fd] = OtherSocket
    BY <1>7 DEF CloseUnwatched
  <2>2. \A p \in Peers : Connected(p)' <=> Connected(p)
    BY <2>1, NamesAssumption DEF Connected, TypeOK
  <2>3. \A gd, ed \in Fds : socket'[gd] \in Peers /\ socket'[gd] = socket'[ed] => gd = ed
    BY <2>1, NamesAssumption DEF PeerInOnePlace, TypeOK
  <2>4. QED
    BY <1>7, <2>2, <2>3 DEF PeerInOnePlace, CloseUnwatched
<1>8. ASSUME NEW h \in Handlers, Dispatch(h)
      PROVE  PeerInOnePlace'
  <2>1. CASE DispatchRemove(h)
    BY <1>1, <2>1, DestroyKeepsPlaces DEF DispatchRemove, Calling, Taking
  <2>2. CASE DispatchConnection(h) \/ DispatchNothing(h)
    BY <1>1, <2>2 DEF DispatchConnection, DispatchNothing
  <2>3. QED
    BY <1>8, <2>1, <2>2 DEF Dispatch
<1>9. ASSUME NEW h \in Handlers, FunctorDestroys(h) \/ DestroyAnyTime(h)
      PROVE  PeerInOnePlace'
  BY <1>9, DestroyKeepsPlaces DEF FunctorDestroys, DestroyAnyTime
<1>10. CASE EpollWait \/ Collect \/ BatchDone \/ FunctorsDone \/ UNCHANGED vars
  BY <1>1, <1>10 DEF EpollWait, Collect, BatchDone, FunctorsDone, vars
<1>11. CASE AcceptFails \/ ConstructAcceptorFails
            \/ (\E h \in Handlers : FollowDangling(h))
  BY <1>1, <1>11 DEF AcceptFails, ConstructAcceptorFails, FollowDangling, Refused
<1>12. QED
  BY <1>2, <1>3, <1>4, <1>5, <1>6, <1>7, <1>8, <1>9, <1>10, <1>11
  DEF Next, LoopNext, OwnerNext, PeerNext, HandleRead

-----------------------------------------------------------------------------
(* ReportStillTrue.                                                        *)

(* What is reported of a descriptor stays true while it stands for the same*)
(* socket, its peer does not start again and its queue does not run dry.   *)
LEMMA ConditionGrows ==
  ASSUME NEW fd \in Fds, socket'[fd] = socket[fd],
         socket[fd] \in Peers =>
           SignBits(sign[socket[fd]]) \subseteq SignBits(sign'[socket[fd]]),
         socket[fd] = ListenSocket /\ backlog # <<>> => backlog' # <<>>
  PROVE  Condition(fd) \subseteq Condition(fd)'
  BY DEF Condition

LEMMA DestroyKeepsReports ==
  ASSUME TypeOK, OneOwner, PeerInOnePlace, ReportStillTrue,
         NEW h \in Handlers, Alive(h), Destroy(h), UNCHANGED pollContainer,
         batch' \subseteq batch,
         \A g \in batch' : g # h => activeEvents'[g] \subseteq activeEvents[g]
  PROVE  ReportStillTrue'
<1> DEFINE d == fdOf[h]
<1>1. /\ d \in Fds
      /\ registered[d] = h
      /\ h = Listener <=> socket[d] = ListenSocket
      /\ socket' = [socket EXCEPT ![d] = Nothing]
      /\ fdOf' = [fdOf EXCEPT ![h] = Nothing]
      /\ sign' = [p \in Peers |->
           IF p = socket[d] \/ (h = Listener /\ Contains(backlog, p))
           THEN "away" ELSE sign[p]]
      /\ backlog' = IF h = Listener THEN <<>> ELSE backlog
  BY DestroySucceeds
<1> HIDE DEF d
<1>2. ASSUME NEW g \in Handlers, Alive(g)', NEW fd, fd = fdOf'[g]
      PROVE  /\ g # h /\ Alive(g) /\ fdOf[g] = fd
             /\ Condition(fd) \subseteq Condition(fd)'
  <2>1. g # h /\ Alive(g) /\ fdOf[g] = fd
    BY <1>1, <1>2 DEF TypeOK, Alive
  <2>2. fd \in Fds /\ registered[fd] = g /\ fd # d
    BY <1>1, <2>1 DEF TypeOK, OneOwner, Alive
  <2>3. socket'[fd] = socket[fd]
    BY <1>1, <2>2 DEF TypeOK
  <2>4. ASSUME socket[fd] \in Peers
        PROVE  sign'[socket[fd]] = sign[socket[fd]]
    <3>1. socket[fd] # socket[d] /\ ~Contains(backlog, socket[fd])
      BY <1>1, <2>2, <2>4 DEF PeerInOnePlace, Connected
    <3>2. QED
      BY <1>1, <2>4, <3>1
  <2>5. socket[fd] = ListenSocket => backlog' = backlog
    BY <1>1, <2>1 DEF OneOwner
  <2>6. QED
    BY <2>1, <2>2, <2>3, <2>4, <2>5, ConditionGrows
<1>3. ASSUME NEW g \in Reported', Alive(g)', NEW fd, fd = fdOf'[g]
      PROVE  pollContainer'[g] \subseteq Condition(fd)'
  <2>1. g \in Handlers /\ g \in Reported
    BY DEF Reported
  <2>2. QED
    BY <1>2, <1>3, <2>1 DEF ReportStillTrue
<1>4. ASSUME NEW g \in batch', Alive(g)', NEW fd, fd = fdOf'[g]
      PROVE  activeEvents'[g] \subseteq Condition(fd)'
  <2>1. g \in Handlers /\ g \in batch
    BY DEF TypeOK
  <2>2. QED
    BY <1>2, <1>4, <2>1 DEF ReportStillTrue
<1>5. QED
  BY <1>3, <1>4 DEF ReportStillTrue, Condition

(* The Acceptor's event is out of the batch, and no other has to do with   *)
(* the connection that leaves the queue or with its new descriptor.        *)
LEMMA AcceptKeepsReports ==
  ASSUME TypeOK, OneOwner, PeerInOnePlace, ReportStillTrue, backlog # <<>>,
         NEW new \in NewFds, NEW s \in Sockets, socket' = [socket EXCEPT ![new] = s],
         \/ sign' = sign
         \/ sign' = [sign EXCEPT ![Head(backlog)] = "away"],
         batch' = batch \ {Listener}, Reported' = {},
         \A g \in batch' :
           \/ activeEvents'[g] = {}
           \/ activeEvents'[g] = activeEvents[g] /\ fdOf'[g] = fdOf[g]
  PROVE  ReportStillTrue'
<1>1. new \in Fds /\ registered[new] = Nothing
  BY DEF NewFds, FreeFds, OneOwner
<1>2. SUFFICES ASSUME NEW g \in batch', Alive(g)',
                      activeEvents'[g] = activeEvents[g],
                      NEW fd, fd = fdOf[g], fd = fdOf'[g]
               PROVE  activeEvents[g] \subseteq Condition(fd)'
  BY DEF ReportStillTrue, Condition
<1>3. g \in Handlers \ {Listener} /\ g \in batch /\ Alive(g)
  BY <1>2 DEF TypeOK, Alive
<1>4. fd \in Fds /\ fd # new /\ socket[fd] # ListenSocket
  <2>1. fd \in Fds /\ registered[fd] = g
    BY <1>2, <1>3 DEF TypeOK, OneOwner, Alive
  <2>2. g # Nothing
    BY <1>3, NamesAssumption DEF Handlers
  <2>3. socket[fd] # ListenSocket
    BY <1>2, <1>3 DEF OneOwner
  <2>4. QED
    BY <1>1, <2>1, <2>2, <2>3
<1>5. socket'[fd] = socket[fd]
  BY <1>4 DEF TypeOK
<1>6. Head(backlog) \in Peers /\ Contains(backlog, Head(backlog))
  BY QueueShrinks DEF TypeOK, PeerInOnePlace
<1>7. socket[fd] \in Peers => socket[fd] # Head(backlog)
  BY <1>4, <1>6 DEF PeerInOnePlace, Connected
<1>8. socket[fd] \in Peers => sign'[socket[fd]] = sign[socket[fd]]
  BY <1>6, <1>7 DEF TypeOK
<1>9. Condition(fd) \subseteq Condition(fd)'
  BY <1>4, <1>5, <1>8, ConditionGrows
<1>10. activeEvents[g] \subseteq Condition(fd)
  BY <1>2, <1>3 DEF ReportStillTrue
<1>11. QED
  BY <1>9, <1>10

(* What epoll_wait puts into the container is what the descriptors show,   *)
(* and the batch takes it from there.                                      *)
LEMMA PollReports ==
  ASSUME TypeOK, OneOwner, ReportStillTrue, DanglingOnlyStrays, EpollWait \/ Collect
  PROVE  ReportStillTrue'
<1>1. UNCHANGED <<sign, backlog, socket, fdOf>>
  BY DEF EpollWait, Collect, kernelVars, objectVars
<1>2. \A fd : Condition(fd)' = Condition(fd)
  BY <1>1 DEF Condition
<1>3. CASE EpollWait
  <2>1. PICK fds \in SUBSET ReadyFds :
          pollContainer' = [h \in Handlers |->
            UNION {Report(fd) : fd \in {gd \in fds : registered[gd] = h}}]
    BY <1>3 DEF EpollWait
  <2>2. \A fd \in fds : fd \in Fds /\ registered[fd] # Nothing
    BY DEF ReadyFds
  <2>3. ASSUME NEW h \in Handlers
        PROVE  pollContainer'[h] \subseteq Condition(fdOf[h])
    <3>1. \A fd \in fds : registered[fd] = h => fdOf[h] = fd
      BY <2>2 DEF OneOwner
    <3>2. QED
      BY <2>1, <3>1, ReportIsCondition
  <2>4. batch' = {}
    BY <1>3 DEF EpollWait, DanglingOnlyStrays
  <2>5. QED
    BY <1>1, <1>2, <2>3, <2>4 DEF ReportStillTrue, Reported
<1>4. CASE Collect
  <2>1. Reported' = {}
    BY <1>4 DEF Collect, Reported
  <2>2. \A h \in batch' : activeEvents'[h] = pollContainer[h] /\ h \in Reported
    BY <1>4 DEF Collect, Reported
  <2>3. QED
    BY <1>1, <1>2, <2>1, <2>2 DEF ReportStillTrue, Alive
<1>5. QED
  BY <1>3, <1>4

LEMMA ReportInvariance ==
  ASSUME TypeOK, OneOwner, PeerInOnePlace, ReportStillTrue, DanglingOnlyStrays,
         [Next]_vars
  PROVE  ReportStillTrue'
<1> USE DEF kernelVars, objectVars, loopVars
<1>1. ASSUME UNCHANGED <<sign, backlog, socket, fdOf, pollContainer>>,
             batch' \subseteq batch, \A g \in batch' : activeEvents'[g] = activeEvents[g]
      PROVE  ReportStillTrue'
  BY <1>1 DEF ReportStillTrue, Reported, Alive, Condition
<1>2. ASSUME NEW p \in Peers, PeerConnects(p) \/ PeerSignals(p) \/ ShutDown(p)
      PROVE  ReportStillTrue'
  <2>1. \A q \in Peers : SignBits(sign[q]) \subseteq SignBits(sign'[q])
    BY <1>2 DEF PeerConnects, PeerSignals, ShutDown, TypeOK, SignBits, ShownBy, Bits
  <2>2. backlog # <<>> => backlog' # <<>>
    BY <1>2, AppendProperties DEF PeerConnects, PeerSignals, ShutDown, TypeOK
  <2>3. UNCHANGED <<socket, fdOf, pollContainer, batch, activeEvents>>
    BY <1>2 DEF PeerConnects, PeerSignals, ShutDown
  <2>4. \A g \in Reported \cup batch : Alive(g) => fdOf[g] \in Fds
    BY DEF TypeOK, Alive, Reported
  <2>5. \A fd \in Fds : Condition(fd) \subseteq Condition(fd)'
    BY <2>1, <2>2, <2>3, ConditionGrows
  <2>6. QED
    BY <2>3, <2>4, <2>5 DEF ReportStillTrue, Reported, Alive, Condition
<1>3. CASE ConstructAcceptor \/ BatchDone \/ FunctorsDone
  <2>1. batch' = {} /\ Reported' = {}
    BY <1>3
    DEF ConstructAcceptor, BatchDone, FunctorsDone, DanglingOnlyStrays, Reported
  <2>2. QED
    BY <2>1 DEF ReportStillTrue
<1>4. ASSUME NEW h \in Handlers, Dispatch(h)
      PROVE  ReportStillTrue'
  <2>1. CASE DispatchNothing(h)
    BY <1>1, <2>1 DEF DispatchNothing, Taking
  <2>2. CASE DispatchConnection(h) \/ DispatchRemove(h)
    <3>1. /\ batch' = batch \ {h}
          /\ activeEvents' = Handled(h)
          /\ UNCHANGED pollContainer
          /\ Alive(h)
      BY <2>2 DEF DispatchConnection, DispatchRemove, Calling, Taking
    <3>2. \A g \in batch' : activeEvents'[g] = activeEvents[g]
      BY <3>1 DEF Handled, TypeOK
    <3>3. CASE Destroy(h)
      BY <3>1, <3>2, <3>3, DestroyKeepsReports
    <3>4. CASE UNCHANGED <<sign, backlog, socket, fdOf>>
      BY <1>1, <3>1, <3>2, <3>4
    <3>5. QED
      BY <2>2, <3>3, <3>4 DEF DispatchConnection, DispatchRemove
  <2>3. QED
    BY <1>4, <2>1, <2>2 DEF Dispatch
<1>5. CASE HandleRead
  <2>1. /\ batch' = batch \ {Listener}
        /\ UNCHANGED pollContainer
        /\ Reported' = {}
        /\ \A g \in Handlers \ {Listener} : Handled(Listener)[g] = activeEvents[g]
    <3>1. Taking(Listener, "read")
      BY <1>5
      DEF HandleRead, AcceptFails, AcceptConnection, AcceptUnwatched, Calling
    <3>2. Reported' = {}
      BY <3>1 DEF Taking, Reported, DanglingOnlyStrays
    <3>3. \A g \in Handlers \ {Listener} : Handled(Listener)[g] = activeEvents[g]
      BY DEF Handled, TypeOK
    <3>4. QED
      BY <3>1, <3>2, <3>3 DEF Taking
  <2>2. \A g \in batch' : g \in Handlers \ {Listener}
    BY <2>1 DEF TypeOK
  <2>3. CASE AcceptFails
    BY <1>1, <2>1, <2>2, <2>3 DEF AcceptFails, Refused
  <2>4. ASSUME NEW h \in Connections, AcceptConnection(h)
        PROVE  ReportStillTrue'
    <3>1. PICK fd \in NewFds :
            /\ socket' = [socket EXCEPT ![fd] = Head(backlog)]
            /\ fdOf' = [fdOf EXCEPT ![h] = fd]
      BY <2>4 DEF AcceptConnection
    <3>2. Head(backlog) \in Sockets
      BY <2>4, HeadTailProperties DEF AcceptConnection, TypeOK, Sockets
    <3>3. activeEvents' = [Handled(Listener) EXCEPT ![h] = {}]
      BY <2>4 DEF AcceptConnection, Constructed, kNoneEvent
    <3>4. Handled(Listener) \in [Handlers -> SUBSET Bits]
      BY DEF Handled, TypeOK, kNoneEvent
    <3>5. \A g \in batch' :
            \/ activeEvents'[g] = {}
            \/ activeEvents'[g] = activeEvents[g] /\ fdOf'[g] = fdOf[g]
      BY <2>1, <2>2, <3>1, <3>3, <3>4 DEF TypeOK
    <3>6. QED
      BY <2>1, <2>4, <3>1, <3>2, <3>5, AcceptKeepsReports DEF AcceptConnection
  <2>5. CASE AcceptUnwatched
    <3>1. PICK fd \in NewFds : socket' = [socket EXCEPT ![fd] = OtherSocket]
      BY <2>5 DEF AcceptUnwatched
    <3>2. \A g \in batch' : activeEvents'[g] = activeEvents[g] /\ fdOf'[g] = fdOf[g]
      BY <2>1, <2>2, <2>5 DEF AcceptUnwatched
    <3>3. QED
      BY <2>1, <2>5, <3>1, <3>2, AcceptKeepsReports DEF AcceptUnwatched, Sockets
  <2>6. QED
    BY <1>5, <2>3, <2>4, <2>5 DEF HandleRead
<1>6. ASSUME NEW h \in Handlers, FunctorDestroys(h) \/ DestroyAnyTime(h)
      PROVE  ReportStillTrue'
  BY <1>6, DestroyKeepsReports DEF FunctorDestroys, DestroyAnyTime
<1>7. ASSUME NEW fd \in Fds, CloseUnwatched(fd)
      PROVE  ReportStillTrue'
  <2>1. registered[fd] = Nothing
    BY <1>7 DEF CloseUnwatched, OneOwner
  <2>2. \A g \in Reported \cup batch : Alive(g) => fdOf[g] # fd /\ fdOf[g] \in Fds
    BY <2>1, NamesAssumption DEF TypeOK, OneOwner, Alive, Handlers, Reported
  <2>3. \A gd \in Fds \ {fd} : Condition(gd) \subseteq Condition(gd)'
    BY <1>7, ConditionGrows DEF CloseUnwatched, TypeOK
  <2>4. QED
    BY <1>7, <2>2, <2>3 DEF CloseUnwatched, ReportStillTrue, Reported, Alive, Condition
<1>8. CASE EpollWait \/ Collect
  BY <1>8, PollReports
<1>9. CASE ConstructAcceptorFails \/ UNCHANGED vars
           \/ (\E h \in Handlers : FollowDangling(h))
  BY <1>1, <1>9 DEF ConstructAcceptorFails, Refused, FollowDangling, vars
<1>10. QED
  BY <1>2, <1>3, <1>4, <1>5, <1>6, <1>7, <1>8, <1>9
  DEF Next, LoopNext, OwnerNext, PeerNext

-----------------------------------------------------------------------------
(* DanglingOnlyStrays.                                                     *)

LEMMA DanglingInvariance ==
  ASSUME TypeOK, OneOwner, DanglingOnlyStrays, [Next]_vars
  PROVE  DanglingOnlyStrays'
<1> USE DEF kernelVars, objectVars, loopVars
<1>1. ASSUME UNCHANGED <<fdOf, pollContainer, batch, ioPc, strays>>
      PROVE  DanglingOnlyStrays'
  BY <1>1 DEF DanglingOnlyStrays, Pointers, Reported, Alive
<1>2. ASSUME NEW h \in Handlers, batch' = batch \ {h}, strays' = strays \ {h},
             ioPc = "dispatch", UNCHANGED <<pollContainer, ioPc>>,
             \A g \in Handlers \ {h} : Alive(g) => Alive(g)'
      PROVE  DanglingOnlyStrays'
  <2>1. Reported' = {} /\ Pointers' = batch \ {h}
    BY <1>2 DEF DanglingOnlyStrays, Pointers, Reported
  <2>2. QED
    BY <1>2, <2>1 DEF DanglingOnlyStrays, Pointers, TypeOK
<1>3. ASSUME NEW h \in Handlers, Alive(h), Destroy(h)
      PROVE  \A g \in Handlers \ {h} : Alive(g)' <=> Alive(g)
  BY <1>3, DestroySucceeds DEF TypeOK, Alive
<1>4. CASE ConstructAcceptor
  <2>1. batch' = {} /\ Reported' = {}
    BY <1>4 DEF ConstructAcceptor, DanglingOnlyStrays, Reported
  <2>2. QED
    BY <2>1 DEF DanglingOnlyStrays, Pointers
<1>5. CASE EpollWait \/ Collect
  <2>1. CASE EpollWait
    <3>1. ioPc' = "collect" /\ batch' = {} /\ UNCHANGED fdOf
      BY <2>1 DEF EpollWait, DanglingOnlyStrays
    <3>2. \A h \in Reported' : h \in Handlers /\ \E fd \in Fds : registered[fd] = h
      BY <2>1 DEF EpollWait, ReadyFds, Reported
    <3>3. \A h \in Reported' : Alive(h)
      BY <3>2, NamesAssumption DEF OneOwner, Alive, Handlers
    <3>4. QED
      BY <3>1, <3>3 DEF DanglingOnlyStrays, Pointers, Alive
  <2>2. CASE Collect
    <3>1. Reported' = {} /\ batch' = Reported /\ ioPc' = "dispatch" /\ UNCHANGED fdOf
      BY <2>2 DEF Collect, Reported
    <3>2. \A h \in Reported : Alive(h)
      BY <2>2 DEF Collect
    <3>3. QED
      BY <3>1, <3>2 DEF DanglingOnlyStrays, Pointers, Alive
  <2>3. QED
    BY <1>5, <2>1, <2>2
<1>6. ASSUME NEW h \in Handlers, Dispatch(h)
      PROVE  DanglingOnlyStrays'
  <2>1. CASE DispatchNothing(h) \/ DispatchConnection(h)
    BY <1>2, <2>1 DEF DispatchNothing, DispatchConnection, Calling, Taking, Alive
  <2>2. CASE DispatchRemove(h)
    <3>1. /\ batch' = batch \ {h}
          /\ strays' = strays \ {h}
          /\ ioPc = "dispatch" /\ UNCHANGED <<pollContainer, ioPc>>
          /\ Alive(h)
      BY <2>2 DEF DispatchRemove, Calling, Taking
    <3>2. \A g \in Handlers \ {h} : Alive(g) => Alive(g)'
      BY <1>3, <2>2, <3>1 DEF DispatchRemove, Alive
    <3>3. QED
      BY <1>2, <3>1, <3>2
  <2>3. QED
    BY <1>6, <2>1, <2>2 DEF Dispatch
<1>7. CASE HandleRead
  <2>1. /\ batch' = batch \ {Listener}
        /\ strays' = strays \ {Listener}
        /\ ioPc = "dispatch" /\ UNCHANGED <<pollContainer, ioPc>>
        /\ Listener \in Handlers
    BY <1>7
    DEF HandleRead, AcceptFails, AcceptConnection, AcceptUnwatched, Calling, Taking,
        Handlers
  <2>2. \A fd \in NewFds : fd # Nothing
    BY NamesAssumption DEF NewFds, FreeFds
  <2>3. \A g \in Handlers : Alive(g) => Alive(g)'
    BY <1>7, <2>2
    DEF HandleRead, AcceptFails, Refused, AcceptConnection, AcceptUnwatched, Alive,
        TypeOK
  <2>4. QED
    BY <1>2, <2>1, <2>3
<1>8. ASSUME NEW h \in Handlers, DestroyAnyTime(h)
      PROVE  DanglingOnlyStrays'
  <2>1. /\ strays' = strays \cup ({h} \cap Pointers)
        /\ UNCHANGED <<pollContainer, batch, ioPc>>
        /\ Alive(h) /\ Destroy(h)
    BY <1>8 DEF DestroyAnyTime
  <2>2. \A g \in Handlers \ {h} : Alive(g)' <=> Alive(g)
    BY <1>3, <2>1
  <2>3. Reported' = Reported /\ Pointers' = Pointers /\ Pointers \subseteq Handlers
    BY <2>1 DEF Pointers, Reported, TypeOK
  <2>4. QED
    BY <2>1, <2>2, <2>3 DEF DanglingOnlyStrays
<1>9. ASSUME NEW h \in Handlers, FunctorDestroys(h)
      PROVE  DanglingOnlyStrays'
  BY <1>9 DEF FunctorDestroys, DanglingOnlyStrays, Pointers, Reported
<1>10. CASE BatchDone \/ FunctorsDone
  BY <1>10 DEF BatchDone, FunctorsDone, DanglingOnlyStrays, Pointers, Reported
<1>11. CASE PeerNext \/ (\E fd \in Fds : CloseUnwatched(fd)) \/ UNCHANGED vars
            \/ ConstructAcceptorFails \/ (\E h \in Handlers : FollowDangling(h))
  BY <1>1, <1>11
  DEF PeerNext, PeerConnects, PeerSignals, ShutDown, CloseUnwatched, vars,
      ConstructAcceptorFails, Refused, FollowDangling
<1>12. QED
  BY <1>4, <1>5, <1>6, <1>7, <1>8, <1>9, <1>10, <1>11
  DEF Next, LoopNext, OwnerNext

-----------------------------------------------------------------------------
(* What ends the process.                                                  *)

(* A step either keeps the process running or is one of the three that do  *)
(* not; destructors are not among them, since they succeed.                *)
LEMMA WhatEnds ==
  ASSUME TypeOK, OneOwner, [Next]_vars
  PROVE  \/ UNCHANGED vars
         \/ AcceptFails
         \/ ConstructAcceptorFails
         \/ \E h \in Handlers : FollowDangling(h)
         \/ process = "running" /\ process' = "running"
<1> USE DEF kernelVars, objectVars, loopVars
<1>1. ASSUME NEW h \in Handlers, Alive(h), Destroy(h)
      PROVE  UNCHANGED process
  BY <1>1, DestroySucceeds
<1>2. ASSUME NEW h \in Handlers, Dispatch(h)
      PROVE  process = "running" /\ process' = "running"
  <2>1. CASE DispatchRemove(h)
    BY <1>1, <2>1 DEF DispatchRemove, Calling, Taking
  <2>2. CASE DispatchConnection(h) \/ DispatchNothing(h)
    BY <2>2 DEF DispatchConnection, DispatchNothing, Calling, Taking
  <2>3. QED
    BY <1>2, <2>1, <2>2 DEF Dispatch
<1>3. ASSUME NEW h \in Handlers, FunctorDestroys(h) \/ DestroyAnyTime(h)
      PROVE  process = "running" /\ process' = "running"
  BY <1>1, <1>3 DEF FunctorDestroys, DestroyAnyTime
<1>4. CASE AcceptUnwatched \/ (\E h \in Connections : AcceptConnection(h))
  BY <1>4 DEF AcceptUnwatched, AcceptConnection, Calling, Taking
<1>5. CASE EpollWait \/ Collect \/ BatchDone \/ FunctorsDone \/ ConstructAcceptor
           \/ (\E fd \in Fds : CloseUnwatched(fd)) \/ PeerNext
  BY <1>5
  DEF EpollWait, Collect, BatchDone, FunctorsDone, ConstructAcceptor, CloseUnwatched,
      PeerNext, PeerConnects, PeerSignals, ShutDown
<1>6. QED
  BY <1>2, <1>3, <1>4, <1>5 DEF Next, LoopNext, OwnerNext, HandleRead

(* A call of Acceptor::handleRead finds a connection to accept.            *)
LEMMA SomethingToAccept ==
  ASSUME TypeOK, OneOwner, ReportStillTrue, Calling(Listener, "read")
  PROVE  backlog # <<>> /\ fdOf[Listener] \in Fds /\ socket[fdOf[Listener]] = ListenSocket
<1>1. Listener \in batch /\ Alive(Listener) /\ Listener \in Handlers
  BY DEF Calling, Taking, Handlers
<1>2. fdOf[Listener] \in Fds /\ socket[fdOf[Listener]] = ListenSocket
  BY <1>1 DEF TypeOK, OneOwner, Alive
<1>3. activeEvents[Listener] # {}
  BY DEF Calling, Taking, HandleEvent, kErrorEvent, kRemoveEvent,
         kConnectedOrReadableOrCloseEvent, kWritableEvent
<1>4. Condition(fdOf[Listener]) # {}
  BY <1>1, <1>3 DEF ReportStillTrue
<1>5. QED
  BY <1>2, <1>4, NamesAssumption DEF Condition

LEMMA EndsInvariance ==
  ASSUME TypeOK, OneOwner, ReportStillTrue, NoCallInVain, [Next]_vars
  PROVE  NoCallInVain'
<1>1. CASE AcceptFails
  BY <1>1, SomethingToAccept DEF AcceptFails, Refused, NoCallInVain
<1>2. CASE ConstructAcceptorFails \/ (\E h \in Handlers : FollowDangling(h))
  BY <1>2 DEF ConstructAcceptorFails, Refused, FollowDangling, NoCallInVain
<1>3. CASE process' = "running" \/ UNCHANGED vars
  BY <1>3 DEF NoCallInVain, vars
<1>4. QED
  BY <1>1, <1>2, <1>3, WhatEnds

LEMMA DisciplineInvariance ==
  ASSUME TypeOK, OneOwner, DanglingOnlyStrays, OwnDiscipline, [Next]_vars
  PROVE  OwnDiscipline'
<1>1. ASSUME NEW h \in Handlers, FollowDangling(h)
      PROVE  OwnDiscipline'
  BY <1>1 DEF FollowDangling, DanglingOnlyStrays, OwnDiscipline
<1>2. CASE UNCHANGED vars
  BY <1>2 DEF OwnDiscipline, vars
<1>3. CASE process' # "dangling"
  BY <1>3 DEF OwnDiscipline
<1>4. QED
  BY <1>1, <1>2, <1>3, WhatEnds DEF AcceptFails, ConstructAcceptorFails, Refused

-----------------------------------------------------------------------------
LEMMA InitIndInv ==
  ASSUME Init
  PROVE  IndInv
<1>1. TypeOK
  BY EmptySeq, BoundsAssumption DEF Init, TypeOK, Signs, Calls, kNoneEvent, Fates
<1>2. OneOwner /\ ReportStillTrue /\ DanglingOnlyStrays /\ NoCallInVain /\ OwnDiscipline
  BY DEF Init, OneOwner, Alive, ReportStillTrue, DanglingOnlyStrays, Pointers, Reported,
         NoCallInVain, OwnDiscipline
<1>3. PeerInOnePlace
  BY EmptyQueue, NamesAssumption DEF Init, PeerInOnePlace, Connected
<1>4. QED
  BY <1>1, <1>2, <1>3 DEF IndInv

LEMMA NextIndInv ==
  ASSUME IndInv, [Next]_vars
  PROVE  IndInv'
  BY TypeInvariance, OwnerInvariance, PlaceInvariance, ReportInvariance,
     DanglingInvariance, EndsInvariance, DisciplineInvariance DEF IndInv

(* Every reachable state satisfies the inductive invariant.                *)
THEOREM Invariance == Spec => []IndInv
<1>1. Init => IndInv
  BY InitIndInv
<1>2. IndInv /\ [Next]_vars => IndInv'
  BY NextIndInv
<1>3. QED
  BY <1>1, <1>2, PTL DEF Spec

(* Every variable keeps the values its declaration in the code allows.     *)
THEOREM TypeCorrectness == Spec => []TypeOK
<1>1. IndInv => TypeOK
  BY DEF IndInv
<1>2. QED
  BY <1>1, Invariance, PTL

(* No descriptor of the loop is leaked, closed twice or registered with a  *)
(* pointer to anything but its living owner.                               *)
THEOREM Ownership == Spec => []OneOwner
<1>1. IndInv => OneOwner
  BY DEF IndInv
<1>2. QED
  BY <1>1, Invariance, PTL

(* Callbacks are decided on reports that still hold when they are called.  *)
THEOREM Reports == Spec => []ReportStillTrue
<1>1. IndInv => ReportStillTrue
  BY DEF IndInv
<1>2. QED
  BY <1>1, Invariance, PTL

(* Only destruction from another callback or thread leaves the container or*)
(* the batch with a pointer to nothing.                                    *)
THEOREM Dangling == Spec => []DanglingOnlyStrays
<1>1. IndInv => DanglingOnlyStrays
  BY DEF IndInv
<1>2. QED
  BY <1>1, Invariance, PTL

(* Whatever the order of reports, accepts and destructors: accept always   *)
(* has a connection to accept, and a destructor always finds its descriptor*)
(* registered.                                                             *)
THEOREM Ending == Spec => []NoCallInVain
<1>1. IndInv => NoCallInVain
  BY DEF IndInv
<1>2. QED
  BY <1>1, Invariance, PTL

(* No step but the destruction by another callback or thread makes a stray.*)
LEMMA StraysStayEmpty ==
  ASSUME Destroyers \subseteq {"remove"}, strays = {}, [Next]_vars
  PROVE  strays' = {}
<1>1. \A h \in Handlers : ~DestroyAnyTime(h)
  BY DEF DestroyAnyTime
<1>2. strays' \subseteq strays
  BY <1>1
  DEF Next, LoopNext, OwnerNext, PeerNext, Dispatch, HandleRead, EpollWait, Collect,
      BatchDone, FunctorsDone, FollowDangling, ConstructAcceptorFails,
      DispatchNothing, DispatchConnection, DispatchRemove, AcceptFails,
      AcceptConnection, AcceptUnwatched, Calling, Taking, ConstructAcceptor,
      FunctorDestroys, CloseUnwatched, PeerConnects, PeerSignals, ShutDown, vars
<1>3. QED
  BY <1>2

(* An application that destroys its connections in their own removeCallback*)
(* and in functors only never has the loop follow a dangling pointer, and  *)
(* never has one in the container or in the batch.                         *)
THEOREM NeverDangling ==
  ASSUME Destroyers \subseteq {"remove"}
  PROVE  Spec => [](process # "dangling" /\ \A h \in Pointers : Alive(h))
<1>1. Init => strays = {}
  BY DEF Init
<1>2. strays = {} /\ [Next]_vars => (strays = {})'
  BY StraysStayEmpty
<1>3. IndInv /\ strays = {} => process # "dangling" /\ \A h \in Pointers : Alive(h)
  BY DEF IndInv, OwnDiscipline, DanglingOnlyStrays
<1>4. QED
  BY <1>1, <1>2, <1>3, Invariance, PTL DEF Spec

-----------------------------------------------------------------------------
(* Reactor implements ConnectionLife.                                      *)

LEMMA DestroyCloses ==
  ASSUME TypeOK, OneOwner, NEW h \in Handlers, Alive(h), Destroy(h)
  PROVE  /\ fdOf[h] \in Fds
         /\ ~CL!Free(fdOf[h])
         /\ CL!Closing(fdOf[h])
         /\ UNCHANGED process
<1>1. /\ fdOf[h] \in Fds
      /\ socket[fdOf[h]] \in Peers \cup {ListenSocket}
      /\ h = Listener <=> socket[fdOf[h]] = ListenSocket
      /\ socket' = [socket EXCEPT ![fdOf[h]] = Nothing]
      /\ sign' = [p \in Peers |->
           IF p = socket[fdOf[h]] \/ (h = Listener /\ Contains(backlog, p))
           THEN "away" ELSE sign[p]]
      /\ backlog' = IF h = Listener THEN <<>> ELSE backlog
      /\ UNCHANGED process
  BY DestroySucceeds
<1>2. ~CL!Free(fdOf[h])
  BY <1>1, NamesAssumption DEF CL!Free
<1>3. CL!Closing(fdOf[h])
  BY <1>1 DEF CL!Closing, CL!Contains, Contains
<1>4. QED
  BY <1>1, <1>2, <1>3

(* What a callback of a connection announces is so.                        *)
LEMMA CallAnnounces ==
  ASSUME TypeOK, OneOwner, PeerInOnePlace, ReportStillTrue,
         NEW h \in Connections, NEW kind \in Kinds, Calling(h, kind)
  PROVE  /\ fdOf[h] \in Fds
         /\ socket[fdOf[h]] \in Peers
         /\ CL!Announces(kind, socket[fdOf[h]])
         /\ lastCall' = [fd |-> fdOf[h], kind |-> kind]
<1>1. h \in Handlers /\ h # Listener /\ h \in batch /\ Alive(h)
  BY NamesAssumption DEF Calling, Taking, Handlers
<1> DEFINE fd == fdOf[h]
           p == socket[fd]
           bits == activeEvents[h]
<1>2. fd \in Fds /\ p \in Peers
  BY <1>1, NamesAssumption DEF TypeOK, OneOwner, Alive, Sockets
<1>3. bits \subseteq SignBits(sign[p])
  BY <1>1, <1>2 DEF ReportStillTrue, Condition
<1>4. Connected(p) /\ sign[p] \in Signs /\ sign[p] # "away"
  BY <1>2 DEF PeerInOnePlace, Connected, TypeOK
<1>5. HandleEvent(bits) = kind
  BY DEF Calling, Taking
<1>6. CL!Announces(kind, p)
  <2>1. CASE kind = "error"
    <3>1. "ERR" \in bits
      BY <1>5, <2>1 DEF HandleEvent, kErrorEvent
    <3>2. QED
      BY <1>3, <2>1, <3>1 DEF SignBits, ShownBy, CL!Announces
  <2>2. CASE kind = "remove"
    <3>1. "HUP" \in bits
      BY <1>5, <2>2 DEF HandleEvent, kRemoveEvent
    <3>2. QED
      BY <1>3, <2>2, <3>1 DEF SignBits, ShownBy, CL!Announces
  <2>3. CASE kind = "read"
    <3>1. bits \cap {"IN", "RDHUP", "PRI"} # {}
      BY <1>5, <2>3 DEF HandleEvent, kConnectedOrReadableOrCloseEvent
    <3>2. QED
      BY <1>3, <2>3, <3>1 DEF SignBits, ShownBy, CL!Announces
  <2>4. CASE kind = "write"
    BY <1>4, <2>4 DEF CL!Announces
  <2>5. QED
    BY <2>1, <2>2, <2>3, <2>4 DEF Kinds
<1>7. QED
  BY <1>2, <1>6 DEF Calling

LEMMA InitImplements ==
  ASSUME Init
  PROVE  CL!Init
  BY DEF Init, CL!Init, NoCall, CL!NoCall

LEMMA NextImplements ==
  ASSUME IndInv, [Next]_vars
  PROVE  [CL!Next]_CL!vars
<1> USE DEF IndInv
<1>1. CASE UNCHANGED vars
  BY <1>1 DEF vars, kernelVars, CL!vars
<1>2. CASE AcceptFails
  <2>1. fdOf[Listener] \in Fds /\ socket[fdOf[Listener]] = ListenSocket
    BY <1>2, SomethingToAccept DEF AcceptFails
  <2>2. CL!Stop /\ process = "running"
    BY <1>2, <2>1 DEF AcceptFails, Refused, Calling, Taking, kernelVars, CL!Stop
  <2>3. QED
    BY <2>2 DEF CL!Next
<1>3. CASE ConstructAcceptorFails \/ (\E h \in Handlers : FollowDangling(h))
  BY <1>3
  DEF ConstructAcceptorFails, Refused, FollowDangling, kernelVars, CL!Stop, CL!Next
<1>4. CASE /\ process = "running" /\ process' = "running"
           /\ Next /\ ~AcceptFails /\ ~ConstructAcceptorFails
           /\ \A h \in Handlers : ~FollowDangling(h)
  <2> SUFFICES CL!Continue \/ UNCHANGED CL!vars
    BY <1>4 DEF CL!Next
  <2>1. CASE EpollWait \/ Collect \/ FunctorsDone
    BY <2>1 DEF EpollWait, Collect, FunctorsDone, kernelVars, CL!vars
  <2>2. CASE BatchDone
    BY <2>2 DEF BatchDone, kernelVars, NoCall, CL!NoCall, CL!Rest, CL!Continue
  <2>3. ASSUME NEW h \in Handlers, DispatchNothing(h)
        PROVE  UNCHANGED CL!vars
    BY <2>3 DEF DispatchNothing, kernelVars, CL!vars
  <2>4. ASSUME NEW h \in Handlers, DispatchConnection(h)
        PROVE  CL!Continue
    <3>1. PICK kind \in {"read", "write", "error"} : Calling(h, kind)
      BY <2>4 DEF DispatchConnection
    <3>2. CL!Callback(fdOf[h], kind) /\ fdOf[h] \in Fds
      BY <2>4, <3>1, CallAnnounces
      DEF DispatchConnection, Kinds, kernelVars, CL!Callback
    <3>3. QED
      BY <3>2 DEF CL!Continue
  <2>5. ASSUME NEW h \in Handlers, DispatchRemove(h)
        PROVE  CL!Continue
    <3>1. Calling(h, "remove") /\ h \in Connections /\ Alive(h)
      BY <2>5 DEF DispatchRemove, Calling, Taking
    <3>2. /\ fdOf[h] \in Fds
          /\ socket[fdOf[h]] \in Peers
          /\ CL!Announces("remove", socket[fdOf[h]])
          /\ lastCall' = [fd |-> fdOf[h], kind |-> "remove"]
      BY <3>1, CallAnnounces DEF Kinds
    <3>3. CL!Closing(fdOf[h]) \/ UNCHANGED <<sign, backlog, socket>>
      BY <2>5, <3>1, DestroyCloses DEF DispatchRemove, kernelVars
    <3>4. CL!Callback(fdOf[h], "remove")
      BY <3>2, <3>3 DEF CL!Callback
    <3>5. QED
      BY <3>2, <3>4 DEF CL!Continue
  <2>6. ASSUME Calling(Listener, "read"), backlog # <<>>, backlog' = Tail(backlog),
               NEW fd \in NewFds,
               \/ socket' = [socket EXCEPT ![fd] = Head(backlog)] /\ UNCHANGED sign
               \/ /\ socket' = [socket EXCEPT ![fd] = OtherSocket]
                  /\ sign' = [sign EXCEPT ![Head(backlog)] = "away"]
        PROVE  CL!Continue
    <3>1. fdOf[Listener] \in Fds /\ socket[fdOf[Listener]] = ListenSocket
      BY <2>6, SomethingToAccept
    <3>2. fd \in Fds /\ CL!Free(fd)
      BY DEF NewFds, FreeFds, CL!Free
    <3>3. lastCall' = [fd |-> fdOf[Listener], kind |-> "read"]
      BY <2>6 DEF Calling
    <3>4. CL!Accept(fdOf[Listener])
      BY <2>6, <3>1, <3>2, <3>3 DEF CL!Accept
    <3>5. QED
      BY <3>1, <3>4 DEF CL!Continue
  <2>7. CASE AcceptUnwatched \/ (\E h \in Connections : AcceptConnection(h))
    BY <2>6, <2>7 DEF AcceptUnwatched, AcceptConnection
  <2>8. CASE ConstructAcceptor
    <3>1. PICK fd \in NewFds : socket' = [socket EXCEPT ![fd] = ListenSocket]
      BY <2>8 DEF ConstructAcceptor
    <3>2. fd \in Fds /\ CL!Listen(fd)
      BY <2>8, <3>1 DEF ConstructAcceptor, NewFds, FreeFds, CL!Free, CL!Listen
    <3>3. QED
      BY <3>2 DEF CL!Continue
  <2>9. ASSUME NEW h \in Handlers, FunctorDestroys(h) \/ DestroyAnyTime(h)
        PROVE  CL!Continue
    <3>1. Alive(h) /\ Destroy(h) /\ UNCHANGED lastCall
      BY <2>9 DEF FunctorDestroys, DestroyAnyTime
    <3>2. fdOf[h] \in Fds /\ CL!Close(fdOf[h])
      BY <3>1, DestroyCloses DEF CL!Close
    <3>3. QED
      BY <3>2 DEF CL!Continue
  <2>10. ASSUME NEW fd \in Fds, CloseUnwatched(fd)
         PROVE  CL!Continue
    <3>1. socket[fd] = OtherSocket /\ socket' = [socket EXCEPT ![fd] = Nothing]
          /\ UNCHANGED <<sign, backlog, lastCall>>
      BY <2>10 DEF CloseUnwatched
    <3>2. sign' = [p \in Peers |-> sign[p]]
      BY <3>1 DEF TypeOK
    <3>3. CL!Close(fd)
      BY <3>1, <3>2, NamesAssumption DEF CL!Close, CL!Closing, CL!Free
    <3>4. QED
      BY <3>3 DEF CL!Continue
  <2>11. ASSUME NEW p \in Peers, PeerConnects(p)
         PROVE  CL!Arrive(p)
    BY <2>11 DEF PeerConnects, CL!Arrive
  <2>12. ASSUME NEW p \in Peers, PeerSignals(p) \/ ShutDown(p)
         PROVE  CL!Progress(p)
    <3>1. UNCHANGED <<backlog, socket, lastCall>>
      BY <2>12 DEF PeerSignals, ShutDown
    <3>2. PICK s \in Signs : s \in CL!Later[sign[p]] /\ sign' = [sign EXCEPT ![p] = s]
      <4>1. CASE PeerSignals(p)
        BY <4>1 DEF PeerSignals, TypeOK, Signs, CL!Later
      <4>2. CASE ShutDown(p)
        BY <4>2 DEF ShutDown, Signs, CL!Later
      <4>3. QED
        BY <2>12, <4>1, <4>2
    <3>3. QED
      BY <3>1, <3>2 DEF CL!Progress
  <2>13. QED
    BY <1>4, <2>1, <2>2, <2>3, <2>4, <2>5, <2>7, <2>8, <2>9, <2>10, <2>11, <2>12
    DEF Next, LoopNext, OwnerNext, PeerNext, Dispatch, HandleRead, CL!Continue
<1>5. Next \/ UNCHANGED vars
  OBVIOUS
<1>6. QED
  BY <1>1, <1>2, <1>3, <1>4, <1>5, WhatEnds

(* Batches of pointers, registrations and reused descriptors and addresses *)
(* implement ConnectionLife: connections are accepted in order, and every  *)
(* callback is justified by the socket its descriptor stands for.          *)
THEOREM Implementation == Spec => ImplementsConnectionLife
<1>1. Init => CL!Init
  BY InitImplements
<1>2. IndInv /\ [Next]_vars => [CL!Next]_CL!vars
  BY NextImplements
<1>3. QED
  BY <1>1, <1>2, Invariance, PTL DEF Spec, CL!Spec, ImplementsConnectionLife
=============================================================================
