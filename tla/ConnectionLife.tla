--------------------------- MODULE ConnectionLife ---------------------------
(***************************************************************************)
(* What cbee promises about its sockets, with no epoll, no batch and no    *)
(* objects: connections are accepted in the order in which they were made, *)
(* each on a descriptor that stands for nothing else; a callback is called *)
(* for a descriptor only when what its kind announces is true at that      *)
(* moment of the socket the descriptor stands for; the owner may close any *)
(* descriptor at any moment; and one day it may all stop.                  *)
(* When a callback comes is not said here: see Reactor.tla, which          *)
(* implements this specification.                                          *)
(***************************************************************************)
EXTENDS Sequences, SequencesExt

CONSTANTS Peers, Fds, ListenSocket, OtherSocket, Nothing

VARIABLES
  sign,      \* what each peer and its connection have come to
  backlog,   \* connections made and not accepted, oldest first
  socket,    \* what each descriptor stands for
  lastCall,  \* the last callback: a descriptor and a kind
  running

vars == <<sign, backlog, socket, lastCall, running>>

NoCall == [fd |-> Nothing, kind |-> "none"]

Init ==
  /\ sign = [p \in Peers |-> "away"]
  /\ backlog = <<>>
  /\ socket = [fd \in Fds |-> Nothing]
  /\ lastCall = NoCall
  /\ running = TRUE

Free(fd) == socket[fd] = Nothing

Announces(kind, p) ==
  \/ kind = "error" /\ sign[p] = "reset"
  \/ kind = "remove" /\ sign[p] \in {"shut", "reset"}
  \/ kind = "read" /\ sign[p] \in {"data", "closed", "shut", "reset"}
  \/ kind = "write" /\ sign[p] # "away"

Arrive(p) ==
  /\ sign[p] = "away"
  /\ \E fd \in Fds : socket[fd] = ListenSocket
  /\ sign' = [sign EXCEPT ![p] = "idle"]
  /\ backlog' = Append(backlog, p)
  /\ UNCHANGED <<socket, lastCall>>

(* A connection only ever goes from one state to a later one.              *)
Later ==
  [away |-> {},
   idle |-> {"data", "closed", "shut", "reset"},
   data |-> {"closed", "shut", "reset"},
   closed |-> {"shut", "reset"},
   shut |-> {"reset"},
   reset |-> {}]

Progress(p) ==
  /\ \E s \in Later[sign[p]] : sign' = [sign EXCEPT ![p] = s]
  /\ UNCHANGED <<backlog, socket, lastCall>>

Listen(fd) ==
  /\ Free(fd)
  /\ socket' = [socket EXCEPT ![fd] = ListenSocket]
  /\ UNCHANGED <<sign, backlog, lastCall>>

(* The effect of closing fd, on a connection or on the listening socket.   *)
Closing(fd) ==
  LET listens == socket[fd] = ListenSocket
      gone(p) == p = socket[fd]
                   \/ (listens /\ Contains(backlog, p)) IN
  /\ sign' = [p \in Peers |-> IF gone(p) THEN "away" ELSE sign[p]]
  /\ backlog' = IF listens THEN <<>> ELSE backlog
  /\ socket' = [socket EXCEPT ![fd] = Nothing]

Close(fd) ==
  /\ ~Free(fd)
  /\ Closing(fd)
  /\ UNCHANGED lastCall

(* A callback that accepts: the oldest connection gets a descriptor, and is*)
(* served by cbee or by the owner of the listening socket itself.          *)
Accept(l) ==
  /\ socket[l] = ListenSocket
  /\ backlog # <<>>
  /\ lastCall' = [fd |-> l, kind |-> "read"]
  /\ backlog' = Tail(backlog)
  /\ \E fd \in Fds :
       /\ Free(fd)
       /\ \/ /\ socket' = [socket EXCEPT ![fd] = Head(backlog)]
             /\ UNCHANGED sign
          \/ /\ socket' = [socket EXCEPT ![fd] = OtherSocket]
             /\ sign' = [sign EXCEPT ![Head(backlog)] = "away"]

(* Any other callback; the one for a removal may close its descriptor.     *)
Callback(fd, kind) ==
  /\ socket[fd] \in Peers
  /\ Announces(kind, socket[fd])
  /\ lastCall' = [fd |-> fd, kind |-> kind]
  /\ \/ UNCHANGED <<sign, backlog, socket>>
     \/ kind = "remove" /\ Closing(fd)

(* No callback is in progress or has just been made.                       *)
Rest ==
  /\ lastCall' = NoCall
  /\ UNCHANGED <<sign, backlog, socket>>

Continue ==
  \/ Rest
  \/ \E p \in Peers : Arrive(p) \/ Progress(p)
  \/ \E fd \in Fds :
       \/ Listen(fd)
       \/ Close(fd)
       \/ Accept(fd)
       \/ \E kind \in {"error", "remove", "read", "write"} : Callback(fd, kind)

(* The process ends, perhaps in a callback of the listening socket.        *)
Stop ==
  /\ running' = FALSE
  /\ \/ UNCHANGED lastCall
     \/ \E fd \in Fds : socket[fd] = ListenSocket
                          /\ lastCall' = [fd |-> fd, kind |-> "read"]
  /\ UNCHANGED <<sign, backlog, socket>>

Next == running /\ (Stop \/ (UNCHANGED running /\ Continue))

Spec == Init /\ [][Next]_vars
=============================================================================
