---------------------------- MODULE EventInterest ----------------------------
(***************************************************************************)
(* One Event in the hands of its owner: the member allEvents under the     *)
(* five operations that change it, next to what the owner has asked for.   *)
(***************************************************************************)
EXTENDS Event

VARIABLES
  allEvents,  \* Event::allEvents
  asked       \* history: the directions enabled and not disabled since

vars == <<allEvents, asked>>

Init ==
  /\ allEvents = kNoneEvent
  /\ asked = {}

EnableRead ==
  /\ allEvents' = EnableReadEvent(allEvents)
  /\ asked' = asked \cup {"read"}

DisableRead ==
  /\ allEvents' = DisableReadEvent(allEvents)
  /\ asked' = asked \ {"read"}

EnableWrite ==
  /\ allEvents' = EnableWriteEvent(allEvents)
  /\ asked' = asked \cup {"write"}

DisableWrite ==
  /\ allEvents' = DisableWriteEvent(allEvents)
  /\ asked' = asked \ {"write"}

DisableAll ==
  /\ allEvents' = DisableAllEvents(allEvents)
  /\ asked' = {}

Next == EnableRead \/ DisableRead \/ EnableWrite \/ DisableWrite \/ DisableAll

Spec == Init /\ [][Next]_vars

(* "Events configured to epoll" (Event.h:57): what updateEvent passes to   *)
(* epoll_ctl is what the calls of enable... and disable... add up to.      *)
ConfiguredAsAsked ==
  allEvents = (IF "read" \in asked THEN kConnectedOrReadableOrCloseEvent ELSE {})
         \cup (IF "write" \in asked THEN kWritableEvent ELSE {})
=============================================================================
