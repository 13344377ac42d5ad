-------------------------------- MODULE Event --------------------------------
(***************************************************************************)
(* The masks of class Event and the choice its handleEvent makes.  A mask  *)
(* of epoll bits is the set of the bits that are 1; the operators take and *)
(* return the member allEvents (what the owner wants reported) or          *)
(* activeEvents (what epoll has reported), so that any module may keep as  *)
(* many Events as it needs.                                                *)
(***************************************************************************)

(* The bits of epoll_event.events that cbee uses.                          *)
Bits == {"IN", "PRI", "RDHUP", "OUT", "HUP", "ERR"}

kNoneEvent == {}
kConnectedOrReadableOrCloseEvent == {"IN", "RDHUP", "PRI"}
kWritableEvent == {"OUT"}

(* Seeded fault: a half-closed connection counts as one to remove.         *)
kRemoveEvent_HalfClosed == {"HUP", "RDHUP"}

kRemoveEvent == {"HUP"}
kErrorEvent == {"ERR"}

EnableReadEvent(allEvents) == allEvents \cup kConnectedOrReadableOrCloseEvent

DisableReadEvent(allEvents) == allEvents \ kConnectedOrReadableOrCloseEvent

EnableWriteEvent(allEvents) == allEvents \cup kWritableEvent

(* The source has &= where disableReadEvent has &= ~.                      *)
DisableWriteEvent(allEvents) == allEvents \cap kWritableEvent

DisableAllEvents(allEvents) == kNoneEvent

(* Seeded faults: the removal is tested before the error; it is tested     *)
(* after the readable bits.                                                *)
HandleEvent_RemoveFirst(activeEvents) ==
  CASE activeEvents \cap kRemoveEvent # {} -> "remove"
    [] activeEvents \cap kErrorEvent # {} -> "error"
    [] activeEvents \cap kConnectedOrReadableOrCloseEvent # {} -> "read"
    [] activeEvents \cap kWritableEvent # {} -> "write"
    [] OTHER -> "none"

HandleEvent_ReadFirst(activeEvents) ==
  CASE activeEvents \cap kErrorEvent # {} -> "error"
    [] activeEvents \cap kConnectedOrReadableOrCloseEvent # {} -> "read"
    [] activeEvents \cap kRemoveEvent # {} -> "remove"
    [] activeEvents \cap kWritableEvent # {} -> "write"
    [] OTHER -> "none"

(* The one callback that handleEvent makes: the first test that succeeds   *)
(* decides, and the other bits of the report are dropped.                  *)
HandleEvent(activeEvents) ==
  LET reports(mask) == activeEvents \cap mask # {} IN
  IF reports(kErrorEvent) THEN "error"
  ELSE IF reports(kRemoveEvent) THEN "remove"
  ELSE IF reports(kConnectedOrReadableOrCloseEvent) THEN "read"
  ELSE IF reports(kWritableEvent) THEN "write"
  ELSE "none"
=============================================================================
