---------------------------- MODULE TimerPromise ----------------------------
(***************************************************************************)
(* What the timers of cbee promise, without the timerfd and the batches:   *)
(*   - a handler runs only when its time has been reached,                 *)
(*   - a handler with no interval runs at most once,                       *)
(*   - a handler with an interval runs again, and not before an interval   *)
(*     has passed since the moment its last run was decided,               *)
(*   - a handler leaves otherwise only by being cancelled, and a cancelled *)
(*     handler never runs again.                                           *)
(* When a run comes after it is due is not said here: see Punctual and     *)
(* HandlerStarts in TimerQueue.tla, which implements this specification.   *)
(***************************************************************************)
EXTENDS Integers

CONSTANTS Intervals, Ids

VARIABLES
  reached,   \* the latest time the clock has shown
  waiting,   \* handlers that are still to run
  used       \* the ids of the handlers there have been

vars == <<reached, waiting, used>>

Handler == [id : Ids, expiredTime : Int, interval : Intervals]

Init ==
  /\ reached \in Nat
  /\ waiting = {}
  /\ used = {}

TimePasses ==
  /\ reached' \in Nat
  /\ reached' > reached
  /\ UNCHANGED <<waiting, used>>

Add ==
  /\ \E h \in waiting' \cap Handler :
       /\ h.id \notin used
       /\ waiting' = waiting \cup {h}
       /\ used' = used \cup {h.id}
  /\ UNCHANGED reached

Cancel(id) ==
  /\ \E h \in waiting : h.id = id
  /\ waiting' = {h \in waiting : h.id # id}
  /\ UNCHANGED <<reached, used>>

RunOnce(h) ==
  /\ h.interval = 0
  /\ h.expiredTime <= reached
  /\ waiting' = waiting \ {h}
  /\ UNCHANGED <<reached, used>>

RunAgainLater(h) ==
  /\ h.interval # 0
  /\ \E decided \in h.expiredTime .. reached :
       waiting' = (waiting \ {h})
          \cup {[h EXCEPT !.expiredTime = decided + h.interval]}
  /\ UNCHANGED <<reached, used>>

Next ==
  \/ TimePasses
  \/ Add
  \/ \E id \in Ids : Cancel(id)
  \/ \E h \in waiting : RunOnce(h) \/ RunAgainLater(h)

Spec == Init /\ [][Next]_vars
=============================================================================
