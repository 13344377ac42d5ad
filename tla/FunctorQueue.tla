---------------------------- MODULE FunctorQueue ----------------------------
(***************************************************************************)
(* What IoManager::runInIoThread promises to its callers, with no threads, *)
(* no lock and no wake-up: a functor that is handed over is either run at  *)
(* once (the caller is the I/O thread) or joins the end of one queue, and  *)
(* the only way out of the queue is to be run, oldest first.  Hence no     *)
(* functor is lost, none is run twice, and those that were queued run in   *)
(* the order in which they were queued.                                    *)
(*                                                                         *)
(* IoManager.tla is shown to implement this specification.                 *)
(***************************************************************************)
EXTENDS Sequences, Functions

CONSTANT Functors   \* the closures the application ever hands over

VARIABLES
  handed,   \* functors some call of runInIoThread has received
  queue,    \* functors waiting for the I/O thread, oldest first
  ran       \* functors the I/O thread has started, in the order it did

vars == <<handed, queue, ran>>

Init ==
  /\ handed = {}
  /\ queue = <<>>
  /\ ran = <<>>

(* A thread other than the I/O thread calls runInIoThread.                 *)
Hand(f) ==
  /\ f \notin handed
  /\ handed' = handed \cup {f}
  /\ UNCHANGED <<queue, ran>>

(* The call of that thread takes effect, once.                             *)
Enqueue(f) ==
  /\ f \in handed
  /\ f \notin Range(queue) \cup Range(ran)
  /\ queue' = Append(queue, f)
  /\ UNCHANGED <<handed, ran>>

(* The I/O thread runs the oldest functor of the queue.                    *)
RunOldest ==
  /\ queue # <<>>
  /\ ran' = Append(ran, Head(queue))
  /\ queue' = Tail(queue)
  /\ UNCHANGED handed

(* The I/O thread itself calls runInIoThread: the functor overtakes the    *)
(* whole queue.                                                            *)
RunAtOnce(f) ==
  /\ f \notin handed
  /\ handed' = handed \cup {f}
  /\ ran' = Append(ran, f)
  /\ UNCHANGED queue

Next ==
  \/ \E f \in Functors : Hand(f) \/ Enqueue(f) \/ RunAtOnce(f)
  \/ RunOldest

Spec == Init /\ [][Next]_vars
=============================================================================
