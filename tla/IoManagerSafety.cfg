\* Two posting threads, three functors of which one quits, one other source;
\* small limits so that the eventfd saturates and the container doubles.
SPECIFICATION Spec
CONSTANTS
  Clients = {c1, c2}
  IoThread = io
  Unlocked = unlocked
  Functors = {f1, f2, fq}
  NoFunctor = none
  QuitFunctors = {fq}
  Sources = {s1}
  Trigger = trigger
  EventFdMax = 3
  InitialActiveEventsSize = 1
  SignalsArrive = TRUE
SYMMETRY Symmetry
PROPERTY ImplementsFunctorQueue
INVARIANTS TypeOK WakeupNotLost QuitNotSleptOver ExitOnlyAtLimit IndInv
\* The process ends when a system call fails.
CHECK_DEADLOCK FALSE
