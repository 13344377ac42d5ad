\* Liveness; callbacks and functors may block; one of two functors quits.
SPECIFICATION FairSpec
CONSTANTS
  Clients = {c1, c2}
  IoThread = io
  Unlocked = unlocked
  Functors = {f1, fq}
  NoFunctor = none
  QuitFunctors = {fq}
  Sources = {s1}
  Trigger = trigger
  EventFdMax = 9
  InitialActiveEventsSize = 1
  SignalsArrive = FALSE
PROPERTIES FunctorRuns QuitReturns PosterProgress
