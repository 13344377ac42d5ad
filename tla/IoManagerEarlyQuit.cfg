\* A quit() that arrives before loop() has started.
SPECIFICATION LoopedSpec
CONSTANTS
  Clients = {c1, c2}
  IoThread = io
  Unlocked = unlocked
  Functors = {f1}
  NoFunctor = none
  QuitFunctors = {}
  Sources = {s1}
  Trigger = trigger
  EventFdMax = 9
  InitialActiveEventsSize = 1
  SignalsArrive = FALSE
PROPERTY QuitStopsLoop
