\* A callback served before the timerfd, in the same batch, adds a handler.
SPECIFICATION Spec
CONSTANTS
  Ids = {a, b}
  MaxTime = 3
  Delays <- MCDelays
  Intervals <- MCIntervals
  ClockJumps = {}
  MinInterval = 1
  BatchCallbacks = TRUE
INVARIANT CleanEventFindsOne
\* A failing cancelHandler or cleanEvent ends the process.
CHECK_DEADLOCK FALSE
