\* Any handler may be cancelled, from anywhere.
SPECIFICATION CallsSpec
CONSTANTS
  Clients = {c1, c2}
  NoCall = none
  Ids = {a, b}
  MaxTime = 3
  CallDelays <- MCDelays
  Delays <- MCLateDelays
  Intervals <- MCIntervals
  ClockJumps <- MCJumps
  MinInterval = 1
  BatchCallbacks = TRUE
  CancelsOneShots = TRUE
  CancelsInline = TRUE
SYMMETRY Symmetry
INVARIANTS CallsTypeOK CallsIndInv
PROPERTIES ImplementsTimerQueue ImplementsCallersPromise
\* A failing cancelHandler or cleanEvent ends the process.
CHECK_DEADLOCK FALSE
