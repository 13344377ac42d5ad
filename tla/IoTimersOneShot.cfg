\* Handlers that run once are cancelled too, by other threads.
SPECIFICATION CallsSpec
CONSTANTS
  Clients = {c1, c2}
  NoCall = none
  Ids = {a, b}
  MaxTime = 2
  CallDelays <- MCDelays
  Delays <- MCLateDelays
  Intervals <- MCIntervals
  ClockJumps = {}
  MinInterval = 1
  BatchCallbacks = FALSE
  CancelsOneShots = TRUE
  CancelsInline = FALSE
INVARIANT CancelFinds
\* A failing cancelHandler ends the process.
CHECK_DEADLOCK FALSE
