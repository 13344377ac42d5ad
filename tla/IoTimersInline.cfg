\* Periodic handlers only are cancelled, from the I/O thread too.
SPECIFICATION CallsSpec
CONSTANTS
  Clients = {c1, c2}
  NoCall = none
  Ids = {a, b}
  MaxTime = 2
  CallDelays <- MCDelays
  Delays <- MCLateDelays
  Intervals <- MCIntervals
  ClockJumps = {}
  MinInterval = 1
  BatchCallbacks = FALSE
  CancelsOneShots = FALSE
  CancelsInline = TRUE
INVARIANT CancelFinds
\* A failing cancelHandler ends the process.
CHECK_DEADLOCK FALSE
