\* Periodic handlers only are cancelled, and by other threads only.
SPECIFICATION FairCallsSpec
CONSTANTS
  Clients = {c1, c2}
  NoCall = none
  Ids = {a, b}
  MaxTime = 3
  CallDelays <- MCDelays
  Delays <- MCLateDelays
  Intervals <- MCIntervals
  ClockJumps <- MCForwardJump
  MinInterval = 1
  BatchCallbacks = FALSE
  CancelsOneShots = FALSE
  CancelsInline = FALSE
INVARIANTS CancelFinds CancelInv
PROPERTIES CancelTakesEffect HandlerReachesQueue HandlerStarts
