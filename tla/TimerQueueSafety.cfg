\* The clock may be set back; callbacks of the same batch may use the queue.
SPECIFICATION Spec
CONSTANTS
  Ids = {a, b, c}
  MaxTime = 5
  Delays <- MCDelays
  Intervals <- MCIntervals
  ClockJumps <- MCBackJump
  MinInterval = 1
  BatchCallbacks = TRUE
SYMMETRY Symmetry
INVARIANTS TypeOK NotStalled Punctual IndInv
PROPERTY ImplementsTimerPromise
\* A failing cancelHandler or cleanEvent ends the process.
CHECK_DEADLOCK FALSE
