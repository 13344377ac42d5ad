\* Two levels, three files, every configuration of up to two calls.
SPECIFICATION Spec
CONSTANTS
  Levels = {fatal, warning}
  Global = global
  Fatal = fatal
  Warning = warning
  defaultLog = defaultLog
  cbeeLog = cbeeLog
  fatalLog = fatalLog
  DefaultLogFile = defaultLog
  Files = {defaultLog, cbeeLog, fatalLog}
  Edits <- MCEdits
  MaxEdits = 2
  MaxLines = 3
INVARIANTS TypeOK DoesAsAsked InOrder NothingLost NothingHeldBack
\* The process may have aborted.
CHECK_DEADLOCK FALSE
