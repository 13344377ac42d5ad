------------------------------ MODULE MCLogging ------------------------------
(* The instance of Logging that TLC checks: the calls of Logger::config and *)
(* of LoggerTest, and others that meet them.                               *)
EXTENDS Logging

CONSTANTS defaultLog, cbeeLog, fatalLog

Call(call, level, type, value) ==
  [call |-> call, level |-> level, type |-> type, value |-> value]

MCEdits ==
  {Call("setGlobally", Global, "Filename", cbeeLog),
   Call("set", Fatal, "Filename", fatalLog),
   Call("set", Global, "Filename", cbeeLog),
   Call("set", Warning, "Enabled", FALSE),
   Call("set", Global, "ToFile", FALSE),
   Call("set", Warning, "ToFile", TRUE),
   Call("set", Global, "LogFlushThreshold", 2)}
=============================================================================
