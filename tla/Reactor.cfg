\* Two peers, an Acceptor, room for two connections; everybody destroys.
SPECIFICATION FairSpec
CONSTANTS
  Peers = {p, q}
  Fds = {3, 4, 5}
  Connections = {a, b}
  Listener = listener
  ListenSocket = listening
  OtherSocket = other
  Nothing = nothing
  Destroyers = {"remove", "accept", "thread"}
  InitialActiveEventsSize = 1
INVARIANTS TypeOK OneOwner ReportStillTrue DanglingOnlyStrays NoCallInVain IndInv
PROPERTIES ImplementsConnectionLife BacklogServed HangUpServed ErrorServed
\* The process ends when a system call fails.
CHECK_DEADLOCK FALSE
