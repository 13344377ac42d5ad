----------------------------- MODULE MCIoTimers -----------------------------
(* Instances of IoTimers for TLC.                                          *)
EXTENDS IoTimers, TLC

(* Threads and ids are only compared with each other.                      *)
Symmetry == Permutations(Clients) \cup Permutations(Ids)

MCDelays == {0, 2}
MCLateDelays == -MaxTime .. MaxTime + 2
MCIntervals == {0, 2}
MCJumps == {-2, 2}
MCForwardJump == {2}
=============================================================================
