---------------------------- MODULE MCTimerQueue ----------------------------
(* Instances of TimerQueue for TLC.                                        *)
EXTENDS TimerQueue, TLC

(* Ids are only compared with each other.                                  *)
Symmetry == Permutations(Ids)

(* Deadlines already past, at once and ahead; handlers that repeat after 2.*)
MCDelays == {-1, 0, 1, 3}
MCIntervals == {0, 2}

(* The clock set back.                                                     *)
MCBackJump == {-2}
=============================================================================
