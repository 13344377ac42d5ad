---------------------------- MODULE MCIoManager ----------------------------
(* Instances of IoManager for TLC.                                         *)
EXTENDS IoManager, TLC

(* Clients are interchangeable, and so are the functors that do not quit.  *)
Symmetry ==
  Permutations(Clients) \cup Permutations(Functors \ QuitFunctors)
=============================================================================
