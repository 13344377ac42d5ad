------------------------------ MODULE MCReactor ------------------------------
(* The instance of Reactor that TLC checks.                                *)
EXTENDS Reactor
=============================================================================
