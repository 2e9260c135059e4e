---------------------------- MODULE MCPhaseRunner ----------------------------
(* A small instance of PhaseRunner. *)
EXTENDS PhaseRunner
=============================================================================
