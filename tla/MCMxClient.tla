----------------------------- MODULE MCMxClient -----------------------------
(* Small instances of MxClient. *)
EXTENDS MxClient, TLC

Symmetry == Permutations(Reqs)
=============================================================================
