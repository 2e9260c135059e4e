----------------------------- MODULE MCBinding -----------------------------
(* A small instance of Binding. *)
EXTENDS Binding
=============================================================================
