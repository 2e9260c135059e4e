----------------------------- MODULE MCTaskWatch -----------------------------
(* Small instances of TaskWatch. *)
EXTENDS TaskWatch
=============================================================================
