---------------------------- MODULE MCIpcClient ----------------------------
(* Small instances of IpcClient. *)
EXTENDS IpcClient, TLC

Symmetry == Permutations(Conns)
=============================================================================
