--------------------------- MODULE MCOpencodeRunner ---------------------------
(* Small instances of OpencodeRunner. *)
EXTENDS OpencodeRunner
=============================================================================
