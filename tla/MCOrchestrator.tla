---------------------------- MODULE MCOrchestrator ----------------------------
(* Small instances of Orchestrator. *)
EXTENDS Orchestrator

\* A chain with every kind of phase: plain, loop, review and conditional.
ShortChain == <<"implement", "resolve", "review", "patch", "document">>
=============================================================================
