------------------------------ MODULE CliClient ------------------------------
(***************************************************************************)
(* packages/toolbelt/src/cli/client.ts: the fallback transport, one        *)
(* `mx-agent ... --json` subprocess per call.  The timer, the child's      *)
(* 'error' and 'close' events and the output cap race; `settle` lets the   *)
(* first one through.                                                      *)
(***************************************************************************)
EXTENDS Naturals

CONSTANT Calls

VARIABLES
    status,     \* per call: "idle", "open" or the code it settled with
    executed,   \* per call: whether the daemon took the child's request (0 or 1)
    child,      \* per call: the subprocess
    overflow    \* the calls whose output passed MAX_FRAME_BYTES

vars == <<status, executed, child, overflow>>

Init == /\ status = [c \in Calls |-> "idle"]
        /\ executed = [c \in Calls |-> 0]
        /\ child = [c \in Calls |-> "none"]
        /\ overflow = {}

\* settle(): only the first outcome counts.
Settled(c, code) == IF status[c] = "open" THEN [status EXCEPT ![c] = code] ELSE status

\* call(): the argument guard and the argv mapping reject before anything is spawned.
Refuse(c) == /\ status[c] = "idle"
             /\ status' = [status EXCEPT ![c] = "invalid_args"]
             /\ child' = [child EXCEPT ![c] = "failed"]
             /\ UNCHANGED <<executed, overflow>>

Spawn(c) == /\ status[c] = "idle"
            /\ status' = [status EXCEPT ![c] = "open"]
            /\ child' = [child EXCEPT ![c] = "running"]
            /\ UNCHANGED <<executed, overflow>>

\* spawn() throws or the child emits 'error': no binary is 'not_running', any
\* other cause 'connect_failed'.  No request has left.
SpawnError(c, code) == /\ child[c] = "running" /\ executed[c] = 0
                       /\ child' = [child EXCEPT ![c] = "failed"]
                       /\ status' = Settled(c, code)
                       /\ UNCHANGED <<executed, overflow>>

\* The child's request reaches the daemon; killing the child does not recall it.
Execute(c) == /\ child[c] \in {"running", "killed"} /\ executed[c] = 0
              /\ executed' = [executed EXCEPT ![c] = 1]
              /\ UNCHANGED <<status, child, overflow>>

\* capture(): too much output marks the call and kills the child.
Overflow(c) == /\ child[c] = "running" /\ c \notin overflow
               /\ overflow' = overflow \cup {c}
               /\ child' = [child EXCEPT ![c] = "killed"]
               /\ UNCHANGED <<status, executed>>

Timeout(c) == /\ child[c] \in {"running", "killed"} /\ status[c] = "open"
              /\ child' = [child EXCEPT ![c] = "killed"]
              /\ status' = Settled(c, "timeout")
              /\ UNCHANGED <<executed, overflow>>

\* Faulty variant: what was captured before the kill is read like any output.
ExitCodesOverflown(c) == {"ok", "rpc", "protocol"}

\* normalizeExit: a JSON-RPC error on either stream is 'rpc', exit 0 with JSON is
\* the result, the rest is 'protocol'; an overflow is 'protocol' whatever the
\* output.  Whether the child ever reached the daemon is not looked at.
ExitCodes(c) == IF c \in overflow THEN {"protocol"} ELSE {"ok", "rpc", "protocol"}

Exit(c) == /\ child[c] \in {"running", "killed"}
           /\ child' = [child EXCEPT ![c] = "exited"]
           /\ \E code \in ExitCodes(c) : status' = Settled(c, code)
           /\ UNCHANGED <<executed, overflow>>

\* The events of one subprocess, after call() returned its promise.
ChildStep(c) == \/ Execute(c) \/ Overflow(c) \/ Timeout(c) \/ Exit(c)
                \/ \E code \in {"not_running", "connect_failed"} : SpawnError(c, code)
=============================================================================
