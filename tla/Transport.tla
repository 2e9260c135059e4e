------------------------------ MODULE Transport ------------------------------
(***************************************************************************)
(* What any MxTransport promises its caller about one request: the call    *)
(* settles once, with a result or with one code of the closed taxonomy     *)
(* IpcErrorCode; the daemon runs the request at most once; an answer       *)
(* (result or JSON-RPC error) is the answer of that run; and 'not_running' *)
(* means that the request never ran and never will, which is what lets the *)
(* unified client send it again over the other transport.                  *)
(***************************************************************************)
EXTENDS Naturals

CONSTANT Calls

VARIABLES
    status,     \* [Calls -> {"idle", "open"} \cup Codes]
    executed    \* [Calls -> Nat]: how often the daemon ran the request

vars == <<status, executed>>

\* IpcErrorCode, plus "ok" for a resolved promise.
Codes == {"ok", "rpc", "protocol", "frame", "timeout",
          "connect_failed", "not_running", "closed"}

Init == /\ status = [c \in Calls |-> "idle"]
        /\ executed = [c \in Calls |-> 0]

Issue(c) == /\ status[c] = "idle"
            /\ status' = [status EXCEPT ![c] = "open"]
            /\ UNCHANGED executed

\* A request may still run after its caller gave up on it.
Execute(c) == /\ status[c] \notin {"idle", "not_running"}
              /\ executed[c] = 0
              /\ executed' = [executed EXCEPT ![c] = 1]
              /\ UNCHANGED status

\* One event settles one call, or every call that shared the connection.
Settle(S, code) == /\ \A c \in S : /\ status[c] = "open"
                                   /\ code \in {"ok", "rpc"} => executed[c] = 1
                                   /\ code = "not_running" => executed[c] = 0
                   /\ status' = [c \in Calls |-> IF c \in S THEN code ELSE status[c]]
                   /\ UNCHANGED executed

Next == \/ \E c \in Calls : Issue(c) \/ Execute(c)
        \/ \E S \in SUBSET Calls, code \in Codes : Settle(S, code)

Spec == Init /\ [][Next]_vars
=============================================================================
