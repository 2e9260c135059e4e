------------------------------- MODULE Binding -------------------------------
(***************************************************************************)
(* What a host adds to the verbs: a session of its own, the approval hook  *)
(* of the Claude shim, the hidden poll loop, the audit tap, and the        *)
(* shutdown of the MCP server.  Three hosts share this path: "claude"      *)
(* (packages/claude), "mcp" (packages/mcp) and "pi" (packages/pi).         *)
(*                                                                         *)
(* What a verb does at the daemon is the subject of Dispatch; here it only *)
(* returns an envelope with a status.                                      *)
(***************************************************************************)
EXTENDS Session

CONSTANT Calls          \* tool calls of the model

\* A prompted verb, a verb that is allowed at once, a name that is no verb,
\* and arguments the verb's schema rejects.
Requests == {"prompted", "observe", "unknown", "invalid"}
Terminal == {"ok", "denied", "error"}
Statuses == Terminal \cup {"running", "awaiting_approval"}

VARIABLES
    host,       \* "claude", "mcp" or "pi"
    process,    \* "serving", "stopping" (after the first signal) or "exited"
    blocking,   \* ResolveOptions.awaitApproval
    request,    \* [Calls -> Requests]
    stage,      \* [Calls -> where the call is]
    operator,   \* [Calls -> the operator's answer: "none", "asked", "allow", "deny" or "late"]
    aborted,    \* [Calls -> BOOLEAN]: the turn was cancelled
    status,     \* [Calls -> the envelope's status, or "none"]
    rows,       \* [Calls -> the statuses of the call's audit rows]
    lost        \* [Calls -> BOOLEAN]: the sink threw

callVars == <<stage, operator, aborted, status, rows, lost>>
bindingVars == <<sessionVars, host, process, blocking, request, callVars>>

BindingInit ==
    /\ SessionInit
    /\ host \in {"claude", "mcp", "pi"}
    /\ process = "serving"
    /\ blocking \in BOOLEAN
    /\ host # "claude" => ~blocking
    /\ request \in [Calls -> Requests]
    /\ host # "mcp" => \A c \in Calls : request[c] # "unknown"
    /\ stage = [c \in Calls |-> "idle"]
    /\ operator = [c \in Calls |-> "none"]
    /\ aborted = [c \in Calls |-> FALSE]
    /\ status = [c \in Calls |-> "none"]
    /\ rows = [c \in Calls |-> {}]
    /\ lost = [c \in Calls |-> FALSE]

\* The tools exist once the context has its session.
Ready == process = "serving" /\ phase \in {"active", "closing", "closed"}

Move(c, s) == stage' = [stage EXCEPT ![c] = s]

Fixed == UNCHANGED <<sessionVars, host, process, blocking, request>>

-----------------------------------------------------------------------------
(* canUseTool (claude) *)

\* Only a prompted verb asks, and not in a turn that is already cancelled.
CanUseTool(c) ==
    /\ host = "claude" /\ Ready /\ stage[c] = "idle"
    /\ CASE request[c] # "prompted" -> Move(c, "allowed") /\ UNCHANGED operator
         [] request[c] = "prompted" /\ aborted[c] -> Move(c, "refused") /\ UNCHANGED operator
         [] OTHER -> Move(c, "prompt") /\ operator' = [operator EXCEPT ![c] = "asked"]
    /\ Fixed /\ UNCHANGED <<aborted, status, rows, lost>>

\* The operator answers, perhaps after the prompt has been abandoned.
Decide(c, d) ==
    /\ operator[c] = "asked"
    /\ operator' = [operator EXCEPT ![c] = IF stage[c] = "prompt" THEN d ELSE "late"]
    /\ Move(c, IF stage[c] = "prompt" THEN IF d = "allow" THEN "allowed" ELSE "refused"
               ELSE stage[c])
    /\ Fixed /\ UNCHANGED <<aborted, status, rows, lost>>

\* onApprovalRequest rejects, and so does the hook: the call is not made.
PromptFails(c) ==
    /\ stage[c] = "prompt"
    /\ Move(c, "refused")
    /\ operator' = [operator EXCEPT ![c] = "late"]
    /\ Fixed /\ UNCHANGED <<aborted, status, rows, lost>>

\* Faulty variant: the hook only tests for 'deny'.
AbortAllows(c) ==
    /\ host = "claude" /\ ~aborted[c]
    /\ aborted' = [aborted EXCEPT ![c] = TRUE]
    /\ Move(c, IF stage[c] = "prompt" THEN "allowed" ELSE stage[c])
    /\ Fixed /\ UNCHANGED <<operator, status, rows, lost>>

\* The turn is cancelled: withAbort ends a pending prompt with a refusal.
Abort(c) ==
    /\ host = "claude" /\ ~aborted[c]
    /\ aborted' = [aborted EXCEPT ![c] = TRUE]
    /\ Move(c, IF stage[c] = "prompt" THEN "refused" ELSE stage[c])
    /\ Fixed /\ UNCHANGED <<operator, status, rows, lost>>

-----------------------------------------------------------------------------
(* The tool handler: dispatchCall, resolveDeferred, tap, serialize *)

\* The verb is called, unless there is none, or pi's preflight rejects its arguments.
Dispatch(c) ==
    /\ process = "serving"
    /\ \/ host = "claude" /\ stage[c] = "allowed"
       \/ host # "claude" /\ Ready /\ stage[c] = "idle"
    /\ IF request[c] = "unknown" \/ (host = "pi" /\ request[c] = "invalid")
       THEN Move(c, "tap") /\ status' = [status EXCEPT ![c] = "error"]
       ELSE Move(c, "verb") /\ UNCHANGED status
    /\ Fixed /\ UNCHANGED <<operator, aborted, rows, lost>>

\* The pending results that the Claude shim polls.
Resolves(s) == host = "claude" /\ (s = "running" \/ (s = "awaiting_approval" /\ blocking))

Outcomes(c) == IF request[c] = "invalid" THEN {"error"} ELSE Statuses

\* Faulty variant: the tap comes before the poll loop.
HandlerTapsFirst(c, s) ==
    /\ stage[c] = "verb" /\ process # "exited"
    /\ s \in Outcomes(c)
    /\ status' = [status EXCEPT ![c] = s]
    /\ rows' = [rows EXCEPT ![c] = @ \cup {s}]
    /\ Move(c, IF Resolves(s) THEN "poll" ELSE "tap")
    /\ Fixed /\ UNCHANGED <<operator, aborted, lost>>

\* The verb returns its envelope.
HandlerReturns(c, s) ==
    /\ stage[c] = "verb" /\ process # "exited"
    /\ s \in Outcomes(c)
    /\ status' = [status EXCEPT ![c] = s]
    /\ Move(c, IF Resolves(s) THEN "poll" ELSE "tap")
    /\ Fixed /\ UNCHANGED <<operator, aborted, rows, lost>>

\* mx_await_result ends with a terminal envelope or, out of budget, a pending one.
Resolved(c, s) ==
    /\ stage[c] = "poll" /\ process # "exited"
    /\ status' = [status EXCEPT ![c] = s]
    /\ Move(c, "tap")
    /\ Fixed /\ UNCHANGED <<operator, aborted, rows, lost>>

\* The response of a server that has been closed goes nowhere.
Respond(c) == Move(c, IF process = "serving" THEN "returned" ELSE "dropped")

\* auditRowFrom: of the envelope, the row keeps what a property here can tell apart.
Row(c) == status[c]

\* INSERT ... ON CONFLICT (dedup_key) DO NOTHING, where the key is the call and its status.
Insert(c) == rows' = [rows EXCEPT ![c] = @ \cup {Row(c)}]

\* The row is in the index, and the envelope is returned as it is.
Tap(c) ==
    /\ stage[c] = "tap" /\ process # "exited"
    /\ Insert(c)
    /\ Respond(c)
    /\ Fixed /\ UNCHANGED <<operator, aborted, status, lost>>

\* The sink throws, before or after it wrote; the envelope is returned all the same.
TapFails(c) ==
    /\ stage[c] = "tap" /\ process # "exited"
    /\ lost' = [lost EXCEPT ![c] = TRUE]
    /\ UNCHANGED rows \/ Insert(c)
    /\ Respond(c)
    /\ Fixed /\ UNCHANGED <<operator, aborted, status>>

-----------------------------------------------------------------------------
(* Lifecycle *)

\* claude, pi: the host closes the context, with calls under way or not.
CloseContext ==
    /\ host # "mcp" /\ process = "serving"
    /\ Close
    /\ UNCHANGED <<host, process, blocking, request, callVars>>

\* mcp: a signal or the end of stdin; a second one finds `closing` set.
Shutdown ==
    /\ host = "mcp" /\ process = "serving" /\ phase = "active"
    /\ process' = "stopping"
    /\ UNCHANGED <<sessionVars, host, blocking, request, callVars>>

\* The server is closed, then the context.
ShutdownCloses ==
    /\ process = "stopping"
    /\ Close
    /\ UNCHANGED <<host, process, blocking, request, callVars>>

Halt == /\ process' = "exited"
        /\ ProcessEnds
        /\ UNCHANGED <<host, blocking, request, callVars>>

\* process.exit: after the shutdown, or because the session could not be opened.
Exit == /\ host = "mcp" /\ process # "exited"
        /\ (process = "stopping" /\ phase = "closed") \/ phase = "failed"
        /\ Halt

\* The process is killed, or a signal comes before its handlers are installed.
Kill == process # "exited" /\ Halt

CallStep(c) ==
    \/ CanUseTool(c) \/ PromptFails(c) \/ Abort(c)
    \/ \E d \in {"allow", "deny"} : Decide(c, d)
    \/ Dispatch(c)
    \/ \E s \in Statuses : HandlerReturns(c, s) \/ Resolved(c, s)
    \/ Tap(c) \/ TapFails(c)

BindingNext ==
    \/ SessionStep /\ UNCHANGED <<host, process, blocking, request, callVars>>
    \/ \E c \in Calls : CallStep(c)
    \/ CloseContext \/ Shutdown \/ ShutdownCloses \/ Exit \/ Kill

BindingSpec == BindingInit /\ [][BindingNext]_bindingVars

FairBindingSpec ==
    /\ BindingSpec
    /\ SessionFairness
    /\ WF_bindingVars(ShutdownCloses)
    /\ WF_bindingVars(Exit)

-----------------------------------------------------------------------------
(* Properties *)

Dispatched == {"verb", "poll", "tap", "returned", "dropped"}

\* The Claude shim calls a prompted verb only on the operator's word, given while
\* the prompt was open: a cancelled turn, a late answer or a failing prompt is none.
GateHolds ==
    \A c \in Calls :
        host = "claude" /\ request[c] = "prompted" /\ stage[c] \in Dispatched
            => operator[c] = "allow"

\* A returned envelope has one audit row, with the status the model got; only a
\* throwing sink may cost the row, and a call that was not made has none.
OneRowPerResult ==
    \A c \in Calls :
        /\ stage[c] = "returned" => rows[c] = {status[c]} \/ (lost[c] /\ rows[c] = {})
        /\ stage[c] = "refused" => rows[c] = {}

\* After close(), a failed open, a shutdown or the death of the process, close
\* completes and the agent goes stale or is gone for good: no tick revives it,
\* also not one that was under way or is carried out late.
GoneAfterClose ==
    phase \in {"closing", "failed", "dead"} \/ process = "stopping"
        ~> [](phase \in {"closed", "failed", "dead"} /\ listed # "active")

=============================================================================
