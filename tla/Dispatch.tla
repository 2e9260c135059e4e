------------------------------- MODULE Dispatch -------------------------------
(***************************************************************************)
(* packages/registry/src/handlers: the verbs that start work on another    *)
(* agent and follow it (mx_dispatch_task, mx_delegate_tool,                *)
(* mx_run_command, mx_await_result, mx_cancel), with the envelope mapping  *)
(* of invocation.ts, handler-fault.ts and errors.ts.                       *)
(*                                                                         *)
(* An operation is one call of a verb by some runtime; operations of       *)
(* several runtimes interleave, and a runtime may die in the middle of     *)
(* one.  A mutating request travels: it may fail at the caller and still   *)
(* be carried out.  Reads are taken when the daemon answers.               *)
(***************************************************************************)
EXTENDS Naturals

CONSTANTS
    Ops,            \* the operations, one call of a verb each
    Tasks,          \* the nodes of the task DAG
    NoTask,
    MaxWait         \* bound: polls that fit in wait_ms

ASSUME DispatchAssumption ==
    /\ NoTask \notin Tasks
    /\ Ops \cap Tasks = {}
    /\ MaxWait \in Nat

VARIABLES
    op,             \* per operation: the verb, its key or handle, where it is
    wire,           \* the operations whose mutating request is on its way
    reply,          \* per operation: the daemon's reply to that request
    node, task,     \* per task: its authored action, and its recorded state
    inv, subject,   \* per idempotency key: the invocation, and the task it serves
    ran             \* the keys whose action was executed

vars == <<op, wire, reply, node, task, inv, subject, ran>>
daemonVars == <<wire, reply, node, task, inv, subject, ran>>

\* The invocation of a key is also named by it: a key is the task of a
\* task-stable key, or the operation that made a fresh one.
Keys == Tasks \cup Ops

\* What task.list says of a node: no such node, no action that can be dispatched,
\* a tool or a guarded command.
Actions == {"missing", "invalid", "tool", "exec"}

Live == {"held", "running"}
InvStates == {"none", "ok", "failed", "denied", "expired", "cancelled"} \cup Live

DenialCodes == {"policy_denied", "untrusted_key", "approval_denied", "approval_expired"}
FaultCodes == {"timeout", "not_found", "invalid_args", "target_offline", "internal"}
Refusals == {"not_found", "untrusted_key"}

\* What the state field of a reply may hold: a token, or the label of a refusal.
Labels == DenialCodes \cup FaultCodes \cup
          {"absent", "completed", "running", "awaiting_approval", "failed", "denied", "cancelled"}

-----------------------------------------------------------------------------
(* Envelopes *)

Pending(status) == [status |-> status, code |-> "none", cancelled |-> FALSE, state |-> "absent"]

\* A success; `cancelled` and `state` are what mx_cancel puts in its payload.
Ok(cancelled, state) ==
    [status |-> "ok", code |-> "none", cancelled |-> cancelled, state |-> state]

\* failureResult: the code decides between denied and error.
FailureResult(code) ==
    [status |-> IF code \in DenialCodes THEN "denied" ELSE "error",
     code |-> code, cancelled |-> FALSE, state |-> "absent"]

IsTerminal(env) == env.status \in {"ok", "denied", "error"}

\* The state tokens a daemon may send for an invocation (external); "absent" is
\* a reply without one.
Tokens(state) ==
    CASE state = "held" -> {"awaiting_approval"}
      [] state = "running" -> {"running", "absent"}
      [] state = "ok" -> {"completed", "absent"}
      [] state = "denied" -> {"denied", "approval_denied"}
      [] state = "expired" -> {"approval_expired"}
      [] state = "none" -> {"not_found"}
      [] OTHER -> {state}

\* failureCode: the state label as a daemon code, else 'internal'.
FailureCode(token) ==
    IF token \in {"approval_denied", "approval_expired", "not_found"}
      THEN token ELSE "internal"

\* INVOCATION_STATE_KIND and the switch over it, for a token that is in the table.
Classify(token) ==
    CASE token \in {"running", "awaiting_approval"} -> Pending(token)
      [] token = "completed" -> Ok(FALSE, "absent")
      [] token = "cancelled" -> FailureResult("internal")
      [] OTHER -> FailureResult(FailureCode(token))

\* Faulty variant: a record without a state token counts as success.
InvocationToResultLax(token) ==
    IF token = "absent" THEN Ok(FALSE, "absent") ELSE Classify(token)

\* invocationToResult: a record without a state token is unrecognised.
InvocationToResult(token) ==
    IF token = "absent" THEN FailureResult("internal") ELSE Classify(token)

\* callResponseToResult: without a token, a result is ok and a handle is running.
CallResponseToResult(token, state) ==
    IF token # "absent" THEN Classify(token)
    ELSE IF state = "ok" THEN Ok(FALSE, "absent") ELSE Pending("running")

-----------------------------------------------------------------------------
NoOp == [verb |-> "none", key |-> NoTask, task |-> NoTask, at |-> "idle", wait |-> 0,
         env |-> Pending("running"), faulted |-> FALSE]
NoReply == [state |-> "none", error |-> "none", stopped |-> FALSE]

Init ==
    /\ op = [o \in Ops |-> NoOp]
    /\ wire = {} /\ reply = [o \in Ops |-> NoReply]
    /\ node \in [Tasks -> Actions]
    /\ task = [t \in Tasks |-> "pending"]
    /\ inv = [k \in Keys |-> "none"]
    /\ subject = [k \in Keys |-> NoTask]
    /\ ran = {}

Goto(o, at) == op' = [op EXCEPT ![o].at = at]
Finish(o, env) == op' = [op EXCEPT ![o].at = "done", ![o].env = env, ![o].wait = 0]

\* The model calls a verb; for the verbs that take one, with any handle.
Issue(o, verb, at, key, t) ==
    /\ op[o].at = "idle"
    /\ \E w \in 0..MaxWait :
         op' = [op EXCEPT ![o] = [NoOp EXCEPT !.verb = verb, !.at = at, !.key = key,
                                              !.task = t, !.wait = w]]
    /\ UNCHANGED daemonVars

\* Faulty variant: every dispatch of a task gets a key of its own.
DispatchKeyFresh(o, t) == o

\* taskDispatchKey: idk_task_<task_id>.
DispatchKey(o, t) == t

DispatchTask(o, t) == Issue(o, "dispatch", "list", DispatchKey(o, t), t)
DelegateTool(o) == Issue(o, "delegate", "tools", o, NoTask)
RunCommand(o) == Issue(o, "exec", "start", o, NoTask)
AwaitResult(o, h) == Issue(o, "await", "await", h, NoTask)
Cancel(o, h) == Issue(o, "cancel", "start", h, NoTask)

\* A session without a room dispatches nothing.
NoRoom(o) ==
    /\ op[o].at = "idle"
    /\ \E verb \in {"dispatch", "delegate", "exec"} :
         op' = [op EXCEPT ![o] = [NoOp EXCEPT !.verb = verb, !.at = "done", !.key = o,
                                              !.env = FailureResult("internal")]]
    /\ UNCHANGED daemonVars

\* mxDispatchTask, phases 2 and 3: resolve the node and its action.
ListRead(o) ==
    /\ op[o].at = "list"
    /\ LET t == op[o].task
       IN \/ node[t] = "missing" /\ Finish(o, FailureResult("not_found"))
          \/ /\ node[t] = "invalid" \/ (node[t] # "missing" /\ task[t] \in {"succeeded", "failed"})
             /\ Finish(o, FailureResult("invalid_args"))
          \/ /\ node[t] \in {"tool", "exec"} /\ task[t] \notin {"succeeded", "failed"}
             /\ Goto(o, IF node[t] = "tool" THEN "tools" ELSE "start")
    /\ UNCHANGED daemonVars

\* mxDelegateTool, phases 1 and 2: the published tool and its input schema.
ToolsRead(o) ==
    /\ op[o].at = "tools"
    /\ \/ Goto(o, "start")
       \/ \E code \in {"not_found", "invalid_args"} : Finish(o, FailureResult(code))
    /\ UNCHANGED daemonVars

\* call.start, exec.start or invocation.cancel is sent.
Send(o) ==
    /\ op[o].at = "start"
    /\ wire' = wire \cup {o}
    /\ Goto(o, "sent")
    /\ UNCHANGED <<reply, node, task, inv, subject, ran>>

\* A start is answered: normalise, and wait inline when asked to.
StartReplied(o) ==
    /\ op[o].at = "sent" /\ op[o].verb # "cancel" /\ reply[o] # NoReply
    /\ IF reply[o].error # "none"
         THEN Finish(o, FailureResult(reply[o].error))
         ELSE \E token \in Tokens(reply[o].state) :
                LET env == CallResponseToResult(token, reply[o].state)
                IN IF IsTerminal(env) \/ op[o].wait = 0 THEN Finish(o, env) ELSE Goto(o, "await")
    /\ UNCHANGED daemonVars

\* Faulty variant: without the flag every acknowledged cancel took effect.
ReadCancelledUnread(r, flagged, token) == flagged => r.stopped

\* readCancelled: the flag if the reply has it, else NOTHING_TO_CANCEL on its state.
ReadCancelled(r, flagged, token) == IF flagged THEN r.stopped ELSE token # "completed"

\* cancelResponseToResult: a fault, {ok: false} or {error} fails with its code; any other
\* reply, one with nothing but a refusal's label too, is an acknowledgement.
CancelReplied(o) ==
    /\ op[o].at = "sent" /\ op[o].verb = "cancel" /\ reply[o] # NoReply
    /\ \/ reply[o].error # "none" /\ Finish(o, FailureResult(reply[o].error))
       \/ \E flagged \in BOOLEAN,
             token \in IF reply[o].error # "none" THEN {reply[o].error} ELSE Tokens(reply[o].state) :
            Finish(o, Ok(ReadCancelled(reply[o], flagged, token), token))
    /\ UNCHANGED daemonVars

\* Faulty variant: a wait that is over is reported as a timeout.
ProbeTimesOut(o) ==
    /\ op[o].at = "await"
    /\ \E token \in Tokens(inv[op[o].key]) :
         LET env == InvocationToResult(token)
         IN IF IsTerminal(env) THEN Finish(o, env)
            ELSE IF op[o].wait = 0 THEN Finish(o, FailureResult("timeout"))
            ELSE op' = [op EXCEPT ![o].wait = @ - 1]
    /\ UNCHANGED daemonVars

\* mxAwaitResult: probe until the state is terminal or wait_ms is over, and then
\* return what the last probe saw.
Probe(o) ==
    /\ op[o].at = "await"
    /\ \E token \in Tokens(inv[op[o].key]) :
         LET env == InvocationToResult(token)
         IN IF IsTerminal(env) \/ op[o].wait = 0 THEN Finish(o, env)
            ELSE op' = [op EXCEPT ![o].wait = @ - 1]
    /\ UNCHANGED daemonVars

\* faultToResult: the call fails in the transport, or the daemon refuses a read.
\* A request that was sent may be on its way still.
FaultsAt(at) == {"timeout", "internal", "invalid_args"} \cup
                (IF at = "sent" THEN {} ELSE {"not_found", "policy_denied", "untrusted_key"})

Fault(o) ==
    /\ op[o].at \in {"list", "tools", "sent", "await"}
    /\ \E code \in FaultsAt(op[o].at) :
         op' = [op EXCEPT ![o].at = "done", ![o].env = FailureResult(code),
                          ![o].wait = 0, ![o].faulted = TRUE]
    /\ wire' \in {wire, wire \ {o}}
    /\ UNCHANGED <<reply, node, task, inv, subject, ran>>

\* The runtime dies.
Die(o) ==
    /\ op[o].at \notin {"idle", "done", "gone"}
    /\ Goto(o, "gone")
    /\ UNCHANGED daemonVars

-----------------------------------------------------------------------------
(* The daemons and the operator (external) *)

Answer(o, state, error, stopped) ==
    reply' = [reply EXCEPT ![o] = [state |-> state, error |-> error, stopped |-> stopped]]

\* A start with a known key is answered from the invocation it already has; a
\* new one is refused, held for approval, started, or carried out at once.
DaemonStart(o) ==
    /\ o \in wire /\ op[o].verb # "cancel"
    /\ wire' = wire \ {o}
    /\ LET k == op[o].key IN
       \/ /\ inv[k] # "none"
          /\ Answer(o, inv[k], "none", FALSE)
          /\ UNCHANGED <<inv, subject, ran>>
       \/ /\ inv[k] = "none"
          /\ \/ Answer(o, "none", "policy_denied", FALSE) /\ UNCHANGED <<inv, subject, ran>>
             \/ \E s \in Live \cup {"ok"} :
                  /\ inv' = [inv EXCEPT ![k] = s]
                  /\ subject' = [subject EXCEPT ![k] = op[o].task]
                  /\ ran' = IF s = "held" THEN ran ELSE ran \cup {k}
                  /\ Answer(o, s, "none", FALSE)
    /\ UNCHANGED <<op, node, task>>

DaemonCancel(o) ==
    /\ o \in wire /\ op[o].verb = "cancel"
    /\ wire' = wire \ {o}
    /\ LET k == op[o].key IN
       \/ inv[k] = "none" /\ Answer(o, "none", "not_found", FALSE) /\ UNCHANGED inv
       \/ inv[k] # "none" /\ Answer(o, "none", "untrusted_key", FALSE) /\ UNCHANGED inv
       \/ /\ inv[k] \in Live
          /\ inv' = [inv EXCEPT ![k] = "cancelled"]
          /\ Answer(o, "cancelled", "none", TRUE)
       \/ /\ inv[k] \notin Live \cup {"none"}
          /\ Answer(o, inv[k], "none", FALSE)
          /\ UNCHANGED inv
    /\ UNCHANGED <<op, node, task, subject, ran>>

\* The operator decides, the action completes.
InvocationStep(k) ==
    /\ \/ /\ inv[k] = "held"
          /\ \E s \in {"running", "denied", "expired"} : inv' = [inv EXCEPT ![k] = s]
       \/ /\ inv[k] = "running"
          /\ \E s \in {"ok", "failed"} : inv' = [inv EXCEPT ![k] = s]
    /\ ran' = IF inv'[k] = "running" THEN ran \cup {k} ELSE ran
    /\ UNCHANGED <<op, wire, reply, node, task, subject>>

\* The task's record follows its invocation, later.
TaskFollows(t) ==
    /\ \E k \in Keys :
         /\ subject[k] = t
         /\ task' = [task EXCEPT ![t] = CASE inv[k] = "running" -> "executing"
                                          [] inv[k] = "ok" -> "succeeded"
                                          [] inv[k] \in {"held", "none"} -> "pending"
                                          [] OTHER -> "failed"]
    /\ UNCHANGED <<op, wire, reply, node, inv, subject, ran>>

-----------------------------------------------------------------------------
Call(o) == \/ \E t \in Tasks : DispatchTask(o, t)
           \/ DelegateTool(o) \/ RunCommand(o) \/ NoRoom(o)
           \/ \E h \in Keys : AwaitResult(o, h) \/ Cancel(o, h)

OpStep(o) == \/ ListRead(o) \/ ToolsRead(o) \/ Send(o) \/ StartReplied(o)
             \/ CancelReplied(o) \/ Probe(o) \/ Fault(o)

DaemonStep == \/ \E o \in Ops : DaemonStart(o) \/ DaemonCancel(o)
              \/ \E k \in Keys : InvocationStep(k)
              \/ \E t \in Tasks : TaskFollows(t)

Next == \/ \E o \in Ops : Call(o) \/ OpStep(o) \/ Die(o)
        \/ DaemonStep

Spec == Init /\ [][Next]_vars

-----------------------------------------------------------------------------
(* Properties *)

Envelopes == [status : {"ok", "denied", "error", "running", "awaiting_approval"},
              code : DenialCodes \cup FaultCodes \cup {"none"}, cancelled : BOOLEAN,
              state : Labels]

TypeOK ==
    /\ op \in [Ops -> [verb : {"none", "dispatch", "delegate", "exec", "await", "cancel"},
                       key : Keys \cup {NoTask}, task : Tasks \cup {NoTask},
                       at : {"idle", "list", "tools", "start", "sent", "await", "done", "gone"},
                       wait : 0..MaxWait, env : Envelopes, faulted : BOOLEAN]]
    /\ wire \subseteq Ops
    /\ reply \in [Ops -> [state : InvStates, error : DenialCodes \cup FaultCodes \cup {"none"},
                          stopped : BOOLEAN]]
    /\ node \in [Tasks -> Actions]
    /\ task \in [Tasks -> {"pending", "executing", "succeeded", "failed"}]
    /\ inv \in [Keys -> InvStates]
    /\ subject \in [Keys -> Tasks \cup {NoTask}]
    /\ ran \subseteq Keys

\* "makes a re-dispatch on restart dedupe rather than double-execute": however the
\* reads and starts of several runtimes interleave, and whatever dies or times out
\* in between, the action of a task runs at most once.
TaskRunsOnce == \A j, k \in ran : subject[j] = subject[k] /\ subject[j] # NoTask => j = k

Returned(o, status) == op[o].at = "done" /\ op[o].env.status = status

\* What an envelope says of the work is true of it: a success was carried out, what
\* the operator denied never was, and a handle names an invocation that exists.
TruthfulEnvelope ==
    \A o \in Ops : op[o].verb # "cancel" =>
      /\ Returned(o, "ok") => inv[op[o].key] = "ok"
      /\ Returned(o, "denied") /\ op[o].env.code \in {"approval_denied", "approval_expired"} =>
           inv[op[o].key] \in {"denied", "expired"} /\ op[o].key \notin ran
      /\ Returned(o, "running") \/ Returned(o, "awaiting_approval") => inv[op[o].key] # "none"

\* "a wait_ms expiry is NOT an error": a timeout is reported only when a call failed.
ExpiryIsPending ==
    \A o \in Ops : Returned(o, "error") /\ op[o].env.code = "timeout" => op[o].faulted

\* What an acknowledged cancel means, given the daemon's reply and the invocation now:
\* the work is over for good, a cancel that stopped it says so, and one that claims to
\* have stopped it is not about work that had succeeded, unless the reply named no
\* state.  The exception is in the payload: a refusal sent as a bare state label.
CancelSays(env, r, state) ==
    \/ env.state \in Refusals
    \/ /\ state \notin Live \cup {"none"}
       /\ r.stopped => env.cancelled
       /\ env.cancelled /\ env.state # "absent" => state # "ok"

\* mx_cancel racing the completion, the approval and other cancels of the invocation,
\* with or without the `cancelled` flag in the reply.
CancelFinal ==
    \A o \in Ops : op[o].verb = "cancel" /\ Returned(o, "ok") =>
      CancelSays(op[o].env, reply[o], inv[op[o].key])
=============================================================================
