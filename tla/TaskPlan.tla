------------------------------- MODULE TaskPlan -------------------------------
(***************************************************************************)
(* The pure part of the task verbs: registry/src/handlers/task-action.ts   *)
(* and task-projection.ts, create-task.ts (buildActionParam), and          *)
(* toolbelt/src/plan-snapshot.ts (deriveEdges, reconcile).                 *)
(*                                                                         *)
(* A projected plan is a function from the ids that were listed to nodes   *)
(* with a state, depends_on, blocks and an action.                         *)
(***************************************************************************)
EXTENDS Naturals

CONSTANTS
    Texts, NoText,          \* strings, and the empty one
    Objects, NoFields,      \* JSON objects, and the empty one
    Arrays, NoItems,        \* arrays of strings, and the empty one
    Absent                  \* a field that is not there

ASSUME JsonAssumption ==
    /\ NoText \in Texts /\ NoFields \in Objects /\ NoItems \in Arrays
    /\ Objects \cap Arrays = {}
    /\ Absent \notin Texts \cup Objects \cup Arrays

-----------------------------------------------------------------------------
(* Task states *)

\* TASK_STATE_MAP, by one synonym for every state.
TaskStateMap ==
    [proposed |-> "proposed", created |-> "proposed",
     pending |-> "pending", blocked |-> "pending",
     assigned |-> "assigned", claimed |-> "assigned",
     executing |-> "executing", in_progress |-> "executing",
     succeeded |-> "succeeded", done |-> "succeeded",
     failed |-> "failed", cancelled |-> "failed"]

TaskStates == {"proposed", "pending", "assigned", "executing", "succeeded", "failed"}

\* mapTaskState, mapResumedTaskState: a token outside the table is 'unknown'.
MapTaskState(token) ==
    IF token \in DOMAIN TaskStateMap THEN TaskStateMap[token] ELSE "unknown"

-----------------------------------------------------------------------------
(* Actions *)

\* TaskAction, as the model gives it and as a projected node carries it.
TaskActions ==
    [kind : {"tool", "exec"}, tool : Texts \cup {Absent}, args : Objects \cup {Absent},
     command : Texts \cup {Absent}, command_args : Arrays \cup {Absent},
     cwd : Texts \cup {Absent}]

\* The `action` of a task record on the wire: one `args` for either kind.
WireActions ==
    [kind : {"tool", "exec"}, tool : Texts \cup {Absent}, command : Texts \cup {Absent},
     args : Objects \cup Arrays \cup {Absent}, cwd : Texts \cup {Absent}]

ASSUME ActionAssumption == Absent \notin TaskActions \cup WireActions

Default(x, d) == IF x = Absent THEN d ELSE x

Named(x) == x \notin {Absent, NoText}

Dispatchable(a) == IF a.kind = "exec" THEN Named(a.command) ELSE Named(a.tool)

\* actionToDispatch, of an action that is dispatchable.
ActionToDispatch(a) ==
    IF a.kind = "exec"
      THEN [mode |-> "exec", name |-> a.command, args |-> Default(a.command_args, NoItems),
            cwd |-> a.cwd]
      ELSE [mode |-> "tool", name |-> a.tool, args |-> Default(a.args, NoFields),
            cwd |-> Absent]

\* dispatchToCreateActionParam: the wire has one `args`, and none when it is empty.
DispatchToCreateActionParam(d) ==
    [kind |-> d.mode,
     tool |-> IF d.mode = "tool" THEN d.name ELSE Absent,
     command |-> IF d.mode = "exec" THEN d.name ELSE Absent,
     args |-> IF d.args \in {NoFields, NoItems} THEN Absent ELSE d.args,
     cwd |-> d.cwd]

\* buildActionParam, of an action that cannot be dispatched: its declared fields, where
\* command_args is spread last and overwrites args.
DeclaredFields(a) ==
    [kind |-> a.kind, tool |-> a.tool, command |-> a.command,
     args |-> Default(a.command_args, a.args), cwd |-> a.cwd]

BuildActionParam(a) ==
    IF Dispatchable(a) THEN DispatchToCreateActionParam(ActionToDispatch(a))
    ELSE DeclaredFields(a)

\* Faulty variant: only the input's own spelling of the argv is read.
ProjectActionStrict(w) ==
    [kind |-> w.kind, tool |-> w.tool,
     args |-> IF w.args \in Objects THEN w.args ELSE Absent,
     command |-> w.command, command_args |-> Absent, cwd |-> w.cwd]

\* projectAction: an exec action's argv comes back as `args`.
ProjectAction(w) ==
    [kind |-> w.kind, tool |-> w.tool,
     args |-> IF w.args \in Objects THEN w.args ELSE Absent,
     command |-> w.command,
     command_args |-> IF w.kind = "exec" /\ w.args \in Arrays THEN w.args ELSE Absent,
     cwd |-> w.cwd]

\* What mx_dispatch_task would run for a node with action a.
Dispatch(a) == IF Dispatchable(a) THEN <<ActionToDispatch(a)>> ELSE <<>>

-----------------------------------------------------------------------------
(* Edges *)

Edge(from, to, kind) == [from |-> from, to |-> to, kind |-> kind]

\* deriveEdges, of the registry and of the toolbelt.
DeriveEdges(nodes) ==
    UNION {{Edge(t, d, "depends_on") : d \in nodes[t].depends_on}
             \cup {Edge(t, b, "blocks") : b \in nodes[t].blocks} : t \in DOMAIN nodes}

\* Faulty variant: the answer of task.graph, if any, is all there is.
MergeEdgesGraphOnly(derived, raw) == raw

\* mergeEdges.
MergeEdges(derived, raw) == derived \cup raw

-----------------------------------------------------------------------------
(* Reconciliation *)

Terminal == {"succeeded", "failed"}
InFlight == {"executing", "assigned"}

\* Faulty variant: a prerequisite that has ended is taken for one that succeeded.
SucceededOrFailed(nodes) == {t \in DOMAIN nodes : nodes[t].state \in Terminal}

Succeeded(nodes) == {t \in DOMAIN nodes : nodes[t].state = "succeeded"}

\* reconcile.
Reconcile(nodes) ==
    LET actionable == {t \in DOMAIN nodes : nodes[t].state \notin Terminal \cup InFlight}
        ready == {t \in actionable : nodes[t].depends_on \subseteq Succeeded(nodes)}
    IN [done |-> {t \in DOMAIN nodes : nodes[t].state \in Terminal},
        inFlight |-> {t \in DOMAIN nodes : nodes[t].state \in InFlight},
        ready |-> ready,
        blocked |-> actionable \ ready]
=============================================================================
