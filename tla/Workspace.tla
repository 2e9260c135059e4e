------------------------------- MODULE Workspace -------------------------------
(***************************************************************************)
(* packages/registry/src/handlers: the verbs that read and write what the  *)
(* daemon keeps about a workspace room.  The task DAG: mx_create_task,     *)
(* mx_update_task, mx_list_tasks, and toolbelt/src/plan-snapshot.ts        *)
(* (reconstructPlan).  The artifacts: mx_share_context, mx_get_context.    *)
(* The agents: mx_find_agents, mx_describe_agent, mx_workspace_status.     *)
(*                                                                         *)
(* A behaviour is one call of a verb.  The room belongs to every runtime   *)
(* in it, so what a read returned may have changed by the next one; every  *)
(* request may fail, and a write that failed may still be carried out.     *)
(***************************************************************************)
EXTENDS TaskPlan, FiniteSets

CONSTANTS
    Tasks, NoTask,          \* task ids, and no record under an id
    Plans,                  \* the plans a call may find
    Records,                \* the task records other runtimes write meanwhile
    CreateInputs(_),        \* what mx_create_task is asked for, given the plan
    UpdateInputs(_),        \* and mx_update_task
    Filters,                \* the states mx_list_tasks is asked for
    Contexts,               \* artifact ids
    Agents, Gone,           \* agent ids, and no agent under an id
    Tools, Capabilities,
    MaxChanges              \* bound: changes by other runtimes during the call

NoPlan == [t \in Tasks |-> NoTask]

\* A task record has these fields.
TaskFields == {"state", "depends_on", "blocks", "action"}

ASSUME WorkspaceAssumption ==
    /\ Absent \notin Tasks \cup Contexts
    /\ NoPlan \in Plans
    /\ \A r \in Records : TaskFields \subseteq DOMAIN r
    /\ \A p \in Plans, t \in Tasks : p[t] = NoTask \/ TaskFields \subseteq DOMAIN p[t]
    /\ \A p \in Plans : /\ p = [t \in Tasks |-> p[t]]
                        /\ \A i \in CreateInputs(p) : i.action \in TaskActions \cup {Absent}
    /\ MaxChanges \in Nat

VARIABLES
    tasks, shared, agents,  \* what the daemon keeps
    mirrored,               \* its rows show `blocks` as the other task's depends_on
    rowTools,               \* its agent.list rows name the tools
    call, got, result,      \* the call, what it has read, what it returned
    wire, stored,           \* its mutating request, and the id that got written
    seen, changes           \* what the others made of the room since the call began

daemonVars == <<mirrored, rowTools>>
vars == <<tasks, shared, agents, mirrored, rowTools, call, got, result, wire, stored,
          seen, changes>>

-----------------------------------------------------------------------------
(* Envelopes *)

DenialCodes == {"policy_denied", "untrusted_key"}

FailureResult(code) ==
    [status |-> IF code \in DenialCodes THEN "denied" ELSE "error", code |-> code]

\* DAEMON_CODE_TO_ERROR, by the codes these verbs meet; "quota" stands for one that
\* is not in the table.
DaemonCodeToError ==
    [policy_denied |-> "policy_denied", unknown_key |-> "untrusted_key",
     not_found |-> "not_found", unknown_agent |-> "not_found",
     no_such_context |-> "not_found", invalid_params |-> "invalid_args"]

MapDaemonError(code) ==
    IF code \in DOMAIN DaemonCodeToError THEN DaemonCodeToError[code] ELSE "internal"

\* mapTransportError.
MapTransportError(code) == IF code \in {"timeout", "invalid_args"} THEN code ELSE "internal"

\* faultToResult: a JSON-RPC error goes by the daemon's own code.
FaultToResult(code, cause) ==
    FailureResult(IF code = "rpc" THEN MapDaemonError(cause) ELSE MapTransportError(code))

\* How a request fails in the transport, other than with rpc and the credential guard's
\* invalid_args, by one code for each outcome.
TransportCodes == {"timeout", "closed"}

-----------------------------------------------------------------------------
(* What the daemon says (external) *)

Present(plan) == {t \in Tasks : plan[t] # NoTask}

\* The tasks that have to succeed before t.
Prerequisites(plan, t) == plan[t].depends_on \cup {u \in Present(plan) : t \in plan[u].blocks}

\* What the daemon means by a state token.
Means(token) ==
    CASE token \in {"proposed", "created"} -> "proposed"
      [] token \in {"pending", "blocked"} -> "pending"
      [] token \in {"assigned", "claimed"} -> "assigned"
      [] token \in {"executing", "in_progress"} -> "executing"
      [] token \in {"succeeded", "done"} -> "succeeded"
      [] token \in {"failed", "cancelled"} -> "failed"
      [] OTHER -> "unknown"

\* The rows of task.list.
TaskRows(plan, filter) ==
    [t \in {u \in Present(plan) : filter \in {Absent, Means(plan[u].state)}} |->
        [plan[t] EXCEPT !.depends_on = IF mirrored THEN Prerequisites(plan, t) ELSE @]]

\* The edges of task.graph.
GraphEdges(plan) == DeriveEdges(TaskRows(plan, Absent))

\* The rows of agent.list, and what agent.tools says of one agent.
AgentRows(dir) ==
    [a \in {b \in Agents : dir[b] # Gone} |->
        [dir[a] EXCEPT !.tools = IF rowTools THEN @ ELSE {}]]

-----------------------------------------------------------------------------
(* Projections *)

\* projectTaskNode, projectResumedTask.
ProjectTaskNode(row) ==
    [state |-> MapTaskState(row.state), depends_on |-> row.depends_on,
     blocks |-> row.blocks,
     action |-> IF row.action = Absent THEN Absent ELSE ProjectAction(row.action)]

ProjectTaskNodes(rows) == [t \in DOMAIN rows |-> ProjectTaskNode(rows[t])]

\* What projectTaskNode makes of an object that is not a task record.
EmptyNode == [state |-> "unknown", depends_on |-> {}, blocks |-> {}, action |-> Absent]

\* Faulty variant: a liveness that was not reported counts as alive.
ReadLivenessOpen(x) == IF x \in {"stale", "offline"} THEN x ELSE "active"

\* readLiveness: fails closed.
ReadLiveness(x) == IF x \in {"active", "stale", "offline"} THEN x ELSE "offline"

\* projectAgentSummary.
ProjectAgentSummaries(rows) ==
    [a \in DOMAIN rows |-> [liveness |-> ReadLiveness(rows[a].live), caps |-> rows[a].caps]]

\* readToolNames: an empty array says nothing.
ReadToolNames(names) == IF names = {} THEN Absent ELSE names

-----------------------------------------------------------------------------
(* The call *)

Idle == [verb |-> "none", at |-> "idle"]
Nothing == [read |-> "nothing"]
NoRows == [read |-> "no rows", nodes |-> <<>>]
NoResult == [status |-> "none", code |-> "none"]

Nobody == [a \in Agents |-> Gone]
NoArtifacts == [c \in Contexts |-> "none"]
AgentStates == {Gone} \cup [live : {"active", "stale", "odd"}, caps : SUBSET Capabilities,
                            tools : SUBSET Tools]

\* A room is populated with one kind of thing: no verb reads two kinds.
Init ==
    /\ \/ tasks \in Plans /\ shared = NoArtifacts /\ agents = Nobody
       \/ tasks = NoPlan /\ shared \in [Contexts -> {"none", "small", "large"}]
            /\ agents = Nobody
       \/ tasks = NoPlan /\ shared = NoArtifacts /\ agents \in [Agents -> AgentStates]
    /\ mirrored \in BOOLEAN /\ rowTools \in BOOLEAN
    /\ agents = Nobody => ~rowTools
    /\ tasks = NoPlan => ~mirrored
    /\ call = Idle /\ got = Nothing /\ result = NoResult
    /\ wire = "none" /\ stored = Absent
    /\ seen = {} /\ changes = 0

Room == [tasks |-> tasks, shared |-> shared, agents |-> agents]

Begin(c) ==
    /\ call.at = "idle"
    /\ call' = c
    /\ seen' = {Room}
    /\ UNCHANGED <<tasks, shared, agents, daemonVars, stored, changes>>

\* A request that only reads, and one that writes.
BeginRead(c) == Begin(c) /\ UNCHANGED <<got, result, wire>>
BeginWrite(c) == Begin(c) /\ wire' = "sent" /\ UNCHANGED <<got, result>>

\* The verb needs a room and the session has none.
NoRoom(c) ==
    /\ Begin([c EXCEPT !.at = "done"])
    /\ result' = FailureResult("internal")
    /\ UNCHANGED <<got, wire>>

At(verb, at) == call.verb = verb /\ call.at = at

Goto(at) == call' = [call EXCEPT !.at = at]

Return(r) ==
    /\ Goto("done")
    /\ result' = r
    /\ UNCHANGED <<tasks, shared, agents, daemonVars, got, wire, stored, seen, changes>>

\* readTaskRows and its like: an answer that is no array, an error body too, has no rows,
\* and is no failure.
ReturnBlank(r) ==
    /\ Goto("done")
    /\ result' = r
    /\ got' = NoRows
    /\ UNCHANGED <<tasks, shared, agents, daemonVars, wire, stored, seen, changes>>

\* A read that the handler goes on from.
Read(what, at) ==
    /\ Goto(at)
    /\ got' = what
    /\ UNCHANGED <<tasks, shared, agents, daemonVars, result, wire, stored, seen, changes>>

Fault == \E code \in TransportCodes : Return(FaultToResult(code, "none"))

\* A read that fails: in the transport, at the daemon, or at the credential guard.
ReadFails ==
    \/ Fault
    \/ \E cause \in {"policy_denied", "quota"} : Return(FaultToResult("rpc", cause))
    \/ Return(FaultToResult("invalid_args", "none"))

\* A write the credential guard rejects is never sent.
Guarded ==
    /\ wire = "sent"
    /\ Goto("done")
    /\ wire' = "none"
    /\ result' = FaultToResult("invalid_args", "none")
    /\ UNCHANGED <<tasks, shared, agents, daemonVars, got, stored, seen, changes>>

-----------------------------------------------------------------------------
(* mx_create_task, mx_update_task, mx_share_context *)

\* The params of task.create, as the record the daemon writes.
CreateParams(i) ==
    [state |-> Default(i.state, "proposed"), depends_on |-> i.depends_on,
     blocks |-> i.blocks,
     action |-> IF i.action = Absent THEN Absent ELSE BuildActionParam(i.action)]

\* The params of task.update, over the record they change.
UpdateParams(i, record) ==
    [record EXCEPT !.state = Default(i.state, @), !.depends_on = Default(i.depends_on, @),
                   !.blocks = Default(i.blocks, @)]

CreateTask(i) ==
    LET c == [verb |-> "create", at |-> "sent", input |-> i]
    IN BeginWrite(c) \/ NoRoom(c)

UpdateTask(i) ==
    LET c == [verb |-> "update", at |-> "sent", input |-> i]
    IN BeginWrite(c) \/ NoRoom(c)

ShareContext(size) ==
    LET c == [verb |-> "share", at |-> "sent", size |-> size]
    IN BeginWrite(c) \/ NoRoom(c)

\* The daemon carries the request out (external), perhaps after the handler gave up.
DaemonApplies ==
    /\ wire = "sent"
    /\ wire' = "applied"
    /\ \/ /\ call.verb = "create"
          /\ \E t \in Tasks : /\ tasks[t] = NoTask
                              /\ stored' = t
                              /\ tasks' = [tasks EXCEPT ![t] = CreateParams(call.input)]
          /\ UNCHANGED shared
       \/ /\ call.verb = "update"
          /\ call.input.task \in Present(tasks)
          /\ stored' = call.input.task
          /\ tasks' = [tasks EXCEPT ![stored'] = UpdateParams(call.input, @)]
          /\ UNCHANGED shared
       \/ /\ call.verb = "share"
          /\ \E c \in Contexts : /\ shared[c] = "none"
                                 /\ stored' = c
                                 /\ shared' = [shared EXCEPT ![c] = call.size]
          /\ UNCHANGED tasks
    /\ UNCHANGED <<agents, daemonVars, call, got, result, seen, changes>>

\* It refuses the request (external).
DaemonRefuses ==
    /\ wire = "sent"
    /\ wire' = "refused"
    /\ UNCHANGED <<tasks, shared, agents, daemonVars, call, got, result, stored, seen, changes>>

Refusals(verb) ==
    {"policy_denied", "unknown_key", "invalid_params", "quota"}
        \cup (IF verb = "update" THEN {"not_found"} ELSE {})

\* The bodies the daemon may answer with: of a request it carried out, the record, an
\* object without one, or no object; of one it refused, an error signal, or nothing but
\* the refusal as a state label, which may come with the id of the task to be updated.
Bodies ==
    IF wire = "applied" THEN {"record", "object", "scalar"}
    ELSE {"error", "label"} \cup (IF call.verb = "update" THEN {"named label"} ELSE {})

TaskResult(id, node) == [status |-> "ok", code |-> "none", id |-> id, node |-> node]

\* taskNodeResponseToResult: hasErrorSignal does not look at the label, so a refusal that
\* is only a label is projected like a record.
TaskNodeResponseToResult(body, refusal) ==
    LET labelled == [EmptyNode EXCEPT !.state = MapTaskState(refusal)]
    IN CASE body = "scalar" -> FailureResult("internal")
         [] body = "error" -> FailureResult(MapDaemonError(refusal))
         [] body = "record" -> TaskResult(stored, ProjectTaskNode(TaskRows(tasks, Absent)[stored]))
         [] body = "label" -> TaskResult(Absent, labelled)
         [] body = "named label" -> TaskResult(call.input.task, labelled)
         [] OTHER -> TaskResult(Absent, EmptyNode)

\* contextResponseToResult: without a context_id nothing was shared or fetched.
ContextResponseToResult(body, refusal, what) ==
    CASE body = "record" -> what
      [] body = "error" -> FailureResult(MapDaemonError(refusal))
      [] OTHER -> FailureResult("internal")

ShareResult(id) == [status |-> "ok", code |-> "none", id |-> id]

WriteReplied ==
    /\ call.at = "sent"
    /\ wire \in {"applied", "refused"}
    /\ \E body \in Bodies, refusal \in Refusals(call.verb) :
         Return(IF call.verb = "share"
                  THEN ContextResponseToResult(body, refusal, ShareResult(stored))
                  ELSE TaskNodeResponseToResult(body, refusal))

\* The refusal came as a JSON-RPC error.
WriteRejected ==
    /\ call.at = "sent"
    /\ wire = "refused"
    /\ \E refusal \in Refusals(call.verb) : Return(FaultToResult("rpc", refusal))

WriteFails == call.at = "sent" /\ (Fault \/ Guarded)

-----------------------------------------------------------------------------
(* mx_list_tasks, reconstructPlan, mx_get_context *)

ListTasks(filter, view) ==
    BeginRead([verb |-> "list", at |-> "list", filter |-> filter, view |-> view])

ListResult(nodes, edges) ==
    [status |-> "ok", code |-> "none", nodes |-> nodes, edges |-> edges]

ListRead ==
    LET nodes == ProjectTaskNodes(TaskRows(tasks, call.filter))
    IN /\ At("list", "list")
       /\ \/ call.view = "list" /\ Return(ListResult(nodes, {}))
          \/ call.view = "list" /\ ReturnBlank(ListResult(<<>>, {}))
          \/ /\ call.view = "graph"
             /\ Read([read |-> "nodes", nodes |-> nodes], "graph") \/ Read(NoRows, "graph")
          \/ ReadFails

\* The second read; the daemon's graph may or may not heed the filter, and a fault
\* adds nothing.
GraphRead ==
    /\ At("list", "graph")
    /\ \E raw \in {GraphEdges(tasks), DeriveEdges(TaskRows(tasks, call.filter)), {}} :
         Return(ListResult(got.nodes, MergeEdges(DeriveEdges(got.nodes), raw)))

Resume == BeginRead([verb |-> "resume", at |-> "read"])

\* buildPlanSnapshot, and faultSnapshot: an empty plan with the fault's code.
PlanSnapshot(nodes, fault) ==
    [status |-> "ok", code |-> fault, nodes |-> nodes, edges |-> DeriveEdges(nodes),
     plan |-> Reconcile(nodes)]

ReconstructPlan ==
    /\ At("resume", "read")
    /\ \/ Return(PlanSnapshot(ProjectTaskNodes(TaskRows(tasks, Absent)), "none"))
       \/ ReturnBlank(PlanSnapshot(<<>>, "none"))
       \/ \E code \in TransportCodes \cup {"rpc"} : Return(PlanSnapshot(<<>>, code))

GetContext(c) ==
    LET g == [verb |-> "get", at |-> "read", context |-> c] IN BeginRead(g) \/ NoRoom(g)

\* projectGet: a small artifact comes inline, a large one as a reference.
GetResult(size) ==
    [status |-> "ok", code |-> "none", inline |-> size = "small", media |-> size = "large"]

ContextRead ==
    LET size == shared[call.context]
    IN /\ At("get", "read")
       /\ \/ \E body \in IF size = "none" THEN {"error"} ELSE {"record", "object", "scalar"} :
               Return(ContextResponseToResult(body, "no_such_context", GetResult(size)))
          \/ ReadFails

-----------------------------------------------------------------------------
(* mx_find_agents, mx_describe_agent, mx_workspace_status *)

FindAgents(i) == BeginRead([verb |-> "find", at |-> "list", input |-> i])

\* matchesLiveness and matchesCapability.
Matches(i, row) ==
    /\ i.liveness \in {Absent, ReadLiveness(row.live)}
    /\ i.capability \in {Absent} \cup row.caps

AgentsResult(rows) == [status |-> "ok", code |-> "none", agents |-> ProjectAgentSummaries(rows)]

\* agent.list, the row-local filters, and filterByTool for the rows that name tools;
\* the others are left to ask the daemon about.
FindList ==
    LET all == AgentRows(agents)
        candidates == {a \in DOMAIN all : Matches(call.input, all[a])}
        silent == {a \in candidates : ReadToolNames(all[a].tools) = Absent}
        naming == {a \in candidates \ silent : call.input.tool \in all[a].tools}
        Rows(as) == [a \in as |-> all[a]]
    IN /\ At("find", "list")
       /\ \/ call.input.tool = Absent /\ Return(AgentsResult(Rows(candidates)))
          \/ /\ call.input.tool # Absent
             /\ Read([read |-> "rows", rows |-> Rows(candidates), kept |-> naming,
                      todo |-> silent, failed |-> {}], "fanout")
          \/ ReturnBlank(AgentsResult(<<>>))
          \/ ReadFails

\* resolveToolNames: a fault, or an agent that is gone, has no tools.
FindProbe ==
    /\ At("find", "fanout")
    /\ \E a \in got.todo :
         \/ Read([got EXCEPT !.todo = @ \ {a},
                             !.kept = IF agents[a] # Gone /\ call.input.tool \in agents[a].tools
                                      THEN @ \cup {a} ELSE @], "fanout")
         \/ Read([got EXCEPT !.todo = @ \ {a}, !.failed = @ \cup {a}], "fanout")

FindReturn ==
    /\ At("find", "fanout")
    /\ got.todo = {}
    /\ Return(AgentsResult([a \in got.kept |-> got.rows[a]]))

DescribeAgent(a) == BeginRead([verb |-> "describe", at |-> "tools", agent |-> a])

\* agent.tools: its record, an object without agent_id, or an error of an unknown agent.
DescribeTools ==
    LET a == call.agent
    IN /\ At("describe", "tools")
       /\ \/ /\ agents[a] # Gone
             /\ Read([read |-> "tools", known |-> TRUE, caps |-> agents[a].caps,
                      tools |-> agents[a].tools], "list")
          \/ /\ agents[a] = Gone
             /\ \/ Read([read |-> "tools", known |-> FALSE, caps |-> {}, tools |-> {}], "list")
                \/ Return(FaultToResult("rpc", "unknown_agent"))
          \/ ReadFails

AgentDetail(liveness, caps, tools) ==
    [status |-> "ok", code |-> "none", liveness |-> ReadLiveness(liveness), caps |-> caps,
     tools |-> tools]

\* agent.list, tolerated: the row wins over the agent.tools record, which stands in
\* for it when the list has no such row, no rows at all, or failed.
DescribeList ==
    LET a == call.agent
    IN /\ At("describe", "list")
       /\ \/ /\ agents[a] # Gone
             /\ Return(AgentDetail(agents[a].live, agents[a].caps, got.tools))
          \/ Return(IF got.known THEN AgentDetail("undefined", got.caps, got.tools)
                    ELSE FailureResult("not_found"))

WorkspaceStatus == BeginRead([verb |-> "status", at |-> "status"])

StatusRead ==
    /\ At("status", "status")
    /\ Read([read |-> "status"], "list") \/ ReadFails

\* agent.list, tolerated: a fault, or an answer without rows, leaves no agents.
StatusList ==
    /\ At("status", "list")
    /\ \E rows \in {AgentRows(agents), <<>>} : Return(AgentsResult(rows))

-----------------------------------------------------------------------------
(* The other runtimes of the room *)

Change ==
    /\ call.at \notin {"idle", "done"}
    /\ changes < MaxChanges
    /\ changes' = changes + 1
    /\ \/ /\ call.verb \in {"list", "resume"}
          /\ \E t \in Tasks, r \in Records : tasks' = [tasks EXCEPT ![t] = r]
          /\ UNCHANGED <<shared, agents>>
       \/ /\ call.verb = "get"
          /\ shared[call.context] = "none"
          /\ \E size \in {"small", "large"} : shared' = [shared EXCEPT ![call.context] = size]
          /\ UNCHANGED <<tasks, agents>>
       \/ /\ call.verb \in {"find", "describe", "status"}
          /\ \E a \in Agents, s \in AgentStates : agents' = [agents EXCEPT ![a] = s]
          /\ UNCHANGED <<tasks, shared>>
    /\ seen' = seen \cup {[tasks |-> tasks', shared |-> shared', agents |-> agents']}
    /\ UNCHANGED <<daemonVars, call, got, result, wire, stored>>

FindInputs ==
    [liveness : {Absent, "active", "stale", "offline"}, capability : Capabilities \cup {Absent},
     tool : Tools \cup {Absent}]

\* A verb is called in a room that has its kind of thing.
TaskCall ==
    /\ shared = NoArtifacts /\ agents = Nobody
    /\ \/ \E i \in CreateInputs(tasks) : CreateTask(i)
       \/ \E i \in UpdateInputs(tasks) : UpdateTask(i)
       \/ \E f \in Filters, v \in {"list", "graph"} : ListTasks(f, v)
       \/ Resume

ContextCall ==
    /\ tasks = NoPlan /\ agents = Nobody
    /\ \/ \E size \in {"small", "large"} : ShareContext(size)
       \/ \E c \in Contexts : GetContext(c)

DirectoryCall ==
    /\ tasks = NoPlan /\ shared = NoArtifacts
    /\ \/ \E i \in FindInputs : FindAgents(i)
       \/ \E a \in Agents : DescribeAgent(a)
       \/ WorkspaceStatus

Handler == \/ WriteReplied \/ WriteRejected \/ WriteFails
           \/ ListRead \/ GraphRead \/ ReconstructPlan \/ ContextRead
           \/ FindList \/ FindProbe \/ FindReturn
           \/ DescribeTools \/ DescribeList \/ StatusRead \/ StatusList

Next == \/ TaskCall \/ ContextCall \/ DirectoryCall
        \/ Handler \/ DaemonApplies \/ DaemonRefuses \/ Change

Spec == Init /\ [][Next]_vars

-----------------------------------------------------------------------------
(* Properties *)

Returned(verb) == call.verb = verb /\ call.at = "done"

\* The prerequisites of t that have not succeeded.
Open(plan, t) ==
    {u \in Prerequisites(plan, t) : u \in Present(plan) => Means(plan[u].state) # "succeeded"}

\* No set of tasks waits for itself.
Acyclic(plan) ==
    \A W \in (SUBSET Present(plan)) \ {{}} : \E t \in W : Prerequisites(plan, t) \cap W = {}

\* The classes of a snapshot are the ones plan calls for.
Reconciled(plan, snapshot) ==
    LET r == snapshot.plan
        In(t, states) == Means(plan[t].state) \in states
    IN /\ DOMAIN snapshot.nodes = Present(plan)
       /\ \A t \in Present(plan) :
            /\ t \in r.done <=> In(t, {"succeeded", "failed"})
            /\ t \in r.inFlight <=> In(t, {"assigned", "executing"})
            /\ t \in r.ready \/ t \in r.blocked <=> t \notin r.done \cup r.inFlight
            /\ t \in r.ready => /\ t \notin r.blocked
                               /\ \A u \in Open(plan, t) : /\ ~mirrored
                                                           /\ Edge(u, t, "blocks") \in snapshot.edges
            /\ t \in r.blocked => Open(plan, t) # {}
       /\ (/\ Acyclic(plan)
           /\ \A t \in Present(plan) : /\ Prerequisites(plan, t) \subseteq Present(plan)
                                       /\ ~In(t, {"failed"})
           /\ \E t \in Present(plan) : ~In(t, {"succeeded"}))
          => r.ready \cup r.inFlight # {}

\* ResumeTrue: what a restarted runtime is told to do (plan-snapshot.ts reconcile) fits
\* one state the plan really had: every task is in one class; a task held back waits for
\* something; a task offered as ready is neither under way nor over, and everything it
\* waits for has succeeded, but for a `blocks` edge that the daemon does not mirror as the
\* task's own depends_on, and that edge is in the snapshot; and a plan that is acyclic, not
\* over, and in which nothing failed or is missing, offers work or has some under way.  A
\* reply without rows, which is no fault, offers nothing.
ResumeTrue ==
    Returned("resume") /\ result.code = "none" =>
      IF got = NoRows THEN result.nodes = <<>> /\ result.plan.ready = {}
      ELSE \E s \in seen : Reconciled(s.tasks, result)

\* ReadTrue: the nodes of mx_list_tasks are the ones of one moment of the call, or none if
\* the reply had no rows; every edge was in the DAG at some moment of it; and an edge that a
\* listed node had at all of them is there, even when task.graph failed or saw another plan
\* (list-tasks.ts).  An
\* artifact that was fetched is in the room and comes the one way its size asks for, and
\* is unknown only if it was not there (get-context.ts).
ReadTrue ==
    /\ Returned("list") /\ result.status = "ok" =>
         /\ IF got = NoRows THEN result.nodes = <<>> ELSE \E s \in seen :
              /\ DOMAIN result.nodes = {t \in Present(s.tasks) :
                                          call.filter \in {Absent, Means(s.tasks[t].state)}}
              /\ \A t \in DOMAIN result.nodes :
                   result.nodes[t].state = Means(s.tasks[t].state)
         /\ \A e \in result.edges : \E s \in seen : e \in GraphEdges(s.tasks)
         /\ call.view = "graph" =>
              \A t \in DOMAIN result.nodes, u \in Tasks, k \in {"depends_on", "blocks"} :
                (\A s \in seen : Edge(t, u, k) \in GraphEdges(s.tasks))
                  => Edge(t, u, k) \in result.edges
    /\ Returned("get") =>
         /\ result.status = "ok" => \E s \in seen : s.shared[call.context] =
              (IF result.inline THEN "small" ELSE "large")
         /\ result.code = "not_found" => \E s \in seen : s.shared[call.context] = "none"

ActionOf(record) == IF record.action = Absent THEN <<>> ELSE Dispatch(ProjectAction(record.action))

\* An ok that says a write was made: any of a share, one that names a created task, and one
\* that shows a task in a state tasks have.
Vouches(verb, r) ==
    \/ verb = "share"
    \/ verb = "create" /\ r.id # Absent
    \/ verb # "share" /\ r.node.state # "unknown"

\* WriteTruthful: an ok of a share, one that names a created task, and one that shows a task
\* in a state tasks have, are about a request the daemon carried out (a refusal that is only
\* a state label is an ok as well, but of a task in state 'unknown'); a code that says the
\* request was refused is about one that never will be; and a node created, reported or not,
\* is dispatched as its author asked, whatever the spellings on the way (create-task.ts
\* buildActionParam, task-projection.ts taskNodeResponseToResult and projectAction,
\* task-action.ts).
WriteTruthful ==
    call.verb \in {"create", "update", "share"} =>
      /\ result.status = "ok" /\ Vouches(call.verb, result)
           => stored # Absent /\ result.id = stored
      /\ result.code \in {"policy_denied", "untrusted_key", "not_found", "invalid_args"}
           => stored = Absent
      /\ call.verb = "create" /\ stored # Absent =>
           ActionOf(tasks[stored]) =
             (IF call.input.action = Absent THEN <<>> ELSE Dispatch(call.input.action))

\* DirectoryHonest: an agent that was returned matched at a moment of the call, with the
\* liveness it then had; one that matched all the time is returned unless asking it
\* failed or agent.list was answered without rows; an agent is described with what it published, and as alive only if it was; and
\* it is not_found only if it was gone (find-agents.ts, describe-agent.ts: the reads of
\* one call are of different moments, and some of them may fail).
DirectoryHonest ==
    LET Was(a, P(_)) == \E s \in seen : s.agents[a] # Gone /\ P(s.agents[a])
        Always(a, P(_)) == \A s \in seen : s.agents[a] # Gone /\ P(s.agents[a])
    IN /\ Returned("find") /\ result.status = "ok" =>
            LET i == call.input
                HasTool(x) == i.tool \in {Absent} \cup x.tools
            IN \A a \in Agents :
                 /\ a \in DOMAIN result.agents =>
                      /\ Was(a, HasTool)
                      /\ Was(a, LAMBDA x :
                              /\ Matches(i, x)
                              /\ result.agents[a].liveness = "active" => x.live = "active")
                 /\ Always(a, LAMBDA x : Matches(i, x) /\ HasTool(x)) =>
                      \/ a \in DOMAIN result.agents
                      \/ got = NoRows \/ (got # Nothing /\ a \in got.failed)
       /\ Returned("describe") =>
            LET a == call.agent
            IN /\ result.status = "ok" =>
                    /\ result.liveness = "active" => Was(a, LAMBDA x : x.live = "active")
                    /\ result.tools # {} => Was(a, LAMBDA x : x.tools = result.tools)
                    /\ Was(a, LAMBDA x : x.caps = result.caps)
               /\ result.code = "not_found" => \E s \in seen : s.agents[a] = Gone
       /\ Returned("status") /\ result.status = "ok" =>
            \A a \in DOMAIN result.agents :
              result.agents[a].liveness = "active" => Was(a, LAMBDA x : x.live = "active")
=====================
