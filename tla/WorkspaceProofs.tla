---------------------------- MODULE WorkspaceProofs ----------------------------
(* Proofs about the verbs of Workspace, for every room, plan and set of agents. *)
EXTENDS Workspace, TLAPS

-----------------------------------------------------------------------------
(* Authoring and reading back *)

\* An action that cannot be dispatched is authored without gaining a name.
LEMMA DeclaredStaysUndispatchable ==
    ASSUME NEW a \in TaskActions, ~Dispatchable(a)
    PROVE  ~Dispatchable(ProjectAction(DeclaredFields(a)))
  BY DEF TaskActions, Dispatchable, ProjectAction, DeclaredFields

\* An action that can be dispatched is read back as one that dispatches alike: the empty
\* arguments left out on the wire are the ones dispatch fills in.
LEMMA AuthoredDispatchesAlike ==
    ASSUME NEW a \in TaskActions, Dispatchable(a)
    PROVE  LET b == ProjectAction(DispatchToCreateActionParam(ActionToDispatch(a)))
           IN Dispatchable(b) /\ ActionToDispatch(b) = ActionToDispatch(a)
  <1>1. CASE a.kind = "exec"
    BY <1>1, JsonAssumption
    DEF TaskActions, Dispatchable, Named, ProjectAction, DispatchToCreateActionParam,
        ActionToDispatch, Default
  <1>2. CASE a.kind = "tool"
    BY <1>2, JsonAssumption
    DEF TaskActions, Dispatchable, Named, ProjectAction, DispatchToCreateActionParam,
        ActionToDispatch, Default
  <1> QED
    BY <1>1, <1>2 DEF TaskActions

\* The round trip of task-action.ts: what a task node dispatches is what its author asked
\* for, whatever the wire left out or spelled differently.
THEOREM ActionRoundTrip ==
    \A a \in TaskActions : Dispatch(ProjectAction(BuildActionParam(a))) = Dispatch(a)
  BY DeclaredStaysUndispatchable, AuthoredDispatchesAlike DEF Dispatch, BuildActionParam

-----------------------------------------------------------------------------
(* Writes *)

Writes == {"create", "update", "share"}
RefusalCodes == {"policy_denied", "untrusted_key", "not_found", "invalid_args"}

\* Every call has a verb and a place, and a create its input.
CallShape(c) == /\ "at" \in DOMAIN c /\ "verb" \in DOMAIN c
                /\ c.verb = "create" => "input" \in DOMAIN c

\* What WriteTruthful needs to be inductive: a request is carried out only while it is on
\* its way, a refusal is reported only when it no longer is, and a created node stays as
\* it was authored.
WriteInv ==
    /\ DOMAIN tasks = Tasks
    /\ CallShape(call)
    /\ call.at = "idle" => /\ tasks \in Plans /\ stored = Absent /\ wire = "none"
                           /\ result = NoResult /\ got = Nothing /\ call.verb = "none"
    /\ call.at = "sent" => call.verb \in Writes /\ result = NoResult /\ wire # "none"
    /\ wire # "none" => call.verb \in Writes
    /\ wire \in {"none", "sent", "applied", "refused"}
    /\ wire # "applied" => stored = Absent
    /\ wire = "applied" => stored # Absent
    /\ call.verb \in Writes =>
         /\ call.at \in {"sent", "done"}
         /\ result.code \in RefusalCodes => wire \in {"none", "refused"}
         /\ result.status = "ok" => /\ wire \in {"applied", "refused"}
                                    /\ Vouches(call.verb, result) => result.id = stored
                                                                      /\ stored # Absent
    /\ call.verb = "create" =>
         /\ call.input.action \in TaskActions \cup {Absent}
         /\ stored # Absent => stored \in Tasks /\ tasks[stored] = CreateParams(call.input)

\* What create-task.ts sends as an action is one.
LEMMA AuthoredIsWire ==
    \A a \in TaskActions : BuildActionParam(a) \in WireActions
  BY JsonAssumption
  DEF TaskActions, WireActions, BuildActionParam, Dispatchable, Named, DeclaredFields,
      DispatchToCreateActionParam, ActionToDispatch, Default

\* The node of a create dispatches as its author asked.
LEMMA CreatedDispatchesAlike ==
    ASSUME NEW i, i.action \in TaskActions \cup {Absent}
    PROVE  ActionOf(CreateParams(i)) =
             (IF i.action = Absent THEN <<>> ELSE Dispatch(i.action))
  <1>1. CASE i.action = Absent
    BY <1>1 DEF ActionOf, CreateParams
  <1>2. CASE i.action # Absent
    <2>1. i.action \in TaskActions
      BY <1>2
    <2>2. BuildActionParam(i.action) # Absent
      BY <2>1, AuthoredIsWire, ActionAssumption
    <2> QED
      BY <1>2, <2>1, <2>2, ActionRoundTrip DEF ActionOf, CreateParams
  <1> QED
    BY <1>1, <1>2

\* No refusal is the name of a task state: a refusal that comes as a label is a task in
\* state 'unknown'.
LEMMA RefusalIsNoState ==
    \A verb : \A refusal \in Refusals(verb) : MapTaskState(refusal) = "unknown"
  BY DEF Refusals, MapTaskState, TaskStateMap

\* An answer that vouches for a write is about the one that was made.
LEMMA ReplyHonest ==
    ASSUME WriteInv, WriteReplied
    PROVE  /\ result'.status = "ok" /\ Vouches(call.verb, result')
                => result'.id = stored /\ stored # Absent
           /\ result'.code \in RefusalCodes => wire = "refused"
  <1>1. PICK body \in Bodies, refusal \in Refusals(call.verb) :
          Return(IF call.verb = "share"
                   THEN ContextResponseToResult(body, refusal, ShareResult(stored))
                   ELSE TaskNodeResponseToResult(body, refusal))
    BY DEF WriteReplied
  <1>2. /\ wire \in {"applied", "refused"}
        /\ body = "record" => wire = "applied" /\ stored # Absent
        /\ body = "error" => wire = "refused"
        /\ body = "named label" => call.verb = "update"
    BY <1>1 DEF Bodies, WriteReplied, WriteInv
  <1>3. CASE call.verb = "share"
    <2>1. result' = ContextResponseToResult(body, refusal, ShareResult(stored))
      BY <1>1, <1>3 DEF Return
    <2>2. CASE body = "record"
      BY <1>2, <2>1, <2>2 DEF ContextResponseToResult, ShareResult, RefusalCodes
    <2>3. CASE body = "error"
      BY <1>2, <2>1, <2>3 DEF ContextResponseToResult, FailureResult
    <2>4. CASE body \notin {"record", "error"}
      BY <2>1, <2>4 DEF ContextResponseToResult, FailureResult, RefusalCodes
    <2> QED
      BY <2>2, <2>3, <2>4
  <1>4. CASE call.verb # "share"
    <2>1. result' = TaskNodeResponseToResult(body, refusal)
      BY <1>1, <1>4 DEF Return
    <2>2. CASE body = "record"
      BY <1>2, <2>1, <2>2 DEF TaskNodeResponseToResult, TaskResult, RefusalCodes
    <2>3. CASE body = "error"
      BY <1>2, <2>1, <2>3 DEF TaskNodeResponseToResult, FailureResult
    <2>4. CASE body = "scalar"
      BY <2>1, <2>4 DEF TaskNodeResponseToResult, FailureResult, RefusalCodes
    <2>5. CASE body = "label"
      <3>1. /\ result'.id = Absent /\ result'.code = "none"
            /\ result'.node.state = MapTaskState(refusal)
        BY <2>1, <2>5 DEF TaskNodeResponseToResult, TaskResult, EmptyNode
      <3> QED
        BY <1>1, <1>4, <3>1, RefusalIsNoState DEF Vouches, RefusalCodes
    <2>6. CASE body = "named label"
      <3>1. result'.code = "none" /\ result'.node.state = MapTaskState(refusal)
        BY <2>1, <2>6 DEF TaskNodeResponseToResult, TaskResult, EmptyNode
      <3> QED
        BY <1>1, <1>2, <1>4, <2>6, <3>1, RefusalIsNoState DEF Vouches, RefusalCodes
    <2>7. CASE body \notin {"record", "error", "scalar", "label", "named label"}
      <3>1. /\ result'.id = Absent /\ result'.code = "none" /\ result'.node.state = "unknown"
        BY <2>1, <2>7 DEF TaskNodeResponseToResult, TaskResult, EmptyNode
      <3> QED
        BY <1>4, <3>1 DEF Vouches, RefusalCodes
    <2> QED
      BY <2>2, <2>3, <2>4, <2>5, <2>6, <2>7
  <1> QED
    BY <1>3, <1>4

\* A plan other runtimes may find has every id.
LEMMA PlanDomain == \A p \in Plans : DOMAIN p = Tasks
  BY WorkspaceAssumption

LEMMA WriteInvInit == Init => WriteInv
  <1>1. Init => tasks \in Plans /\ DOMAIN tasks = Tasks
    BY PlanDomain, WorkspaceAssumption DEF Init
  <1> QED
    BY <1>1 DEF Init, WriteInv, Idle, NoResult, Writes, CallShape

\* A call that starts by reading.
LEMMA WriteInvBeginRead ==
    ASSUME WriteInv, NEW c, c.verb \notin Writes, c.at \notin {"idle", "sent"},
           CallShape(c), BeginRead(c)
    PROVE  WriteInv'
  BY DEF WriteInv, BeginRead, Begin, daemonVars, Writes

\* A call that starts with a mutating request.
LEMMA WriteInvBeginWrite ==
    ASSUME WriteInv, NEW c, c.verb \in Writes, c.at = "sent", CallShape(c), BeginWrite(c),
           c.verb = "create" => c.input.action \in TaskActions \cup {Absent}
    PROVE  WriteInv'
  <1>1. /\ result = NoResult /\ stored = Absent /\ wire' = "sent"
        /\ UNCHANGED <<tasks, stored, result>> /\ call' = c
    BY DEF BeginWrite, Begin, WriteInv, daemonVars
  <1> QED
    BY <1>1 DEF WriteInv, NoResult, RefusalCodes, Writes

\* A call without a room.
LEMMA WriteInvNoRoom ==
    ASSUME WriteInv, NEW c, CallShape(c), NoRoom(c),
           c.verb = "create" => c.input.action \in TaskActions \cup {Absent}
    PROVE  WriteInv'
  <1>1. /\ stored = Absent /\ wire = "none" /\ result' = FailureResult("internal")
        /\ UNCHANGED <<tasks, stored, wire>> /\ call' = [c EXCEPT !.at = "done"]
    BY DEF NoRoom, Begin, WriteInv, daemonVars
  <1>2. /\ call'.at = "done" /\ call'.verb = c.verb
        /\ c.verb = "create" => call'.input = c.input
        /\ CallShape(call')
    BY <1>1 DEF CallShape
  <1> QED
    BY <1>1, <1>2 DEF WriteInv, FailureResult, RefusalCodes, Writes

LEMMA WriteInvTaskCall == WriteInv /\ TaskCall => WriteInv'
  <1> SUFFICES ASSUME WriteInv, TaskCall PROVE WriteInv'
    OBVIOUS
  <1>0. call.at = "idle" => tasks \in Plans
    BY DEF WriteInv
  <1>1. ASSUME NEW i \in CreateInputs(tasks), CreateTask(i) PROVE WriteInv'
    <2> DEFINE c == [verb |-> "create", at |-> "sent", input |-> i]
    <2>1. BeginWrite(c) \/ NoRoom(c)
      BY <1>1 DEF CreateTask
    <2>2. i.action \in TaskActions \cup {Absent}
      BY <1>0, <1>1, <2>1, WorkspaceAssumption DEF BeginWrite, NoRoom, Begin
    <2> QED
      BY <2>1, <2>2, WriteInvBeginWrite, WriteInvNoRoom DEF Writes, CallShape
  <1>2. ASSUME NEW i, UpdateTask(i) PROVE WriteInv'
    BY <1>2, WriteInvBeginWrite, WriteInvNoRoom DEF UpdateTask, Writes, CallShape
  <1>3. ASSUME NEW f, NEW v, ListTasks(f, v) PROVE WriteInv'
    BY <1>3, WriteInvBeginRead DEF ListTasks, Writes, CallShape
  <1>4. ASSUME Resume PROVE WriteInv'
    BY <1>4, WriteInvBeginRead DEF Resume, Writes, CallShape
  <1> QED
    BY <1>1, <1>2, <1>3, <1>4 DEF TaskCall

LEMMA WriteInvOtherCall == WriteInv /\ (ContextCall \/ DirectoryCall) => WriteInv'
  <1> SUFFICES ASSUME WriteInv, ContextCall \/ DirectoryCall PROVE WriteInv'
    OBVIOUS
  <1>1. ASSUME NEW size, ShareContext(size) PROVE WriteInv'
    BY <1>1, WriteInvBeginWrite, WriteInvNoRoom DEF ShareContext, Writes, CallShape
  <1>2. ASSUME NEW c, GetContext(c) PROVE WriteInv'
    BY <1>2, WriteInvBeginRead, WriteInvNoRoom DEF GetContext, Writes, CallShape
  <1>3. ASSUME NEW i, FindAgents(i) PROVE WriteInv'
    BY <1>3, WriteInvBeginRead DEF FindAgents, Writes, CallShape
  <1>4. ASSUME NEW a, DescribeAgent(a) PROVE WriteInv'
    BY <1>4, WriteInvBeginRead DEF DescribeAgent, Writes, CallShape
  <1>5. ASSUME WorkspaceStatus PROVE WriteInv'
    BY <1>5, WriteInvBeginRead DEF WorkspaceStatus, Writes, CallShape
  <1> QED
    BY <1>1, <1>2, <1>3, <1>4, <1>5 DEF ContextCall, DirectoryCall

\* A call that ends: the result is the only thing WriteInv hears of.
LEMMA WriteInvReturn ==
    ASSUME WriteInv, NEW r, Return(r), call.at # "idle",
           call.verb \in Writes =>
             /\ r.code \in RefusalCodes => wire \in {"none", "refused"}
             /\ r.status = "ok" => /\ wire \in {"applied", "refused"}
                                   /\ Vouches(call.verb, r) => r.id = stored /\ stored # Absent
    PROVE  WriteInv'
  <1>1. /\ result' = r /\ UNCHANGED <<tasks, stored, wire>> /\ call' = [call EXCEPT !.at = "done"]
    BY DEF Return, Goto
  <1>2. /\ call'.at = "done" /\ call'.verb = call.verb /\ CallShape(call')
        /\ call.verb = "create" => call'.input = call.input
    BY <1>1 DEF WriteInv, CallShape
  <1> QED
    BY <1>1, <1>2 DEF WriteInv

\* An answer without rows ends a call that does not write.
LEMMA WriteInvBlank ==
    ASSUME WriteInv, NEW r, ReturnBlank(r), call.at # "idle", call.verb \notin Writes
    PROVE  WriteInv'
  <1>1. /\ UNCHANGED <<tasks, stored, wire>> /\ call' = [call EXCEPT !.at = "done"]
    BY DEF ReturnBlank, Goto
  <1>2. /\ call'.at = "done" /\ call'.verb = call.verb /\ CallShape(call')
    BY <1>1 DEF WriteInv, CallShape
  <1> QED
    BY <1>1, <1>2 DEF WriteInv, Writes

\* A read in the middle of a call that does not write.
LEMMA WriteInvRead ==
    ASSUME WriteInv, NEW w, NEW at, Read(w, at), at \notin {"idle", "sent"},
           call.at # "idle", call.verb \notin Writes
    PROVE  WriteInv'
  <1>1. /\ UNCHANGED <<tasks, stored, wire, result>> /\ call' = [call EXCEPT !.at = at]
    BY DEF Read, Goto
  <1>2. /\ call'.at = at /\ call'.verb = call.verb /\ CallShape(call')
    BY <1>1 DEF WriteInv, CallShape
  <1> QED
    BY <1>1, <1>2 DEF WriteInv, Writes

LEMMA WriteInvFault == WriteInv /\ call.at # "idle" /\ Fault => WriteInv'
  <1> SUFFICES ASSUME WriteInv, call.at # "idle", NEW code \in TransportCodes,
                      Return(FaultToResult(code, "none"))
               PROVE  WriteInv'
    BY DEF Fault
  <1>1. LET r == FaultToResult(code, "none") IN r.code \notin RefusalCodes /\ r.status # "ok"
    BY DEF FaultToResult, FailureResult, MapTransportError, TransportCodes, RefusalCodes
  <1> QED
    BY <1>1, WriteInvReturn

LEMMA WriteInvHandlerWrites ==
    WriteInv /\ (WriteReplied \/ WriteRejected \/ WriteFails) => WriteInv'
  <1> SUFFICES ASSUME WriteInv, WriteReplied \/ WriteRejected \/ WriteFails PROVE WriteInv'
    OBVIOUS
  <1>1. CASE WriteReplied
    <2>1. PICK r : Return(r)
      BY <1>1 DEF WriteReplied
    <2>2. r = result'
      BY <2>1 DEF Return
    <2> QED
      BY <1>1, <2>1, <2>2, ReplyHonest, WriteInvReturn DEF WriteReplied
  <1>2. CASE WriteRejected
    <2>1. PICK refusal : Return(FaultToResult("rpc", refusal))
      BY <1>2 DEF WriteRejected
    <2>2. FaultToResult("rpc", refusal).status # "ok"
      BY DEF FaultToResult, FailureResult
    <2> QED
      BY <1>2, <2>1, <2>2, WriteInvReturn DEF WriteRejected
  <1>3. CASE WriteFails /\ Fault
    BY <1>3, WriteInvFault DEF WriteFails
  <1>4. CASE WriteFails /\ Guarded
    <2>1. /\ UNCHANGED <<tasks, stored>> /\ wire = "sent" /\ wire' = "none"
          /\ call' = [call EXCEPT !.at = "done"]
          /\ result'.status # "ok"
      BY <1>4 DEF Guarded, Goto, FaultToResult, FailureResult
    <2>2. /\ call'.at = "done" /\ call'.verb = call.verb /\ CallShape(call')
          /\ call.verb = "create" => call'.input = call.input
      BY <2>1 DEF WriteInv, CallShape
    <2> QED
      BY <2>1, <2>2 DEF WriteInv
  <1> QED
    BY <1>1, <1>2, <1>3, <1>4 DEF WriteFails

LEMMA WriteInvReadFails ==
    ASSUME WriteInv, call.at # "idle", call.verb \notin Writes, ReadFails
    PROVE  WriteInv'
  BY WriteInvFault, WriteInvReturn DEF ReadFails

LEMMA WriteInvHandlerReads ==
    ASSUME WriteInv,
           \/ ListRead \/ GraphRead \/ ReconstructPlan \/ ContextRead
           \/ FindList \/ FindProbe \/ FindReturn
           \/ DescribeTools \/ DescribeList \/ StatusRead \/ StatusList
    PROVE  WriteInv'
  <1>1. call.at # "idle" /\ call.verb \notin Writes
    BY DEF ListRead, GraphRead, ReconstructPlan, ContextRead, FindList, FindProbe, FindReturn,
           DescribeTools, DescribeList, StatusRead, StatusList, At, Writes
  <1>2. ASSUME NEW r, Return(r) PROVE WriteInv'
    BY <1>1, <1>2, WriteInvReturn
  <1>6. ASSUME NEW r, ReturnBlank(r) PROVE WriteInv'
    BY <1>1, <1>6, WriteInvBlank
  <1>3. ASSUME NEW w, NEW at \in {"graph", "fanout", "list"}, Read(w, at) PROVE WriteInv'
    BY <1>1, <1>3, WriteInvRead
  <1>4. ASSUME ReadFails PROVE WriteInv'
    BY <1>1, <1>4, WriteInvReadFails
  <1>5. \/ \E r : Return(r) \/ ReturnBlank(r)
        \/ \E w, at : at \in {"graph", "fanout", "list"} /\ Read(w, at)
        \/ ReadFails
    <2>1. ListRead => \/ \E r : Return(r) \/ ReturnBlank(r)
                      \/ \E w : Read(w, "graph")
                      \/ ReadFails
      BY DEF ListRead
    <2>2. GraphRead \/ ReconstructPlan => \E r : Return(r) \/ ReturnBlank(r)
      BY DEF GraphRead, ReconstructPlan
    <2>3. ContextRead => (\E r : Return(r)) \/ ReadFails
      BY DEF ContextRead
    <2>4. FindList => \/ \E r : Return(r) \/ ReturnBlank(r)
                      \/ \E w : Read(w, "fanout")
                      \/ ReadFails
      BY DEF FindList
    <2>5. FindProbe => \E w : Read(w, "fanout")
      BY DEF FindProbe
    <2>6. FindReturn \/ DescribeList \/ StatusList => \E r : Return(r)
      BY DEF FindReturn, DescribeList, StatusList
    <2>7. DescribeTools => (\E r : Return(r)) \/ (\E w : Read(w, "list")) \/ ReadFails
      BY DEF DescribeTools
    <2>8. StatusRead => (\E w : Read(w, "list")) \/ ReadFails
      BY DEF StatusRead
    <2> QED
      BY <2>1, <2>2, <2>3, <2>4, <2>5, <2>6, <2>7, <2>8
  <1> QED
    BY <1>2, <1>6, <1>3, <1>4, <1>5

LEMMA WriteInvDaemon == WriteInv /\ (DaemonApplies \/ DaemonRefuses) => WriteInv'
  <1>1. ASSUME WriteInv, DaemonApplies PROVE WriteInv'
    <2>1. /\ wire = "sent" /\ wire' = "applied" /\ UNCHANGED <<call, result>>
          /\ call.verb \in Writes
      BY <1>1 DEF DaemonApplies, Writes
    <2>2. CASE call.verb = "create"
      <3>1. PICK t \in Tasks : /\ stored' = t
                               /\ tasks' = [tasks EXCEPT ![t] = CreateParams(call.input)]
        BY <1>1, <2>2 DEF DaemonApplies
      <3>2. DOMAIN tasks' = Tasks /\ tasks'[t] = CreateParams(call.input)
        BY <1>1, <3>1 DEF WriteInv
      <3>3. stored' # Absent
        BY <3>1, WorkspaceAssumption
      <3>4. CreateParams(call.input) = CreateParams(call.input)'
        BY <2>1 DEF CreateParams
      <3> QED
        BY <1>1, <2>1, <2>2, <3>1, <3>2, <3>3, <3>4 DEF WriteInv
    <2>3. CASE call.verb = "update"
      <3>1. /\ stored' = call.input.task
            /\ tasks' = [tasks EXCEPT ![stored'] = UpdateParams(call.input, @)]
            /\ call.input.task \in Tasks
        BY <1>1, <2>3 DEF DaemonApplies, Present
      <3> QED
        BY <1>1, <2>1, <2>3, <3>1, WorkspaceAssumption DEF WriteInv
    <2>4. CASE call.verb = "share"
      <3>1. stored' \in Contexts /\ UNCHANGED tasks
        BY <1>1, <2>4 DEF DaemonApplies
      <3> QED
        BY <1>1, <2>1, <2>4, <3>1, WorkspaceAssumption DEF WriteInv
    <2> QED
      BY <2>1, <2>2, <2>3, <2>4 DEF Writes
  <1>2. ASSUME WriteInv, DaemonRefuses PROVE WriteInv'
    BY <1>2 DEF WriteInv, DaemonRefuses, CreateParams, daemonVars
  <1> QED
    BY <1>1, <1>2

LEMMA WriteInvChange == WriteInv /\ Change => WriteInv'
  <1> SUFFICES ASSUME WriteInv, Change PROVE WriteInv'
    OBVIOUS
  <1>1. /\ call.verb \notin Writes /\ call.at # "idle"
        /\ UNCHANGED <<call, result, wire, stored>>
    BY DEF Change, Writes
  <1>2. DOMAIN tasks' = Tasks
    BY DEF Change, WriteInv
  <1> QED
    BY <1>1, <1>2 DEF WriteInv, Writes

LEMMA WriteInvStep == WriteInv /\ [Next]_vars => WriteInv'
  <1> SUFFICES ASSUME WriteInv, [Next]_vars PROVE WriteInv'
    OBVIOUS
  <1>1. CASE Handler
    BY <1>1, WriteInvHandlerWrites, WriteInvHandlerReads DEF Handler
  <1>2. CASE UNCHANGED vars
    BY <1>2 DEF vars, WriteInv, CallShape, CreateParams
  <1> QED
    BY <1>1, <1>2, WriteInvTaskCall, WriteInvOtherCall, WriteInvDaemon, WriteInvChange DEF Next

LEMMA WriteInvTruthful == WriteInv => WriteTruthful
  <1> SUFFICES ASSUME WriteInv, call.verb \in Writes
               PROVE  /\ result.status = "ok" /\ Vouches(call.verb, result)
                           => stored # Absent /\ result.id = stored
                      /\ result.code \in RefusalCodes => stored = Absent
                      /\ call.verb = "create" /\ stored # Absent =>
                           ActionOf(tasks[stored]) = (IF call.input.action = Absent
                             THEN <<>> ELSE Dispatch(call.input.action))
    BY DEF WriteTruthful, Writes, RefusalCodes
  <1>1. call.verb = "create" /\ stored # Absent =>
          ActionOf(tasks[stored]) = (IF call.input.action = Absent
            THEN <<>> ELSE Dispatch(call.input.action))
    BY CreatedDispatchesAlike DEF WriteInv
  <1> QED
    BY <1>1 DEF WriteInv

\* For every room, every plan and every action: an ok that vouches for a write is about one
\* that was carried out, however the daemon words its refusals; a write that is reported
\* refused was not and never will be; and a created task dispatches as it was authored.
THEOREM WritesTruthful == Spec => []WriteTruthful
  <1>1. Spec => []WriteInv
    BY WriteInvInit, WriteInvStep, PTL DEF Spec
  <1> QED
    BY <1>1, WriteInvTruthful, PTL

-----------------------------------------------------------------------------
(* Resumption *)

\* The table of the code agrees with the daemon's vocabulary.
LEMMA TokensAgree == \A token : MapTaskState(token) = Means(token)
  BY DEF MapTaskState, TaskStateMap, Means

\* Every record of a plan has the fields of one.
Formed(plan) == \A t \in Present(plan) : TaskFields \subseteq DOMAIN plan[t]

\* What a row shows of the prerequisites of its task.
Waits(plan, t) == IF mirrored THEN Prerequisites(plan, t) ELSE plan[t].depends_on

\* The others are `blocks` edges of a daemon that does not mirror them.
LEMMA WaitsForLess ==
    ASSUME NEW plan, NEW t
    PROVE  /\ Waits(plan, t) \subseteq Prerequisites(plan, t)
           /\ \A u \in Prerequisites(plan, t) \ Waits(plan, t) :
                ~mirrored /\ u \in Present(plan) /\ t \in plan[u].blocks
  BY DEF Waits, Prerequisites

\* What a resumed runtime has of each task.
LEMMA ResumedNodes ==
    ASSUME NEW plan, Formed(plan)
    PROVE  LET nodes == ProjectTaskNodes(TaskRows(plan, Absent))
           IN /\ DOMAIN nodes = Present(plan)
              /\ \A t \in Present(plan) : /\ nodes[t].state = Means(plan[t].state)
                                          /\ nodes[t].depends_on = Waits(plan, t)
                                          /\ nodes[t].blocks = plan[t].blocks
  <1> DEFINE rows == TaskRows(plan, Absent)
  <1>1. rows = [t \in Present(plan) |-> [plan[t] EXCEPT !.depends_on = Waits(plan, t)]]
    BY DEF TaskRows, Waits
  <1>2. \A t \in Present(plan) : /\ rows[t].state = plan[t].state
                                 /\ rows[t].depends_on = Waits(plan, t)
                                 /\ rows[t].blocks = plan[t].blocks
    BY <1>1 DEF Formed, TaskFields
  <1> QED
    BY <1>1, <1>2, TokensAgree DEF ProjectTaskNodes, ProjectTaskNode

\* A plan that is acyclic and not over, and in which nothing failed or is missing, offers
\* work or has some under way: the tasks still to be started do not all wait for each
\* other.
LEMMA NeverStuck ==
    ASSUME NEW nodes,
           \A W \in SUBSET DOMAIN nodes :
             W # {} => \E t \in W : nodes[t].depends_on \cap W = {},
           \A t \in DOMAIN nodes : /\ nodes[t].depends_on \subseteq DOMAIN nodes
                                   /\ nodes[t].state # "failed",
           \E t \in DOMAIN nodes : nodes[t].state # "succeeded"
    PROVE  Reconcile(nodes).ready \cup Reconcile(nodes).inFlight # {}
  <1> DEFINE waiting == {t \in DOMAIN nodes : nodes[t].state \notin Terminal \cup InFlight}
  <1> SUFFICES ASSUME Reconcile(nodes).inFlight = {} PROVE Reconcile(nodes).ready # {}
    OBVIOUS
  <1>1. \A t \in DOMAIN nodes : nodes[t].state \notin InFlight
    BY DEF Reconcile
  <1>2. waiting # {}
    BY <1>1 DEF Terminal
  <1>3. PICK t \in waiting : nodes[t].depends_on \cap waiting = {}
    BY <1>2
  <1>4. nodes[t].depends_on \subseteq Succeeded(nodes)
    BY <1>1, <1>3 DEF Succeeded, Terminal
  <1> QED
    BY <1>3, <1>4 DEF Reconcile

\* reconcile, of the rows task.list gives for a plan.
LEMMA ReconciledFromRows ==
    ASSUME NEW plan, Formed(plan)
    PROVE  Reconciled(plan, PlanSnapshot(ProjectTaskNodes(TaskRows(plan, Absent)), "none"))
  <1> DEFINE nodes == ProjectTaskNodes(TaskRows(plan, Absent))
             r == Reconcile(nodes)
             In(t, states) == Means(plan[t].state) \in states
  <1>1. /\ DOMAIN nodes = Present(plan)
        /\ \A t \in Present(plan) : /\ nodes[t].state = Means(plan[t].state)
                                    /\ nodes[t].depends_on = Waits(plan, t)
                                    /\ nodes[t].blocks = plan[t].blocks
    BY ResumedNodes
  <1> HIDE DEF nodes
  <1>2. \A t \in Present(plan) :
          /\ t \in r.done <=> In(t, {"succeeded", "failed"})
          /\ t \in r.inFlight <=> In(t, {"assigned", "executing"})
          /\ t \in r.ready \/ t \in r.blocked <=> t \notin r.done \cup r.inFlight
          /\ t \in r.ready => t \notin r.blocked /\ Waits(plan, t) \subseteq Succeeded(nodes)
          /\ t \in r.blocked => ~(Waits(plan, t) \subseteq Succeeded(nodes))
    BY <1>1 DEF Reconcile, Terminal, InFlight
  <1>3. \A t \in Present(plan) : Succeeded(nodes) \cap Open(plan, t) = {}
    BY <1>1 DEF Succeeded, Open
  <1>4. ASSUME NEW t \in Present(plan), t \in r.ready, NEW u \in Open(plan, t)
        PROVE  ~mirrored /\ Edge(u, t, "blocks") \in DeriveEdges(nodes)
    <2>1. u \in Prerequisites(plan, t) \ Waits(plan, t)
      BY <1>2, <1>3, <1>4 DEF Open
    <2>2. ~mirrored /\ u \in Present(plan) /\ t \in plan[u].blocks
      BY <2>1, WaitsForLess
    <2> QED
      BY <1>1, <2>2 DEF DeriveEdges
  <1>5. ASSUME NEW t \in Present(plan), t \in r.blocked PROVE Open(plan, t) # {}
    <2>1. PICK u \in Waits(plan, t) : u \notin Succeeded(nodes)
      BY <1>2, <1>5
    <2>2. u \in Prerequisites(plan, t)
      BY <2>1, WaitsForLess
    <2> QED
      BY <1>1, <2>1, <2>2 DEF Open, Succeeded
  <1>6. ASSUME Acyclic(plan),
               \A t \in Present(plan) : /\ Prerequisites(plan, t) \subseteq Present(plan)
                                        /\ ~In(t, {"failed"}),
               \E t \in Present(plan) : ~In(t, {"succeeded"})
        PROVE  r.ready \cup r.inFlight # {}
    <2>1. \A W \in SUBSET DOMAIN nodes :
            W # {} => \E t \in W : nodes[t].depends_on \cap W = {}
      <3> SUFFICES ASSUME NEW W \in SUBSET Present(plan), W # {}
                   PROVE  \E t \in W : nodes[t].depends_on \cap W = {}
        BY <1>1
      <3>1. PICK t \in W : Prerequisites(plan, t) \cap W = {}
        BY <1>6 DEF Acyclic
      <3>2. nodes[t].depends_on \subseteq Prerequisites(plan, t)
        BY <1>1, WaitsForLess
      <3> QED
        BY <3>1, <3>2
    <2>2. \A t \in DOMAIN nodes : nodes[t].depends_on \subseteq DOMAIN nodes
      BY <1>1, <1>6, WaitsForLess
    <2>3. /\ \A t \in DOMAIN nodes : nodes[t].state # "failed"
          /\ \E t \in DOMAIN nodes : nodes[t].state # "succeeded"
      BY <1>1, <1>6
    <2> QED
      BY <2>1, <2>2, <2>3, NeverStuck
  <1>7. LET snapshot == PlanSnapshot(nodes, "none")
        IN snapshot.plan = r /\ snapshot.nodes = nodes /\ snapshot.edges = DeriveEdges(nodes)
    BY DEF PlanSnapshot
  <1> QED
    BY <1>1, <1>2, <1>4, <1>5, <1>6, <1>7 DEF Reconciled, nodes

\* A reply without rows is not a reply with some, nor one that is still to come.
LEMMA BlankIsBlank ==
    /\ NoRows' = NoRows /\ Nothing # NoRows
    /\ \A nodes : [read |-> "nodes", nodes |-> nodes] # NoRows
    /\ NoRows.nodes = <<>>
  BY DEF NoRows, Nothing

LEMMA NoNodes == DOMAIN <<>> = {}
  OBVIOUS

\* What ResumeTrue needs to be inductive, beside WriteInv: while the plan is being read,
\* the plan there is is one that was seen.
ResumeInv ==
    /\ call.verb = "resume" => call.at \in {"read", "done"}
    /\ At("resume", "read") =>
         (\E s \in seen : s.tasks = tasks) /\ Formed(tasks) /\ got = Nothing
    /\ ResumeTrue

LEMMA ResumeInvInit == Init => ResumeInv
  BY DEF Init, ResumeInv, Idle, At, ResumeTrue, Returned

\* A step of another verb.
LEMMA ResumeInvOther == call'.verb # "resume" => ResumeInv'
  BY DEF ResumeInv, At, ResumeTrue, Returned

LEMMA ResumeInvCalls ==
    ASSUME WriteInv, TaskCall \/ ContextCall \/ DirectoryCall
    PROVE  ResumeInv'
  <1>1. CASE Resume
    <2>1. /\ call' = [verb |-> "resume", at |-> "read"] /\ seen' = {Room}
          /\ UNCHANGED <<tasks, got>> /\ call.at = "idle" /\ got = Nothing
      BY <1>1 DEF Resume, BeginRead, Begin, WriteInv
    <2>2. Formed(tasks)
      BY <2>1, WorkspaceAssumption DEF WriteInv, Formed, Present
    <2>3. Formed(tasks)'
      BY <2>1, <2>2 DEF Formed, Present
    <2>4. Room.tasks = tasks
      BY DEF Room
    <2> QED
      BY <2>1, <2>3, <2>4 DEF ResumeInv, At, ResumeTrue, Returned, Nothing
  <1>2. ASSUME NEW c, CallShape(c), c.verb # "resume", BeginRead(c) \/ BeginWrite(c) \/ NoRoom(c)
        PROVE  ResumeInv'
    <2>1. call'.verb # "resume"
      BY <1>2 DEF BeginRead, BeginWrite, NoRoom, Begin, CallShape
    <2> QED
      BY <2>1, ResumeInvOther
  <1>3. ASSUME NEW i, CreateTask(i) PROVE ResumeInv'
    BY <1>2, <1>3 DEF CreateTask, CallShape
  <1>4. ASSUME NEW i, UpdateTask(i) PROVE ResumeInv'
    BY <1>2, <1>4 DEF UpdateTask, CallShape
  <1>5. ASSUME NEW f, NEW v, ListTasks(f, v) PROVE ResumeInv'
    BY <1>2, <1>5 DEF ListTasks, CallShape
  <1>6. ASSUME NEW size, ShareContext(size) PROVE ResumeInv'
    BY <1>2, <1>6 DEF ShareContext, CallShape
  <1>7. ASSUME NEW c, GetContext(c) PROVE ResumeInv'
    BY <1>2, <1>7 DEF GetContext, CallShape
  <1>8. ASSUME NEW i, FindAgents(i) PROVE ResumeInv'
    BY <1>2, <1>8 DEF FindAgents, CallShape
  <1>9. ASSUME NEW a, DescribeAgent(a) PROVE ResumeInv'
    BY <1>2, <1>9 DEF DescribeAgent, CallShape
  <1>10. ASSUME WorkspaceStatus PROVE ResumeInv'
    BY <1>2, <1>10 DEF WorkspaceStatus, CallShape
  <1> QED
    BY <1>1, <1>3, <1>4, <1>5, <1>6, <1>7, <1>8, <1>9, <1>10
    DEF TaskCall, ContextCall, DirectoryCall

\* The snapshot is of the plan there is when task.list answers.
LEMMA ResumeInvReconstruct ==
    ASSUME WriteInv, ResumeInv, ReconstructPlan
    PROVE  ResumeInv'
  <1>1. /\ call' = [call EXCEPT !.at = "done"] /\ UNCHANGED <<seen, mirrored>>
        /\ At("resume", "read")
    BY DEF ReconstructPlan, Return, ReturnBlank, Goto, daemonVars
  <1>2. call'.at = "done" /\ call'.verb = "resume"
    BY <1>1 DEF WriteInv, CallShape, At
  <1>3. PICK s \in seen : s.tasks = tasks /\ Formed(tasks)
    BY <1>1 DEF ResumeInv
  <1>4. CASE /\ result' = PlanSnapshot(ProjectTaskNodes(TaskRows(tasks, Absent)), "none")
             /\ got' # NoRows
    <2>1. Reconciled(s.tasks, result')
      BY <1>3, <1>4, ReconciledFromRows
    <2>2. Reconciled(s.tasks, result)'
      BY <1>1, <2>1 DEF Reconciled, Open, Acyclic, Prerequisites, Present, Means, Edge
    <2> QED
      BY <1>1, <1>2, <1>4, <2>2, BlankIsBlank DEF ResumeInv, At, ResumeTrue, Returned
  <1>5. CASE \E code \in TransportCodes \cup {"rpc"} : result' = PlanSnapshot(<<>>, code)
    <2>1. result'.code # "none"
      BY <1>5 DEF PlanSnapshot, TransportCodes
    <2> QED
      BY <1>2, <2>1 DEF ResumeInv, At, ResumeTrue, Returned
  <1>6. CASE result' = PlanSnapshot(<<>>, "none") /\ got' = NoRows
    <2>1. result'.nodes = <<>> /\ result'.plan.ready = {}
      BY <1>6 DEF PlanSnapshot, Reconcile
    <2> QED
      BY <1>2, <1>6, <2>1, BlankIsBlank DEF ResumeInv, At, ResumeTrue, Returned
  <1>7. got = Nothing
    BY <1>1 DEF ResumeInv
  <1>8. ASSUME NEW r, Return(r) PROVE result' = r /\ got' # NoRows
    BY <1>7, <1>8, BlankIsBlank DEF Return
  <1>9. \/ Return(PlanSnapshot(ProjectTaskNodes(TaskRows(tasks, Absent)), "none"))
        \/ ReturnBlank(PlanSnapshot(<<>>, "none"))
        \/ \E code \in TransportCodes \cup {"rpc"} : Return(PlanSnapshot(<<>>, code))
    BY DEF ReconstructPlan
  <1> QED
    BY <1>4, <1>5, <1>6, <1>8, <1>9 DEF ReturnBlank

\* Another runtime changes the plan while it is being read.
LEMMA ResumeInvChange ==
    ASSUME WriteInv, ResumeInv, Change
    PROVE  ResumeInv'
  <1>1. UNCHANGED call /\ call.at \notin {"idle", "done"}
    BY DEF Change
  <1>2. CASE call.verb # "resume"
    BY <1>1, <1>2, ResumeInvOther
  <1>3. CASE call.verb = "resume"
    <2>1. /\ seen' = seen \cup {[tasks |-> tasks', shared |-> shared', agents |-> agents']}
          /\ \E t \in Tasks, r \in Records : tasks' = [tasks EXCEPT ![t] = r]
          /\ UNCHANGED got
      BY <1>3 DEF Change
    <2>2. \E s \in seen' : s.tasks = tasks'
      <3> DEFINE new == [tasks |-> tasks', shared |-> shared', agents |-> agents']
      <3>1. new \in seen' /\ new.tasks = tasks'
        BY <2>1
      <3> QED
        BY <3>1
    <2>3. Formed(tasks)
      BY <1>1, <1>3 DEF ResumeInv, At
    <2>4. Formed(tasks)'
      BY <2>1, <2>3, WorkspaceAssumption DEF Formed, Present, WriteInv
    <2> QED
      BY <1>1, <1>3, <2>1, <2>2, <2>4 DEF ResumeInv, At, ResumeTrue, Returned, Nothing
  <1> QED
    BY <1>2, <1>3

\* A handler of another verb goes on or returns.
LEMMA ResumeInvGoto ==
    ASSUME WriteInv, call.verb # "resume", NEW at, Goto(at)
    PROVE  ResumeInv'
  <1>1. call'.verb # "resume"
    BY DEF Goto, WriteInv, CallShape
  <1> QED
    BY <1>1, ResumeInvOther

LEMMA ResumeInvHandler ==
    ASSUME WriteInv, ResumeInv, Handler
    PROVE  ResumeInv'
  <1>1. CASE ReconstructPlan
    BY <1>1, ResumeInvReconstruct
  <1>2. CASE WriteReplied \/ WriteRejected \/ WriteFails
    <2>1. call.verb # "resume"
      BY <1>2 DEF WriteReplied, WriteRejected, WriteFails, WriteInv, Writes
    <2>2. Goto("done")
      BY <1>2 DEF WriteReplied, WriteRejected, WriteFails, Fault, Guarded, Return
    <2> QED
      BY <2>1, <2>2, ResumeInvGoto
  <1>3. CASE \/ ListRead \/ GraphRead \/ ContextRead \/ FindList \/ FindProbe \/ FindReturn
             \/ DescribeTools \/ DescribeList \/ StatusRead \/ StatusList
    <2>1. call.verb # "resume"
      BY <1>3 DEF ListRead, GraphRead, ContextRead, FindList, FindProbe, FindReturn,
         DescribeTools, DescribeList, StatusRead, StatusList, At
    <2>2. ASSUME \/ \E r : Return(r) \/ ReturnBlank(r)
                 \/ \E w, at : Read(w, at)
                 \/ ReadFails
          PROVE  \E at : Goto(at)
      BY <2>2 DEF ReadFails, Fault, Return, ReturnBlank, Read
    <2>3. ListRead => \E at : Goto(at)
      BY <2>2 DEF ListRead
    <2>4. GraphRead \/ ContextRead => \E at : Goto(at)
      BY <2>2 DEF GraphRead, ContextRead
    <2>5. FindList => \E at : Goto(at)
      BY <2>2 DEF FindList
    <2>6. FindProbe \/ FindReturn => \E at : Goto(at)
      BY <2>2 DEF FindProbe, FindReturn
    <2>7. DescribeTools \/ DescribeList => \E at : Goto(at)
      BY <2>2 DEF DescribeTools, DescribeList
    <2>8. StatusRead \/ StatusList => \E at : Goto(at)
      BY <2>2 DEF StatusRead, StatusList
    <2> QED
      BY <1>3, <2>1, <2>3, <2>4, <2>5, <2>6, <2>7, <2>8, ResumeInvGoto
  <1> QED
    BY <1>1, <1>2, <1>3 DEF Handler

LEMMA ResumeInvStep == WriteInv /\ ResumeInv /\ [Next]_vars => ResumeInv'
  <1> SUFFICES ASSUME WriteInv, ResumeInv, [Next]_vars PROVE ResumeInv'
    OBVIOUS
  <1>1. CASE DaemonApplies \/ DaemonRefuses
    <2>1. call'.verb # "resume"
      BY <1>1 DEF DaemonApplies, DaemonRefuses, WriteInv, Writes
    <2> QED
      BY <2>1, ResumeInvOther
  <1>2. CASE UNCHANGED vars
    <2>1. UNCHANGED <<call, got, result, seen, mirrored, tasks>>
      BY <1>2 DEF vars
    <2>2. \A plan : Reconciled(plan, result)' = Reconciled(plan, result)
      BY <2>1 DEF Reconciled, Open, Acyclic, Prerequisites, Present, Means, Edge
    <2>3. ResumeTrue'
      BY <2>1, <2>2, BlankIsBlank DEF ResumeInv, ResumeTrue, Returned
    <2> QED
      BY <2>1, <2>3 DEF ResumeInv, At, Formed, Present, Nothing
  <1> QED
    BY <1>1, <1>2, ResumeInvCalls, ResumeInvHandler, ResumeInvChange DEF Next

\* For every plan, every daemon and however other runtimes change the plan meanwhile: what a
\* restarted runtime is told to do fits a state the plan really had, with its `blocks`
\* edges; the only task ready too early is one whose snapshot shows the `blocks` edge the
\* daemon does not mirror; and an unfinished plan is never stuck.
THEOREM ResumesTrue == Spec => []ResumeTrue
  <1>1. Spec => [](WriteInv /\ ResumeInv)
    BY WriteInvInit, WriteInvStep, ResumeInvInit, ResumeInvStep, PTL DEF Spec
  <1>2. ResumeInv => ResumeTrue
    BY DEF ResumeInv
  <1> QED
    BY <1>1, <1>2, PTL

-----------------------------------------------------------------------------
(* Listing and fetching *)

Sizes == {"none", "small", "large"}

\* What a read of the room relies on: the room of the moment is among the states seen,
\* and the call keeps its parameters.
SeenInv ==
    /\ agents \in [Agents -> AgentStates]
    /\ call.at \notin {"idle", "done"} /\ call.verb \notin Writes => Room \in seen
    /\ call.verb = "list" => Formed(tasks) /\ {"filter", "view"} \subseteq DOMAIN call
    /\ call.verb = "get" => "context" \in DOMAIN call /\ call.context \in Contexts
    /\ call.verb \notin Writes => shared \in [Contexts -> Sizes]
    /\ call.verb = "find" => "input" \in DOMAIN call
    /\ call.verb = "describe" => "agent" \in DOMAIN call /\ call.agent \in Agents

LEMMA SeenInvInit == Init => SeenInv
  <1>1. Nobody \in [Agents -> AgentStates]
    BY DEF Nobody, AgentStates
  <1> QED
    BY <1>1 DEF Init, SeenInv, Idle, Sizes, NoArtifacts

\* A call that starts, with or without a room.
LEMMA SeenInvBegin ==
    ASSUME WriteInv, SeenInv, NEW c, Begin(c), CallShape(c),
           c.verb = "list" => {"filter", "view"} \subseteq DOMAIN c,
           c.verb = "get" => "context" \in DOMAIN c /\ c.context \in Contexts,
           c.verb = "find" => "input" \in DOMAIN c,
           c.verb = "describe" => "agent" \in DOMAIN c /\ c.agent \in Agents
    PROVE  SeenInv'
  <1>1. /\ call' = c /\ seen' = {Room} /\ UNCHANGED <<tasks, shared, agents>>
        /\ call.at = "idle"
    BY DEF Begin
  <1>2. Room' \in seen'
    BY <1>1 DEF Room
  <1>3. Formed(tasks)
    BY <1>1, WorkspaceAssumption DEF WriteInv, Formed, Present
  <1>4. Formed(tasks)'
    BY <1>1, <1>3 DEF Formed, Present
  <1>5. shared' \in [Contexts -> Sizes]
    BY <1>1 DEF SeenInv, WriteInv, Writes
  <1> QED
    BY <1>1, <1>2, <1>4, <1>5 DEF SeenInv

LEMMA SeenInvCalls ==
    ASSUME WriteInv, SeenInv, TaskCall \/ ContextCall \/ DirectoryCall
    PROVE  SeenInv'
  <1>1. ASSUME NEW c, CallShape(c), c.verb \notin {"list", "find", "describe"},
               c.verb = "get" => "context" \in DOMAIN c /\ c.context \in Contexts,
               BeginRead(c) \/ BeginWrite(c) \/ NoRoom(c)
        PROVE  SeenInv'
    <2>1. CASE Begin(c)
      BY <1>1, <2>1, SeenInvBegin
    <2>2. CASE NoRoom(c)
      <3> DEFINE d == [c EXCEPT !.at = "done"]
      <3>1. /\ CallShape(d) /\ d.verb = c.verb
            /\ c.verb = "get" => "context" \in DOMAIN d /\ d.context \in Contexts
        BY <1>1 DEF CallShape
      <3>2. Begin(d)
        BY <2>2 DEF NoRoom
      <3> HIDE DEF d
      <3> QED
        BY <1>1, <3>1, <3>2, SeenInvBegin
    <2> QED
      BY <1>1, <2>1, <2>2 DEF BeginRead, BeginWrite
  <1>2. ASSUME NEW i, CreateTask(i) PROVE SeenInv'
    BY <1>1, <1>2 DEF CreateTask, CallShape
  <1>3. ASSUME NEW i, UpdateTask(i) PROVE SeenInv'
    BY <1>1, <1>3 DEF UpdateTask, CallShape
  <1>4. ASSUME NEW f, NEW v, ListTasks(f, v) PROVE SeenInv'
    BY <1>4, SeenInvBegin DEF ListTasks, BeginRead, CallShape
  <1>5. ASSUME Resume PROVE SeenInv'
    BY <1>1, <1>5 DEF Resume, CallShape
  <1>6. ASSUME NEW size, ShareContext(size) PROVE SeenInv'
    BY <1>1, <1>6 DEF ShareContext, CallShape
  <1>7. ASSUME NEW c \in Contexts, GetContext(c) PROVE SeenInv'
    BY <1>1, <1>7 DEF GetContext, CallShape
  <1>8. ASSUME NEW i, FindAgents(i) PROVE SeenInv'
    BY <1>8, SeenInvBegin DEF FindAgents, BeginRead, CallShape
  <1>9. ASSUME NEW a \in Agents, DescribeAgent(a) PROVE SeenInv'
    BY <1>9, SeenInvBegin DEF DescribeAgent, BeginRead, CallShape
  <1>10. ASSUME WorkspaceStatus PROVE SeenInv'
    BY <1>1, <1>10 DEF WorkspaceStatus, CallShape
  <1> QED
    BY <1>2, <1>3, <1>4, <1>5, <1>6, <1>7, <1>8, <1>9, <1>10
    DEF TaskCall, ContextCall, DirectoryCall

\* Every step of a handler moves the call on and leaves the room alone.
LEMMA HandlerGoes ==
    ASSUME Handler
    PROVE  /\ \E at : Goto(at)
           /\ call.at # "idle"
           /\ UNCHANGED <<tasks, shared, agents, mirrored, rowTools, seen>>
  <1> DEFINE Goes == /\ \E at : Goto(at)
                     /\ UNCHANGED <<tasks, shared, agents, mirrored, rowTools, seen>>
  <1>1. ASSUME NEW r, Return(r) \/ ReturnBlank(r) PROVE Goes
    BY <1>1 DEF Return, ReturnBlank, daemonVars
  <1>2. ASSUME NEW w, NEW at, Read(w, at) PROVE Goes
    BY <1>2 DEF Read, daemonVars
  <1>3. ASSUME ReadFails PROVE Goes
    BY <1>1, <1>3 DEF ReadFails, Fault
  <1>4. ASSUME Fault \/ Guarded PROVE Goes
    BY <1>1, <1>4 DEF Fault, Guarded, daemonVars
  <1> HIDE DEF Goes
  <1>5. CASE WriteReplied \/ WriteRejected \/ WriteFails
    <2>1. Goes
      BY <1>1, <1>4, <1>5 DEF WriteReplied, WriteRejected, WriteFails
    <2> QED
      BY <1>5, <2>1 DEF WriteReplied, WriteRejected, WriteFails, Goes
  <1>6. CASE ListRead \/ GraphRead \/ ReconstructPlan \/ ContextRead
    <2>1. Goes
      BY <1>1, <1>2, <1>3, <1>6 DEF ListRead, GraphRead, ReconstructPlan, ContextRead
    <2> QED
      BY <1>6, <2>1 DEF ListRead, GraphRead, ReconstructPlan, ContextRead, At, Goes
  <1>7. CASE FindList \/ FindProbe \/ FindReturn
    <2>1. FindList => Goes
      BY <1>1, <1>2, <1>3 DEF FindList
    <2>2. FindProbe \/ FindReturn => Goes
      BY <1>1, <1>2 DEF FindProbe, FindReturn
    <2> QED
      BY <1>7, <2>1, <2>2 DEF FindList, FindProbe, FindReturn, At, Goes
  <1>8. CASE DescribeTools \/ DescribeList \/ StatusRead \/ StatusList
    <2>1. DescribeTools \/ DescribeList => Goes
      BY <1>1, <1>2, <1>3 DEF DescribeTools, DescribeList
    <2>2. StatusRead \/ StatusList => Goes
      BY <1>1, <1>2, <1>3 DEF StatusRead, StatusList
    <2> QED
      BY <1>8, <2>1, <2>2 DEF DescribeTools, DescribeList, StatusRead, StatusList, At, Goes
  <1> QED
    BY <1>5, <1>6, <1>7, <1>8 DEF Handler

\* A call that moves on keeps its verb and its parameters.
LEMMA GotoKeeps ==
    ASSUME WriteInv, SeenInv, NEW at, Goto(at)
    PROVE  /\ call'.at = at /\ call'.verb = call.verb
           /\ DOMAIN call' = DOMAIN call
           /\ \A f \in DOMAIN call \ {"at"} : call'[f] = call[f]
  BY DEF Goto, WriteInv, CallShape

LEMMA SeenInvStep == WriteInv /\ SeenInv /\ [Next]_vars => SeenInv'
  <1> SUFFICES ASSUME WriteInv, SeenInv, [Next]_vars PROVE SeenInv'
    OBVIOUS
  <1>1. CASE Handler
    <2>1. PICK at : Goto(at)
      BY <1>1, HandlerGoes
    <2>2. /\ call.at # "idle" /\ UNCHANGED <<tasks, shared, agents, mirrored, rowTools, seen>>
      BY <1>1, HandlerGoes
    <2>3. /\ call'.at = at /\ call'.verb = call.verb
          /\ DOMAIN call' = DOMAIN call
          /\ \A f \in DOMAIN call \ {"at"} : call'[f] = call[f]
      BY <2>1, GotoKeeps
    <2>4. /\ call.verb = "describe" => call'.agent = call.agent
          /\ call.verb = "get" => call'.context = call.context
      BY <2>3 DEF SeenInv
    <2>5. call.at # "done" \/ call'.at = "done"
      BY <1>1, <2>1 DEF Handler, WriteReplied, WriteRejected, WriteFails, ListRead, GraphRead,
         ReconstructPlan, ContextRead, FindList, FindProbe, FindReturn, DescribeTools,
         DescribeList, StatusRead, StatusList, At
    <2>6. Room' = Room
      BY <2>2 DEF Room
    <2>7. call'.at \notin {"idle", "done"} /\ call'.verb \notin Writes => Room' \in seen'
      BY <2>2, <2>3, <2>5, <2>6 DEF SeenInv
    <2>8. call.verb = "list" => Formed(tasks)'
      BY <2>2 DEF SeenInv, Formed, Present
    <2> QED
      BY <2>2, <2>3, <2>4, <2>7, <2>8 DEF SeenInv
  <1>2. CASE Change
    <2>1. /\ call.at \notin {"idle", "done"} /\ UNCHANGED call
          /\ seen' = seen \cup {[tasks |-> tasks', shared |-> shared', agents |-> agents']}
      BY <1>2 DEF Change
    <2>2. Room' \in seen'
      BY <2>1 DEF Room
    <2>3. agents' \in [Agents -> AgentStates]
      BY <1>2 DEF Change, SeenInv
    <2>4. call.verb = "list" => Formed(tasks)'
      <3> SUFFICES ASSUME call.verb = "list" PROVE Formed(tasks)'
        OBVIOUS
      <3>1. Formed(tasks) /\ \E t \in Tasks, r \in Records : tasks' = [tasks EXCEPT ![t] = r]
        BY <1>2 DEF SeenInv, Change
      <3> QED
        BY <3>1, WorkspaceAssumption DEF Formed, Present, WriteInv
    <2>5. shared \in [Contexts -> Sizes] => shared' \in [Contexts -> Sizes]
      BY <1>2 DEF Change, Sizes
    <2> QED
      BY <2>1, <2>2, <2>3, <2>4, <2>5 DEF SeenInv
  <1>3. CASE DaemonApplies \/ DaemonRefuses
    <2>1. UNCHANGED <<agents, call>> /\ call.verb \in Writes
      BY <1>3 DEF DaemonApplies, DaemonRefuses, WriteInv
    <2> QED
      BY <2>1 DEF SeenInv, Writes
  <1>4. CASE UNCHANGED vars
    BY <1>4 DEF vars, SeenInv, Room, Formed, Present
  <1> QED
    BY <1>1, <1>2, <1>3, <1>4, SeenInvCalls DEF Next

\* The tasks a listing shows.
Shown(plan, filter) == {t \in Present(plan) : filter \in {Absent, Means(plan[t].state)}}

\* What task.list says of each of them.
LEMMA ListedRows ==
    ASSUME NEW plan, Formed(plan), NEW filter
    PROVE  LET rows == TaskRows(plan, filter)
           IN /\ DOMAIN rows = Shown(plan, filter)
              /\ \A t \in DOMAIN rows : /\ rows[t].state = plan[t].state
                                        /\ rows[t].depends_on = Waits(plan, t)
                                        /\ rows[t].blocks = plan[t].blocks
  <1> DEFINE rows == TaskRows(plan, filter)
  <1>1. rows = [t \in Shown(plan, filter) |->
                 [plan[t] EXCEPT !.depends_on = Waits(plan, t)]]
    BY DEF TaskRows, Shown, Waits
  <1>2. Shown(plan, filter) \subseteq Present(plan)
    BY DEF Shown
  <1> QED
    BY <1>1, <1>2 DEF Formed, TaskFields

\* The edges of a set of nodes, one by one.
LEMMA DerivedEdges ==
    ASSUME NEW nodes, NEW e
    PROVE  e \in DeriveEdges(nodes) <=>
             \E t \in DOMAIN nodes : \/ \E d \in nodes[t].depends_on : e = Edge(t, d, "depends_on")
                                     \/ \E b \in nodes[t].blocks : e = Edge(t, b, "blocks")
  BY DEF DeriveEdges

\* The nodes of a listing are those of the plan.
LEMMA ListedNodes ==
    ASSUME NEW plan, Formed(plan), NEW filter
    PROVE  LET nodes == ProjectTaskNodes(TaskRows(plan, filter))
           IN /\ DOMAIN nodes = Shown(plan, filter)
              /\ \A t \in DOMAIN nodes : /\ nodes[t].state = Means(plan[t].state)
                                         /\ nodes[t].depends_on = Waits(plan, t)
                                         /\ nodes[t].blocks = plan[t].blocks
  <1> DEFINE rows == TaskRows(plan, filter)
             nodes == ProjectTaskNodes(rows)
  <1>1. /\ DOMAIN rows = Shown(plan, filter)
        /\ \A t \in DOMAIN rows : /\ rows[t].state = plan[t].state
                                  /\ rows[t].depends_on = Waits(plan, t)
                                  /\ rows[t].blocks = plan[t].blocks
    BY ListedRows
  <1> HIDE DEF rows
  <1>2. /\ DOMAIN nodes = DOMAIN rows
        /\ \A t \in DOMAIN rows : /\ nodes[t].state = Means(rows[t].state)
                                  /\ nodes[t].depends_on = rows[t].depends_on
                                  /\ nodes[t].blocks = rows[t].blocks
    BY TokensAgree DEF ProjectTaskNodes, ProjectTaskNode
  <1> QED
    BY <1>1, <1>2 DEF rows

\* Their edges are edges of its graph, and no edge of the graph that starts from one of
\* them is missing.
LEMMA ListedEdges ==
    ASSUME NEW plan, Formed(plan), NEW filter
    PROVE  LET nodes == ProjectTaskNodes(TaskRows(plan, filter))
           IN /\ DeriveEdges(nodes) \subseteq GraphEdges(plan)
              /\ DeriveEdges(TaskRows(plan, filter)) \subseteq GraphEdges(plan)
              /\ \A t \in DOMAIN nodes : \A u, k :
                   Edge(t, u, k) \in GraphEdges(plan) => Edge(t, u, k) \in DeriveEdges(nodes)
  <1> DEFINE rows == TaskRows(plan, filter)
             all == TaskRows(plan, Absent)
             nodes == ProjectTaskNodes(rows)
             Same(n) == /\ DOMAIN n \subseteq Present(plan)
                        /\ \A t \in DOMAIN n : /\ n[t].depends_on = Waits(plan, t)
                                               /\ n[t].blocks = plan[t].blocks
  <1>1. Same(rows)
    BY ListedRows DEF Shown
  <1>2. Same(all) /\ DOMAIN all = Present(plan)
    BY ListedRows DEF Shown
  <1>3. Same(nodes)
    BY ListedNodes DEF Shown
  <1>4. GraphEdges(plan) = DeriveEdges(all)
    BY DEF GraphEdges
  <1> HIDE DEF rows, all, nodes
  <1>5. DeriveEdges(nodes) \subseteq DeriveEdges(all)
    BY <1>2, <1>3, DerivedEdges
  <1>6. DeriveEdges(rows) \subseteq DeriveEdges(all)
    BY <1>1, <1>2, DerivedEdges
  <1>7. ASSUME NEW t \in DOMAIN nodes, NEW u, NEW k, Edge(t, u, k) \in DeriveEdges(all)
        PROVE  Edge(t, u, k) \in DeriveEdges(nodes)
    <2>1. PICK v \in DOMAIN all :
            \/ \E d \in all[v].depends_on : Edge(t, u, k) = Edge(v, d, "depends_on")
            \/ \E b \in all[v].blocks : Edge(t, u, k) = Edge(v, b, "blocks")
      BY <1>7, DerivedEdges
    <2>2. v = t
      BY <2>1 DEF Edge
    <2> QED
      BY <1>2, <1>3, <2>1, <2>2, DerivedEdges
  <1> QED
    BY <1>4, <1>5, <1>6, <1>7 DEF rows, nodes

\* The reading of a plan depends on the daemon's kind only, which never changes.
LEMMA EdgesStay ==
    ASSUME UNCHANGED mirrored
    PROVE  \A plan : GraphEdges(plan)' = GraphEdges(plan)
  BY DEF GraphEdges, DeriveEdges, TaskRows, Prerequisites, Present, Means, Edge

LEMMA NodesStay ==
    ASSUME UNCHANGED mirrored
    PROVE  \A plan, filter :
             ProjectTaskNodes(TaskRows(plan, filter))' = ProjectTaskNodes(TaskRows(plan, filter))
  BY DEF TaskRows, Prerequisites, Present, Means, ProjectTaskNodes, ProjectTaskNode,
     ProjectAction, MapTaskState, TaskStateMap

\* The part of ReadTrue about mx_list_tasks, of the reads, the parameters and the result of a
\* call.
ListTrue(g, filter, view, r) ==
    /\ IF g = NoRows THEN r.nodes = <<>> ELSE \E s \in seen :
         /\ DOMAIN r.nodes = Shown(s.tasks, filter)
         /\ \A t \in DOMAIN r.nodes : r.nodes[t].state = Means(s.tasks[t].state)
    /\ \A e \in r.edges : \E s \in seen : e \in GraphEdges(s.tasks)
    /\ view = "graph" =>
         \A t \in DOMAIN r.nodes, u \in Tasks, k \in {"depends_on", "blocks"} :
           (\A s \in seen : Edge(t, u, k) \in GraphEdges(s.tasks)) => Edge(t, u, k) \in r.edges

\* The part about mx_get_context.
FetchTrue(context, r) ==
    /\ r.status = "ok" =>
         \E s \in seen : s.shared[context] = (IF r.inline THEN "small" ELSE "large")
    /\ r.code = "not_found" => \E s \in seen : s.shared[context] = "none"

\* What ReadTrue needs to be inductive, beside SeenInv: the nodes kept for the second read
\* are those of a state that was seen, or none, and nothing is returned before.
ReadInv ==
    /\ call.verb = "list" => call.at \in {"list", "graph", "done"}
    /\ At("list", "list") => got = Nothing
    /\ At("list", "graph") => got = NoRows \/ \E s \in seen :
         /\ got # NoRows /\ Formed(s.tasks)
         /\ got.nodes = ProjectTaskNodes(TaskRows(s.tasks, call.filter))
    /\ call.verb = "get" => call.at \in {"read", "done"}
    /\ Returned("list") /\ result.status = "ok" => ListTrue(got, call.filter, call.view, result)
    /\ Returned("get") => FetchTrue(call.context, result)

LEMMA ReadInvTrue == ReadInv => ReadTrue
  BY DEF ReadInv, ReadTrue, ListTrue, FetchTrue, Shown, NoRows

\* A step of another verb.
LEMMA ReadInvOther == call'.verb \notin {"list", "get"} => ReadInv'
  BY DEF ReadInv, At, Returned

\* A read that fails is neither an answer nor a word about what is not there.
LEMMA ReadFailsResult ==
    ASSUME ReadFails
    PROVE  /\ result'.status # "ok" /\ result'.code # "not_found"
           /\ call' = [call EXCEPT !.at = "done"]
  BY DEF ReadFails, Fault, Return, Goto, FaultToResult, FailureResult, MapDaemonError,
     DaemonCodeToError, MapTransportError, TransportCodes, DenialCodes

\* The single read of a listing, or the first of two.
LEMMA ReadInvList ==
    ASSUME WriteInv, SeenInv, ReadInv, ListRead
    PROVE  ReadInv'
  <1> DEFINE nodes == ProjectTaskNodes(TaskRows(tasks, call.filter))
  <1>1. /\ At("list", "list") /\ Formed(tasks) /\ Room \in seen /\ Room.tasks = tasks
        /\ {"filter", "view"} \subseteq DOMAIN call /\ got = Nothing
    BY DEF ListRead, SeenInv, ReadInv, At, Writes, Room
  <1>2. CASE ReadFails
    <2>1. call'.verb = "list" /\ call'.at = "done" /\ result'.status # "ok"
      BY <1>1, <1>2, ReadFailsResult DEF WriteInv, CallShape, At
    <2> QED
      BY <2>1 DEF ReadInv, At, Returned
  <1>3. CASE call.view = "list" /\ Return(ListResult(nodes, {}))
    <2>1. /\ call'.verb = "list" /\ call'.at = "done" /\ call'.view = "list"
          /\ call'.filter = call.filter
          /\ result' = ListResult(nodes, {}) /\ UNCHANGED seen /\ got' # NoRows
      BY <1>1, <1>3, BlankIsBlank DEF Return, Goto, WriteInv, CallShape, At
    <2>2. /\ DOMAIN nodes = Shown(tasks, call.filter)
          /\ \A t \in DOMAIN nodes : nodes[t].state = Means(tasks[t].state)
      BY <1>1, ListedNodes
    <2> HIDE DEF nodes
    <2>3. result'.nodes = nodes /\ result'.edges = {}
      BY <2>1 DEF ListResult
    <2>4. ListTrue(got, call.filter, call.view, result)'
      BY <1>1, <2>1, <2>2, <2>3, BlankIsBlank DEF ListTrue, Shown, Present, Means
    <2> QED
      BY <2>1, <2>4 DEF ReadInv, At, Returned
  <1>4. CASE call.view = "graph" /\ Read([read |-> "nodes", nodes |-> nodes], "graph")
    <2>1. /\ call'.verb = "list" /\ call'.at = "graph" /\ call'.filter = call.filter
          /\ got' = [read |-> "nodes", nodes |-> nodes] /\ UNCHANGED <<seen, mirrored, tasks>>
          /\ got' # NoRows
      BY <1>1, <1>4, BlankIsBlank DEF Read, Goto, WriteInv, CallShape, At, daemonVars
    <2>2. PICK s : s = Room
      OBVIOUS
    <2>3. PICK filter : filter = call.filter
      OBVIOUS
    <2>4. /\ s \in seen' /\ Formed(s.tasks)
          /\ got'.nodes = ProjectTaskNodes(TaskRows(s.tasks, filter))
      BY <1>1, <2>1, <2>2, <2>3
    <2>5. got'.nodes = ProjectTaskNodes(TaskRows(s.tasks, filter))'
      BY <2>1, <2>4, NodesStay
    <2>6. Formed(s.tasks)'
      BY <2>4 DEF Formed, Present
    <2>7. call'.filter = filter
      BY <2>1, <2>3
    <2> QED
      BY <2>1, <2>4, <2>5, <2>6, <2>7, BlankIsBlank DEF ReadInv, At, Returned
  <1>5. CASE call.view = "list" /\ ReturnBlank(ListResult(<<>>, {}))
    <2>1. /\ call'.verb = "list" /\ call'.at = "done" /\ call'.view = "list"
          /\ result'.nodes = <<>> /\ result'.edges = {} /\ got' = NoRows
      BY <1>1, <1>5 DEF ReturnBlank, Goto, WriteInv, CallShape, At, ListResult
    <2>2. ListTrue(got, call.filter, call.view, result)'
      BY <2>1, BlankIsBlank, NoNodes DEF ListTrue
    <2> QED
      BY <2>1, <2>2 DEF ReadInv, At, Returned
  <1>6. CASE call.view = "graph" /\ Read(NoRows, "graph")
    <2>1. call'.verb = "list" /\ call'.at = "graph" /\ got' = NoRows
      BY <1>1, <1>6 DEF Read, Goto, WriteInv, CallShape, At
    <2> QED
      BY <2>1, BlankIsBlank DEF ReadInv, At, Returned
  <1> QED
    BY <1>2, <1>3, <1>4, <1>5, <1>6 DEF ListRead

\* The second read of a listing.
LEMMA ReadInvGraph ==
    ASSUME WriteInv, SeenInv, ReadInv, GraphRead
    PROVE  ReadInv'
  <1>1. /\ At("list", "graph") /\ Formed(tasks) /\ Room \in seen /\ Room.tasks = tasks
        /\ {"filter", "view"} \subseteq DOMAIN call
    BY DEF GraphRead, SeenInv, At, Writes, Room
  <1>2. PICK filter : filter = call.filter
    OBVIOUS
  <1>3. PICK nodes, g : nodes = got.nodes /\ g = got
    OBVIOUS
  <1>4. PICK raw \in {GraphEdges(tasks), DeriveEdges(TaskRows(tasks, filter)), {}} :
          Return(ListResult(nodes, MergeEdges(DeriveEdges(nodes), raw)))
    BY <1>2, <1>3 DEF GraphRead
  <1>5. /\ call'.verb = "list" /\ call'.at = "done" /\ call'.filter = filter
        /\ result' = ListResult(nodes, MergeEdges(DeriveEdges(nodes), raw))
        /\ UNCHANGED <<seen, mirrored, got>>
    BY <1>1, <1>2, <1>4 DEF Return, Goto, WriteInv, CallShape, At, daemonVars
  <1>6. result'.nodes = nodes /\ result'.edges = DeriveEdges(nodes) \cup raw
    BY <1>5 DEF ListResult, MergeEdges
  <1>7. raw \subseteq GraphEdges(tasks)
    BY <1>1, <1>4, ListedEdges
  <1>8. CASE g = NoRows
    <2>1. nodes = <<>> /\ DOMAIN nodes = {}
      BY <1>3, <1>8, BlankIsBlank, NoNodes
    <2>2. DeriveEdges(nodes) = {}
      BY <2>1 DEF DeriveEdges
    <2>3. \A e \in result'.edges : \E x \in seen' : e \in GraphEdges(x.tasks)'
      BY <1>1, <1>5, <1>6, <1>7, <2>2, EdgesStay
    <2>4. got' = NoRows /\ DOMAIN result'.nodes = {} /\ result'.nodes = <<>>
      BY <1>3, <1>5, <1>6, <1>8, <2>1
    <2>5. ListTrue(got, call.filter, call.view, result)'
      BY <2>3, <2>4, BlankIsBlank DEF ListTrue
    <2> QED
      BY <1>5, <2>5 DEF ReadInv, At, Returned
  <1>9. CASE g # NoRows
    <2>1. PICK s \in seen : /\ Formed(s.tasks)
                            /\ nodes = ProjectTaskNodes(TaskRows(s.tasks, filter))
      BY <1>1, <1>2, <1>3, <1>9 DEF ReadInv
    <2>2. /\ DOMAIN nodes = Shown(s.tasks, filter)
          /\ \A t \in DOMAIN nodes : nodes[t].state = Means(s.tasks[t].state)
      BY <2>1, ListedNodes
    <2>3. /\ DeriveEdges(nodes) \subseteq GraphEdges(s.tasks)
          /\ \A t \in DOMAIN nodes : \A u, k :
               Edge(t, u, k) \in GraphEdges(s.tasks) => Edge(t, u, k) \in DeriveEdges(nodes)
      BY <2>1, ListedEdges
    <2>4. \A e \in result'.edges : \E x \in seen : e \in GraphEdges(x.tasks)
      BY <1>1, <1>6, <1>7, <2>3
    <2>5. \E x \in seen' :
            /\ DOMAIN result'.nodes = Shown(x.tasks, filter)
            /\ \A t \in DOMAIN result'.nodes : result'.nodes[t].state = Means(x.tasks[t].state)
      BY <1>5, <1>6, <2>2
    <2>6. \A e \in result'.edges : \E x \in seen' : e \in GraphEdges(x.tasks)'
      BY <1>5, <2>4, EdgesStay
    <2>7. ASSUME NEW t \in DOMAIN result'.nodes, NEW u, NEW k,
                 \A x \in seen' : Edge(t, u, k) \in GraphEdges(x.tasks)'
          PROVE  Edge(t, u, k) \in result'.edges
      BY <1>5, <1>6, <2>3, <2>7, EdgesStay
    <2>8. got' # NoRows
      BY <1>3, <1>5, <1>9
    <2>9. ListTrue(got, call.filter, call.view, result)'
      BY <1>5, <2>5, <2>6, <2>7, <2>8, BlankIsBlank DEF ListTrue, Shown, Present, Means
    <2> QED
      BY <1>5, <2>9 DEF ReadInv, At, Returned
  <1> QED
    BY <1>8, <1>9

\* mx_get_context.
LEMMA ReadInvFetch ==
    ASSUME WriteInv, SeenInv, ReadInv, ContextRead
    PROVE  ReadInv'
  <1>1. /\ At("get", "read") /\ Room \in seen /\ Room.shared = shared /\ "context" \in DOMAIN call
    BY DEF ContextRead, SeenInv, At, Writes, Room
  <1>2. CASE ReadFails
    <2>1. /\ call'.verb = "get" /\ call'.at = "done"
          /\ result'.status # "ok" /\ result'.code # "not_found"
      BY <1>1, <1>2, ReadFailsResult DEF WriteInv, CallShape, At
    <2> QED
      BY <2>1 DEF ReadInv, At, Returned, FetchTrue
  <1>3. CASE ~ReadFails
    <2> DEFINE size == shared[call.context]
    <2>1. PICK body \in IF size = "none" THEN {"error"} ELSE {"record", "object", "scalar"} :
            Return(ContextResponseToResult(body, "no_such_context", GetResult(size)))
      BY <1>3 DEF ContextRead
    <2>2. /\ call'.verb = "get" /\ call'.at = "done" /\ call'.context = call.context
          /\ result' = ContextResponseToResult(body, "no_such_context", GetResult(size))
          /\ UNCHANGED seen
      BY <1>1, <2>1 DEF Return, Goto, WriteInv, CallShape, At
    <2>3. size \in Sizes /\ \E s \in seen : s.shared[call.context] = size
      BY <1>1 DEF SeenInv, At, Writes
    <2> HIDE DEF size
    <2>4. /\ result'.status = "ok" => size = (IF result'.inline THEN "small" ELSE "large")
          /\ result'.code = "not_found" => size = "none"
      <3>1. CASE body = "record"
        BY <2>1, <2>2, <2>3, <3>1 DEF ContextResponseToResult, GetResult, Sizes
      <3>2. CASE body = "error"
        BY <2>1, <2>2, <2>3, <3>2 DEF ContextResponseToResult, FailureResult, Sizes
      <3>3. CASE body \notin {"record", "error"}
        BY <2>1, <2>2, <2>3, <3>3 DEF ContextResponseToResult, FailureResult
      <3> QED
        BY <3>1, <3>2, <3>3
    <2>5. FetchTrue(call.context, result)'
      BY <2>2, <2>3, <2>4 DEF FetchTrue
    <2> QED
      BY <2>2, <2>5 DEF ReadInv, At, Returned
  <1> QED
    BY <1>2, <1>3

LEMMA ReadInvCalls ==
    ASSUME WriteInv, TaskCall \/ ContextCall \/ DirectoryCall
    PROVE  ReadInv'
  <1>1. ASSUME NEW c, CallShape(c), c.verb \notin {"list", "get"},
               BeginRead(c) \/ BeginWrite(c) \/ NoRoom(c)
        PROVE  ReadInv'
    <2>1. call'.verb \notin {"list", "get"}
      BY <1>1 DEF BeginRead, BeginWrite, NoRoom, Begin, CallShape
    <2> QED
      BY <2>1, ReadInvOther
  <1>2. ASSUME NEW i, CreateTask(i) PROVE ReadInv'
    BY <1>1, <1>2 DEF CreateTask, CallShape
  <1>3. ASSUME NEW i, UpdateTask(i) PROVE ReadInv'
    BY <1>1, <1>3 DEF UpdateTask, CallShape
  <1>4. ASSUME NEW f, NEW v, ListTasks(f, v) PROVE ReadInv'
    BY <1>4 DEF ListTasks, BeginRead, Begin, WriteInv, ReadInv, At, Returned, Nothing
  <1>5. ASSUME Resume PROVE ReadInv'
    BY <1>1, <1>5 DEF Resume, CallShape
  <1>6. ASSUME NEW size, ShareContext(size) PROVE ReadInv'
    BY <1>1, <1>6 DEF ShareContext, CallShape
  <1>7. ASSUME NEW c, GetContext(c) PROVE ReadInv'
    BY <1>7 DEF GetContext, BeginRead, NoRoom, Begin, FailureResult, ReadInv, At, Returned,
       FetchTrue
  <1>8. ASSUME NEW i, FindAgents(i) PROVE ReadInv'
    BY <1>1, <1>8 DEF FindAgents, CallShape
  <1>9. ASSUME NEW a, DescribeAgent(a) PROVE ReadInv'
    BY <1>1, <1>9 DEF DescribeAgent, CallShape
  <1>10. ASSUME WorkspaceStatus PROVE ReadInv'
    BY <1>1, <1>10 DEF WorkspaceStatus, CallShape
  <1> QED
    BY <1>2, <1>3, <1>4, <1>5, <1>6, <1>7, <1>8, <1>9, <1>10
    DEF TaskCall, ContextCall, DirectoryCall

\* What was read stays the reading of a state seen.
LEMMA SeenStays ==
    ASSUME ReadInv, At("list", "graph"), got # NoRows, UNCHANGED <<call, got, mirrored>>,
           seen \subseteq seen'
    PROVE  \E s \in seen' : /\ Formed(s.tasks)'
                            /\ got'.nodes = ProjectTaskNodes(TaskRows(s.tasks, call.filter))'
  <1>1. PICK filter : filter = call.filter
    OBVIOUS
  <1>2. PICK s \in seen : /\ Formed(s.tasks)
                          /\ got.nodes = ProjectTaskNodes(TaskRows(s.tasks, filter))
    BY <1>1 DEF ReadInv
  <1>3. Formed(s.tasks)'
    BY <1>2 DEF Formed, Present
  <1>4. got'.nodes = ProjectTaskNodes(TaskRows(s.tasks, filter))'
    BY <1>2, NodesStay
  <1>5. call'.filter = filter
    BY <1>1
  <1> QED
    BY <1>2, <1>3, <1>4, <1>5

\* Another runtime changes the room.
LEMMA ReadInvChange ==
    ASSUME ReadInv, Change
    PROVE  ReadInv'
  <1>1. /\ call.at # "done" /\ UNCHANGED <<call, got, mirrored>> /\ seen \subseteq seen'
    BY DEF Change, daemonVars
  <1>2. At("list", "graph") /\ got # NoRows => \E s \in seen' :
          /\ Formed(s.tasks)'
          /\ got'.nodes = ProjectTaskNodes(TaskRows(s.tasks, call.filter))'
    BY <1>1, SeenStays
  <1> QED
    BY <1>1, <1>2, BlankIsBlank DEF ReadInv, At, Returned, Nothing

LEMMA ReadInvHandler ==
    ASSUME WriteInv, SeenInv, ReadInv, Handler
    PROVE  ReadInv'
  <1>1. CASE ListRead \/ GraphRead \/ ContextRead
    BY <1>1, ReadInvList, ReadInvGraph, ReadInvFetch
  <1>2. CASE ~(ListRead \/ GraphRead \/ ContextRead)
    <2>1. call.verb \notin {"list", "get"}
      BY <1>2 DEF Handler, WriteReplied, WriteRejected, WriteFails, WriteInv, Writes,
         ReconstructPlan, FindList, FindProbe, FindReturn, DescribeTools, DescribeList,
         StatusRead, StatusList, At
    <2>2. call'.verb = call.verb
      BY HandlerGoes, GotoKeeps
    <2> QED
      BY <2>1, <2>2, ReadInvOther
  <1> QED
    BY <1>1, <1>2

LEMMA ReadInvStep == WriteInv /\ SeenInv /\ ReadInv /\ [Next]_vars => ReadInv'
  <1> SUFFICES ASSUME WriteInv, SeenInv, ReadInv, [Next]_vars PROVE ReadInv'
    OBVIOUS
  <1>1. CASE DaemonApplies \/ DaemonRefuses
    <2>1. call'.verb \notin {"list", "get"}
      BY <1>1 DEF DaemonApplies, DaemonRefuses, WriteInv, Writes
    <2> QED
      BY <2>1, ReadInvOther
  <1>2. CASE UNCHANGED vars
    <2>1. UNCHANGED <<call, got, result, seen, mirrored>>
      BY <1>2 DEF vars
    <2>2. At("list", "graph") /\ got # NoRows => \E s \in seen' :
            /\ Formed(s.tasks)'
            /\ got'.nodes = ProjectTaskNodes(TaskRows(s.tasks, call.filter))'
      BY <2>1, SeenStays
    <2>3. ListTrue(got, call.filter, call.view, result)
            => ListTrue(got, call.filter, call.view, result)'
      BY <2>1, EdgesStay, BlankIsBlank DEF ListTrue, Shown, Present, Means
    <2>4. FetchTrue(call.context, result) => FetchTrue(call.context, result)'
      BY <2>1 DEF FetchTrue
    <2> QED
      BY <2>1, <2>2, <2>3, <2>4, BlankIsBlank DEF ReadInv, At, Returned, Nothing
  <1> QED
    BY <1>1, <1>2, ReadInvCalls, ReadInvHandler, ReadInvChange DEF Next

LEMMA ReadInvInit == Init => ReadInv
  BY DEF Init, ReadInv, Idle, At, Returned

\* For every room and however other runtimes change it meanwhile: the nodes of a listing
\* are those of one moment, or none if the reply had no rows, its edges existed and none that lasted is missing, and an
\* artifact is fetched as what it was, or unknown only if it was not there.
THEOREM ReadsTrue == Spec => []ReadTrue
  <1>1. Spec => [](WriteInv /\ SeenInv /\ ReadInv)
    BY WriteInvInit, WriteInvStep, SeenInvInit, SeenInvStep, ReadInvInit, ReadInvStep, PTL DEF Spec
  <1> QED
    BY <1>1, ReadInvTrue, PTL

-----------------------------------------------------------------------------
(* The directory *)

\* The agent was there, and had the tool that is looked for.
HadTool(a, i) ==
    \E s \in seen : s.agents[a] # Gone /\ i.tool \in {Absent} \cup s.agents[a].tools

\* It matched, and was alive if it is reported so.
Matched(a, i, liveness) ==
    \E s \in seen : /\ s.agents[a] # Gone
                    /\ Matches(i, s.agents[a])
                    /\ liveness = "active" => s.agents[a].live = "active"

\* It matched all the time.
StayedMatched(a, i) ==
    \A s \in seen : /\ s.agents[a] # Gone
                    /\ Matches(i, s.agents[a])
                    /\ i.tool \in {Absent} \cup s.agents[a].tools

\* The parts of DirectoryHonest, of the parameters, the reads and the result of a call.
FindHonest(i, g, r) ==
    \A a \in Agents :
      /\ a \in DOMAIN r.agents => HadTool(a, i) /\ Matched(a, i, r.agents[a].liveness)
      /\ StayedMatched(a, i) => \/ a \in DOMAIN r.agents
                               \/ g = NoRows \/ (g # Nothing /\ a \in g.failed)

DescribeHonest(a, r) ==
    /\ r.status = "ok" =>
         /\ r.liveness = "active" =>
              \E s \in seen : s.agents[a] # Gone /\ s.agents[a].live = "active"
         /\ r.tools # {} => \E s \in seen : s.agents[a] # Gone /\ s.agents[a].tools = r.tools
         /\ \E s \in seen : s.agents[a] # Gone /\ s.agents[a].caps = r.caps
    /\ r.code = "not_found" => \E s \in seen : s.agents[a] = Gone

StatusHonest(r) ==
    \A a \in DOMAIN r.agents :
      r.agents[a].liveness = "active" =>
        \E s \in seen : s.agents[a] # Gone /\ s.agents[a].live = "active"

\* Where a search is between agent.list and its answer: its rows matched, the ones kept
\* have the tool, and an agent that matches all along is kept, still to be asked, or the
\* one whose answer failed.
Searching(i, g) ==
    /\ DOMAIN g = {"read", "rows", "kept", "todo", "failed"} /\ g.read = "rows"
    /\ i.tool # Absent
    /\ g.kept \subseteq DOMAIN g.rows /\ g.todo \subseteq DOMAIN g.rows
    /\ \A a \in DOMAIN g.rows : a \in Agents /\ Matched(a, i, ReadLiveness(g.rows[a].live))
    /\ \A a \in g.kept : HadTool(a, i)
    /\ \A a \in Agents : StayedMatched(a, i) => a \in g.kept \cup g.todo \cup g.failed

\* What a description keeps of agent.tools until it has asked for the list.
Describing(a, g) ==
    /\ g.known \in BOOLEAN
    /\ g.known => \E s \in seen : /\ s.agents[a] # Gone
                                  /\ s.agents[a].caps = g.caps /\ s.agents[a].tools = g.tools
    /\ ~g.known => g.tools = {} /\ \E s \in seen : s.agents[a] = Gone

\* What DirectoryHonest needs to be inductive, beside SeenInv.
DirInv ==
    /\ call.verb = "find" => call.at \in {"list", "fanout", "done"}
    /\ call.verb = "describe" => call.at \in {"tools", "list", "done"}
    /\ call.verb = "status" => call.at \in {"status", "list", "done"}
    /\ At("find", "fanout") => Searching(call.input, got)
    /\ At("describe", "list") => Describing(call.agent, got)
    /\ Returned("find") /\ result.status = "ok" => FindHonest(call.input, got, result)
    /\ Returned("describe") => DescribeHonest(call.agent, result)
    /\ Returned("status") /\ result.status = "ok" => StatusHonest(result)

LEMMA DirInvHonest == DirInv => DirectoryHonest
  <1> SUFFICES ASSUME DirInv PROVE DirectoryHonest
    OBVIOUS
  <1>1. Returned("find") /\ result.status = "ok" => FindHonest(call.input, got, result)
    BY DEF DirInv
  <1>2. Returned("describe") => DescribeHonest(call.agent, result)
    BY DEF DirInv
  <1>3. Returned("status") /\ result.status = "ok" => StatusHonest(result)
    BY DEF DirInv
  <1> QED
    BY <1>1, <1>2, <1>3
    DEF DirectoryHonest, FindHonest, DescribeHonest, StatusHonest, HadTool, Matched, StayedMatched

LEMMA DirInvInit == Init => DirInv
  BY DEF Init, DirInv, Idle, At, Returned

Directory == {"find", "describe", "status"}

\* A step of another verb.
LEMMA DirInvOther == call'.verb \notin Directory => DirInv'
  BY DEF DirInv, At, Returned, Directory

\* The rows of agent.list are the agents there are; only their tools may be left out.
LEMMA ListedAgents ==
    ASSUME agents \in [Agents -> AgentStates]
    PROVE  LET rows == AgentRows(agents)
           IN /\ DOMAIN rows = {a \in Agents : agents[a] # Gone}
              /\ \A a \in DOMAIN rows :
                   /\ rows[a].live = agents[a].live /\ rows[a].caps = agents[a].caps
                   /\ rows[a].tools \in {agents[a].tools, {}}
                   /\ \A i : Matches(i, rows[a]) <=> Matches(i, agents[a])
  <1> DEFINE rows == AgentRows(agents)
  <1>1. DOMAIN rows = {a \in Agents : agents[a] # Gone}
    BY DEF AgentRows
  <1>2. ASSUME NEW a \in DOMAIN rows
        PROVE  /\ rows[a].live = agents[a].live /\ rows[a].caps = agents[a].caps
               /\ rows[a].tools \in {agents[a].tools, {}}
    <2>1. rows[a] = [agents[a] EXCEPT !.tools = IF rowTools THEN @ ELSE {}]
      BY <1>1, <1>2 DEF AgentRows
    <2>2. agents[a] \in [live : {"active", "stale", "odd"}, caps : SUBSET Capabilities,
                         tools : SUBSET Tools]
      BY <1>1, <1>2 DEF AgentStates
    <2> QED
      BY <2>1, <2>2
  <1> HIDE DEF rows
  <1>3. \A a \in DOMAIN rows : \A i : Matches(i, rows[a]) <=> Matches(i, agents[a])
    BY <1>2 DEF Matches
  <1> QED
    BY <1>1, <1>2, <1>3 DEF rows

LEMMA LivenessActive == \A x : ReadLiveness(x) = "active" => x = "active"
  BY DEF ReadLiveness

\* A summary shows an agent as alive only if its row does.
LEMMA Summaries ==
    ASSUME NEW rows
    PROVE  LET r == AgentsResult(rows)
           IN /\ r.status = "ok" /\ r.code = "none" /\ DOMAIN r.agents = DOMAIN rows
              /\ \A a \in DOMAIN rows : r.agents[a].liveness = ReadLiveness(rows[a].live)
  BY DEF AgentsResult, ProjectAgentSummaries

\* While seen stays, what is said of it stays.
LEMMA SaidStays ==
    ASSUME UNCHANGED seen
    PROVE  /\ \A i, g, r : FindHonest(i, g, r)' = FindHonest(i, g, r)
           /\ \A i, g : Searching(i, g)' = Searching(i, g)
           /\ \A a, r : DescribeHonest(a, r)' = DescribeHonest(a, r)
           /\ \A a, g : Describing(a, g)' = Describing(a, g)
           /\ \A r : StatusHonest(r)' = StatusHonest(r)
  BY DEF FindHonest, Searching, DescribeHonest, Describing, StatusHonest, HadTool, Matched,
     StayedMatched, Nothing, NoRows, Matches, ReadLiveness

\* What was read of a state seen stays so when another state is seen.
LEMMA ReadingStays ==
    ASSUME seen \subseteq seen'
    PROVE  /\ \A i, g : Searching(i, g) => Searching(i, g)'
           /\ \A a, g : Describing(a, g) => Describing(a, g)'
  <1>1. ASSUME NEW a, NEW i
        PROVE  /\ HadTool(a, i) => HadTool(a, i)'
               /\ \A l : Matched(a, i, l) => Matched(a, i, l)'
               /\ StayedMatched(a, i)' => StayedMatched(a, i)
    BY DEF HadTool, Matched, StayedMatched, Matches, ReadLiveness
  <1>2. ASSUME NEW i, NEW g, Searching(i, g) PROVE Searching(i, g)'
    BY <1>1, <1>2 DEF Searching, ReadLiveness
  <1>3. ASSUME NEW a, NEW g, Describing(a, g) PROVE Describing(a, g)'
    BY <1>3 DEF Describing
  <1> QED
    BY <1>2, <1>3

\* agent.list and the filters of mx_find_agents.
LEMMA DirInvFindList ==
    ASSUME WriteInv, SeenInv, DirInv, FindList
    PROVE  DirInv'
  <1>1. /\ At("find", "list") /\ Room \in seen /\ Room.agents = agents /\ "input" \in DOMAIN call
        /\ agents \in [Agents -> AgentStates]
    BY DEF FindList, SeenInv, At, Writes, Room
  <1>2. PICK i : i = call.input
    OBVIOUS
  <1>3. PICK all : all = AgentRows(agents)
    OBVIOUS
  <1>4. /\ DOMAIN all = {a \in Agents : agents[a] # Gone}
        /\ \A a \in DOMAIN all : /\ all[a].live = agents[a].live
                                 /\ all[a].tools \in {agents[a].tools, {}}
                                 /\ Matches(i, all[a]) <=> Matches(i, agents[a])
    BY <1>1, <1>3, ListedAgents
  <1> DEFINE candidates == {a \in DOMAIN all : Matches(i, all[a])}
             silent == {a \in candidates : ReadToolNames(all[a].tools) = Absent}
             naming == {a \in candidates \ silent : i.tool \in all[a].tools}
             rows == [a \in candidates |-> all[a]]
             reading == [read |-> "rows", rows |-> rows, kept |-> naming, todo |-> silent,
                         failed |-> {}]
  <1>5. \A a \in candidates : a \in Agents /\ Matched(a, i, ReadLiveness(all[a].live))
    BY <1>1, <1>4, LivenessActive DEF Matched
  <1>6. \A a \in Agents : StayedMatched(a, i) =>
          a \in candidates /\ i.tool \in {Absent} \cup agents[a].tools
    BY <1>1, <1>4 DEF StayedMatched
  <1>7. \A a \in candidates : all[a].tools = {} => a \in silent
    BY DEF ReadToolNames
  <1>8. \/ i.tool = Absent /\ Return(AgentsResult(rows))
        \/ i.tool # Absent /\ Read(reading, "fanout")
        \/ ReturnBlank(AgentsResult(<<>>))
        \/ ReadFails
    BY <1>2, <1>3 DEF FindList
  <1>9. CASE i.tool = Absent /\ Return(AgentsResult(rows))
    <2>1. /\ call'.verb = "find" /\ call'.at = "done" /\ call'.input = i /\ UNCHANGED seen
          /\ result' = AgentsResult(rows)
      BY <1>1, <1>2, <1>9 DEF Return, Goto, WriteInv, CallShape, At
    <2>2. /\ DOMAIN result'.agents = candidates
          /\ \A a \in candidates : result'.agents[a].liveness = ReadLiveness(all[a].live)
      BY <2>1, Summaries
    <2>3. \A a \in candidates : HadTool(a, i)
      BY <1>1, <1>4, <1>9 DEF HadTool
    <2> HIDE DEF candidates
    <2>4. \A r, g : r = result' => FindHonest(i, g, r)
      BY <1>5, <1>6, <2>2, <2>3 DEF FindHonest
    <2>5. \A r, g : r = result' => FindHonest(i, g, r)'
      BY <2>1, <2>4, SaidStays
    <2>6. FindHonest(call.input, got, result)'
      BY <2>1, <2>5
    <2> QED
      BY <2>1, <2>6 DEF DirInv, At, Returned
  <1>10. CASE i.tool # Absent /\ Read(reading, "fanout")
    <2>1. /\ call'.verb = "find" /\ call'.at = "fanout" /\ call'.input = i /\ UNCHANGED seen
          /\ got' = reading
      BY <1>1, <1>2, <1>10 DEF Read, Goto, WriteInv, CallShape, At
    <2>2. \A a \in naming : HadTool(a, i)
      BY <1>1, <1>4 DEF HadTool
    <2>3. \A a \in Agents : StayedMatched(a, i) => a \in naming \cup silent
      BY <1>4, <1>6, <1>7, <1>10
    <2>4. naming \subseteq candidates /\ silent \subseteq candidates
      OBVIOUS
    <2> HIDE DEF candidates, silent, naming
    <2>5. /\ reading.read = "rows" /\ reading.rows = rows /\ reading.kept = naming
          /\ reading.todo = silent /\ reading.failed = {}
          /\ DOMAIN reading = {"read", "rows", "kept", "todo", "failed"}
          /\ DOMAIN rows = candidates /\ \A a \in candidates : rows[a] = all[a]
      OBVIOUS
    <2> HIDE DEF reading, rows
    <2>6. Searching(i, reading)
      BY <1>5, <1>10, <2>2, <2>3, <2>4, <2>5 DEF Searching
    <2>7. PICK g : g = reading
      OBVIOUS
    <2>8. Searching(i, g)'
      BY <2>1, <2>6, <2>7, SaidStays
    <2>9. Searching(call.input, got)'
      BY <2>1, <2>7, <2>8
    <2> QED
      BY <2>1, <2>9 DEF DirInv, At, Returned
  <1>11. CASE ReadFails
    <2>1. call'.verb = "find" /\ call'.at = "done" /\ result'.status # "ok"
      BY <1>1, <1>11, ReadFailsResult DEF WriteInv, CallShape, At
    <2> QED
      BY <2>1 DEF DirInv, At, Returned
  <1>12. CASE ReturnBlank(AgentsResult(<<>>))
    <2>1. /\ call'.verb = "find" /\ call'.at = "done" /\ call'.input = i
          /\ result' = AgentsResult(<<>>) /\ got' = NoRows
      BY <1>1, <1>2, <1>12 DEF ReturnBlank, Goto, WriteInv, CallShape, At
    <2>2. DOMAIN result'.agents = {}
      BY <2>1, Summaries
    <2>3. FindHonest(call.input, got, result)'
      BY <2>1, <2>2 DEF FindHonest, NoRows
    <2> QED
      BY <2>1, <2>3 DEF DirInv, At, Returned
  <1> QED
    BY <1>8, <1>9, <1>10, <1>11, <1>12

\* One agent is asked for its tools.
LEMMA DirInvFindProbe ==
    ASSUME WriteInv, SeenInv, DirInv, FindProbe
    PROVE  DirInv'
  <1>1. /\ At("find", "fanout") /\ Room \in seen /\ Room.agents = agents /\ "input" \in DOMAIN call
    BY DEF FindProbe, SeenInv, At, Writes, Room
  <1>2. PICK i, g : i = call.input /\ g = got
    OBVIOUS
  <1>3. Searching(i, g)
    BY <1>1, <1>2 DEF DirInv
  <1>4. PICK a \in g.todo :
          \/ Read([g EXCEPT !.todo = @ \ {a},
                            !.kept = IF agents[a] # Gone /\ i.tool \in agents[a].tools
                                     THEN @ \cup {a} ELSE @], "fanout")
          \/ Read([g EXCEPT !.todo = @ \ {a}, !.failed = @ \cup {a}], "fanout")
    BY <1>2 DEF FindProbe
  <1>5. PICK h : h = got'
    OBVIOUS
  <1>6. /\ call'.verb = "find" /\ call'.at = "fanout" /\ call'.input = i /\ UNCHANGED seen
    BY <1>1, <1>2, <1>4 DEF Read, Goto, WriteInv, CallShape, At
  <1>7. /\ DOMAIN h = DOMAIN g /\ h.read = g.read /\ h.rows = g.rows /\ h.todo = g.todo \ {a}
        /\ \/ /\ h.failed = g.failed
              /\ h.kept = IF agents[a] # Gone /\ i.tool \in agents[a].tools
                          THEN g.kept \cup {a} ELSE g.kept
           \/ h.failed = g.failed \cup {a} /\ h.kept = g.kept
    BY <1>3, <1>4, <1>5 DEF Read, Searching
  <1>8. a \in Agents /\ a \in DOMAIN g.rows
    BY <1>3, <1>4 DEF Searching
  <1>9. agents[a] # Gone /\ i.tool \in agents[a].tools => HadTool(a, i)
    BY <1>1 DEF HadTool
  <1>10. StayedMatched(a, i) => agents[a] # Gone /\ i.tool \in agents[a].tools
    BY <1>1, <1>3 DEF StayedMatched, Searching
  <1>11. Searching(i, h)
    <2>1. h.kept \subseteq DOMAIN h.rows /\ h.todo \subseteq DOMAIN h.rows
      BY <1>3, <1>7, <1>8 DEF Searching
    <2>2. \A b \in h.kept : HadTool(b, i)
      BY <1>3, <1>7, <1>9 DEF Searching
    <2>3. \A b \in Agents : StayedMatched(b, i) => b \in h.kept \cup h.todo \cup h.failed
      BY <1>3, <1>7, <1>10 DEF Searching
    <2> QED
      BY <1>3, <1>7, <2>1, <2>2, <2>3 DEF Searching
  <1>12. Searching(i, h)'
    BY <1>6, <1>11, SaidStays
  <1>13. Searching(call.input, got)'
    BY <1>5, <1>6, <1>12
  <1> QED
    BY <1>6, <1>13 DEF DirInv, At, Returned

\* Everyone was asked.
LEMMA DirInvFindReturn ==
    ASSUME WriteInv, SeenInv, DirInv, FindReturn
    PROVE  DirInv'
  <1>1. /\ At("find", "fanout") /\ "input" \in DOMAIN call /\ got.todo = {}
    BY DEF FindReturn, SeenInv, At
  <1>2. PICK i, g : i = call.input /\ g = got
    OBVIOUS
  <1>3. Searching(i, g)
    BY <1>1, <1>2 DEF DirInv
  <1>4. PICK rows : rows = [a \in g.kept |-> g.rows[a]]
    OBVIOUS
  <1>5. /\ call'.verb = "find" /\ call'.at = "done" /\ call'.input = i
        /\ UNCHANGED <<got, seen>> /\ result' = AgentsResult(rows)
    BY <1>1, <1>2, <1>4 DEF FindReturn, Return, Goto, WriteInv, CallShape, At
  <1>6. PICK r : r = AgentsResult(rows)
    OBVIOUS
  <1>7. /\ DOMAIN r.agents = g.kept
        /\ \A a \in g.kept : r.agents[a].liveness = ReadLiveness(g.rows[a].live)
    BY <1>4, <1>6, Summaries
  <1>8. g # Nothing
    BY <1>3 DEF Searching, Nothing
  <1>9. FindHonest(i, g, r)
    BY <1>1, <1>2, <1>3, <1>7, <1>8 DEF FindHonest, Searching
  <1>10. FindHonest(i, g, r)'
    BY <1>5, <1>9, SaidStays
  <1>11. FindHonest(call.input, got, result)'
    BY <1>2, <1>5, <1>6, <1>10
  <1> QED
    BY <1>5, <1>11 DEF DirInv, At, Returned

\* agent.tools, the first read of a description.
LEMMA DirInvDescribeTools ==
    ASSUME WriteInv, SeenInv, DirInv, DescribeTools
    PROVE  DirInv'
  <1>1. /\ At("describe", "tools") /\ Room \in seen /\ Room.agents = agents
        /\ "agent" \in DOMAIN call
    BY DEF DescribeTools, SeenInv, At, Writes, Room
  <1>2. PICK a : a = call.agent
    OBVIOUS
  <1>3. CASE ReadFails
    <2>1. /\ call'.verb = "describe" /\ call'.at = "done"
          /\ result'.status # "ok" /\ result'.code # "not_found"
      BY <1>1, <1>3, ReadFailsResult DEF WriteInv, CallShape, At
    <2> QED
      BY <2>1 DEF DirInv, At, Returned, DescribeHonest
  <1>4. CASE agents[a] = Gone /\ Return(FaultToResult("rpc", "unknown_agent"))
    <2>1. /\ call'.verb = "describe" /\ call'.at = "done" /\ call'.agent = a
          /\ result'.status # "ok" /\ UNCHANGED seen
      BY <1>1, <1>2, <1>4 DEF Return, Goto, WriteInv, CallShape, At, FaultToResult, FailureResult
    <2>2. \E s \in seen : s.agents[a] = Gone
      BY <1>1, <1>4
    <2>3. DescribeHonest(call.agent, result)'
      BY <2>1, <2>2 DEF DescribeHonest
    <2> QED
      BY <2>1, <2>3 DEF DirInv, At, Returned
  <1>5. ASSUME NEW g, Describing(a, g), Read(g, "list") PROVE DirInv'
    <2>1. /\ call'.verb = "describe" /\ call'.at = "list" /\ call'.agent = a
          /\ got' = g /\ UNCHANGED seen
      BY <1>1, <1>2, <1>5 DEF Read, Goto, WriteInv, CallShape, At
    <2>2. Describing(a, g)'
      BY <1>5, <2>1, SaidStays
    <2>3. Describing(call.agent, got)'
      BY <2>1, <2>2
    <2> QED
      BY <2>1, <2>3 DEF DirInv, At, Returned
  <1>6. ASSUME agents[a] # Gone
        PROVE  Describing(a, [read |-> "tools", known |-> TRUE, caps |-> agents[a].caps,
                              tools |-> agents[a].tools])
    BY <1>1, <1>6 DEF Describing
  <1>7. ASSUME agents[a] = Gone
        PROVE  Describing(a, [read |-> "tools", known |-> FALSE, caps |-> {}, tools |-> {}])
    BY <1>1, <1>7 DEF Describing
  <1> QED
    BY <1>2, <1>3, <1>4, <1>5, <1>6, <1>7 DEF DescribeTools

\* agent.list, the second.
LEMMA DirInvDescribeList ==
    ASSUME WriteInv, SeenInv, DirInv, DescribeList
    PROVE  DirInv'
  <1>1. /\ At("describe", "list") /\ Room \in seen /\ Room.agents = agents
        /\ "agent" \in DOMAIN call
    BY DEF DescribeList, SeenInv, At, Writes, Room
  <1>2. PICK a, g : a = call.agent /\ g = got
    OBVIOUS
  <1>3. Describing(a, g)
    BY <1>1, <1>2 DEF DirInv
  <1>4. PICK r : r = result'
    OBVIOUS
  <1>5. /\ call'.verb = "describe" /\ call'.at = "done" /\ call'.agent = a /\ UNCHANGED seen
    BY <1>1, <1>2 DEF DescribeList, Return, Goto, WriteInv, CallShape, At
  <1>6. \/ agents[a] # Gone /\ r = AgentDetail(agents[a].live, agents[a].caps, g.tools)
        \/ g.known /\ r = AgentDetail("undefined", g.caps, g.tools)
        \/ ~g.known /\ r = FailureResult("not_found")
    BY <1>2, <1>3, <1>4 DEF DescribeList, Return, Describing
  <1>7. g.tools # {} => \E s \in seen : s.agents[a] # Gone /\ s.agents[a].tools = g.tools
    BY <1>3 DEF Describing
  <1>8. DescribeHonest(a, r)
    <2>1. CASE agents[a] # Gone /\ r = AgentDetail(agents[a].live, agents[a].caps, g.tools)
      <3>1. /\ r.code = "none" /\ r.liveness = ReadLiveness(agents[a].live)
            /\ r.caps = agents[a].caps /\ r.tools = g.tools
        BY <2>1 DEF AgentDetail
      <3> QED
        BY <1>1, <1>7, <2>1, <3>1, LivenessActive DEF DescribeHonest
    <2>2. CASE g.known /\ r = AgentDetail("undefined", g.caps, g.tools)
      <3>1. r.code = "none" /\ r.liveness = "offline" /\ r.caps = g.caps /\ r.tools = g.tools
        BY <2>2 DEF AgentDetail, ReadLiveness
      <3> QED
        BY <1>3, <1>7, <2>2, <3>1 DEF DescribeHonest, Describing
    <2>3. CASE ~g.known /\ r = FailureResult("not_found")
      BY <1>3, <2>3 DEF DescribeHonest, Describing, FailureResult, DenialCodes
    <2> QED
      BY <1>6, <2>1, <2>2, <2>3
  <1>9. DescribeHonest(a, r)'
    BY <1>5, <1>8, SaidStays
  <1>10. DescribeHonest(call.agent, result)'
    BY <1>4, <1>5, <1>9
  <1> QED
    BY <1>5, <1>10 DEF DirInv, At, Returned

\* mx_workspace_status.
LEMMA DirInvStatus ==
    ASSUME WriteInv, SeenInv, DirInv, StatusRead \/ StatusList
    PROVE  DirInv'
  <1>1. /\ call.verb = "status" /\ Room \in seen /\ Room.agents = agents
        /\ agents \in [Agents -> AgentStates]
    BY DEF StatusRead, StatusList, SeenInv, At, Writes, Room
  <1>2. CASE ReadFails
    <2>1. call'.verb = "status" /\ call'.at = "done" /\ result'.status # "ok"
      BY <1>1, <1>2, ReadFailsResult DEF WriteInv, CallShape
    <2> QED
      BY <2>1 DEF DirInv, At, Returned
  <1>3. CASE \E w : Read(w, "list")
    <2>1. call'.verb = "status" /\ call'.at = "list"
      BY <1>1, <1>3 DEF Read, Goto, WriteInv, CallShape
    <2> QED
      BY <2>1 DEF DirInv, At, Returned
  <1>4. CASE StatusList
    <2>1. PICK rows \in {AgentRows(agents), <<>>} : Return(AgentsResult(rows))
      BY <1>4 DEF StatusList
    <2>2. /\ call'.verb = "status" /\ call'.at = "done" /\ UNCHANGED seen
          /\ result' = AgentsResult(rows)
      BY <1>1, <2>1 DEF Return, Goto, WriteInv, CallShape
    <2>3. \A a \in DOMAIN rows : agents[a] # Gone /\ rows[a].live = agents[a].live
      <3>1. CASE rows = AgentRows(agents)
        BY <1>1, <3>1, ListedAgents
      <3>2. CASE rows = <<>>
        BY <3>2
      <3> QED
        BY <2>1, <3>1, <3>2
    <2>4. PICK r : r = result'
      OBVIOUS
    <2>5. /\ DOMAIN r.agents = DOMAIN rows
          /\ \A a \in DOMAIN rows : r.agents[a].liveness = ReadLiveness(rows[a].live)
      BY <2>2, <2>4, Summaries
    <2>6. StatusHonest(r)
      BY <1>1, <2>3, <2>5, LivenessActive DEF StatusHonest
    <2>7. StatusHonest(r)'
      BY <2>2, <2>6, SaidStays
    <2>8. StatusHonest(result)'
      BY <2>4, <2>7
    <2> QED
      BY <2>2, <2>8 DEF DirInv, At, Returned
  <1> QED
    BY <1>2, <1>3, <1>4 DEF StatusRead

LEMMA DirInvCalls ==
    ASSUME WriteInv, TaskCall \/ ContextCall \/ DirectoryCall
    PROVE  DirInv'
  <1>1. ASSUME NEW c, CallShape(c), c.verb \notin Directory,
               BeginRead(c) \/ BeginWrite(c) \/ NoRoom(c)
        PROVE  DirInv'
    <2>1. call'.verb \notin Directory
      BY <1>1 DEF BeginRead, BeginWrite, NoRoom, Begin, CallShape
    <2> QED
      BY <2>1, DirInvOther
  <1>2. ASSUME NEW i, CreateTask(i) PROVE DirInv'
    BY <1>1, <1>2 DEF CreateTask, CallShape, Directory
  <1>3. ASSUME NEW i, UpdateTask(i) PROVE DirInv'
    BY <1>1, <1>3 DEF UpdateTask, CallShape, Directory
  <1>4. ASSUME NEW f, NEW v, ListTasks(f, v) PROVE DirInv'
    BY <1>1, <1>4 DEF ListTasks, CallShape, Directory
  <1>5. ASSUME Resume PROVE DirInv'
    BY <1>1, <1>5 DEF Resume, CallShape, Directory
  <1>6. ASSUME NEW size, ShareContext(size) PROVE DirInv'
    BY <1>1, <1>6 DEF ShareContext, CallShape, Directory
  <1>7. ASSUME NEW c, GetContext(c) PROVE DirInv'
    BY <1>1, <1>7 DEF GetContext, CallShape, Directory
  <1>8. ASSUME NEW i, FindAgents(i) PROVE DirInv'
    BY <1>8 DEF FindAgents, BeginRead, Begin, DirInv, At, Returned
  <1>9. ASSUME NEW a, DescribeAgent(a) PROVE DirInv'
    BY <1>9 DEF DescribeAgent, BeginRead, Begin, DirInv, At, Returned
  <1>10. ASSUME WorkspaceStatus PROVE DirInv'
    BY <1>10 DEF WorkspaceStatus, BeginRead, Begin, DirInv, At, Returned
  <1> QED
    BY <1>2, <1>3, <1>4, <1>5, <1>6, <1>7, <1>8, <1>9, <1>10
    DEF TaskCall, ContextCall, DirectoryCall

\* Agents come, go and change while they are being looked for.
LEMMA DirInvChange ==
    ASSUME DirInv, Change
    PROVE  DirInv'
  <1>1. /\ call.at # "done" /\ UNCHANGED <<call, got>> /\ seen \subseteq seen'
    BY DEF Change
  <1>2. PICK i, a, g : i = call.input /\ a = call.agent /\ g = got
    OBVIOUS
  <1>3. /\ At("find", "fanout") => Searching(i, g)
        /\ At("describe", "list") => Describing(a, g)
    BY <1>2 DEF DirInv
  <1>4. /\ At("find", "fanout") => Searching(i, g)'
        /\ At("describe", "list") => Describing(a, g)'
    BY <1>1, <1>3, ReadingStays
  <1>5. call'.input = i /\ call'.agent = a /\ got' = g
    BY <1>1, <1>2
  <1>6. /\ At("find", "fanout") => Searching(call.input, got)'
        /\ At("describe", "list") => Describing(call.agent, got)'
    BY <1>4, <1>5
  <1> QED
    BY <1>1, <1>6 DEF DirInv, At, Returned

LEMMA DirInvHandler ==
    ASSUME WriteInv, SeenInv, DirInv, Handler
    PROVE  DirInv'
  <1>1. CASE FindList \/ FindProbe \/ FindReturn
    BY <1>1, DirInvFindList, DirInvFindProbe, DirInvFindReturn
  <1>2. CASE DescribeTools \/ DescribeList \/ StatusRead \/ StatusList
    BY <1>2, DirInvDescribeTools, DirInvDescribeList, DirInvStatus
  <1>3. CASE \/ WriteReplied \/ WriteRejected \/ WriteFails
             \/ ListRead \/ GraphRead \/ ReconstructPlan \/ ContextRead
    <2>1. call.verb \notin Directory
      BY <1>3 DEF WriteReplied, WriteRejected, WriteFails, WriteInv, Writes, ListRead, GraphRead,
         ReconstructPlan, ContextRead, At, Directory
    <2>2. call'.verb = call.verb
      BY HandlerGoes, GotoKeeps
    <2> QED
      BY <2>1, <2>2, DirInvOther
  <1> QED
    BY <1>1, <1>2, <1>3 DEF Handler

LEMMA DirInvStep == WriteInv /\ SeenInv /\ DirInv /\ [Next]_vars => DirInv'
  <1> SUFFICES ASSUME WriteInv, SeenInv, DirInv, [Next]_vars PROVE DirInv'
    OBVIOUS
  <1>1. CASE DaemonApplies \/ DaemonRefuses
    <2>1. call'.verb \notin Directory
      BY <1>1 DEF DaemonApplies, DaemonRefuses, WriteInv, Writes, Directory
    <2> QED
      BY <2>1, DirInvOther
  <1>2. CASE UNCHANGED vars
    <2>1. UNCHANGED <<call, got, result, seen>>
      BY <1>2 DEF vars
    <2>2. PICK i, a, g, r : i = call.input /\ a = call.agent /\ g = got /\ r = result
      OBVIOUS
    <2>3. call'.input = i /\ call'.agent = a /\ got' = g /\ result' = r
      BY <2>1, <2>2
    <2>4. /\ Searching(call.input, got)' = Searching(call.input, got)
          /\ Describing(call.agent, got)' = Describing(call.agent, got)
          /\ FindHonest(call.input, got, result)' = FindHonest(call.input, got, result)
          /\ DescribeHonest(call.agent, result)' = DescribeHonest(call.agent, result)
          /\ StatusHonest(result)' = StatusHonest(result)
      BY <2>1, <2>2, <2>3, SaidStays
    <2> QED
      BY <2>1, <2>4 DEF DirInv, At, Returned
  <1> QED
    BY <1>1, <1>2, DirInvCalls, DirInvHandler, DirInvChange DEF Next

\* For any set of agents and however they come, go and change during the call: an agent
\* that is returned matched, one that matched all along is returned unless asking it
\* failed, none is shown as alive that was not, and none is unknown that was there.
THEOREM DirectoryIsHonest == Spec => []DirectoryHonest
  <1>1. Spec => [](WriteInv /\ SeenInv /\ DirInv)
    BY WriteInvInit, WriteInvStep, SeenInvInit, SeenInvStep, DirInvInit, DirInvStep, PTL DEF Spec
  <1> QED
    BY <1>1, DirInvHonest, PTL
=============================================================================
