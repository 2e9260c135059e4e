# A verification of mx-loom

mx-loom lets an agent runtime (Claude, pi, an MCP host) work with other agents
through a local daemon, `mxd`. The daemon itself is not in this repository; what
is here is the client that talks to it, the verbs an agent calls, adapters for the
hosts, and `adw_sdlc`, a pipeline that takes a GitHub issue to a merged pull
request. This directory models the parts that have behaviour over time, checks
them with TLC on small instances and proves the main results with TLAPS for all
instances.

`PROJECT.json` maps every definition to the lines it models, and lists runs,
mutants, findings, hazards and theorems.

## 1. Inventory

| Part | State it keeps | Operations | Talks to |
|---|---|---|---|
| toolbelt `ipc/client.ts`, `ipc/framing.ts` | `#socket`, `#connecting`, `#decoder`, `#pending` with a timer per entry | `call`, `close`, the socket's events, the timers | `mxd` over a Unix socket, length-prefixed JSON-RPC |
| toolbelt `cli/client.ts` | one subprocess per call, its output so far | spawn, exit, kill at timeout or overflow | the `mx-agent` binary |
| toolbelt `client.ts`, `retry.ts` | transport preference, the active (sticky) transport | `call` with retry, failover IPC -> CLI, `close` | both transports |
| toolbelt `task-watch.ts`, `resume.ts` | cursor, first-seen revision, seen records, buffer, waiting consumer | tick, read, emit, `next`, `stop`; resume from a descriptor | the unified client; the host's `for await` loop |
| toolbelt `session.ts` | registration, heartbeat timer, closed flag | `openSession`, heartbeat, `close`, `describe` | the unified client |
| registry: dispatch, delegate, run, await, cancel | none between calls; the daemon keeps invocations | the verbs that start and follow work | a session; the model that called the tool |
| registry: tasks, context, discovery; toolbelt `plan-snapshot.ts` (`reconcile`) | none between calls; the daemon keeps the task DAG, the artifacts and the agents of the room | create, update, list; share, get; find, describe, status; reconstruct the plan | the daemon, which other runtimes write to as well |
| registry `envelope.ts`, `errors.ts`, `invocation.ts` | none | state labels and codes to envelopes | the handlers |
| audit, claude adapter, mcp server, pi adapter | a session of their own, an audit sink, open prompts | ask the operator, call a verb, poll, record, answer; serve and shut down | session, registry, hosts, Postgres |
| `adw_sdlc/src/orchestrator.ts`, `git.ts`, `state.ts`, `phases.ts` | `AdwState` in memory and in `state.json`, working tree, branches, loop counters | the phases, the test/patch/CI loops, gates, commit, push, PR, merge; resume | agents, git, GitHub |
| `adw_sdlc/src/run-phase.ts`, `runners/*.ts` | a time box and an attempt; a child process, an SDK stream or a shared server with its event stream | run a phase, abort it, nudge once; start, share and stop the `opencode` server | pi, Claude, Codex, opencode |

What is hard here, and not reached by the unit tests:

* **One event loop, many callers.** `call()` awaits a connection that other calls
  share, `close()` and socket events come in between, and `#failAll` does not look
  at which socket failed.
* **Unknown outcome.** A request that timed out or lost its socket may have run.
  Retry, failover, the idempotency keys of dispatch and the text of the error codes
  all depend on knowing when it cannot have.
* **Two reads of a moving room.** `mx_list_tasks` reads the nodes and then the edges,
  `mx_find_agents` the agents and then each one's tools; the plan a restarted runtime
  works from is one read of what others are changing.
* **One action, four spellings.** What the author of a task asks for is written in the
  wire's terms, stored, projected and dispatched, perhaps by somebody else.
* **Reads that are stale when used.** The watcher compares revisions with a cursor
  from before a crash; `mx_dispatch_task` reads the task list and then starts;
  `mx_cancel` reasons about an invocation that is moving.
* **Death in the middle.** The pipeline persists best effort and must not merge
  twice, skip a phase or lose blocker findings when it is resumed.
* **Cancelling what somebody else runs.** A time box aborts a child that ignores
  signals, an SDK stream or a request to a server; `stop()` meets a server that is
  just coming up; a turn is cancelled while the operator decides; a session is closed
  with a heartbeat under way.

What makes each part correct:

* IPC client: every call settles, once; no socket leaks; losing one socket does not
  fail another's calls; a request runs at most once; an answer is that run's answer.
* Unified client: nothing but a retry of a code the policy repeats runs a request twice,
  the code the host sees is true of all attempts, and `close()` leaves no connection to requests made
  after it or finished before it.
* Watcher: no update lost, none repeated, no consumer left waiting, the view converges.
* Verbs: a task's action runs once however many runtimes dispatch it; an envelope
  tells the truth; waiting too long is not a failure; cancelled work is over for good.
* Room verbs: a listing or a directory shows nothing that never was and hides nothing
  that always was; an ok is about what was written, a refusal about what never will be;
  an action is dispatched as it was asked for.
* Plan: nothing is ready too early (over a `depends_on` edge), nothing held back for nothing, and an acyclic plan
  that is not over has work to offer.
* Pipeline: merged once, on the last reading of the checks of the merged head, nothing skipped, an honest exit code, an end.
* Agent phases: a killed attempt is not repeated (with one exception, section 5), two agents never work at once, a
  finished reply is not thrown away, a time box ends its phase, and a total cost leaves
  nothing out.
* opencode server: one, shared, never left behind; the transcript is the reply.
* Session and hosts: an open session stays active, a closed one is gone; no prompted
  verb without the operator; one audit row per answer.

## 2. Modules

```
Transport  <--implemented by--  IpcClient   <- IpcClientProofs
    ^                           CliClient
    |                               ^
    +---------- MxClient -----------+          (composes both)   <- MxClientProofs
TaskPlan <- Workspace <- WorkspaceProofs       Session <- Binding <- HostProofs
Dispatch <- DispatchProofs                     Orchestrator <- OrchestratorProofs
PhaseRunner <- PhaseRunnerProofs               OpencodeRunner <- OpencodeRunnerProofs
TaskWatch <- HostProofs
```

`MC*` modules only add symmetry sets and the values of constants for TLC.

**Transport** is the abstract specification of `MxTransport.call`: a call is issued,
may be executed once (also after its caller gave up), and settles once, together with
any others that shared its connection, with a code of `IpcErrorCode`. `ok` and `rpc`
need an execution, `not_running` excludes one, before and after.

**IpcClient** is `ipc/client.ts` with the decoder. An action is one turn of the event
loop; the continuation of `await this.#connect()` is a microtask, so socket events and
timers wait until no call is `resumed` (`Quiet`). `call` is `CallReuse`, `CallJoin`,
`CallConnect` according to what `#connect` finds, then `Send` or one of its failures.
The stream is cut into units (length prefix, body); `decoder` says what is buffered,
and a body that is read where a prefix is due has an impossible length ("poison").
The daemon (external) reads, runs, answers in any order, sends malformed frames and
dies. `ReuseClosed` says whether the host calls again on a client it has closed.

**CliClient** is one subprocess per call: spawn or refusal, output overflow, timeout
and kill, exit and the parse of what was printed. As in `normalizeExit`, the outcome is
read off the exit and the output alone: a child that prints JSON and exits 0 is an ok
whether or not it reached the daemon.

**MxClient** is `client.ts` and `retry.ts`. Each `transport.call` is an attempt; IPC
attempts are those of `Transport`, CLI attempts those of `CliClient`. `Retries`,
`FailoverCodes`, `Reselect`, `Throw` are the conditions of `withRetry` and `#attempt`.
`retry.ts` assumes that IPC raises `connect_failed` only before the write; IPC does not
keep to it (finding A), so here it may come after the write too, and `unsent` has the
attempts for which it came before. `Resent` names an attempt that was made again though
the daemon may have it. The `IpcClient` is an object: `close()` drops it and the next
request builds another (`Objects`), while a request that awaits its connection or sleeps
before a retry keeps the old one. `conn` has the objects with a connection, `late` those
that a request still held when they were dropped. Delays are left out.

**TaskWatch** is the watcher and a host that runs the documented loop: resume, watch
from the plan's cursor, iterate, persist, die, restart. `RevModes` says how the daemon
numbers revisions (per plan, per record, not at all), `Backends` which method it has.

**Dispatch** has the five verbs that start and follow work as interleaving operations
of any number of runtimes. A mutating request is on the `wire` and may fail at the
caller and still be carried out, or the runtime may die. The daemon (external)
remembers one invocation per idempotency key. Its reply to a cancel may or may not carry
the `cancelled` flag, may name the state, and may be a refusal in the error field or
nothing but a refusing state label.

**TaskPlan** has the pure functions on tasks: the state labels (`mapTaskState`), the
spellings of an action (`buildActionParam`, `projectAction`, `actionToDispatch`), the
edges (`deriveEdges`, `mergeEdges`) and `reconcile`. An action's values are texts, objects
and arrays with their empty ones told apart, since emptiness is what the code tests.

**Workspace** is one call of one of the nine verbs that read and write the room, with
every request as a step of its own. Between the steps other runtimes change tasks,
artifacts and agents under a call that reads; a request may fail, and a write that failed may still be carried
out. `seen` is the history of the room's states since the call began. A read may be answered
by something without rows, an error body for instance (`NoRows`, `ReturnBlank`), and a
refused write by a bare state label that may echo the id. Rows themselves are well
formed, but states and livenesses may be of an unknown spelling; `mirrored` (the rows of
a blocked task show a `blocks` edge as its `depends_on`) and `rowTools` say what the
daemon's rows carry.

**Orchestrator** is the pipeline: one action per external effect with the bookkeeping
up to the next. A tree is a version number; an agent that edits makes a new one.
`Crash` is possible at every point and may tear `state.json`; `Save` may fail silently
as in the code. CI registers the checks of a head at any time after the push, or never,
and the checks of a head are one verdict (`ci`), where GitHub has a list of them. `Switch` is
somebody checking out the other branch between two runs, since a resumed run goes on in
whatever tree it finds. The history variable `reading` is what the CI loop last read, and
of which head.

**PhaseRunner** is `run-phase.ts` over the four runners: one attempt with its abort
signal, the nudge after a reply that does not conform, and what each runner does when
the signal aborts. `pi` is a child (SIGTERM, a timer, SIGKILL, pipes that are drained
before `close`); `claude` and `codex` are streams of a vendor's SDK; `opencode` is a
prompt whose request is dropped while its agent may work on, and whose server may answer
with an error envelope, which the runner reports as it is, aborted or not. Orchestrator takes a
phase for one step that succeeds or not; this is what is behind it. `classify` may
instead be the structured call of the Anthropic SDK with its own retry. What the attempts
cost goes through `mergeUsage`, `recordUsage` and the saved state; a sum of dollars is the
set of attempts it is the sum for.

**OpencodeRunner** is the server behind the last of them: `ensureServer`, the bind
attempts, the readiness banner and its timer, `stop()` at any moment (also during a
start, as `runner-opencode.test.ts` does), and the transcript, gathered from deltas,
part updates and the final parts. `LossySpec` adds a stream that drops events.

**Session** is `session.ts` with `heartbeat.ts` and the daemon's record of the agent. A
request is awaited (`current`) or abandoned and perhaps still carried out (`late`),
which is what Transport promises of it.

**Binding** extends Session by what the three hosts share and what sets them apart: the
`canUseTool` hook and the poll loop (claude), the preflight (pi), the shutdown (mcp), the
audit tap (all). A verb only returns a status here; Dispatch has what it does. Its
specification is `BindingSpec` and its names differ from those of TaskWatch, so that
`HostProofs` can extend both.

## 3. Runs

| Run | Result | What it shows |
|---|---|---|
| `ipc_client` | pass | `NoStrandedCall`, `NoLeakedSocket`, `OnlyOwnSocketFails`, the refinement `ImplementsTransport`, and `EveryCallSettles` |
| `ipc_decoder` | violation | finding B |
| `mx_client` | pass | `SecondRunIsRetry`, `HonestOutcome`, `CloseReleases`, with `connect_failed` before and after the write |
| `mx_double` | violation | finding A, on the same instance: `AtMostOnce` |
| `task_watch` | pass | `NoLostUpdate`, `OnlyNewDeltas`, `NoParkAfterStop`, `Converges` |
| `dispatch` | pass | `TaskRunsOnce`, `TruthfulEnvelope`, `ExpiryIsPending`, `CancelFinal` |
| `workspace` | pass | `ResumeTrue`, `ReadTrue`, `WriteTruthful`, `DirectoryHonest` |
| `orchestrator` | pass | `MergedOnce`, `NothingSkipped`, `MergeOnlyOnGreen`, `BlockersHanded`, `HonestExit`, `Terminates` |
| `phase_runner` | pass | `KilledNotRetried`, `OneAgent` (not for opencode), `NoReplyWasted`, `PhaseEnds`, `CostIsWhole` |
| `opencode` | pass | `NoOrphan`, `OneServer`, `StopTearsDown`, `AbortedReturns`, `TranscriptFaithful` (no event lost) |
| `opencode_sse` | violation | finding C: an event lost from the stream |
| `binding` | pass | `GateHolds`, `OneRowPerResult`, `StaysActive`, `GoneAfterClose` |

Every kind of daemon is in these instances: revisions per plan, per record or none, replies with and
without flags, rows and mirrored edges, checks that register late. Where the code breaks a
comment of its own, the property names the case in which it does (`Resent` in
`SecondRunIsRetry`, `Blind` in `NoLostUpdate`, the settle window in `MergeOnlyOnGreen`, the
unmirrored edge in `ResumeTrue`, the envelope without usage in `KilledNotRetried`), so that
every other way to that failure is still a violation. Section 5 tells the cases.
Two cases are cut by the specification instead: an `IpcClient` that is called again after
`close()` (`ReuseClosed`) and an opencode stream that loses events (finding C is that one).

The largest instances have 2.6 million (`workspace`) and 1.7 million (`mx_client`) distinct
states; the others stay below one million.

Deadlock is not checked: every one of these systems may stop, a client that is not
called or a pipeline that has returned.

### Bounds

* IPC: two calls, two sockets, one malformed frame, one `close()`. Two calls are
  needed to share a connect and to see one socket's failure reach another's call; two
  sockets for anything a dead one leaves behind. The client is not reused after
  `close()` (`ReuseClosed = FALSE`), which two of the properties need. The safety results
  are proved without these bounds, and where they hold for it, with reuse.
* Unified client: two requests, two attempts per series, one `close()`, and a socket file
  that may be there or not at every selection. Requests interact only through the active transport, one other
  request is enough to switch it; two attempts are one retry, and a request still goes
  through all three series (sticky, IPC, CLI).
* Watcher: two tasks, three changes, one fault, one death. Two tasks are needed for a
  maximum over records to exceed one of them; three changes for one before the cursor,
  one between the reads and one after the restart. All three numberings of revisions.
* Dispatch: two operations, one task, at most one poll per wait. Every race in these
  handlers is between two operations on one key; that no third matters to the main
  property is proved.
* Room verbs: three tasks, two agents, one artifact, one change by another runtime. Two
  reads of one call differ by a change between them; a change before the first read is
  another initial state. Three tasks make a chain and a cycle longer than a pair. A room
  is populated with one kind of thing at a time, since no verb reads two. The plans and
  inputs are listed in `MCWorkspace`: every state label, dangling and missing
  prerequisites, every shape of action.
* Pipeline: two runs (a fresh one and one resume), two edits, two blockers, one to two
  rounds of each loop, one settle poll, the chain implement, resolve, review, patch,
  document: every kind of phase. The edit bound lets a CI fix follow an implementation.
* Agent phases: three phases, so that what one leaves behind meets two later ones; a
  reply of two pieces, so that it can be cut in the middle. Three phases also let a
  failed one be followed by a resume and another.
* opencode: two calls, two starts of two bind attempts, one `stop()`: a call joins a
  start, a start fails, a second begins while the first server is still dying.
* Session and hosts: two failed requests (one tick and the deregistration), ticks
  without bound, one tool call: calls share nothing but the session and the process,
  and both go through every state while the call is under way.

### Fairness

* IPC: the microtask of a resumed call, each call's timer, the end of a connection
  attempt and the `close` event of a destroyed socket. Node guarantees these. Nothing
  is assumed of the daemon.
* Watcher: the interval timer, the settling of each read (the unified client's
  timeout), the consumer's loop, and the resume. Faults and deaths are bounded;
  `Converges` is about a host that from some point on stays up and does not stop.
* Pipeline: weak fairness of the process's next effect: commands, agent sessions and
  sleeps end. Nothing is assumed of how they end.
* Agent phases: the runner's own steps; the kill timer; that a SIGKILLed child exits, its
  pipes drain and `close` follows; that an SDK's stream or request ends once its signal
  aborts and that an aborted `fetch` rejects; that the time box of a nudge runs out as that
  of the first attempt does. Nothing makes an agent answer.
* opencode: the start timer fires and a signalled server exits.
* Session: the interval, the settling of a call, the steps of `close()` and of the
  shutdown; of the daemon, that it serves what it is sent and lets an agent it does not
  hear from go stale. Failures are bounded, so `StaysActive` is about a daemon that is
  reachable from some point on.

## 4. Proofs

`IpcClientProofs`, for any sets of calls and sockets:

* `TypeCorrect`: `Spec => []TypeOK`.
* `NeverStranded`: `Spec => []NoStrandedCall`. The invariant `StrandInv` adds that a
  socket is opening exactly when `#connecting` names it, and that a call under way
  holds a socket: without these, a failing connect might leave a call that awaits
  another attempt.
* `NeverLeaks`: `~ReuseClosed => (Spec => []NoLeakedSocket)`. `LeakInv` adds that at
  most one socket is alive, that none is while another is being opened, and that
  `#socket` names it until the first `close()`.
* `OthersSurvive`: the action property `OnlyOwnSocketFails`, from `LeakInv`: as only
  one socket lives, `#failAll` cannot hit another's call. Both results need
  `~ReuseClosed`: a client that is closed while it connects and is then called again
  opens a second socket.

* `Refinement`: `Spec => ImplementsTransport`, with no condition on reuse. `RefInv` adds
  to `StrandInv` where a request can be: in at most its own socket's inbox and then not
  executed, owed an answer only if executed, answered in a stream only if executed, and
  nowhere before it was sent.

`MxClientProofs`, for any numbers of requests and attempts. `ClientInv` ties a request to
its attempts: which of them are over, which is current, over which transport, and how many
each of the three series may have made. It holds for every retry policy and gives
`MxTypeCorrect` (a request makes at most three times `maxAttempts` calls).

* `OnlyRetriesRunAgain`: `SecondRunIsRetry`, for every retry policy. `SentInv` says that
  what failed to connect never runs, that an attempt was followed by another only because
  of a code that is repeated or failed over on, and that an open IPC call has run only
  while its connection is up.
* `RunsOnceUnderStrictPolicy`: `Spec => []AtMostOnce` for a policy that repeats nothing but
  `not_running`, which is the code after which neither transport ever runs the request.
  The default policy also repeats `connect_failed`; the run `mx_double` is what follows.
* `OutcomeIsHonest`: `HonestOutcome`, for every retry policy, from the same invariant.
* `NothingLeftOpen`: `CloseReleases`, when `closed` is not retried (it is not by default):
  a call that `close()` rejected would otherwise reconnect the object just dropped.
  `HeldInv` says that a request that is still attached to a dropped object is in `late`.

`DispatchProofs`, for any numbers of operations, tasks and polls:

* `DispatchTypeCorrect`: every handler returns an envelope and a code of the taxonomy.
* `RunsOnce`: `Spec => []TaskRunsOnce`. `OnceInv` says that an operation's key is known
  once it has started (`KeyKnown`), that the key of a dispatch is the one of its task
  (`KeyOfTask`), and that an invocation serves the task it is keyed by
  (`SubjectIsKey`); two keys that ran for one task are then the same key.
* `EnvelopesTruthful`, `WaitIsNoError`: `TruthfulEnvelope` and `ExpiryIsPending`.
  `TruthInv` says the same of a reply on its way as of an envelope: what was true of the
  invocation when the daemon answered is still true when the handler reads it, because the
  states it speaks of are final or only grow (`Says`).
* `CancelIsFinal`: `CancelFinal` from the same invariant, for replies with the `cancelled`
  flag and without: the daemon acknowledges a cancel only of work that it has stopped or
  that was over, and states that are over are final.

`WorkspaceProofs`, for any tasks, plans, inputs and number of changes by others:

* `ActionRoundTrip`: for every action, what `mx_dispatch_task` would run for the stored
  node is what it would run for the action its author gave. By cases on the kind and on
  which fields are absent or empty.
* `WritesTruthful`: `Spec => []WriteTruthful`, however the daemon words its refusals.
  `Vouches` says which ok is a claim that something was written: any of a share, one that
  names a created task, one that shows a task in a state tasks have. `WriteInv` follows the
  request: it is carried out exactly when `stored` names something, an ok that vouches has
  the id that is stored, a refusing code comes only with a request that was refused or never
  sent, and a created node is the one of
  `CreateParams`, which `ActionRoundTrip` then turns into what is dispatched.
* `ResumesTrue`: `Spec => []ResumeTrue`. `ResumeInv` says that the room of the moment is
  among the states seen and is well formed, so that the read is of one of them, or has
  no rows and offers nothing; the rest is a lemma about `Reconcile`, with the `blocks` edges
  among the prerequisites whether or not the daemon mirrors them: a task offered too early
  waits only over such an edge that is not mirrored, and the snapshot shows the edge. That
  a plan is never stuck (`NeverStuck`) is argued from acyclicity: the tasks that have not
  succeeded are a set in which some task waits for none of the others.
* `ReadsTrue`: `Spec => []ReadTrue`. `SeenInv` has the room of the moment among the states
  seen while a call reads; `ReadInv` keeps that the nodes of the first read are those of
  such a state. `ListedEdges` then has both halves: the derived edges are edges of that
  state's graph, and none that starts from a listed node is missing, so that one that
  lasted is there even if `task.graph` said nothing.
* `DirectoryIsHonest`: `Spec => []DirectoryHonest`. `DirInv` says of a search that its rows
  matched, that the ones kept had the tool, and that an agent that matches all along is
  kept, still to be asked, or the one whose answer failed (`Searching`); of a description,
  that what it has of `agent.tools` was published (`Describing`).

`OrchestratorProofs`, for every chain of phases, every bound and any number of runs, with
crashes, resumes and lost saves. `TypeInv` gives `OrchestratorTypeCorrect`.

* `ExitIsHonest`: `HonestExit`.
* `EveryPhasePerformed`: `NothingSkipped`. `DocInv` and `PosInv` (theorem `DocumentTrue`)
  say that what a run document records was performed, that the one on disk is not ahead of
  the one in memory, and that the phases before the process's position are recorded.
* `IssueMergedOnce`: `MergedOnce`. `MergeInv` says that after a merge that was reported the
  branch is gone and the process is past pushing and merging, so that a resumed run finds
  nothing to push.
* `MergedIsGreen`: the action property `MergeOnlyOnGreen`, whenever CI registers its checks.
  `GreenInv` says that the branch and the head at origin differ only in the CI loop and only
  after the checks of the old head were read as failed, that a branch without an open pull
  request holds gated work, and that what is about to be merged is `Cleared`: by its checks,
  by a settle window that was used up, or, where no checks were read, by the local gates.
* `BlockersReachPatch`: the action property `BlockersHanded`, for chains that patch after
  their last review with at least one attempt (`PatchesReviews`; the default chain does,
  `--phases` may name another). `BlockInv` says that the findings of a review stay with
  each document that records it, until a patch agent was given them.

`PhaseRunnerProofs`, for any numbers of phases and chunks and any set of backends:

* `PhaseRunnerTypeCorrect`, and `KilledStaysKilled`: `KilledNotRetried`, from `ControlInv`. An
  attempt whose signal aborted is reported as such by every return of every runner but one,
  the error envelope of an opencode server, which has no usage (`Owned`).
* `AnswerTaken`: the action property `NoReplyWasted`. `ReplyInv` says that the stream of an
  SDK has been read as far as it was produced; the child of pi is left only after `close`,
  when all its output has been read.
* `AgentsDoNotOverlap`: `OneAgent`. `AgentInv` says that the agents at work are those of the
  attempt that is being waited for.
* `TotalIsWhole`: `CostIsWhole`. `CostInv` says it of the phase, the run and the document on
  disk, so that a resume starts from a whole total.

`OpencodeRunnerProofs`, for any numbers of calls, starts, stops and chunks:

* `NoServerOrphaned`, `OneServerShared`: `NoOrphan` and `OneServer`. `ServerInv` says that the
  installed server is the start `this.starting` names, and that a process that was begun
  since the last `stop()` and runs is that start's.
* `TranscriptIsFaithful`: `TranscriptFaithful`, for the specification without lost events
  (finding C is the other). `TranscriptInv` gives what is written as a function of how many
  events of the reply the call has seen, for a call that subscribed in time and for one
  that came late.
* `NoWaitForEnded`: no call is left waiting for a start that has ended, the safety half of
  `AbortedReturns`. `CallerInv` ties what a call awaits to the start it joined.
* `RunnerTypes`: `Spec => []TypeOK`.

`HostProofs` has what a host runs around the verbs. First the watcher, for any tasks,
states, numbers of changes, faults and deaths:

* `WatchTypesHold`: `Spec => []TypeOK`, with every revision and cursor at most the number of
  changes made.
* `OnlyNewSurface`: `OnlyNewDeltas`, however the daemon numbers its records.
* `NoUpdateIsLost`: `Spec => []NoLostUpdate`, however it numbers them and whether or not the
  plan was read. Where the cursor tells what the host has, what was seen is known or queued;
  where it does not (`Blind`: revisions per record, or a plan that could not be read), this
  holds of every revision beyond the one the watcher began with.
* `StopReleases`: `Spec => []NoParkAfterStop`.

All four come from `WatchInv`. Its part `Ordered` says that what the host is informed of
(the last delta queued for a task, else what it has read), what the watcher has seen, the
answer on its way and the daemon's record are versions of one record, each no newer than
the next: this is why a delta that passes `isNew` is really new. `Exact` says
that a task seen is informed of exactly what was seen, or was suppressed by the cursor; after
a good read and with one numbering for all records it is always the former, and a task
never seen is as the host read it unless it changed after the cursor of that read. The
deltas of one poll are queued in an order that `SetToSeq` picks; the lemmas `ListsAll`,
`QueueNamed` and `QueueOthers` show that the order does not matter, as every task is queued
at most once per poll.

Then Binding, for any set of calls, any number of faults and every host:

* `GateIsKept`: `BindingSpec => []GateHolds`. `GateInv` has the operator's word already when the
  hook allows the call, before the SDK makes it.
* `TrailIsTrue`: `BindingSpec => []OneRowPerResult`. `RowInv` says that nothing is recorded before
  the tap, so the row that the tap writes is the only one.
* `SessionIsKept`: the heartbeat runs exactly in an open session, and each request is awaited
  by the step that sent it (`SessionInv`).
* `ClosedSessionDrains`: once a session is over, it stays over, no request is added to those
  the daemon may still carry out, and every time the agent is listed as active again one of
  them is used up. This measure is the safety half of `GoneAfterClose`; that it runs out is
  what fairness adds.

The assumptions are the `ASSUME`s of the modules (placeholders are not members, bounds
are naturals). The daemon's memory of keys is part of the model (external).

Only model-checked: liveness, which is out of the prover's reach as fairness needs
`ENABLED`: `EveryCallSettles`, `Converges`, `Terminates`, `PhaseEnds`, `StopTearsDown`,
`AbortedReturns`, `StaysActive` and `GoneAfterClose`. Every other property of a passing run
is a theorem. The `TypeOK` of a module says what its variables hold; no run has it as a
property, and it is proved for every module that states one.

## 5. Findings

* **A** `ipc/client.ts:124`, `retry.ts:34`: `connect_failed` is also raised for requests
  that were written; the default retry policy may run them twice.
* **B** `ipc/client.ts:48`: the decoder outlives the connection; what a cut-off frame
  left behind corrupts the next connection's first frame.
* **C** `runner-opencode.ts:241`: the replay of the final parts goes by length; when an
  event is lost from the stream, a piece of the reply is missing and another is there
  twice, while `runner-opencode.ts:542` says that drift can never lose or duplicate.

Seen without a run of its own. Those that name a property are in the instance it is checked
on, as the case it excepts; each of these cases is reachable there.

* `orchestrator.ts:422`: the settle counter survives a CI fix, so that a fix can be merged
  before its checks register. A comment there keeps it on purpose. It is the second case of
  `MergeOnlyOnGreen`: no checks were read, and the settle window of the run was used up. A
  head that passed no gate can be merged that way, as a CI fix is not gated.
* `orchestrator.ts:880`: a resumed run does not check out its branch. What is pushed is the
  branch all the same; the phases work in the tree that is there (`Switch`).
* `task-watch.ts:227`: the cursor suppresses what a watcher sees first. With revisions per
  record, a change between the read of the plan and the first poll is lost even after a good
  read, when the record's revision is not beyond the largest of all; with `task.watch` so is
  any later change that is not beyond the present cursor. After a failed read it is whatever
  the persisted cursor covers. `Blind` names both in `NoLostUpdate` and, with `Behind`, in
  `Converges`.
* `handlers/cancel.ts:166`: a cancel of what had failed, been denied or expired reads as
  `cancelled: true` if the reply has no flag, as only success counts as nothing to cancel.
  `CancelFinal` has it that the work is over for good, whoever ended it.
* `handlers/cancel.ts:150`: the comment says that a denial or fault label is a failure;
  `hasErrorSignal` (`invocation.ts:265`) does not look at labels, so that a refusal sent as a
  bare label is read as an acknowledgement. `CancelSays` excepts it (`Refusals`).
* `task-projection.ts:338`: the same comment on task replies, and the same code: a bare
  `{state: 'denied'}` is an ok, of a task in state `unknown`. `Vouches` leaves these out.
* `plan-snapshot.ts:306`: `reconcile` looks at `depends_on` only; a task that another one
  `blocks` is ready too early unless the daemon's rows mirror the edge, though the comment
  at 299 promises never to report a task ready whose prerequisite has not completed.
  `ResumeTrue` allows it over such an edge only, and has it that the snapshot shows the
  edge. A state of an unknown spelling counts as ready (a test says so).
* `plan-snapshot.ts:245`, `list-tasks.ts:59`, `find-agents.ts:68`: a reply without rows, an
  error body too, reads as an empty plan, listing or directory, and not as a failure. Nothing
  is offered then; `ResumeTrue`, `ReadTrue` and `DirectoryHonest` speak of it as `NoRows`.
* `runner-opencode.ts:333` and `363`: an error envelope is reported with signal `none` also
  after the abort, so that the phase is nudged though `run-phase.ts:10` says that a killed
  runner is not run again. It is the exception in `KilledNotRetried`.
* `ipc/client.ts:99`: `close()` does not reject calls that await the connection; they are
  sent after it and the new socket stays open (`ReuseClosed`, `NoLeakedSocket`).
* `client.ts:176`: a request that awaits its connection or sleeps before a retry when
  `close()` comes reconnects the `IpcClient` that was dropped, and nobody closes that
  socket. `CloseReleases` names these objects (`late`) as the only ones that stay open.
* `create-task.ts:128`: the generated idempotency key is not in the error of a create that
  timed out, so that repeating the verb makes a second node; `mx_share_context` has no key
  at all.
* `run-phase.ts:143`, `runner-claude.ts:319`: a phase that throws drops what its attempts
  cost, and an accepted reply of a stream that broke off has no cost, which `recordUsage`
  takes for nothing; the loops of the pipeline record usage that is lost if they fail
  before the next save. `CostIsWhole` is about what was reported by phases that were done.
* `session.ts:317`: `close()` leaves a tick under way alone, and by default a tick is a
  registration: after a deregistration the agent may be listed as active once more, until
  it decays. `GoneAfterClose` says that it does.
* `runner-opencode.ts:433`: a server that crashed stays `this.server`, and every later phase
  fails on it; a prompt that failed leaves its agent at work while the nudge starts
  another (why `OneAgent` leaves opencode out).
* `runner-pi.ts:378` waits for `close`, which a grandchild that holds the pipes can delay
  beyond the SIGKILL; the model has no grandchildren.
* `errors.ts:131-133` says that `PolicyDenied` resolves, while
  `normaliseDaemonCode` lowercases it to a key that no table has, so it becomes `internal`;
  the bare state labels `denied`, `rejected` and `timed_out` become `internal` too.

## 6. What is left out

Inside the modelled parts: bytes, JSON and argument values; delays and backoff lengths;
the CLI's argv and environment; caller-supplied idempotency keys (the model uses the
generated ones); the check for an empty `task_id`; a missing `gh` under `--no-verify`;
token counts, progress comments and the project board (best effort, nothing reads
them back). In Workspace: titles, descriptions and assignees (an assignee filter goes the
way of the state filter), the project and workspace metadata, the contents of artifacts,
rows that are not objects; the daemon heeds the filter it is given; inputs are those the
hosts' validators let through. In Dispatch the alias tables are represented by one label per kind. In the
runners: prompts, token counts, tool notes, permission rules. In the hosts: an injected
session or daemon (bound as it is, closed by its owner), names of tools the shim does not
own, the rows' other columns, the null and in-memory sinks, the end of open HTTP
connections before the context is closed.

Not modelled, for want of behaviour over time: the credential guard and redaction
(Workspace has the guard's refusal as an outcome), descriptors, JSON schemas and the lint
over them; the converters of schemas to zod and TypeBox, whose contract is the semantics of
two vendors' validators; `cli.ts` (argument parsing), `env.ts`, `issue.ts`, `models.ts`,
price tables and prompts. The vendors' SDKs are external. The Python engine, fixtures and
examples are not part of the product's core.

## 7. Plan

Every component with behaviour over time has its module, and every safety property that a
run checks is a theorem. What could follow:

1. **A liveness argument** for `GoneAfterClose` and `AbortedReturns` on top of
   `ClosedSessionDrains` and `NoWaitForEnded`, which have the decreasing measures, once a
   prover handles `ENABLED`.
2. **Session over Transport**: the requests of Session are what Transport promises by
   construction (`current`, `late`). The unified client promises less than Transport, since a
   retry may run a request again; what it does promise (`SecondRunIsRetry`, `HonestOutcome`)
   could be an abstract specification that Session refines, if Session named its requests.
