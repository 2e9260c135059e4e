---------------------------- MODULE DispatchProofs ----------------------------
(***************************************************************************)
(* That the action of a task runs at most once, for any number of tasks,   *)
(* runtimes and operations, and that what an envelope says is true.  The   *)
(* first argument is about the key: every start sent on behalf of a task   *)
(* carries the key of that task, so an invocation that serves a task is    *)
(* the one named by it.  The second is about time: what a reply or a probe *)
(* saw of an invocation still bounds what the invocation is when the       *)
(* envelope is read.                                                       *)
(***************************************************************************)
EXTENDS Dispatch, TLAPS

\* An operation that was issued has a key, and only such a one sends.
KeyKnown == \A o \in Ops : /\ op[o].at # "idle" => op[o].key \in Keys
                           /\ o \in wire => op[o].at # "idle"

\* A dispatch of a task carries the task's key.
KeyOfTask == \A o \in Ops : op[o].task # NoTask => op[o].key = op[o].task

\* An invocation that serves a task is the one of the task's key.
SubjectIsKey == \A k \in Keys : subject[k] # NoTask => subject[k] = k

OnceInv == TypeOK /\ KeyKnown /\ KeyOfTask /\ SubjectIsKey

OpRecords == [verb : {"none", "dispatch", "delegate", "exec", "await", "cancel"},
              key : Keys \cup {NoTask}, task : Tasks \cup {NoTask},
              at : {"idle", "list", "tools", "start", "sent", "await", "done", "gone"},
              wait : 0..MaxWait, env : Envelopes, faulted : BOOLEAN]

\* What an operation may become in a step of its runtime: it keeps its key and its
\* task, and never goes back to idle.
Advances(o) == /\ op' \in [Ops -> OpRecords]
               /\ \A p \in Ops \ {o} : op'[p] = op[p]
               /\ op'[o].key = op[o].key /\ op'[o].task = op[o].task
               /\ op'[o].at # "idle"

\* The envelopes that the handlers build are envelopes of the closed taxonomy.
LEMMA EnvelopeTypes ==
    /\ \A s \in {"running", "awaiting_approval"} : Pending(s) \in Envelopes
    /\ \A b \in BOOLEAN, l \in Labels : Ok(b, l) \in Envelopes
    /\ \A c \in DenialCodes \cup FaultCodes : FailureResult(c) \in Envelopes
    /\ \A token : FailureCode(token) \in DenialCodes \cup FaultCodes
    /\ \A token : Classify(token) \in Envelopes
    /\ \A token : InvocationToResult(token) \in Envelopes
    /\ \A token, state : CallResponseToResult(token, state) \in Envelopes
<1>1. \A s \in {"running", "awaiting_approval"} : Pending(s) \in Envelopes
  BY DEF Pending, Envelopes, Labels
<1>2. \A b \in BOOLEAN, l \in Labels : Ok(b, l) \in Envelopes
  BY DEF Ok, Envelopes
<1>3. \A c \in DenialCodes \cup FaultCodes : FailureResult(c) \in Envelopes
  BY DEF FailureResult, Envelopes, DenialCodes, FaultCodes, Labels
<1>a. "absent" \in Labels
  BY DEF Labels
<1>4. \A token : FailureCode(token) \in DenialCodes \cup FaultCodes
  BY DEF FailureCode, DenialCodes, FaultCodes
<1>5. FailureResult("internal") \in Envelopes
  BY <1>3 DEF FaultCodes
<1>6. \A token : Classify(token) \in Envelopes
  <2> SUFFICES ASSUME NEW token PROVE Classify(token) \in Envelopes
    OBVIOUS
  <2>1. CASE token \in {"running", "awaiting_approval"}
    BY <2>1, <1>1 DEF Classify
  <2>2. CASE token = "completed"
    BY <2>2, <1>2, <1>a DEF Classify
  <2>3. CASE token = "cancelled"
    BY <2>3, <1>5 DEF Classify
  <2>4. CASE token \notin {"running", "awaiting_approval", "completed", "cancelled"}
    BY <2>4, <1>3, <1>4 DEF Classify
  <2> QED
    BY <2>1, <2>2, <2>3, <2>4
<1>7. \A token : InvocationToResult(token) \in Envelopes
  BY <1>5, <1>6 DEF InvocationToResult
<1>8. \A token, state : CallResponseToResult(token, state) \in Envelopes
  BY <1>1, <1>2, <1>6, <1>a DEF CallResponseToResult
<1> QED
  BY <1>1, <1>2, <1>3, <1>4, <1>6, <1>7, <1>8

\* Every token is a label.
LEMMA TokensAreLabels == \A s \in InvStates : Tokens(s) \subseteq Labels
  BY DEF InvStates, Live, Tokens, Labels, DenialCodes, FaultCodes

\* Replacing the record of an operation by one with its key and task is an advance.
LEMMA UpdateAdvances ==
    ASSUME TypeOK, NEW o \in Ops, NEW rec \in OpRecords,
           rec.key = op[o].key, rec.task = op[o].task, rec.at # "idle",
           op' = [op EXCEPT ![o] = rec]
    PROVE  Advances(o)
<1>1. op \in [Ops -> OpRecords]
  BY DEF TypeOK, OpRecords
<1>2. op' \in [Ops -> OpRecords] /\ op'[o] = rec
  BY <1>1
<1>3. \A p \in Ops \ {o} : op'[p] = op[p]
  BY <1>1
<1> QED
  BY <1>2, <1>3 DEF Advances

\* Finishing with an envelope, faulted or not, is an advance.
LEMMA FinishAdvances ==
    ASSUME TypeOK, NEW o \in Ops, NEW env \in Envelopes, NEW f \in BOOLEAN,
           op' = [op EXCEPT ![o] = [op[o] EXCEPT !.at = "done", !.env = env, !.wait = 0,
                                                 !.faulted = f]]
    PROVE  Advances(o)
<1> DEFINE rec == [op[o] EXCEPT !.at = "done", !.env = env, !.wait = 0, !.faulted = f]
<1>1. op[o] \in OpRecords
  BY DEF TypeOK, OpRecords
<1>2. 0 \in 0..MaxWait
  BY DispatchAssumption
<1>3. rec \in OpRecords /\ rec.key = op[o].key /\ rec.task = op[o].task /\ rec.at # "idle"
  BY <1>1, <1>2 DEF OpRecords
<1> QED
  BY <1>3, UpdateAdvances

LEMMA FinishIsAdvance ==
    ASSUME TypeOK, NEW o \in Ops, NEW env \in Envelopes, Finish(o, env)
    PROVE  Advances(o)
<1>1. op[o] \in OpRecords
  BY DEF TypeOK, OpRecords
<1>2. op[o].faulted \in BOOLEAN
  BY <1>1 DEF OpRecords
<1>3. op' = [op EXCEPT ![o] = [op[o] EXCEPT !.at = "done", !.env = env, !.wait = 0,
                                            !.faulted = op[o].faulted]]
  BY <1>1 DEF Finish, TypeOK, OpRecords
<1> QED
  BY <1>2, <1>3, FinishAdvances

\* Moving on is an advance.
LEMMA GotoAdvances ==
    ASSUME TypeOK, NEW o \in Ops, NEW at \in {"list", "tools", "start", "sent", "await", "gone"},
           Goto(o, at)
    PROVE  Advances(o)
<1> DEFINE rec == [op[o] EXCEPT !.at = at]
<1>1. op[o] \in OpRecords
  BY DEF TypeOK, OpRecords
<1>2. rec \in OpRecords /\ rec.key = op[o].key /\ rec.task = op[o].task /\ rec.at # "idle"
  BY <1>1 DEF OpRecords
<1>3. op' = [op EXCEPT ![o] = rec]
  BY DEF Goto, TypeOK
<1> QED
  BY <1>2, <1>3, UpdateAdvances

\* An advance of an operation that leaves the daemon alone keeps the invariant.
LEMMA AdvanceKeeps ==
    ASSUME OnceInv, NEW o \in Ops, op[o].at # "idle", Advances(o),
           UNCHANGED <<reply, node, task, inv, subject, ran>>,
           wire' \subseteq wire \cup {o}
    PROVE  OnceInv'
<1>1. TypeOK'
  BY DEF OnceInv, TypeOK, Advances, OpRecords
<1>2. KeyKnown'
  BY DEF OnceInv, KeyKnown, Advances
<1>3. KeyOfTask'
  BY DEF OnceInv, KeyOfTask, Advances
<1>4. SubjectIsKey'
  BY DEF OnceInv, SubjectIsKey
<1> QED
  BY <1>1, <1>2, <1>3, <1>4 DEF OnceInv

\* The verbs: each issues an operation with the key that belongs to it.
LEMMA IssueKeeps ==
    ASSUME OnceInv, NEW o \in Ops,
           NEW verb \in {"dispatch", "delegate", "exec", "await", "cancel"},
           NEW at \in {"list", "tools", "start", "await"},
           NEW key \in Keys, NEW t \in Tasks \cup {NoTask},
           t # NoTask => key = t,
           Issue(o, verb, at, key, t)
    PROVE  OnceInv'
<1>1. PICK w \in 0..MaxWait :
         op' = [op EXCEPT ![o] = [NoOp EXCEPT !.verb = verb, !.at = at, !.key = key,
                                              !.task = t, !.wait = w]]
  BY DEF Issue
<1>2. Pending("running") \in Envelopes
  BY EnvelopeTypes
<1> DEFINE rec == [NoOp EXCEPT !.verb = verb, !.at = at, !.key = key, !.task = t, !.wait = w]
<1>3. /\ rec \in OpRecords
      /\ rec.key = key /\ rec.task = t /\ rec.at = at
  BY <1>2 DEF NoOp, OpRecords
<1>4. /\ op' \in [Ops -> OpRecords]
      /\ \A p \in Ops \ {o} : op'[p] = op[p]
      /\ op'[o] = rec
  <2> HIDE DEF rec
  <2> QED
    BY <1>1, <1>3 DEF OnceInv, TypeOK, OpRecords, rec
<1> HIDE DEF rec
<1>5. TypeOK'
  BY <1>4 DEF OnceInv, TypeOK, OpRecords, Issue, daemonVars
<1>6. KeyKnown'
  BY <1>3, <1>4 DEF OnceInv, KeyKnown, Issue, daemonVars
<1>7. KeyOfTask'
  BY <1>3, <1>4 DEF OnceInv, KeyOfTask
<1>8. SubjectIsKey'
  BY DEF OnceInv, SubjectIsKey, Issue, daemonVars
<1> QED
  BY <1>5, <1>6, <1>7, <1>8 DEF OnceInv

LEMMA NoRoomKeeps ==
    ASSUME OnceInv, NEW o \in Ops, NoRoom(o)
    PROVE  OnceInv'
<1>1. PICK verb \in {"dispatch", "delegate", "exec"} :
         op' = [op EXCEPT ![o] = [NoOp EXCEPT !.verb = verb, !.at = "done", !.key = o,
                                              !.env = FailureResult("internal")]]
  BY DEF NoRoom
<1>2. Pending("running") \in Envelopes /\ FailureResult("internal") \in Envelopes
  BY EnvelopeTypes DEF FaultCodes
<1>n. NoOp \in OpRecords /\ NoOp.task = NoTask
  <2>1. 0 \in 0..MaxWait
    BY DispatchAssumption
  <2> QED
    BY <1>2, <2>1 DEF NoOp, OpRecords
<1> DEFINE rec == [NoOp EXCEPT !.verb = verb, !.at = "done", !.key = o,
                               !.env = FailureResult("internal")]
<1>3. /\ rec \in OpRecords
      /\ rec.key = o /\ rec.task = NoTask /\ rec.at = "done"
  BY <1>2, <1>n DEF OpRecords, Keys
<1>4. /\ op' \in [Ops -> OpRecords]
      /\ \A p \in Ops \ {o} : op'[p] = op[p]
      /\ op'[o] = rec
  <2> HIDE DEF rec
  <2> QED
    BY <1>1, <1>3 DEF OnceInv, TypeOK, OpRecords, rec
<1> HIDE DEF rec
<1>5. TypeOK'
  BY <1>4 DEF OnceInv, TypeOK, OpRecords, NoRoom, daemonVars
<1>6. KeyKnown'
  BY <1>3, <1>4 DEF OnceInv, KeyKnown, NoRoom, daemonVars, Keys
<1>7. KeyOfTask'
  BY <1>3, <1>4 DEF OnceInv, KeyOfTask
<1>8. SubjectIsKey'
  BY DEF OnceInv, SubjectIsKey, NoRoom, daemonVars
<1> QED
  BY <1>5, <1>6, <1>7, <1>8 DEF OnceInv

LEMMA CallKeeps ==
    ASSUME OnceInv, NEW o \in Ops, Call(o)
    PROVE  OnceInv'
<1>1. ASSUME NEW t \in Tasks, DispatchTask(o, t) PROVE OnceInv'
  BY <1>1, IssueKeeps DEF DispatchTask, DispatchKey, Keys
<1>2. CASE DelegateTool(o)
  BY <1>2, IssueKeeps DEF DelegateTool, Keys
<1>3. CASE RunCommand(o)
  BY <1>3, IssueKeeps DEF RunCommand, Keys
<1>4. ASSUME NEW h \in Keys, AwaitResult(o, h) PROVE OnceInv'
  BY <1>4, IssueKeeps DEF AwaitResult
<1>5. ASSUME NEW h \in Keys, Cancel(o, h) PROVE OnceInv'
  BY <1>5, IssueKeeps DEF Cancel
<1> QED
  BY <1>1, <1>2, <1>3, <1>4, <1>5, NoRoomKeeps DEF Call

\* A step of a runtime: its operation advances, and at most its request is added
\* to the ones on their way.
LEMMA OpStepKeeps ==
    ASSUME OnceInv, NEW o \in Ops, OpStep(o) \/ Die(o)
    PROVE  OnceInv'
<1> USE DEF daemonVars
<1>t. TypeOK
  BY DEF OnceInv
<1>1. CASE ListRead(o)
  <2>1. \A code \in {"not_found", "invalid_args"} : FailureResult(code) \in Envelopes
    BY EnvelopeTypes DEF FaultCodes
  <2>2. Advances(o)
    BY <1>1, <1>t, <2>1, FinishIsAdvance, GotoAdvances DEF ListRead
  <2> QED
    BY <1>1, <2>2, AdvanceKeeps DEF ListRead
<1>2. CASE ToolsRead(o)
  <2>1. \A code \in {"not_found", "invalid_args"} : FailureResult(code) \in Envelopes
    BY EnvelopeTypes DEF FaultCodes
  <2>2. Advances(o)
    BY <1>2, <1>t, <2>1, FinishIsAdvance, GotoAdvances DEF ToolsRead
  <2> QED
    BY <1>2, <2>2, AdvanceKeeps DEF ToolsRead
<1>3. CASE Send(o)
  <2>1. Advances(o)
    BY <1>3, <1>t, GotoAdvances DEF Send
  <2> QED
    BY <1>3, <2>1, AdvanceKeeps DEF Send
<1>4. CASE StartReplied(o)
  <2>1. reply[o].error # "none" => FailureResult(reply[o].error) \in Envelopes
    BY <1>t, EnvelopeTypes DEF TypeOK
  <2>2. Advances(o)
    BY <1>4, <1>t, <2>1, EnvelopeTypes, FinishIsAdvance, GotoAdvances DEF StartReplied
  <2> QED
    BY <1>4, <2>2, AdvanceKeeps DEF StartReplied
<1>5. CASE CancelReplied(o)
  <2>1. reply[o].error # "none" => FailureResult(reply[o].error) \in Envelopes
    BY <1>t, EnvelopeTypes DEF TypeOK
  <2>2. \A flagged, token : ReadCancelled(reply[o], flagged, token) \in BOOLEAN
    BY <1>t DEF TypeOK, ReadCancelled
  <2>l. /\ reply[o].error # "none" => reply[o].error \in Labels
        /\ Tokens(reply[o].state) \subseteq Labels
    BY <1>t, TokensAreLabels DEF TypeOK, Labels
  <2>3. Advances(o)
    BY <1>5, <1>t, <2>1, <2>2, <2>l, EnvelopeTypes, FinishIsAdvance DEF CancelReplied
  <2> QED
    BY <1>5, <2>3, AdvanceKeeps DEF CancelReplied
<1>6. CASE Probe(o)
  <2>1. PICK token : LET env == InvocationToResult(token)
                     IN IF IsTerminal(env) \/ op[o].wait = 0 THEN Finish(o, env)
                        ELSE op' = [op EXCEPT ![o].wait = @ - 1]
    BY <1>6 DEF Probe
  <2>2. CASE Finish(o, InvocationToResult(token))
    BY <2>2, <1>t, EnvelopeTypes, FinishIsAdvance, <1>6, AdvanceKeeps DEF Probe
  <2>3. CASE op[o].wait # 0 /\ op' = [op EXCEPT ![o].wait = @ - 1]
    <3> DEFINE rec == [op[o] EXCEPT !.wait = op[o].wait - 1]
    <3>1. op[o] \in OpRecords
      BY <1>t DEF TypeOK, OpRecords
    <3>2. op[o].wait - 1 \in 0..MaxWait
      BY <3>1, <2>3, DispatchAssumption DEF OpRecords
    <3>3. rec \in OpRecords /\ rec.key = op[o].key /\ rec.task = op[o].task /\ rec.at # "idle"
      BY <3>1, <3>2, <1>6 DEF OpRecords, Probe
    <3>4. op' = [op EXCEPT ![o] = rec]
      BY <2>3, <1>t DEF TypeOK
    <3>5. Advances(o)
      BY <3>3, <3>4, <1>t, UpdateAdvances
    <3> QED
      BY <3>5, <1>6, AdvanceKeeps DEF Probe
  <2> QED
    BY <2>1, <2>2, <2>3
<1>7. CASE Fault(o)
  <2>1. PICK code \in FaultsAt(op[o].at) :
           op' = [op EXCEPT ![o].at = "done", ![o].env = FailureResult(code),
                            ![o].wait = 0, ![o].faulted = TRUE]
    BY <1>7 DEF Fault
  <2>2. FailureResult(code) \in Envelopes
    BY EnvelopeTypes DEF FaultsAt, FaultCodes, DenialCodes
  <2>3. op' = [op EXCEPT ![o] = [op[o] EXCEPT !.at = "done", !.env = FailureResult(code),
                                              !.wait = 0, !.faulted = TRUE]]
    BY <2>1, <1>t DEF TypeOK
  <2>4. Advances(o)
    BY <2>2, <2>3, <1>t, FinishAdvances
  <2> QED
    BY <1>7, <2>4, AdvanceKeeps DEF Fault
<1>8. CASE Die(o)
  <2>1. Advances(o)
    BY <1>8, <1>t, GotoAdvances DEF Die
  <2> QED
    BY <1>8, <2>1, AdvanceKeeps DEF Die
<1> QED
  BY <1>1, <1>2, <1>3, <1>4, <1>5, <1>6, <1>7, <1>8 DEF OpStep

\* The only step that ties an invocation to a task ties it to the one of its key.
LEMMA StartKeeps ==
    ASSUME OnceInv, NEW o \in Ops, DaemonStart(o)
    PROVE  OnceInv'
<1> DEFINE k == op[o].key
<1>1. k \in Keys /\ op[o].task \in Tasks \cup {NoTask} /\ (op[o].task # NoTask => op[o].task = k)
  BY DEF OnceInv, TypeOK, KeyKnown, KeyOfTask, DaemonStart
<1>2. /\ inv' \in [Keys -> InvStates]
      /\ subject' \in [Keys -> Tasks \cup {NoTask}]
      /\ ran' \subseteq Keys
      /\ \A j \in Keys : subject'[j] # NoTask => subject'[j] = j
  <2>1. CASE UNCHANGED <<inv, subject, ran>>
    BY <2>1 DEF OnceInv, TypeOK, SubjectIsKey
  <2>2. ASSUME NEW s \in Live \cup {"ok"}, inv' = [inv EXCEPT ![k] = s],
               subject' = [subject EXCEPT ![k] = op[o].task],
               ran' = IF s = "held" THEN ran ELSE ran \cup {k}
        PROVE  /\ inv' \in [Keys -> InvStates]
               /\ subject' \in [Keys -> Tasks \cup {NoTask}]
               /\ ran' \subseteq Keys
               /\ \A j \in Keys : subject'[j] # NoTask => subject'[j] = j
    <3>1. s \in InvStates
      BY DEF InvStates
    <3>2. inv' \in [Keys -> InvStates]
      BY <1>1, <2>2, <3>1 DEF OnceInv, TypeOK
    <3>3. subject' \in [Keys -> Tasks \cup {NoTask}]
      BY <1>1, <2>2 DEF OnceInv, TypeOK
    <3>4. ran' \subseteq Keys
      BY <1>1, <2>2 DEF OnceInv, TypeOK
    <3>5. \A j \in Keys : subject'[j] # NoTask => subject'[j] = j
      BY <1>1, <2>2 DEF OnceInv, TypeOK, SubjectIsKey
    <3> QED
      BY <3>2, <3>3, <3>4, <3>5
  <2> QED
    BY <2>1, <2>2 DEF DaemonStart
<1>3. reply' \in [Ops -> [state : InvStates, error : DenialCodes \cup FaultCodes \cup {"none"},
                          stopped : BOOLEAN]]
  <2>1. inv[k] \in InvStates
    BY <1>1 DEF OnceInv, TypeOK
  <2>2. PICK s \in InvStates, e \in {"none", "policy_denied"} : Answer(o, s, e, FALSE)
    BY <2>1 DEF DaemonStart, InvStates, Live
  <2> QED
    BY <2>2 DEF OnceInv, TypeOK, Answer, DenialCodes
<1>4. TypeOK'
  BY <1>2, <1>3 DEF OnceInv, TypeOK, DaemonStart
<1>5. KeyKnown' /\ KeyOfTask'
  BY DEF OnceInv, KeyKnown, KeyOfTask, DaemonStart
<1> QED
  BY <1>2, <1>4, <1>5 DEF OnceInv, SubjectIsKey

LEMMA CancelKeeps ==
    ASSUME OnceInv, NEW o \in Ops, DaemonCancel(o)
    PROVE  OnceInv'
<1> DEFINE k == op[o].key
<1>1. k \in Keys /\ inv[k] \in InvStates
  BY DEF OnceInv, TypeOK, KeyKnown, DaemonCancel
<1>2. inv' \in [Keys -> InvStates]
  BY <1>1 DEF OnceInv, TypeOK, DaemonCancel, InvStates
<1>3. reply' \in [Ops -> [state : InvStates, error : DenialCodes \cup FaultCodes \cup {"none"},
                          stopped : BOOLEAN]]
  <2>1. PICK s \in InvStates, e \in {"none", "not_found", "untrusted_key"}, b \in BOOLEAN :
          Answer(o, s, e, b)
    BY <1>1 DEF DaemonCancel, InvStates
  <2> QED
    BY <2>1 DEF OnceInv, TypeOK, Answer, DenialCodes, FaultCodes
<1>4. TypeOK'
  BY <1>2, <1>3 DEF OnceInv, TypeOK, DaemonCancel
<1> QED
  BY <1>4 DEF OnceInv, KeyKnown, KeyOfTask, SubjectIsKey, DaemonCancel

LEMMA ServiceKeeps ==
    ASSUME OnceInv,
           (\E k \in Keys : InvocationStep(k)) \/ (\E t \in Tasks : TaskFollows(t))
    PROVE  OnceInv'
<1>1. ASSUME NEW k \in Keys, InvocationStep(k) PROVE OnceInv'
  <2>1. TypeOK'
    BY <1>1 DEF OnceInv, TypeOK, InvocationStep, InvStates, Live
  <2> QED
    BY <1>1, <2>1 DEF OnceInv, KeyKnown, KeyOfTask, SubjectIsKey, InvocationStep
<1>2. ASSUME NEW t \in Tasks, TaskFollows(t) PROVE OnceInv'
  <2>1. task' \in [Tasks -> {"pending", "executing", "succeeded", "failed"}]
    BY <1>2 DEF OnceInv, TypeOK, TaskFollows
  <2>2. TypeOK'
    BY <1>2, <2>1 DEF OnceInv, TypeOK, TaskFollows
  <2> QED
    BY <1>2, <2>2 DEF OnceInv, KeyKnown, KeyOfTask, SubjectIsKey, TaskFollows
<1> QED
  BY <1>1, <1>2

\* Every handler state is typed and every envelope is of the closed taxonomy of
\* errors.ts, and the inductive invariant about keys holds with it.
THEOREM KeysHold == Spec => []OnceInv
<1>1. Init => OnceInv
  <2> SUFFICES ASSUME Init PROVE OnceInv
    OBVIOUS
  <2>1. NoOp \in OpRecords /\ NoOp.task = NoTask /\ NoOp.at = "idle"
    BY EnvelopeTypes, DispatchAssumption DEF NoOp, OpRecords
  <2>2. op \in [Ops -> OpRecords] /\ KeyKnown /\ KeyOfTask
    BY <2>1 DEF Init, KeyKnown, KeyOfTask
  <2>3. TypeOK
    BY <2>2 DEF Init, TypeOK, OpRecords, NoReply, InvStates
  <2> QED
    BY <2>2, <2>3 DEF OnceInv, SubjectIsKey, Init
<1>2. OnceInv /\ [Next]_vars => OnceInv'
  <2> SUFFICES ASSUME OnceInv, [Next]_vars PROVE OnceInv'
    OBVIOUS
  <2>1. CASE UNCHANGED vars
    BY <2>1 DEF vars, OnceInv, TypeOK, KeyKnown, KeyOfTask, SubjectIsKey
  <2>2. CASE Next
    BY <2>2, CallKeeps, OpStepKeeps, StartKeeps, CancelKeeps, ServiceKeeps
       DEF Next, DaemonStep
  <2> QED
    BY <2>1, <2>2
<1> QED
  BY <1>1, <1>2, PTL DEF Spec

\* TypeOK of every run, for any number of operations, tasks and polls: in
\* particular no handler returns a code outside the closed taxonomy of errors.ts.
THEOREM DispatchTypeCorrect == Spec => []TypeOK
<1>1. OnceInv => TypeOK
  BY DEF OnceInv
<1> QED
  BY <1>1, KeysHold, PTL

\* mx_dispatch_task runs the action of a task at most once, however many runtimes
\* dispatch it and whatever dies or times out in between.
THEOREM RunsOnce == Spec => []TaskRunsOnce
<1>1. OnceInv => TaskRunsOnce
  BY DEF OnceInv, TypeOK, SubjectIsKey, TaskRunsOnce
<1> QED
  BY <1>1, KeysHold, PTL

-----------------------------------------------------------------------------
(* What an envelope says is true *)

\* The states an invocation never leaves.
Ended == InvStates \ (Live \cup {"none"})

\* What was seen of an invocation earlier, and what it is now: work that is over stays
\* as it ended, and an invocation never disappears.
Follows(seen, now) == /\ seen # "none" => now # "none"
                      /\ seen \in Ended => now = seen

\* Only an approved action runs.
RanStates == \A k \in ran : inv[k] \in {"running", "ok", "failed", "cancelled"}

\* The daemon answers a request once, after it was sent.
AnsweredOnce(o) == /\ op[o].at = "await" => op[o].verb # "cancel"
                   /\ o \in wire => reply[o] = NoReply /\ op[o].at \in {"sent", "done", "gone"}
                   /\ op[o].at \in {"idle", "list", "tools", "start"} => reply[o] = NoReply

\* What a reply said of the invocation still bounds what it is now, and a cancel is
\* acknowledged only for work that is then over.
ReplyTrue(o) == /\ reply[o].error \in {"none", "policy_denied"} \cup Refusals
                /\ op[o].verb # "cancel" => ~reply[o].stopped
                /\ op[o].verb = "cancel" /\ reply[o] # NoReply /\ reply[o].error = "none" =>
                     reply[o].state \in Ended /\ (reply[o].stopped => reply[o].state = "cancelled")
                /\ op[o].verb = "cancel" => reply[o].error \in {"none"} \cup Refusals
                /\ op[o].at # "idle" => Follows(reply[o].state, inv[op[o].key])

\* What an envelope that is not about a cancel may say, given the invocation.
Says(env, state) == /\ env.status = "ok" => state = "ok"
                    /\ env.status = "denied" /\ env.code \in {"approval_denied", "approval_expired"}
                         => state \in {"denied", "expired"}
                    /\ env.status \in {"running", "awaiting_approval"} => state # "none"

EnvTrue(o) == op[o].at = "done" =>
    /\ op[o].verb # "cancel" => Says(op[o].env, inv[op[o].key])
    /\ op[o].env.code = "timeout" => op[o].faulted
    /\ op[o].verb = "cancel" /\ op[o].env.status = "ok" =>
         reply[o] # NoReply /\ CancelSays(op[o].env, reply[o], inv[op[o].key])

TruthInv == /\ RanStates
            /\ \A o \in Ops : AnsweredOnce(o) /\ ReplyTrue(o) /\ EnvTrue(o)

\* The envelope built from a state token, by a start or by a probe, says of the
\* invocation only what the token's state implies; it is never a timeout, and never
\* claims a cancellation.
LEMMA TokensTrue ==
    ASSUME NEW s \in InvStates, NEW token \in Tokens(s)
    PROVE  /\ \A env \in {InvocationToResult(token), CallResponseToResult(token, s)} :
                Says(env, s) /\ env.code # "timeout" /\ env.cancelled = FALSE
<1>p. \A t \in {"running", "awaiting_approval"} :
        Pending(t).status = t /\ Pending(t).code = "none" /\ Pending(t).cancelled = FALSE
  BY DEF Pending
<1>k. Ok(FALSE, "absent").status = "ok" /\ Ok(FALSE, "absent").code = "none" /\ Ok(FALSE, "absent").cancelled = FALSE
  BY DEF Ok
<1>f. \A c : /\ FailureResult(c).status \in {"denied", "error"}
             /\ FailureResult(c).code = c /\ FailureResult(c).cancelled = FALSE
  BY DEF FailureResult
<1>i. FailureResult("internal").status = "error" /\ FailureResult("not_found").status = "error"
  BY DEF FailureResult, DenialCodes
<1>1. CASE s = "held"
  <2>1. token = "awaiting_approval"
    BY <1>1 DEF Tokens
  <2>2. InvocationToResult(token) = Pending(token) /\ CallResponseToResult(token, s) = Pending(token)
    BY <2>1 DEF InvocationToResult, CallResponseToResult, Classify
  <2> QED
    BY <1>1, <1>p, <2>1, <2>2 DEF Says
<1>2. CASE s = "running"
  <2>1. token \in {"running", "absent"}
    BY <1>2 DEF Tokens
  <2>2. /\ InvocationToResult(token) \in {Pending("running"), FailureResult("internal")}
        /\ CallResponseToResult(token, s) = Pending("running")
    BY <1>2, <2>1 DEF InvocationToResult, CallResponseToResult, Classify
  <2> QED
    BY <1>2, <1>p, <1>f, <1>i, <2>2 DEF Says
<1>3. CASE s = "ok"
  <2>1. token \in {"completed", "absent"}
    BY <1>3 DEF Tokens
  <2>2. /\ InvocationToResult(token) \in {Ok(FALSE, "absent"), FailureResult("internal")}
        /\ CallResponseToResult(token, s) = Ok(FALSE, "absent")
    BY <1>3, <2>1 DEF InvocationToResult, CallResponseToResult, Classify
  <2> QED
    BY <1>3, <1>k, <1>f, <1>i, <2>2 DEF Says
<1>4. CASE s \in {"denied", "expired"}
  <2>1. token \in {"denied", "approval_denied", "approval_expired"}
    BY <1>4 DEF Tokens
  <2>2. \E c \in {"internal", "approval_denied", "approval_expired"} :
          InvocationToResult(token) = FailureResult(c) /\ CallResponseToResult(token, s) = FailureResult(c)
    BY <2>1 DEF InvocationToResult, CallResponseToResult, Classify, FailureCode
  <2> QED
    BY <1>4, <1>f, <2>2 DEF Says
<1>5. CASE s \in {"failed", "cancelled", "none"}
  <2>1. token \in {"failed", "cancelled", "not_found"}
    BY <1>5 DEF Tokens
  <2>2. \E c \in {"internal", "not_found"} :
          InvocationToResult(token) = FailureResult(c) /\ CallResponseToResult(token, s) = FailureResult(c)
    BY <2>1 DEF InvocationToResult, CallResponseToResult, Classify, FailureCode
  <2> QED
    BY <1>5, <1>f, <1>i, <2>2 DEF Says
<1> QED
  BY <1>1, <1>2, <1>3, <1>4, <1>5 DEF InvStates, Live

\* An operation moves: it keeps its verb and its key, nothing else of the system is
\* touched, and at most it adds its own request to the ones on their way.
Moves(o) == /\ op[o].at # "idle"
            /\ Advances(o) /\ op'[o].verb = op[o].verb
            /\ UNCHANGED <<reply, inv, ran>> /\ wire' \subseteq wire \cup {o}

\* Finishing, faulted or not, sets the envelope and nothing else the proofs look at.
LEMMA FinishShape ==
    ASSUME TypeOK, NEW o \in Ops, NEW env, Finish(o, env)
    PROVE  /\ op'[o].at = "done" /\ op'[o].env = env
           /\ op'[o].verb = op[o].verb /\ op'[o].faulted = op[o].faulted
<1>1. op[o] \in OpRecords /\ o \in DOMAIN op
  BY DEF TypeOK, OpRecords
<1> QED
  BY <1>1 DEF Finish, OpRecords

\* Moving on keeps the verb.
LEMMA GotoShape ==
    ASSUME TypeOK, NEW o \in Ops, NEW at, Goto(o, at)
    PROVE  op'[o].at = at /\ op'[o].verb = op[o].verb
<1>1. op[o] \in OpRecords /\ o \in DOMAIN op
  BY DEF TypeOK, OpRecords
<1> QED
  BY <1>1 DEF Goto, OpRecords

\* Moving on keeps the invariant.
LEMMA MoveKeeps ==
    ASSUME OnceInv, TruthInv, NEW o \in Ops, Moves(o), op'[o].at # "done",
           \/ o \notin wire' /\ (reply[o] = NoReply \/ op'[o].at \in {"await", "gone"})
           \/ reply[o] = NoReply /\ op'[o].at \in {"sent", "gone"}
           \/ op'[o].at = "gone" /\ wire' \subseteq wire,
           op'[o].at = "await" => op[o].verb # "cancel"
    PROVE  TruthInv'
<1>1. RanStates'
  BY DEF TruthInv, RanStates, Moves
<1>2. \A p \in Ops \ {o} : AnsweredOnce(p)' /\ ReplyTrue(p)' /\ EnvTrue(p)'
  BY DEF TruthInv, Moves, Advances, AnsweredOnce, ReplyTrue, EnvTrue
<1>3. AnsweredOnce(o)'
  BY DEF TruthInv, Moves, AnsweredOnce
<1>4. ReplyTrue(o)'
  BY DEF TruthInv, Moves, Advances, ReplyTrue
<1>5. EnvTrue(o)'
  BY DEF EnvTrue
<1> QED
  BY <1>1, <1>2, <1>3, <1>4, <1>5 DEF TruthInv

\* Finishing keeps it when the envelope is true.
LEMMA DoneKeeps ==
    ASSUME OnceInv, TruthInv, NEW o \in Ops, Moves(o), op'[o].at = "done",
           op[o].at \notin {"idle", "start"}, wire' \subseteq wire,
           op[o].verb # "cancel" => Says(op'[o].env, inv[op[o].key]),
           op'[o].env.code = "timeout" => op'[o].faulted,
           op[o].verb = "cancel" /\ op'[o].env.status = "ok" =>
             reply[o] # NoReply /\ CancelSays(op'[o].env, reply[o], inv[op[o].key])
    PROVE  TruthInv'
<1>1. RanStates'
  BY DEF TruthInv, RanStates, Moves
<1>2. \A p \in Ops \ {o} : AnsweredOnce(p)' /\ ReplyTrue(p)' /\ EnvTrue(p)'
  BY DEF TruthInv, Moves, Advances, AnsweredOnce, ReplyTrue, EnvTrue
<1>3. AnsweredOnce(o)'
  BY DEF TruthInv, Moves, AnsweredOnce
<1>4. ReplyTrue(o)'
  BY DEF TruthInv, Moves, Advances, ReplyTrue
<1>5. EnvTrue(o)'
  BY DEF EnvTrue, Moves, Advances
<1> QED
  BY <1>1, <1>2, <1>3, <1>4, <1>5 DEF TruthInv

\* A failure says nothing of the invocation, unless its code is the operator's.
LEMMA FailureSays ==
    ASSUME NEW code, NEW state
    PROVE  /\ code \notin {"approval_denied", "approval_expired"} => Says(FailureResult(code), state)
           /\ FailureResult(code).code = code /\ FailureResult(code).status # "ok"
  BY DEF Says, FailureResult

\* A step of a runtime.
LEMMA OpStepTrue ==
    ASSUME OnceInv, TruthInv, NEW o \in Ops, OpStep(o) \/ Die(o)
    PROVE  TruthInv'
<1> USE DEF daemonVars
<1>t. TypeOK
  BY DEF OnceInv
<1>o. AnsweredOnce(o) /\ ReplyTrue(o)
  BY DEF TruthInv
<1>k. op[o].at # "idle" => op[o].key \in Keys /\ inv[op[o].key] \in InvStates
  BY <1>t DEF OnceInv, KeyKnown, TypeOK
<1>f. \A code \in {"not_found", "invalid_args", "policy_denied", "untrusted_key", "internal", "timeout"} :
        FailureResult(code) \in Envelopes
  BY EnvelopeTypes DEF FaultCodes, DenialCodes
<1>1. ASSUME NEW code \in {"not_found", "invalid_args", "policy_denied", "untrusted_key"},
             op[o].at \in {"list", "tools", "sent"},
             Finish(o, FailureResult(code)), UNCHANGED <<wire, reply, inv, ran>>
      PROVE  TruthInv'
  <2>1. Moves(o)
    BY <1>1, <1>t, <1>f, FinishIsAdvance, FinishShape DEF Moves
  <2>2. op'[o].at = "done" /\ op'[o].env = FailureResult(code)
    BY <1>1, <1>t, FinishShape
  <2>3. Says(op'[o].env, inv[op[o].key]) /\ op'[o].env.code # "timeout" /\ op'[o].env.status # "ok"
    BY <2>2, FailureSays
  <2> QED
    BY <1>1, <2>1, <2>2, <2>3, DoneKeeps
<1>2. ASSUME NEW at \in {"tools", "start"}, op[o].at \in {"list", "tools"}, Goto(o, at),
             UNCHANGED <<wire, reply, inv, ran>>
      PROVE  TruthInv'
  <2>1. Moves(o) /\ op'[o].at = at
    BY <1>2, <1>t, GotoAdvances, GotoShape DEF Moves
  <2>2. o \notin wire /\ reply[o] = NoReply
    BY <1>2, <1>o DEF AnsweredOnce
  <2> QED
    BY <1>2, <2>1, <2>2, MoveKeeps
<1>3. CASE ListRead(o)
  BY <1>1, <1>2, <1>3 DEF ListRead
<1>4. CASE ToolsRead(o)
  BY <1>1, <1>2, <1>4 DEF ToolsRead
<1>5. CASE Send(o)
  <2>1. Moves(o) /\ op'[o].at = "sent"
    BY <1>5, <1>t, GotoAdvances, GotoShape DEF Moves, Send
  <2>2. reply[o] = NoReply
    BY <1>5, <1>o DEF AnsweredOnce, Send
  <2> QED
    BY <2>1, <2>2, MoveKeeps
<1>6. CASE StartReplied(o)
  <2>1. /\ op[o].at = "sent" /\ op[o].verb # "cancel" /\ reply[o] # NoReply
        /\ UNCHANGED <<wire, reply, inv, ran>>
    BY <1>6 DEF StartReplied
  <2>2. CASE reply[o].error # "none"
    <3>1. reply[o].error \in {"not_found", "policy_denied", "untrusted_key"}
      BY <1>o, <2>2 DEF ReplyTrue, Refusals
    <3> QED
      BY <1>1, <1>6, <2>1, <2>2, <3>1 DEF StartReplied
  <2>3. CASE reply[o].error = "none"
    <3>1. PICK token \in Tokens(reply[o].state) :
            LET env == CallResponseToResult(token, reply[o].state)
            IN IF IsTerminal(env) \/ op[o].wait = 0 THEN Finish(o, env) ELSE Goto(o, "await")
      BY <1>6, <2>3 DEF StartReplied
    <3>2. reply[o].state \in InvStates
      BY <1>t DEF TypeOK
    <3>3. CASE Goto(o, "await")
      <4>1. Moves(o) /\ op'[o].at = "await"
        BY <3>3, <2>1, <1>t, GotoAdvances, GotoShape DEF Moves
      <4>2. o \notin wire'
        BY <2>1, <1>o DEF AnsweredOnce
      <4> QED
        BY <2>1, <4>1, <4>2, MoveKeeps
    <3>4. CASE Finish(o, CallResponseToResult(token, reply[o].state))
      <4> DEFINE env == CallResponseToResult(token, reply[o].state)
      <4>1. env \in Envelopes
        BY EnvelopeTypes
      <4>2. Says(env, reply[o].state) /\ env.code # "timeout" /\ env.cancelled = FALSE
        BY <3>2, TokensTrue
      <4> HIDE DEF env
      <4>3. Moves(o) /\ op'[o].at = "done" /\ op'[o].env = env
        BY <3>4, <2>1, <1>t, <4>1, FinishIsAdvance, FinishShape DEF Moves, env
      <4>4. Follows(reply[o].state, inv[op[o].key])
        BY <2>1, <1>o DEF ReplyTrue
      <4>5. Says(env, inv[op[o].key])
        BY <4>2, <4>4 DEF Says, Follows, Ended, InvStates, Live
      <4> QED
        BY <2>1, <4>2, <4>3, <4>5, DoneKeeps
    <3> QED
      BY <3>1, <3>3, <3>4
  <2> QED
    BY <2>2, <2>3
<1>7. CASE CancelReplied(o)
  <2>1. /\ op[o].at = "sent" /\ op[o].verb = "cancel" /\ reply[o] # NoReply
        /\ UNCHANGED <<wire, reply, inv, ran>>
    BY <1>7 DEF CancelReplied
  <2>2. CASE reply[o].error # "none" /\ Finish(o, FailureResult(reply[o].error))
    <3>1. reply[o].error \in {"not_found", "policy_denied", "untrusted_key"}
      BY <1>o, <2>2 DEF ReplyTrue, Refusals
    <3> QED
      BY <1>1, <2>1, <2>2, <3>1
  <2>3. ASSUME NEW flagged \in BOOLEAN, NEW token,
               token \in IF reply[o].error # "none" THEN {reply[o].error} ELSE Tokens(reply[o].state),
               Finish(o, Ok(ReadCancelled(reply[o], flagged, token), token))
        PROVE  TruthInv'
    <3>1. PICK b \in BOOLEAN : b = ReadCancelled(reply[o], flagged, token)
      BY <1>t DEF TypeOK, ReadCancelled
    <3>2. PICK env : env = Ok(b, token)
      OBVIOUS
    <3>3. reply[o].error \in {"none"} \cup Refusals /\ Follows(reply[o].state, inv[op[o].key])
      BY <1>o, <2>1 DEF ReplyTrue
    <3>4. env.code = "none" /\ env.cancelled = b /\ env.state = token
      BY <3>2 DEF Ok
    <3>5. reply[o].error = "none" =>
            /\ reply[o].state \in Ended /\ inv[op[o].key] = reply[o].state
            /\ reply[o].stopped => reply[o].state = "cancelled"
      BY <1>o, <2>1, <3>3 DEF ReplyTrue, Follows
    <3>6. token \in Labels
      BY <2>3, <3>3, <1>t, TokensAreLabels DEF TypeOK, Labels, Refusals, DenialCodes, FaultCodes
    <3>7. env \in Envelopes
      BY <3>2, <3>6, EnvelopeTypes
    <3>8. CancelSays(env, reply[o], inv[op[o].key])
      <4>1. CASE reply[o].error # "none"
        BY <2>3, <3>3, <3>4, <4>1 DEF CancelSays
      <4>2. CASE reply[o].error = "none"
        <5>1. token \in Tokens(reply[o].state)
          BY <2>3, <4>2
        <5>2. reply[o].stopped => b
          <6>1. reply[o].stopped => token = "cancelled"
            BY <3>5, <4>2, <5>1 DEF Tokens
          <6> QED
            BY <3>1, <6>1 DEF ReadCancelled
        <5>3. b /\ token # "absent" => reply[o].state # "ok"
          <6>1. reply[o].state = "ok" => token \in {"completed", "absent"} /\ ~reply[o].stopped
            BY <3>5, <4>2, <5>1 DEF Tokens
          <6> QED
            BY <3>1, <6>1 DEF ReadCancelled
        <5> QED
          BY <3>4, <3>5, <4>2, <5>2, <5>3 DEF CancelSays, Ended
      <4> QED
        BY <4>1, <4>2
    <3>9. Moves(o) /\ op'[o].at = "done" /\ op'[o].env = env
      BY <2>1, <2>3, <3>1, <3>2, <3>7, <1>t, FinishIsAdvance, FinishShape DEF Moves
    <3> QED
      BY <2>1, <3>4, <3>8, <3>9, DoneKeeps
  <2> QED
    BY <1>7, <2>2, <2>3 DEF CancelReplied
<1>8. CASE Probe(o)
  <2>0. op[o].at = "await" /\ UNCHANGED <<wire, reply, inv, ran>>
    BY <1>8 DEF Probe
  <2>1. PICK token \in Tokens(inv[op[o].key]) :
          LET env == InvocationToResult(token)
          IN IF IsTerminal(env) \/ op[o].wait = 0 THEN Finish(o, env)
             ELSE op' = [op EXCEPT ![o].wait = @ - 1]
    BY <1>8 DEF Probe
  <2>2. CASE Finish(o, InvocationToResult(token))
    <3> DEFINE env == InvocationToResult(token)
    <3>1. env \in Envelopes
      BY EnvelopeTypes
    <3>2. Says(env, inv[op[o].key]) /\ env.code # "timeout" /\ env.cancelled = FALSE
      BY <1>k, <2>0, TokensTrue
    <3> HIDE DEF env
    <3>3. Moves(o) /\ op'[o].at = "done" /\ op'[o].env = env
      BY <2>0, <2>2, <1>t, <3>1, FinishIsAdvance, FinishShape DEF Moves, env
    <3> QED
      BY <1>o, <2>0, <3>2, <3>3, DoneKeeps DEF AnsweredOnce
  <2>3. CASE op[o].wait # 0 /\ op' = [op EXCEPT ![o].wait = @ - 1]
    <3> DEFINE rec == [op[o] EXCEPT !.wait = op[o].wait - 1]
    <3>1. op[o] \in OpRecords
      BY <1>t DEF TypeOK, OpRecords
    <3>2. op[o].wait - 1 \in 0..MaxWait
      BY <3>1, <2>3, DispatchAssumption DEF OpRecords
    <3>3. rec \in OpRecords /\ rec.key = op[o].key /\ rec.task = op[o].task /\ rec.at = "await"
          /\ rec.verb = op[o].verb
      BY <3>1, <3>2, <2>0 DEF OpRecords
    <3>4. op' = [op EXCEPT ![o] = rec] /\ op'[o] = rec
      BY <2>3, <1>t DEF TypeOK
    <3>5. Moves(o)
      <4> HIDE DEF rec
      <4>1. Advances(o)
        BY <3>3, <3>4, <1>t, UpdateAdvances
      <4> QED
        BY <2>0, <3>3, <3>4, <4>1 DEF Moves
    <3>6. o \notin wire' /\ op'[o].at = "await"
      BY <2>0, <1>o, <3>3, <3>4 DEF AnsweredOnce
    <3> QED
      BY <1>o, <2>0, <3>5, <3>6, MoveKeeps DEF AnsweredOnce
  <2> QED
    BY <2>1, <2>2, <2>3
<1>9. CASE Fault(o)
  <2>1. PICK code \in FaultsAt(op[o].at) :
           op' = [op EXCEPT ![o].at = "done", ![o].env = FailureResult(code),
                            ![o].wait = 0, ![o].faulted = TRUE]
    BY <1>9 DEF Fault
  <2>2. code \in {"not_found", "invalid_args", "policy_denied", "untrusted_key", "internal", "timeout"}
    BY DEF FaultsAt
  <2>3. op' = [op EXCEPT ![o] = [op[o] EXCEPT !.at = "done", !.env = FailureResult(code),
                                              !.wait = 0, !.faulted = TRUE]]
    BY <2>1, <1>t DEF TypeOK
  <2>4. Advances(o)
    BY <1>f, <2>2, <2>3, <1>t, FinishAdvances
  <2>5. /\ op'[o].at = "done" /\ op'[o].env = FailureResult(code) /\ op'[o].faulted = TRUE
        /\ op'[o].verb = op[o].verb
    <3>1. op[o] \in OpRecords /\ o \in DOMAIN op
      BY <1>t DEF TypeOK, OpRecords
    <3> QED
      BY <2>3, <3>1 DEF OpRecords
  <2>6. Says(op'[o].env, inv[op[o].key]) /\ op'[o].env.status # "ok"
    BY <2>2, <2>5, FailureSays
  <2>7. Moves(o) /\ op[o].at \notin {"idle", "start"} /\ wire' \subseteq wire
    BY <1>9, <2>4, <2>5 DEF Fault, Moves
  <2> QED
    BY <2>5, <2>6, <2>7, DoneKeeps
<1>10. CASE Die(o)
  <2>1. Moves(o) /\ op'[o].at = "gone" /\ wire' \subseteq wire
    BY <1>10, <1>t, GotoAdvances, GotoShape DEF Moves, Die
  <2> QED
    BY <2>1, MoveKeeps
<1> QED
  BY <1>3, <1>4, <1>5, <1>6, <1>7, <1>8, <1>9, <1>10 DEF OpStep

\* A verb is called: the operation is new, and nobody has answered it.
LEMMA CallTrue ==
    ASSUME OnceInv, TruthInv, NEW o \in Ops, Call(o)
    PROVE  TruthInv'
<1> USE DEF daemonVars
<1>0. op[o].at = "idle" /\ o \in DOMAIN op /\ UNCHANGED <<wire, reply, inv, ran>>
  BY DEF Call, DispatchTask, DelegateTool, RunCommand, AwaitResult, Cancel, Issue, NoRoom, OnceInv, TypeOK
<1>1. o \notin wire /\ reply[o] = NoReply /\ NoReply.state = "none" /\ ~NoReply.stopped /\ NoReply.error = "none"
  BY <1>0 DEF TruthInv, AnsweredOnce, NoReply
<1>2. PICK rec : /\ op' = [op EXCEPT ![o] = rec]
                 /\ rec.at = "await" => rec.verb # "cancel"
                 /\ \/ rec.at \in {"list", "tools", "start", "await"}
                    \/ rec.at = "done" /\ rec.env = FailureResult("internal")
  <2>1. ASSUME NEW verb, NEW at \in {"list", "tools", "start", "await"}, NEW key, NEW t,
               Issue(o, verb, at, key, t)
        PROVE  \E rec : op' = [op EXCEPT ![o] = rec] /\ rec.at = at /\ rec.verb = verb
    <3>1. PICK w \in 0..MaxWait :
            op' = [op EXCEPT ![o] = [NoOp EXCEPT !.verb = verb, !.at = at, !.key = key,
                                                 !.task = t, !.wait = w]]
      BY <2>1 DEF Issue
    <3> DEFINE rec == [NoOp EXCEPT !.verb = verb, !.at = at, !.key = key, !.task = t, !.wait = w]
    <3>2. rec.at = at /\ rec.verb = verb
      BY DEF NoOp
    <3>3. op' = [op EXCEPT ![o] = rec]
      BY <3>1
    <3> HIDE DEF rec
    <3> QED
      BY <3>2, <3>3
  <2>2. CASE NoRoom(o)
    <3>1. PICK verb \in {"dispatch", "delegate", "exec"} :
            op' = [op EXCEPT ![o] = [NoOp EXCEPT !.verb = verb, !.at = "done", !.key = o,
                                                 !.env = FailureResult("internal")]]
      BY <2>2 DEF NoRoom
    <3> DEFINE rec == [NoOp EXCEPT !.verb = verb, !.at = "done", !.key = o,
                                   !.env = FailureResult("internal")]
    <3>2. rec.at = "done" /\ rec.env = FailureResult("internal")
      BY DEF NoOp
    <3>3. op' = [op EXCEPT ![o] = rec]
      BY <3>1
    <3> HIDE DEF rec
    <3> QED
      BY <3>2, <3>3
  <2> QED
    BY <2>1, <2>2 DEF Call, DispatchTask, DelegateTool, RunCommand, AwaitResult, Cancel
<1>3. op'[o] = rec /\ \A p \in Ops \ {o} : op'[p] = op[p]
  BY <1>0, <1>2 DEF OnceInv, TypeOK
<1>4. \A p \in Ops \ {o} : AnsweredOnce(p)' /\ ReplyTrue(p)' /\ EnvTrue(p)'
  BY <1>0, <1>3 DEF TruthInv, AnsweredOnce, ReplyTrue, EnvTrue
<1>5. AnsweredOnce(o)'
  BY <1>0, <1>1, <1>2, <1>3 DEF AnsweredOnce
<1>6. ReplyTrue(o)'
  BY <1>0, <1>1 DEF ReplyTrue, Follows, Ended
<1>7. EnvTrue(o)'
  <2>1. Says(FailureResult("internal"), inv'[op'[o].key])
    BY DEF Says, FailureResult, DenialCodes
  <2>2. FailureResult("internal").code = "internal" /\ FailureResult("internal").status # "ok"
    BY FailureSays
  <2> QED
    BY <1>2, <1>3, <2>1, <2>2 DEF EnvTrue
<1>8. RanStates'
  BY <1>0 DEF TruthInv, RanStates
<1> QED
  BY <1>4, <1>5, <1>6, <1>7, <1>8 DEF TruthInv

\* The daemons: invocations only move on, and a request is answered from the state its
\* invocation then has.
LEMMA ServiceTrue ==
    ASSUME OnceInv, TruthInv, UNCHANGED op, wire' \subseteq wire,
           \A k \in Keys : Follows(inv[k], inv'[k]),
           RanStates',
           \A o \in Ops : reply'[o] = reply[o] \/
              (/\ o \in wire /\ o \notin wire'
               /\ reply'[o].error \in {"none", "policy_denied"} \cup Refusals
               /\ op[o].verb # "cancel" => ~reply'[o].stopped
               /\ op[o].verb = "cancel" /\ reply'[o].error = "none" =>
                    reply'[o].state \in Ended /\ (reply'[o].stopped => reply'[o].state = "cancelled")
               /\ op[o].verb = "cancel" => reply'[o].error \in {"none"} \cup Refusals
               /\ Follows(reply'[o].state, inv'[op[o].key]))
    PROVE  TruthInv'
<1> SUFFICES ASSUME NEW o \in Ops PROVE AnsweredOnce(o)' /\ ReplyTrue(o)' /\ EnvTrue(o)'
  BY DEF TruthInv
<1>0. AnsweredOnce(o) /\ ReplyTrue(o) /\ EnvTrue(o) /\ (op[o].at # "idle" => op[o].key \in Keys)
  BY DEF TruthInv, OnceInv, KeyKnown
<1>1. EnvTrue(o)'
  <2>1. ASSUME op[o].at = "done", op[o].verb # "cancel"
        PROVE  Says(op[o].env, inv'[op[o].key])
    BY <1>0, <2>1 DEF EnvTrue, Says, Follows, Ended, InvStates, Live
  <2>2. ASSUME op[o].at = "done", op[o].verb = "cancel", op[o].env.status = "ok"
        PROVE  reply'[o] # NoReply /\ CancelSays(op[o].env, reply'[o], inv'[op[o].key])
    <3>1. reply[o] # NoReply /\ CancelSays(op[o].env, reply[o], inv[op[o].key]) /\ o \notin wire
      BY <1>0, <2>2 DEF EnvTrue, AnsweredOnce
    <3>2. reply'[o] = reply[o] /\ inv[op[o].key] \in InvStates
      BY <1>0, <2>2, <3>1 DEF OnceInv, TypeOK
    <3>3. inv[op[o].key] \notin Live \cup {"none"} => inv'[op[o].key] = inv[op[o].key]
      BY <1>0, <2>2, <3>2 DEF Follows, Ended
    <3> QED
      BY <3>1, <3>2, <3>3 DEF CancelSays
  <2> QED
    BY <1>0, <2>1, <2>2 DEF EnvTrue
<1>2. AnsweredOnce(o)'
  BY <1>0 DEF AnsweredOnce
<1>3. ReplyTrue(o)'
  <2>1. \A s, t, u : Follows(s, t) /\ Follows(t, u) => Follows(s, u)
    BY DEF Follows
  <2> QED
    BY <1>0, <2>1 DEF ReplyTrue
<1> QED
  BY <1>1, <1>2, <1>3

\* A start is answered from the invocation of its key, new or known.
LEMMA StartTrue ==
    ASSUME OnceInv, TruthInv, NEW o \in Ops, DaemonStart(o)
    PROVE  TruthInv'
<1>1. PICK k \in Keys : k = op[o].key
  BY DEF OnceInv, KeyKnown, DaemonStart
<1>2. /\ inv \in [Keys -> InvStates] /\ UNCHANGED op /\ wire' = wire \ {o} /\ o \in wire
      /\ reply \in [Ops -> [state : InvStates, error : DenialCodes \cup FaultCodes \cup {"none"},
                            stopped : BOOLEAN]]
      /\ op[o].verb # "cancel"
  BY DEF OnceInv, TypeOK, DaemonStart
<1>3. \A s : Follows(s, s)
  BY DEF Follows
<1>4. CASE Answer(o, inv[k], "none", FALSE) /\ UNCHANGED <<inv, subject, ran>>
  BY <1>1, <1>2, <1>3, <1>4, ServiceTrue DEF Answer, TruthInv, RanStates
<1>5. CASE Answer(o, "none", "policy_denied", FALSE) /\ UNCHANGED <<inv, subject, ran>>
  <2>1. \A s : Follows("none", s)
    BY DEF Follows, Ended
  <2> QED
    BY <1>1, <1>2, <1>3, <1>5, <2>1, ServiceTrue DEF Answer, TruthInv, RanStates
<1>6. ASSUME NEW s \in Live \cup {"ok"}, inv[k] = "none", inv' = [inv EXCEPT ![k] = s],
             ran' = IF s = "held" THEN ran ELSE ran \cup {k}, Answer(o, s, "none", FALSE)
      PROVE  TruthInv'
  <2>1. inv'[k] = s /\ \A j \in Keys \ {k} : inv'[j] = inv[j]
    BY <1>2, <1>6
  <2>2. RanStates'
    <3>1. k \notin ran /\ ran \subseteq Keys
      BY <1>6 DEF TruthInv, RanStates, OnceInv, TypeOK
    <3> QED
      BY <1>6, <2>1, <3>1 DEF TruthInv, RanStates, Live
  <2>3. \A j \in Keys : Follows(inv[j], inv'[j])
    BY <1>6, <1>3, <2>1 DEF Follows, Ended, Live
  <2>4. \A p \in Ops : reply'[p] = IF p = o THEN [state |-> s, error |-> "none", stopped |-> FALSE]
                                   ELSE reply[p]
    BY <1>2, <1>6 DEF Answer
  <2> QED
    BY <1>1, <1>2, <1>3, <2>1, <2>2, <2>3, <2>4, ServiceTrue
<1> QED
  BY <1>1, <1>4, <1>5, <1>6 DEF DaemonStart

\* A cancel ends a live invocation or leaves it as it is.
LEMMA CancelTrue ==
    ASSUME OnceInv, TruthInv, NEW o \in Ops, DaemonCancel(o)
    PROVE  TruthInv'
<1>1. PICK k \in Keys : k = op[o].key
  BY DEF OnceInv, KeyKnown, DaemonCancel
<1>2. /\ inv \in [Keys -> InvStates] /\ UNCHANGED <<op, ran>> /\ wire' = wire \ {o} /\ o \in wire
      /\ op[o].verb = "cancel" /\ reply \in [Ops -> [state : InvStates, error : DenialCodes \cup FaultCodes \cup {"none"},
                            stopped : BOOLEAN]] /\ ran \subseteq Keys
  BY DEF OnceInv, TypeOK, DaemonCancel
<1>3. \A p \in Ops :
        \/ reply'[p] = reply[p]
        \/ /\ p = o /\ reply'[p].error \in {"none"} \cup Refusals
           /\ reply'[p].error = "none" =>
                reply'[p].state \in Ended /\ (reply'[p].stopped => reply'[p].state = "cancelled")
           /\ Follows(reply'[p].state, inv'[k])
  <2>1. ASSUME NEW e \in Refusals, Answer(o, "none", e, FALSE)
        PROVE  reply'[o].error = e /\ reply'[o].state = "none" /\ \A p \in Ops \ {o} : reply'[p] = reply[p]
    BY <1>2, <2>1 DEF Answer
  <2>2. ASSUME NEW s, NEW b, Answer(o, s, "none", b)
        PROVE  /\ reply'[o].error = "none" /\ reply'[o].state = s /\ reply'[o].stopped = b
               /\ \A p \in Ops \ {o} : reply'[p] = reply[p]
    BY <1>2, <2>2 DEF Answer
  <2>3. \A s : Follows("none", s) /\ Follows(s, s)
    BY DEF Follows, Ended
  <2>4. CASE \E e \in Refusals : Answer(o, "none", e, FALSE)
    <3>1. "none" \notin Refusals
      BY DEF Refusals
    <3> QED
      BY <2>1, <2>3, <2>4, <3>1
  <2>5. CASE inv[k] \in Live /\ inv' = [inv EXCEPT ![k] = "cancelled"]
             /\ Answer(o, "cancelled", "none", TRUE)
    <3>1. inv'[k] = "cancelled" /\ "cancelled" \in Ended
      BY <1>2, <2>5 DEF Ended, InvStates, Live
    <3> QED
      BY <2>2, <2>3, <2>5, <3>1
  <2>6. CASE inv[k] \notin Live \cup {"none"} /\ Answer(o, inv[k], "none", FALSE) /\ UNCHANGED inv
    <3>1. inv[k] \in Ended
      BY <1>2, <2>6 DEF Ended
    <3> QED
      BY <2>2, <2>3, <2>6, <3>1
  <2> QED
    BY <1>1, <2>4, <2>5, <2>6 DEF DaemonCancel, Refusals
<1>4. UNCHANGED inv \/ (inv[k] \in Live /\ inv' = [inv EXCEPT ![k] = "cancelled"])
  BY <1>1 DEF DaemonCancel
<1>5. \A j \in Keys : inv'[j] = inv[j] \/ (inv[j] \in Live /\ inv'[j] = "cancelled")
  BY <1>2, <1>4
<1>6. \A j \in Keys : Follows(inv[j], inv'[j])
  BY <1>5 DEF Follows, Ended, Live
<1>7. RanStates'
  BY <1>2, <1>5 DEF TruthInv, RanStates
<1> QED
  BY <1>1, <1>2, <1>3, <1>6, <1>7, ServiceTrue

\* The operator decides, the action completes.
LEMMA InvocationTrue ==
    ASSUME OnceInv, TruthInv, NEW k \in Keys, InvocationStep(k)
    PROVE  TruthInv'
<1>1. /\ inv \in [Keys -> InvStates] /\ UNCHANGED <<op, wire, reply>> /\ ran \subseteq Keys
  BY DEF OnceInv, TypeOK, InvocationStep
<1>2. PICK s : /\ inv' = [inv EXCEPT ![k] = s]
               /\ \/ inv[k] = "held" /\ s \in {"running", "denied", "expired"}
                  \/ inv[k] = "running" /\ s \in {"ok", "failed"}
  BY DEF InvocationStep
<1>3. inv'[k] = s /\ \A j \in Keys \ {k} : inv'[j] = inv[j]
  BY <1>1, <1>2
<1>4. \A j \in Keys : Follows(inv[j], inv'[j])
  BY <1>2, <1>3 DEF Follows, Ended, Live
<1>5. RanStates'
  <2>1. inv[k] = "held" => k \notin ran
    BY DEF TruthInv, RanStates
  <2>2. ran' = IF s = "running" THEN ran \cup {k} ELSE ran
    BY <1>3 DEF InvocationStep
  <2> QED
    BY <1>1, <1>2, <1>3, <2>1, <2>2 DEF TruthInv, RanStates
<1> QED
  BY <1>1, <1>4, <1>5, ServiceTrue

\* What every envelope says is true when it is returned and stays true.
THEOREM TruthHolds == Spec => []TruthInv
<1>1. Init => TruthInv
  <2> SUFFICES ASSUME Init PROVE TruthInv
    OBVIOUS
  <2>1. \A o \in Ops : op[o] = NoOp /\ reply[o] = NoReply
    BY DEF Init
  <2>2. NoOp.at = "idle" /\ NoReply.error = "none" /\ ~NoReply.stopped
    BY DEF NoOp, NoReply
  <2>3. wire = {} /\ ran = {}
    BY DEF Init
  <2> QED
    BY <2>1, <2>2, <2>3 DEF TruthInv, RanStates, AnsweredOnce, ReplyTrue, EnvTrue
<1>2. OnceInv /\ TruthInv /\ [Next]_vars => TruthInv'
  <2> SUFFICES ASSUME OnceInv, TruthInv, [Next]_vars PROVE TruthInv'
    OBVIOUS
  <2>1. CASE UNCHANGED vars
    BY <2>1 DEF vars, TruthInv, RanStates, AnsweredOnce, ReplyTrue, EnvTrue
  <2>2. ASSUME NEW t \in Tasks, TaskFollows(t) PROVE TruthInv'
    BY <2>2 DEF TaskFollows, TruthInv, RanStates, AnsweredOnce, ReplyTrue, EnvTrue
  <2> QED
    BY <2>1, <2>2, CallTrue, OpStepTrue, StartTrue, CancelTrue, InvocationTrue DEF Next, DaemonStep
<1> QED
  BY <1>1, <1>2, KeysHold, PTL DEF Spec

\* What an envelope says of the work is true of it, at any later time too: a success
\* was carried out, what the operator denied or let expire never ran, and a handle names
\* an invocation that exists.
THEOREM EnvelopesTruthful == Spec => []TruthfulEnvelope
<1>1. OnceInv /\ TruthInv => TruthfulEnvelope
  <2> SUFFICES ASSUME OnceInv, TruthInv, NEW o \in Ops, op[o].verb # "cancel", op[o].at = "done"
               PROVE  /\ op[o].env.status = "ok" => inv[op[o].key] = "ok"
                      /\ op[o].env.status = "denied" /\ op[o].env.code \in {"approval_denied", "approval_expired"}
                           => inv[op[o].key] \in {"denied", "expired"} /\ op[o].key \notin ran
                      /\ op[o].env.status \in {"running", "awaiting_approval"} => inv[op[o].key] # "none"
    BY DEF TruthfulEnvelope, Returned
  <2>1. Says(op[o].env, inv[op[o].key])
    BY DEF TruthInv, EnvTrue
  <2> QED
    BY <2>1 DEF Says, TruthInv, RanStates
<1> QED
  BY <1>1, KeysHold, TruthHolds, PTL

\* mx_await_result: a wait that is over is not an error; 'timeout' means that a call
\* failed.
THEOREM WaitIsNoError == Spec => []ExpiryIsPending
<1>1. TruthInv => ExpiryIsPending
  BY DEF TruthInv, EnvTrue, ExpiryIsPending, Returned
<1> QED
  BY <1>1, TruthHolds, PTL

\* mx_cancel, however the reply is worded: an acknowledged cancel means that the work is
\* over for good, says so if it stopped it, and claims no success away, unless the reply
\* was a refusal sent as a bare state label.
THEOREM CancelIsFinal == Spec => []CancelFinal
<1>1. TruthInv => CancelFinal
  BY DEF TruthInv, EnvTrue, CancelFinal, Returned
<1> QED
  BY <1>1, TruthHolds, PTL
=============================================================================
