-------------------------- MODULE OrchestratorProofs --------------------------
(***************************************************************************)
(* What the pipeline guarantees for every chain of phases, every bound of  *)
(* its loops and any number of runs, crashes and resumes.  The argument    *)
(* follows the run document: what it records was done, on disk there is    *)
(* never more than in memory, and the chain's position tells what memory   *)
(* records.                                                                *)
(***************************************************************************)
EXTENDS Orchestrator, TLAPS

Agents == {"classify", "plan", "implement", "tests", "e2e", "document"}
Watching == {"ci", "fixing", "fixed", "fixpush"}
Pushed == {"pr", "confirm", "merge"} \cup Watching
Past == {"gates", "commit", "push", "record", "verify"} \cup Pushed
InPhase == {"phases", "resolve", "resolving", "patch", "patching"}
PCs == {"off", "preflight", "setup"} \cup InPhase \cup Past

-----------------------------------------------------------------------------
(* Types, one group of variables at a time *)

ProcessType == pc \in PCs /\ exit \in {"none", "ok", "error"} /\ runs \in 0..MaxRuns

DocType ==
    /\ mem \in Docs /\ disk \in Docs \cup {NoDoc}
    /\ performed \subseteq PhaseNames
    /\ idx \in 1..(Len(Phases) + 1)
    /\ pc \in {"resolve", "resolving"} => idx <= Len(Phases) /\ Phases[idx] = "resolve"
    /\ pc \in {"patch", "patching"} => idx <= Len(Phases) /\ Phases[idx] = "patch"

\* The counters of the CI loop stay below their bounds while it runs.
LoopType ==
    /\ review \in 0..Unknown /\ attempt \in Nat /\ remaining \in 0..MaxBlockers
    /\ polls \in 0..(CiMaxPolls + 1) /\ nonePolls \in 0..(SettlePolls + 1)
    /\ pc \in Watching => polls <= CiMaxPolls /\ nonePolls <= SettlePolls
    /\ pc = "patching" => remaining > 0

\* What is watched or merged exists at origin.
TreeType ==
    /\ tree \in Versions /\ last \in Versions /\ trunk \in Versions
    /\ where \in {"base", "branch"}
    /\ heads \in [base : Versions, branch : Versions \cup {NoVersion}]
    /\ remote \in Versions \cup {NoVersion}
    /\ pc \in Pushed => remote # NoVersion

HubType ==
    /\ pr \in {"none", "open", "merged"}
    /\ ci \in {"none", "pending", "success", "failure"}
    /\ checks \in BOOLEAN /\ issue \in {"OPEN", "CLOSED"}

HistType ==
    /\ gated \subseteq Versions
    /\ reading.of \in Versions \cup {NoVersion}
    /\ reading.says \in {"nothing", "none", "pending", "success", "failure"}
    /\ merged \in Seq(Versions)
    /\ unhanded \in BOOLEAN /\ amnesia \in BOOLEAN /\ misreported \in BOOLEAN

TypeInv == ProcessType /\ DocType /\ LoopType /\ TreeType /\ HubType /\ HistType

USE DEF stateVars, loopVars, gitVars, hubVars, pastVars, histVars

\* The constants, one by one.
LEMMA Consts ==
    /\ MaxResolve \in Nat /\ MaxPatch \in Nat /\ MaxCiFix \in Nat /\ CiMaxPolls \in Nat
    /\ SettlePolls \in Nat /\ MaxBlockers \in Nat /\ MaxVersion \in Nat /\ MaxRuns \in Nat
    /\ Verify \in BOOLEAN /\ ForceRun \in BOOLEAN /\ AllowDirty \in BOOLEAN
BY OrchestratorAssumption

\* The chain holds agent phases only, none of them a mark of the pipeline's own.
LEMMA Chain ==
    /\ Len(Phases) \in Nat
    /\ DOMAIN Phases = 1..Len(Phases)
    /\ \A i \in 1..Len(Phases) : Phases[i] \in PhaseNames \ {"setup", "merge", "nodoc"}
BY OrchestratorAssumption DEF PhaseNames

\* Versions and the number that stands for none.
LEMMA VersionFacts == 0 \in Versions /\ NoVersion \notin Versions
BY Consts DEF Versions, NoVersion

\* An agent's session leaves a version in the tree.
LEMMA EditType ==
    ASSUME tree \in Versions, last \in Versions, Edit
    PROVE  tree' \in Versions /\ last' \in Versions
BY Consts DEF Edit, Versions

\* A run document with one more mark, or with other findings, is one.
LEMMA MarkDoc ==
    ASSUME NEW doc \in Docs, NEW phase \in PhaseNames
    PROVE  /\ [doc EXCEPT !.done = @ \cup {phase}] \in Docs
           /\ [doc EXCEPT !.done = @ \cup {phase}].done = doc.done \cup {phase}
           /\ [doc EXCEPT !.done = @ \cup {phase}].findings = doc.findings
BY DEF Docs

LEMMA FindDoc ==
    ASSUME NEW doc \in Docs, NEW n \in 0..MaxBlockers
    PROVE  /\ [doc EXCEPT !.findings = n] \in Docs
           /\ [doc EXCEPT !.findings = n].done = doc.done
           /\ [doc EXCEPT !.findings = n].findings = n
BY DEF Docs

\* What it means for run() to complete the phase at its position.
LEMMA Completed ==
    ASSUME DocType, NEW phase, NEW doc \in Docs, idx <= Len(Phases), Phases[idx] = phase,
           Complete(phase, doc)
    PROVE  /\ mem' \in Docs /\ disk' \in {mem', disk}
           /\ mem'.done = doc.done \cup {phase} /\ mem'.findings = doc.findings
           /\ performed' = performed \cup {phase} /\ performed' \subseteq PhaseNames
           /\ idx' = idx + 1 /\ idx' \in 1..(Len(Phases) + 1)
           /\ pc' = "phases" /\ phase \in PhaseNames
<1>1. idx \in 1..Len(Phases)
  BY Chain DEF DocType
<1>2. phase \in PhaseNames
  BY <1>1, Chain
<1>3. /\ [doc EXCEPT !.done = @ \cup {phase}] \in Docs
      /\ [doc EXCEPT !.done = @ \cup {phase}].done = doc.done \cup {phase}
      /\ [doc EXCEPT !.done = @ \cup {phase}].findings = doc.findings
  BY <1>2, MarkDoc
<1>4. mem' = [doc EXCEPT !.done = @ \cup {phase}] /\ disk' \in {mem', disk}
  BY DEF Complete, Save
<1>5. performed' = performed \cup {phase} /\ idx' = idx + 1 /\ pc' = "phases"
  BY DEF Complete
<1>6. idx' \in 1..(Len(Phases) + 1)
  BY <1>1, <1>5, Chain
<1>7. performed' \subseteq PhaseNames
  BY <1>2, <1>5 DEF DocType
<1> QED
  BY <1>2, <1>3, <1>4, <1>5, <1>6, <1>7

\* The marks of the pipeline's own.
LEMMA Marked ==
    ASSUME DocType, NEW phase \in {"setup", "merge"},
           mem' = [mem EXCEPT !.done = @ \cup {phase}], Save(mem')
    PROVE  /\ mem' \in Docs /\ disk' \in {mem', disk}
           /\ mem'.done = mem.done \cup {phase} /\ mem'.findings = mem.findings
<1>1. phase \in PhaseNames
  BY DEF PhaseNames
<1> QED
  BY <1>1, MarkDoc DEF DocType, Save

\* The marks a run document may hold, and the document a run starts with.
LEMMA MarkFacts == "setup" \in PhaseNames /\ "merge" \in PhaseNames /\ Fresh \in Docs
BY Consts DEF PhaseNames, Docs, Fresh

\* The groups make up the type invariant.
LEMMA TypeInvIsTypeOK == TypeInv => TypeOK
<1> SUFFICES ASSUME TypeInv PROVE TypeOK
  OBVIOUS
<1>1. {unhanded, amnesia, misreported} \subseteq BOOLEAN
  BY Zenon DEF TypeInv, HistType
<1>2. pc \in {"off", "preflight", "setup", "phases", "resolve", "resolving", "patch",
              "patching", "gates", "commit", "push", "pr", "ci", "fixing", "fixed",
              "fixpush", "confirm", "merge", "record", "verify"}
  BY DEF TypeInv, ProcessType, PCs, InPhase, Past, Pushed, Watching
<1> QED
  BY <1>1, <1>2 DEF TypeInv, TypeOK, ProcessType, DocType, LoopType, TreeType, HubType,
                    HistType

\* The pipeline starts with every variable in its type.
LEMMA TypeInit == Init => TypeInv
<1> SUFFICES ASSUME Init PROVE TypeInv
  OBVIOUS
<1>1. ProcessType
  BY Consts DEF Init, ProcessType, PCs
<1>2. DocType
  BY Chain, MarkFacts DEF Init, DocType
<1>3. LoopType
  BY Consts DEF Init, LoopType, Watching, Unknown
<1>4. TreeType
  BY VersionFacts DEF Init, TreeType, Pushed, Watching
<1>5. HubType
  BY DEF Init, HubType
<1>6. HistType
  <2>1. /\ gated \subseteq Versions /\ merged \in Seq(Versions)
        /\ reading.of = NoVersion /\ reading.says = "nothing"
    BY DEF Init, Unread
  <2>2. unhanded = FALSE /\ amnesia = FALSE /\ misreported = FALSE
    BY Zenon DEF Init
  <2> QED
    BY <2>1, <2>2 DEF HistType
<1> QED
  BY <1>1, <1>2, <1>3, <1>4, <1>5, <1>6 DEF TypeInv

\* A step leaves the process at one of its points.
LEMMA ProcessTypeStep ==
    ASSUME ProcessType, [Next]_vars
    PROVE  ProcessType'
<1>1. CASE Start
  BY <1>1, Consts DEF Start, ProcessType, PCs, InPhase, Past, Pushed, Watching
<1>2. CASE (\E p \in Agents : AgentPhase(p))
  BY <1>2 DEF AgentPhase, AtPhase, Complete, Save, ProcessType, PCs, InPhase, Past,
     Pushed, Watching
<1>3. CASE (\E p \in Conditional : SkipConditional(p))
  BY <1>3 DEF SkipConditional, AtPhase, Complete, Save, ProcessType, PCs, InPhase, Past,
     Pushed, Watching
<1>4. CASE CommitAll
  BY <1>4 DEF CommitAll, ProcessType, PCs, InPhase, Past, Pushed, Watching
<1>5. CASE Switch \/ Crash \/ PreflightStops \/ ResolveState \/ Setup \/ SetupFails
  BY <1>5 DEF Switch, Crash, PreflightStops, Return, ResolveState, Save, Setup, SetupFails,
     ProcessType, PCs, InPhase, Past, Pushed, Watching
<1>6. CASE \/ SkipDone \/ Review \/ AgentFails \/ EnterLoop("resolve", "resolve")
           \/ EnterLoop("patch", "patch") \/ TestGreen \/ TestRed \/ Resolve \/ PatchLoop
           \/ Patch
  BY <1>6 DEF SkipDone, Review, AtPhase, Complete, Save, AgentFails, Return, EnterLoop,
     TestGreen, TestRed, Resolve, PatchLoop, Patch, ProcessType, PCs, InPhase, Past, Pushed,
     Watching
<1>7. CASE \/ Finalize \/ GatesGreen \/ Push \/ OpenPr \/ CiSuccess \/ CiNone \/ CiPending
           \/ CiFailure \/ CiFix \/ FixCommitFails \/ FixPush
  BY <1>7 DEF Finalize, GatesGreen, Push, PushBranch, OpenPr, Save, CiSuccess, CiNone,
     CiPending, Return, CiFailure, CiFix, FixCommitFails, FixPush, ProcessType, PCs,
     InPhase, Past, Pushed, Watching
<1>8. CASE \/ CommandFails \/ ConfirmMerge \/ SquashMerge \/ MergeMisreported
           \/ RecordMerge \/ VerifyIssue \/ CiStep
  BY <1>8 DEF CommandFails, Fail, Return, ConfirmMerge, SquashMerge, Land,
     MergeMisreported, RecordMerge, Save, VerifyIssue, CiStep, ProcessType, PCs, InPhase,
     Past, Pushed, Watching
<1>9. CASE UNCHANGED vars
  BY <1>9 DEF vars, ProcessType, PCs, InPhase, Past, Pushed, Watching
<1> QED
  BY <1>1, <1>2, <1>3, <1>4, <1>5, <1>6, <1>7, <1>8, <1>9 DEF Next, RunStep, PhaseStep,
     FinalStep, Agents

\* GitHub stays in its type.
LEMMA HubTypeStep ==
    ASSUME HubType, [Next]_vars
    PROVE  HubType'
<1>1. CASE Push
  BY <1>1 DEF Push, PushBranch, HubType
<1>2. CASE OpenPr
  BY <1>2 DEF OpenPr, Save, HubType
<1>3. CASE FixPush
  BY <1>3 DEF FixPush, PushBranch, HubType
<1>4. CASE SquashMerge
  BY <1>4 DEF SquashMerge, Land, HubType
<1>5. CASE MergeMisreported
  BY <1>5 DEF MergeMisreported, Land, Return, HubType
<1>6. CASE CiStep
  BY <1>6 DEF CiStep, HubType
<1>7. CASE \/ Start \/ Switch \/ Crash \/ PreflightStops \/ ResolveState \/ Setup \/ SetupFails
           \/ SkipDone \/ Review \/ AgentFails \/ (\E p \in Agents : AgentPhase(p))
           \/ (\E p \in Conditional : SkipConditional(p))
           \/ EnterLoop("resolve", "resolve") \/ EnterLoop("patch", "patch") \/ TestGreen
           \/ TestRed \/ Resolve \/ PatchLoop \/ Patch \/ Finalize \/ GatesGreen
           \/ CommitAll \/ CiSuccess \/ CiNone \/ CiPending \/ CiFailure \/ CiFix
           \/ FixCommitFails \/ CommandFails \/ ConfirmMerge \/ RecordMerge \/ VerifyIssue
  BY <1>7 DEF Start, Switch, Crash, PreflightStops, Return, ResolveState, Save, Setup,
     SetupFails, SkipDone, Review, AtPhase, Complete, AgentFails, AgentPhase,
     SkipConditional, EnterLoop, TestGreen, TestRed, Resolve, PatchLoop, Patch, Finalize,
     GatesGreen, CommitAll, CiSuccess, CiNone, CiPending, CiFailure, CiFix, FixCommitFails,
     CommandFails, Fail, ConfirmMerge, RecordMerge, VerifyIssue, HubType
<1>8. CASE UNCHANGED vars
  BY <1>8 DEF vars, HubType
<1> QED
  BY <1>1, <1>2, <1>3, <1>4, <1>5, <1>6, <1>7, <1>8 DEF Next, RunStep, PhaseStep,
     FinalStep, Agents

\* The history variables stay in their type.
LEMMA HistTypeStep ==
    ASSUME TreeType, HubType, HistType, [Next]_vars
    PROVE  HistType'
<1>1. CASE ResolveState
  BY <1>1 DEF ResolveState, Save, Return, HistType
<1>2. CASE Review
  BY <1>2 DEF Review, AtPhase, Complete, Save, HistType
<1>3. CASE Patch
  BY <1>3 DEF Patch, Complete, Save, HistType
<1>4. CASE GatesGreen
  BY <1>4 DEF GatesGreen, HistType, TreeType
<1>5. CASE CiSuccess
  BY <1>5 DEF CiSuccess, ReadChecks, HistType, HubType, TreeType, Pushed, Watching
<1>10. CASE OpenPr
  BY <1>10 DEF OpenPr, Save, Unread, HistType
<1>11. CASE CiNone
  BY <1>11 DEF CiNone, ReadChecks, HistType, HubType, TreeType, Pushed, Watching
<1>12. CASE CiPending
  BY <1>12 DEF CiPending, ReadChecks, Return, HistType, HubType, TreeType, Pushed, Watching
<1>13. CASE CiFailure
  BY <1>13 DEF CiFailure, ReadChecks, Return, HistType, HubType, TreeType, Pushed, Watching
<1>6. CASE SquashMerge
  BY <1>6 DEF SquashMerge, Land, HistType, TreeType, Pushed
<1>7. CASE MergeMisreported
  BY <1>7 DEF MergeMisreported, Land, Return, HistType, TreeType, Pushed
<1>8. CASE \/ Start \/ Switch \/ Crash \/ PreflightStops \/ Setup \/ SetupFails \/ SkipDone
           \/ AgentFails \/ (\E p \in Agents : AgentPhase(p))
           \/ (\E p \in Conditional : SkipConditional(p))
           \/ EnterLoop("resolve", "resolve") \/ EnterLoop("patch", "patch") \/ TestGreen
           \/ TestRed \/ Resolve \/ PatchLoop \/ Finalize \/ CommitAll \/ Push \/ CiFix
           \/ FixCommitFails \/ FixPush \/ CommandFails \/ ConfirmMerge \/ RecordMerge
           \/ VerifyIssue \/ CiStep
  BY <1>8 DEF Start, Switch, Crash, PreflightStops, Return, Setup, Save, SetupFails, SkipDone,
     AgentFails, AgentPhase, AtPhase, Complete, SkipConditional, EnterLoop, TestGreen,
     TestRed, Resolve, PatchLoop, Finalize, CommitAll, Push, PushBranch, CiFix,
     FixCommitFails, FixPush, CommandFails, Fail, ConfirmMerge, RecordMerge, VerifyIssue,
     CiStep, HistType
<1>9. CASE UNCHANGED vars
  BY <1>9 DEF vars, HistType
<1> QED
  BY <1>1, <1>2, <1>3, <1>4, <1>5, <1>6, <1>7, <1>8, <1>9, <1>10, <1>11, <1>12, <1>13 DEF
     Next, RunStep, PhaseStep, FinalStep, Agents

\* The run documents stay in their type, and the loops at their phase of the chain.
LEMMA DocTypeStep ==
    ASSUME DocType, [Next]_vars
    PROVE  DocType'
<1>1. CASE Start
  BY <1>1, Chain, MarkFacts DEF Start, DocType
<1>2. CASE Crash
  BY <1>2 DEF Crash, DocType
<1>3. CASE ResolveState
  BY <1>3, MarkFacts DEF ResolveState, Save, Return, DocType
<1>4. CASE Setup
  BY <1>4, Marked DEF Setup, DocType
<1>5. CASE SkipDone
  BY <1>5, Chain DEF SkipDone, DocType
<1>6. CASE Review
  <2>1. PICK n \in 0..MaxBlockers : Complete("review", [mem EXCEPT !.findings = n])
    BY <1>6 DEF Review
  <2>2. [mem EXCEPT !.findings = n] \in Docs
    BY FindDoc DEF DocType
  <2> QED
    BY <1>6, <2>1, <2>2, Completed DEF Review, AtPhase, DocType
<1>7. CASE \/ \E p \in Agents : AgentPhase(p)
           \/ \E p \in Conditional : SkipConditional(p)
           \/ TestGreen
  BY <1>7, Completed DEF AgentPhase, SkipConditional, TestGreen, AtPhase, DocType
<1>8. CASE TestRed \/ Resolve
  BY <1>8, Completed DEF TestRed, Resolve, DocType
<1>9. CASE PatchLoop \/ Patch
  BY <1>9, Completed DEF PatchLoop, Patch, DocType
<1>10. CASE OpenPr
  BY <1>10 DEF OpenPr, Save, DocType
<1>11. CASE RecordMerge
  BY <1>11, Marked DEF RecordMerge, DocType
<1>12. CASE EnterLoop("resolve", "resolve") \/ EnterLoop("patch", "patch")
  BY <1>12 DEF EnterLoop, AtPhase, DocType
<1>13. CASE \/ Switch \/ PreflightStops \/ SetupFails \/ AgentFails \/ Finalize \/ GatesGreen
            \/ CommitAll \/ Push \/ CiSuccess \/ CiNone \/ CiPending \/ CiFailure \/ CiFix
            \/ FixCommitFails \/ FixPush \/ CommandFails \/ ConfirmMerge \/ SquashMerge
            \/ MergeMisreported \/ VerifyIssue \/ CiStep
  BY <1>13 DEF Switch, PreflightStops, Return, SetupFails, AgentFails, Finalize, GatesGreen,
     CommitAll, Push, PushBranch, CiSuccess, CiNone, CiPending, CiFailure, CiFix,
     FixCommitFails, FixPush, CommandFails, Fail, ConfirmMerge, SquashMerge, Land,
     MergeMisreported, VerifyIssue, CiStep, DocType
<1>14. CASE UNCHANGED vars
  BY <1>14 DEF vars, DocType
<1> QED
  BY <1>1, <1>2, <1>3, <1>4, <1>5, <1>6, <1>7, <1>8, <1>9, <1>10, <1>11, <1>12, <1>13,
     <1>14 DEF Next, RunStep, PhaseStep, FinalStep, Agents

\* The counters of the loops keep their bounds.
LEMMA LoopTypeStep ==
    ASSUME DocType, LoopType, [Next]_vars
    PROVE  LoopType'
<1>1. CASE Start
  BY <1>1, Consts DEF Start, LoopType, Watching, Unknown
<1>2. CASE Review
  BY <1>2, Consts DEF Review, AtPhase, Complete, Save, LoopType, Watching, Unknown
<1>3. CASE EnterLoop("resolve", "resolve")
  BY <1>3 DEF EnterLoop, AtPhase, LoopType, Watching
<1>4. CASE EnterLoop("patch", "patch")
  BY <1>4, Consts DEF EnterLoop, AtPhase, LoopType, Watching, PatchFindings, Unknown,
     DocType, Docs
<1>5. CASE TestRed
  BY <1>5 DEF TestRed, Complete, Save, LoopType, Watching
<1>6. CASE PatchLoop
  BY <1>6 DEF PatchLoop, Complete, Save, LoopType, Watching
<1>7. CASE Patch
  BY <1>7, Consts DEF Patch, Complete, Save, LoopType, Watching
<1>8. CASE OpenPr
  BY <1>8, Consts DEF OpenPr, Save, LoopType, Watching
<1>9. CASE CiNone
  BY <1>9, Consts DEF CiNone, LoopType, Watching
<1>10. CASE CiPending
  BY <1>10, Consts DEF CiPending, Return, LoopType, Watching
<1>11. CASE CiFailure
  BY <1>11 DEF CiFailure, Return, LoopType, Watching
<1>12. CASE FixPush
  BY <1>12, Consts DEF FixPush, PushBranch, LoopType, Watching
<1>13. CASE \/ Switch \/ Crash \/ PreflightStops \/ ResolveState \/ Setup \/ SetupFails
            \/ SkipDone
            \/ AgentFails \/ (\E p \in Agents : AgentPhase(p))
            \/ (\E p \in Conditional : SkipConditional(p)) \/ TestGreen \/ Resolve
            \/ Finalize \/ GatesGreen \/ CommitAll \/ Push \/ CiSuccess \/ CiFix
            \/ FixCommitFails \/ CommandFails \/ ConfirmMerge \/ SquashMerge
            \/ MergeMisreported \/ RecordMerge \/ VerifyIssue \/ CiStep
  BY <1>13 DEF Switch, Crash, PreflightStops, Return, ResolveState, Save, Setup, SetupFails,
     SkipDone, AgentFails, AgentPhase, AtPhase, Complete, SkipConditional, TestGreen,
     Resolve, Finalize, GatesGreen, CommitAll, Push, PushBranch, CiSuccess, CiFix,
     FixCommitFails, CommandFails, Fail, ConfirmMerge, SquashMerge, Land, MergeMisreported,
     RecordMerge, VerifyIssue, CiStep, LoopType, Watching
<1>14. CASE UNCHANGED vars
  BY <1>14 DEF vars, LoopType, Watching
<1> QED
  BY <1>1, <1>2, <1>3, <1>4, <1>5, <1>6, <1>7, <1>8, <1>9, <1>10, <1>11, <1>12, <1>13,
     <1>14 DEF Next, RunStep, PhaseStep, FinalStep, Agents

\* The trees and branches stay in their type.
LEMMA TreeTypeStep ==
    ASSUME ProcessType, TreeType, [Next]_vars
    PROVE  TreeType'
<1>1. CASE Setup
  BY <1>1 DEF Setup, Save, TreeType, Pushed, Watching
<1>2. CASE Review
  BY <1>2, EditType DEF Review, AtPhase, Complete, Save, TreeType, Pushed, Watching
<1>3. CASE AgentFails
  BY <1>3, EditType DEF AgentFails, Return, TreeType, Pushed, Watching
<1>4. CASE (\E p \in Agents : AgentPhase(p))
  BY <1>4, EditType DEF AgentPhase, AtPhase, Complete, Save, TreeType, Pushed, Watching
<1>5. CASE Resolve
  BY <1>5, EditType DEF Resolve, Complete, Save, TreeType, Pushed, Watching
<1>6. CASE Patch
  BY <1>6, EditType DEF Patch, Complete, Save, TreeType, Pushed, Watching
<1>7. CASE CommitAll
  BY <1>7 DEF CommitAll, TreeType, Pushed, Watching
<1>8. CASE Push
  BY <1>8 DEF Push, PushBranch, TreeType, Pushed, Watching
<1>9. CASE CiFix
  BY <1>9, EditType DEF CiFix, Return, TreeType, Pushed, Watching
<1>10. CASE FixPush
  BY <1>10 DEF FixPush, PushBranch, TreeType, Pushed, Watching
<1>11. CASE SquashMerge
  BY <1>11 DEF SquashMerge, Land, TreeType, Pushed, Watching
<1>12. CASE MergeMisreported
  BY <1>12 DEF MergeMisreported, Land, Return, TreeType, Pushed, Watching
<1>13. CASE RecordMerge
  BY <1>13 DEF RecordMerge, Save, TreeType, Pushed, Watching
<1>14. CASE \/ Start \/ Switch \/ Crash \/ PreflightStops \/ ResolveState \/ SetupFails
            \/ SkipDone
            \/ (\E p \in Conditional : SkipConditional(p))
            \/ EnterLoop("resolve", "resolve") \/ EnterLoop("patch", "patch") \/ TestGreen
            \/ TestRed \/ PatchLoop \/ Finalize \/ GatesGreen \/ OpenPr \/ CiSuccess
            \/ CiNone \/ CiPending \/ CiFailure \/ FixCommitFails \/ CommandFails
            \/ ConfirmMerge \/ VerifyIssue \/ CiStep
  BY <1>14 DEF Start, Switch, Crash, PreflightStops, Return, ResolveState, Save, SetupFails,
     SkipDone, SkipConditional, AtPhase, Complete, EnterLoop, TestGreen, TestRed, PatchLoop,
     Finalize, GatesGreen, OpenPr, CiSuccess, CiNone, CiPending, CiFailure, FixCommitFails,
     CommandFails, Fail, ConfirmMerge, VerifyIssue, CiStep, TreeType, Pushed, Watching
<1>15. CASE UNCHANGED vars
  BY <1>15 DEF vars, TreeType, Pushed, Watching
<1> QED
  BY <1>1, <1>2, <1>3, <1>4, <1>5, <1>6, <1>7, <1>8, <1>9, <1>10, <1>11, <1>12, <1>13,
     <1>14, <1>15 DEF Next, RunStep, PhaseStep, FinalStep, Agents

\* One lemma per group: a step keeps every variable in its type.
LEMMA TypeStep == TypeInv /\ [Next]_vars => TypeInv'
BY ProcessTypeStep, DocTypeStep, LoopTypeStep, TreeTypeStep, HubTypeStep, HistTypeStep
   DEF TypeInv

\* The pipeline's types hold in every reachable state, together with the bounds of the CI
\* loop's counters and the place of the loops in the chain.
THEOREM TypeInvHolds == Spec => []TypeInv
BY TypeInit, TypeStep, PTL DEF Spec

\* Type correctness.
THEOREM OrchestratorTypeCorrect == Spec => []TypeOK
BY TypeInvHolds, TypeInvIsTypeOK, PTL

-----------------------------------------------------------------------------
(* The exit code *)

\* No step reports success while the issue is open.
LEMMA HonestExitStep ==
    ASSUME HonestExit, [Next]_vars
    PROVE  HonestExit'
<1>1. CASE Start
  BY <1>1 DEF Start, HonestExit
<1>2. CASE Switch \/ Crash
  BY <1>2 DEF Switch, Crash, HonestExit
<1>3. CASE PreflightStops
  BY <1>3 DEF PreflightStops, Return, HonestExit
<1>4. CASE SetupFails
  BY <1>4 DEF SetupFails, Return, HonestExit
<1>5. CASE AgentFails
  BY <1>5 DEF AgentFails, Return, HonestExit
<1>6. CASE CiPending
  BY <1>6 DEF CiPending, Return, HonestExit
<1>7. CASE CiFailure
  BY <1>7 DEF CiFailure, Return, HonestExit
<1>8. CASE CiFix
  BY <1>8 DEF CiFix, Return, HonestExit
<1>9. CASE CommandFails
  BY <1>9 DEF CommandFails, Fail, Return, HonestExit
<1>10. CASE MergeMisreported
  BY <1>10 DEF MergeMisreported, Land, Return, HonestExit
<1>11. CASE VerifyIssue
  BY <1>11 DEF VerifyIssue, Return, HonestExit
<1>12. CASE \/ ResolveState \/ Setup \/ SkipDone \/ Review
            \/ (\E p \in Agents : AgentPhase(p))
            \/ (\E p \in Conditional : SkipConditional(p))
            \/ EnterLoop("resolve", "resolve") \/ EnterLoop("patch", "patch") \/ TestGreen
            \/ TestRed \/ Resolve \/ PatchLoop \/ Patch \/ Finalize \/ GatesGreen
            \/ CommitAll \/ Push \/ OpenPr \/ CiSuccess \/ CiNone \/ FixCommitFails
            \/ FixPush \/ ConfirmMerge \/ SquashMerge \/ RecordMerge \/ CiStep
  BY <1>12 DEF ResolveState, Save, Return, Setup, SkipDone, Review, AtPhase, Complete,
     AgentPhase, SkipConditional, EnterLoop, TestGreen, TestRed, Resolve, PatchLoop, Patch,
     Finalize, GatesGreen, CommitAll, Push, PushBranch, OpenPr, CiSuccess, CiNone,
     FixCommitFails, FixPush, ConfirmMerge, SquashMerge, Land, RecordMerge, CiStep,
     HonestExit
<1>13. CASE UNCHANGED vars
  BY <1>13 DEF vars, HonestExit
<1> QED
  BY <1>1, <1>2, <1>3, <1>4, <1>5, <1>6, <1>7, <1>8, <1>9, <1>10, <1>11, <1>12, <1>13 DEF
     Next, RunStep, PhaseStep, FinalStep, Agents

\* With verification on, a run that exits 0 leaves the issue closed, on every path of the
\* pipeline: the preflight skip, the merge just done and the one recorded earlier.
THEOREM ExitIsHonest == Spec => []HonestExit
<1>1. Init => HonestExit
  BY DEF Init, HonestExit
<1>2. HonestExit /\ [Next]_vars => HonestExit'
  BY HonestExitStep
<1> QED
  BY <1>1, <1>2, PTL DEF Spec

-----------------------------------------------------------------------------
(* What the run document records *)

\* What a run document records was done, and the one on disk is not ahead.
Own == {"setup", "merge", "nodoc"}
DocInv ==
    /\ mem.done \subseteq performed \cup Own
    /\ disk.done \subseteq performed \cup Own
    /\ pc \notin {"off", "preflight"} => disk.done \subseteq mem.done \cup {"nodoc"}

\* Where the process is in the chain: the phases before its position are recorded.
PosInv ==
    /\ pc \in {"preflight", "setup"} => idx = 1
    /\ pc \in Past => idx = Len(Phases) + 1
    /\ pc # "off" => \A i \in 1..(idx - 1) : Phases[i] \in mem.done

\* A completed phase is recorded in memory and, unless the write is lost, on disk.
LEMMA CompletedDoc ==
    ASSUME DocType, DocInv, PosInv, NEW phase, NEW doc \in Docs, idx <= Len(Phases),
           Phases[idx] = phase, Complete(phase, doc), doc.done = mem.done, pc \in InPhase
    PROVE  DocInv' /\ PosInv'
<1>1. /\ mem'.done = mem.done \cup {phase} /\ disk' \in {mem', disk}
      /\ performed' = performed \cup {phase} /\ idx' = idx + 1 /\ pc' = "phases"
  BY Completed
<1>2. DocInv'
  BY <1>1 DEF DocInv, InPhase
<1>3. \A i \in 1..idx : Phases[i] \in mem.done \cup {phase}
  <2>1. \A i \in 1..(idx - 1) : Phases[i] \in mem.done
    BY DEF PosInv, InPhase
  <2>2. idx \in Nat
    BY Chain DEF DocType
  <2> QED
    BY <2>1, <2>2
<1>4. idx' - 1 = idx
  BY <1>1, Chain DEF DocType
<1> QED
  BY <1>1, <1>2, <1>3, <1>4 DEF PosInv, Past, Pushed, Watching

\* Every step keeps the run document true to what was done.
LEMMA DocPosStep ==
    ASSUME TypeInv, DocInv, PosInv, [Next]_vars
    PROVE  DocInv' /\ PosInv'
<1> USE DEF TypeInv
<1>1. CASE Start
  BY <1>1, Chain DEF Start, DocInv, PosInv, Fresh, Past, Pushed, Watching
<1>2. CASE Crash
  BY <1>2 DEF Crash, DocInv, PosInv, NoDoc, Own, Past, Pushed, Watching
<1>3. CASE ResolveState
  <2>1. mem'.done \subseteq performed \cup Own /\ disk'.done \subseteq performed \cup Own
    BY <1>3 DEF ResolveState, Save, DocInv, Fresh, NoDoc, Own
  <2>2. disk'.done \subseteq mem'.done \cup {"nodoc"}
    BY <1>3 DEF ResolveState, Save, Fresh, NoDoc
  <2>3. pc' \in {"off", "setup", "phases"} /\ idx' = 1 /\ performed' = performed
    BY <1>3 DEF ResolveState, Return, PosInv
  <2> QED
    BY <2>1, <2>2, <2>3 DEF DocInv, PosInv, Past, Pushed, Watching
<1>4. CASE Setup
  <2>1. /\ mem'.done = mem.done \cup {"setup"} /\ disk' \in {mem', disk}
        /\ idx' = 1 /\ pc' = "phases" /\ performed' = performed
    BY <1>4, Marked DEF Setup, PosInv
  <2> QED
    BY <1>4, <2>1 DEF Setup, DocInv, PosInv, Own, Past, Pushed, Watching
<1>5. CASE SkipDone
  <2>1. \A i \in 1..idx : Phases[i] \in mem.done
    <3>1. \A i \in 1..(idx - 1) : Phases[i] \in mem.done
      BY <1>5 DEF SkipDone, PosInv
    <3>2. idx \in Nat /\ Phases[idx] \in mem.done
      BY <1>5, Chain DEF SkipDone, IsDone, DocType
    <3> QED
      BY <3>1, <3>2
  <2>2. idx' - 1 = idx
    BY <1>5, Chain DEF SkipDone, DocType
  <2> QED
    BY <1>5, <2>1, <2>2 DEF SkipDone, DocInv, PosInv, Past, Pushed, Watching
<1>6. CASE Review
  <2>1. PICK n \in 0..MaxBlockers : Complete("review", [mem EXCEPT !.findings = n])
    BY <1>6 DEF Review
  <2>2. [mem EXCEPT !.findings = n] \in Docs /\ [mem EXCEPT !.findings = n].done = mem.done
    BY FindDoc DEF DocType
  <2> QED
    BY <1>6, <2>1, <2>2, CompletedDoc DEF Review, AtPhase, InPhase
<1>7. CASE \/ \E p \in Agents : AgentPhase(p)
           \/ \E p \in Conditional : SkipConditional(p)
  BY <1>7, CompletedDoc DEF AgentPhase, SkipConditional, AtPhase, DocType, InPhase
<1>8. CASE TestGreen \/ TestRed \/ Resolve \/ PatchLoop \/ Patch
  <2>1. pc \in InPhase /\ mem \in Docs /\ idx <= Len(Phases)
    BY <1>8 DEF TestGreen, TestRed, Resolve, PatchLoop, Patch, InPhase, DocType
  <2>2. CASE Complete("resolve", mem) /\ pc \in {"resolve", "resolving"}
    BY <2>1, <2>2, CompletedDoc DEF DocType
  <2>3. CASE Complete("patch", mem) /\ pc \in {"patch", "patching"}
    BY <2>1, <2>3, CompletedDoc DEF DocType
  <2>4. CASE UNCHANGED <<stateVars, idx, performed>> /\ pc' \in InPhase
    BY <2>1, <2>4 DEF DocInv, PosInv, InPhase, Past, Pushed, Watching
  <2> QED
    BY <1>8, <2>2, <2>3, <2>4 DEF TestGreen, TestRed, Resolve, PatchLoop, Patch, InPhase
<1>9. CASE EnterLoop("resolve", "resolve") \/ EnterLoop("patch", "patch")
  BY <1>9 DEF EnterLoop, AtPhase, DocInv, PosInv, Past, Pushed, Watching
<1>10. CASE OpenPr
  BY <1>10 DEF OpenPr, Save, DocInv, PosInv, Past, Pushed, Watching
<1>11. CASE RecordMerge
  <2>1. /\ mem'.done = mem.done \cup {"merge"} /\ disk' \in {mem', disk}
        /\ pc = "record" /\ pc' = "verify" /\ performed' = performed /\ idx' = idx
    BY <1>11, Marked DEF RecordMerge
  <2> QED
    BY <2>1 DEF DocInv, PosInv, Own, Past
<1>12. CASE Finalize
  BY <1>12, Chain DEF Finalize, DocType, DocInv, PosInv, Past, Pushed, Watching
<1>13. CASE \/ Switch \/ PreflightStops \/ SetupFails \/ AgentFails \/ GatesGreen \/ CommitAll
            \/ Push \/ CiSuccess \/ CiNone \/ CiPending \/ CiFailure \/ CiFix
            \/ FixCommitFails \/ FixPush \/ CommandFails \/ ConfirmMerge \/ SquashMerge
            \/ MergeMisreported \/ VerifyIssue \/ CiStep
  BY <1>13 DEF Switch, PreflightStops, Return, SetupFails, AgentFails, GatesGreen, CommitAll,
     Push, PushBranch, CiSuccess, CiNone, CiPending, CiFailure, CiFix, FixCommitFails,
     FixPush, CommandFails, Fail, ConfirmMerge, SquashMerge, Land, MergeMisreported,
     VerifyIssue, CiStep, DocInv, PosInv, Past, Pushed, Watching
<1>14. CASE UNCHANGED vars
  BY <1>14 DEF vars, DocInv, PosInv
<1> QED
  BY <1>1, <1>2, <1>3, <1>4, <1>5, <1>6, <1>7, <1>8, <1>9, <1>10, <1>11, <1>12, <1>13,
     <1>14 DEF Next, RunStep, PhaseStep, FinalStep, Agents

\* In every reachable state the run document tells what was done.
THEOREM DocumentTrue == Spec => [](DocInv /\ PosInv)
<1>1. Init => DocInv /\ PosInv
  BY DEF Init, DocInv, PosInv, Fresh, NoDoc, Own, Past, Pushed, Watching
<1>2. TypeInv /\ (DocInv /\ PosInv) /\ [Next]_vars => (DocInv /\ PosInv)'
  BY DocPosStep
<1> QED
  BY <1>1, <1>2, TypeInvHolds, PTL DEF Spec

\* Only a merge adds to what is merged.
LEMMA MergesOnly ==
    ASSUME [Next]_vars, merged' # merged
    PROVE  /\ pc = "merge" /\ Land
           /\ UNCHANGED <<performed, unhanded, gated>>
<1>1. CASE SquashMerge \/ MergeMisreported
  BY <1>1 DEF SquashMerge, MergeMisreported
<1>2. CASE \/ Start \/ Switch \/ Crash \/ PreflightStops \/ ResolveState \/ Setup \/ SetupFails
           \/ SkipDone \/ Review \/ AgentFails \/ (\E p \in Agents : AgentPhase(p))
           \/ (\E p \in Conditional : SkipConditional(p))
           \/ EnterLoop("resolve", "resolve") \/ EnterLoop("patch", "patch") \/ TestGreen
           \/ TestRed \/ Resolve \/ PatchLoop \/ Patch \/ Finalize \/ GatesGreen
           \/ CommitAll \/ Push \/ OpenPr \/ CiSuccess \/ CiNone \/ CiPending \/ CiFailure
           \/ CiFix \/ FixCommitFails \/ FixPush \/ CommandFails \/ ConfirmMerge
           \/ RecordMerge \/ VerifyIssue \/ CiStep
  BY <1>2 DEF Start, Switch, Crash, PreflightStops, ResolveState, Setup, SetupFails, SkipDone,
     Review, AgentFails, AgentPhase, SkipConditional, EnterLoop, TestGreen, TestRed,
     Resolve, PatchLoop, Patch, Finalize, GatesGreen, CommitAll, Push, OpenPr, CiSuccess,
     CiNone, CiPending, CiFailure, CiFix, FixCommitFails, FixPush, CommandFails,
     ConfirmMerge, RecordMerge, VerifyIssue, CiStep, Fail
<1>3. CASE UNCHANGED vars
  BY <1>3 DEF vars
<1> QED
  BY <1>1, <1>2, <1>3 DEF Next, RunStep, PhaseStep, FinalStep, Agents

\* No step forgets a phase that was performed.
LEMMA PerformedGrows ==
    ASSUME [Next]_vars
    PROVE  performed \subseteq performed'
<1>1. CASE \/ Review \/ (\E p \in Agents : AgentPhase(p))
           \/ (\E p \in Conditional : SkipConditional(p)) \/ TestGreen \/ TestRed
           \/ Resolve \/ PatchLoop \/ Patch
  BY <1>1 DEF Review, AgentPhase, SkipConditional, TestGreen, TestRed, Resolve,
     PatchLoop, Patch, Complete
<1>2. CASE \/ Start \/ Switch \/ Crash \/ PreflightStops \/ ResolveState \/ Setup \/ SetupFails
           \/ SkipDone \/ AgentFails \/ EnterLoop("resolve", "resolve")
           \/ EnterLoop("patch", "patch") \/ Finalize \/ GatesGreen \/ CommitAll \/ Push
           \/ OpenPr \/ CiSuccess \/ CiNone \/ CiPending \/ CiFailure \/ CiFix
           \/ FixCommitFails \/ FixPush \/ CommandFails \/ ConfirmMerge \/ SquashMerge
           \/ MergeMisreported \/ RecordMerge \/ VerifyIssue \/ CiStep
  BY <1>2 DEF Start, Switch, Crash, PreflightStops, ResolveState, Setup, SetupFails, SkipDone,
     AgentFails, EnterLoop, Finalize, GatesGreen, CommitAll, Push, OpenPr, CiSuccess,
     CiNone, CiPending, CiFailure, CiFix, FixCommitFails, FixPush, CommandFails,
     ConfirmMerge, SquashMerge, MergeMisreported, RecordMerge, VerifyIssue, CiStep, Fail
<1>3. CASE UNCHANGED vars
  BY <1>3 DEF vars
<1> QED
  BY <1>1, <1>2, <1>3 DEF Next, RunStep, PhaseStep, FinalStep, Agents

\* What is merged went through every phase of the chain, whatever was interrupted and
\* resumed and whichever writes of state.json were lost.
THEOREM EveryPhasePerformed == Spec => []NothingSkipped
<1>1. Init => NothingSkipped
  BY DEF Init, NothingSkipped
<1>2. TypeInv /\ (DocInv /\ PosInv) /\ NothingSkipped /\ [Next]_vars => NothingSkipped'
  <2> SUFFICES ASSUME TypeInv, DocInv, PosInv, NothingSkipped, [Next]_vars
               PROVE  NothingSkipped'
    OBVIOUS
  <2>1. CASE merged' = merged
    BY <2>1, PerformedGrows DEF NothingSkipped
  <2>2. CASE merged' # merged
    <3>1. pc = "merge" /\ performed' = performed
      BY <2>2, MergesOnly
    <3>2. idx = Len(Phases) + 1 /\ \A i \in 1..(idx - 1) : Phases[i] \in mem.done
      BY <3>1 DEF PosInv, Past, Pushed
    <3>3. \A i \in 1..Len(Phases) : Phases[i] \in mem.done
      BY <3>2, Chain
    <3>4. \A i \in DOMAIN Phases : Phases[i] \in performed
      BY <3>3, Chain DEF DocInv, Own
    <3> QED
      BY <3>1, <3>4 DEF NothingSkipped
  <2> QED
    BY <2>1, <2>2
<1> QED
  BY <1>1, <1>2, TypeInvHolds, DocumentTrue, PTL DEF Spec

-----------------------------------------------------------------------------
(* One merge *)

\* The branch exists here when it is checked out.  After a merge that was reported, it is
\* gone, and the process is not about to push or to merge.
MergeInv ==
    /\ where = "branch" => heads.branch # NoVersion
    /\ pc = "record" => heads.branch = NoVersion
    /\ merged # <<>> /\ ~amnesia /\ ~misreported =>
         /\ Len(merged) = 1
         /\ heads.branch = NoVersion
         /\ pc \notin {"setup"} \cup Pushed

\* Every step keeps the branch and the merges in line.
LEMMA MergeStep ==
    ASSUME TypeInv, MergeInv, [Next]_vars
    PROVE  MergeInv'
<1>1. CASE ResolveState
  BY <1>1 DEF ResolveState, Save, Return, TypeInv, MergeInv, Pushed, Watching
<1>2. CASE Setup
  BY <1>2, VersionFacts DEF Setup, Save, TypeInv, MergeInv, Pushed, Watching, TreeType
<1>3. CASE CommitAll
  BY <1>3, VersionFacts DEF CommitAll, TypeInv, MergeInv, Pushed, Watching, TreeType
<1>4. CASE Push
  BY <1>4 DEF Push, PushBranch, TypeInv, MergeInv, Pushed, Watching
<1>5. CASE SquashMerge
  BY <1>5 DEF SquashMerge, Land, TypeInv, MergeInv, Pushed, Watching, HistType
<1>6. CASE MergeMisreported
  BY <1>6 DEF MergeMisreported, Land, Return, TypeInv, MergeInv, Pushed, Watching
<1>7. CASE RecordMerge
  BY <1>7 DEF RecordMerge, Save, TypeInv, MergeInv, Pushed, Watching, TreeType
<1>8. CASE \/ Start \/ Switch \/ Crash \/ PreflightStops \/ SetupFails \/ SkipDone \/ Review
           \/ AgentFails \/ (\E p \in Agents : AgentPhase(p))
           \/ (\E p \in Conditional : SkipConditional(p))
           \/ EnterLoop("resolve", "resolve") \/ EnterLoop("patch", "patch") \/ TestGreen
           \/ TestRed \/ Resolve \/ PatchLoop \/ Patch \/ Finalize \/ GatesGreen \/ OpenPr
           \/ CiSuccess \/ CiNone \/ CiPending \/ CiFailure \/ CiFix \/ FixCommitFails
           \/ FixPush \/ CommandFails \/ ConfirmMerge \/ VerifyIssue \/ CiStep
  BY <1>8 DEF Start, Switch, Crash, PreflightStops, Return, SetupFails, SkipDone, Review,
     AtPhase, Complete, Save, AgentFails, AgentPhase, SkipConditional, EnterLoop, TestGreen,
     TestRed, Resolve, PatchLoop, Patch, Finalize, GatesGreen, OpenPr, CiSuccess, CiNone,
     CiPending, CiFailure, CiFix, FixCommitFails, FixPush, PushBranch, CommandFails, Fail,
     ConfirmMerge, VerifyIssue, CiStep, TypeInv, MergeInv, Pushed, Watching
<1>9. CASE UNCHANGED vars
  BY <1>9 DEF vars, TypeInv, MergeInv, Pushed, Watching
<1> QED
  BY <1>1, <1>2, <1>3, <1>4, <1>5, <1>6, <1>7, <1>8, <1>9 DEF Next, RunStep, PhaseStep,
     FinalStep, Agents

\* Through any number of runs, crashes and resumes an issue is merged once; a second merge
\* needs a run that restarts without its state, or a gh that merges and reports failure.
THEOREM IssueMergedOnce == Spec => []MergedOnce
<1>1. Init => MergeInv
  BY DEF Init, MergeInv
<1>2. TypeInv /\ MergeInv /\ [Next]_vars => MergeInv'
  BY MergeStep
<1>3. MergeInv => MergedOnce
  <2>1. merged = <<>> => Len(merged) = 0
    OBVIOUS
  <2> SUFFICES ASSUME MergeInv, Len(merged) > 1, ~amnesia, ~misreported PROVE FALSE
    BY Zenon DEF MergedOnce
  <2>2. merged # <<>>
    BY <2>1
  <2>3. Len(merged) = 1
    BY <2>2, Zenon DEF MergeInv
  <2> QED
    BY <2>3
<1> QED
  BY <1>1, <1>2, <1>3, TypeInvHolds, PTL DEF Spec

-----------------------------------------------------------------------------
(* Merge only on green *)

\* What the last reading of the checks, or the gates, say of the head at origin.
Cleared ==
    \/ reading = [of |-> remote, says |-> "success"]
    \/ reading = [of |-> remote, says |-> "none"] /\ nonePolls > SettlePolls
    \/ reading = Unread /\ remote \in gated

\* The branch and the head at origin differ in the CI loop only, where the checks of the
\* old head have failed; without an open pull request the branch holds gated work, or none.
GreenInv ==
    /\ pc = "commit" => tree \in gated
    /\ pc \in Watching \cup {"confirm", "merge"} => pr = "open"
    /\ pc \in {"pr", "confirm", "merge"} => remote = heads.branch
    /\ pc = "ci" => remote = heads.branch \/ ci = "failure"
    /\ pc \in {"fixing", "fixed", "fixpush"} => ci = "failure"
    /\ pr # "open" => heads.branch \in gated \cup {NoVersion, trunk}
    /\ pc \in {"confirm", "merge"} => Cleared

\* Every step keeps what is about to be merged cleared.
LEMMA GreenStep ==
    ASSUME TypeInv, GreenInv, [Next]_vars
    PROVE  GreenInv'
<1>1. CASE GatesGreen
  BY <1>1 DEF GatesGreen, GreenInv, Cleared, Watching
<1>2. CASE CommitAll
  BY <1>2 DEF CommitAll, TypeInv, GreenInv, Cleared, Watching, TreeType
<1>3. CASE Push
  BY <1>3 DEF Push, PushBranch, GreenInv, Cleared, Watching
<1>4. CASE OpenPr
  BY <1>4 DEF OpenPr, Save, TypeInv, TreeType, Pushed, GreenInv, Cleared, Watching
<1>5. CASE CiSuccess
  BY <1>5 DEF CiSuccess, ReadChecks, GreenInv, Cleared, Watching
<1>6. CASE CiNone
  BY <1>6 DEF CiNone, ReadChecks, GreenInv, Cleared, Watching
<1>7. CASE CiFailure \/ CiPending
  BY <1>7 DEF CiFailure, CiPending, ReadChecks, Return, GreenInv, Cleared, Watching
<1>8. CASE FixPush
  BY <1>8 DEF FixPush, PushBranch, GreenInv, Cleared, Watching
<1>9. CASE SquashMerge
  BY <1>9 DEF SquashMerge, Land, GreenInv, Cleared, Watching
<1>10. CASE MergeMisreported
  BY <1>10 DEF MergeMisreported, Land, Return, GreenInv, Cleared, Watching
<1>11. CASE CiStep
  BY <1>11 DEF CiStep, GreenInv, Cleared, Watching
<1>12. CASE Start \/ Switch \/ Crash \/ PreflightStops \/ ResolveState \/ SetupFails
  BY <1>12 DEF Start, Switch, Crash, PreflightStops, Return, ResolveState, Save,
     SetupFails, GreenInv, Cleared, Watching
<1>13. CASE Setup
  BY <1>13 DEF Setup, Save, TypeInv, TreeType, GreenInv, Cleared, Watching
<1>14. CASE RecordMerge
  BY <1>14 DEF RecordMerge, Save, TypeInv, TreeType, GreenInv, Cleared, Watching
<1>15. CASE SkipDone \/ AgentFails \/ Review
  BY <1>15 DEF SkipDone, AgentFails, Return, Review, AtPhase, Complete, Save, GreenInv,
     Cleared, Watching
<1>16. CASE EnterLoop("resolve", "resolve") \/ EnterLoop("patch", "patch")
  BY <1>16 DEF EnterLoop, AtPhase, GreenInv, Cleared, Watching
<1>17. CASE (\E p \in Agents : AgentPhase(p)) \/ (\E p \in Conditional : SkipConditional(p))
  BY <1>17 DEF AgentPhase, AtPhase, Complete, Save, SkipConditional, GreenInv, Cleared,
     Watching
<1>18. CASE TestGreen \/ TestRed \/ Resolve \/ PatchLoop \/ Patch
  BY <1>18 DEF TestGreen, Complete, Save, TestRed, Resolve, PatchLoop, Patch, GreenInv,
     Cleared, Watching
<1>19. CASE \/ Finalize \/ CiFix \/ FixCommitFails \/ CommandFails \/ ConfirmMerge
            \/ VerifyIssue
  BY <1>19 DEF Finalize, CiFix, Return, FixCommitFails, CommandFails, Fail, ConfirmMerge,
     VerifyIssue, GreenInv, Cleared, Watching
<1>20. CASE UNCHANGED vars
  BY <1>20 DEF vars, GreenInv, Cleared, Watching
<1> QED
  BY <1>1, <1>2, <1>3, <1>4, <1>5, <1>6, <1>7, <1>8, <1>9, <1>10, <1>11, <1>12, <1>13,
     <1>14, <1>15, <1>16, <1>17, <1>18, <1>19, <1>20 DEF Next, RunStep, PhaseStep,
     FinalStep, Agents

\* "Merge only on green": what a run merges is the head whose checks it last read, and they
\* had passed, or there were none and the settle polls were used up; a head whose checks it
\* did not read passed the local gates.  CI may register its checks at any time, and the
\* branch need not be checked out when a run resumes.
THEOREM MergedIsGreen == Spec => MergeOnlyOnGreen
<1>1. Init => GreenInv
  BY DEF Init, GreenInv, Watching
<1>2. TypeInv /\ GreenInv /\ [Next]_vars => GreenInv'
  BY GreenStep
<1>3. GreenInv /\ [Next]_vars => [merged' # merged => Cleared]_vars
  <2> SUFFICES ASSUME GreenInv, [Next]_vars, merged' # merged PROVE Cleared
    BY Zenon
  <2> QED
    BY MergesOnly DEF GreenInv
<1> QED
  BY <1>1, <1>2, <1>3, TypeInvHolds, PTL DEF Spec, MergeOnlyOnGreen, Cleared

-----------------------------------------------------------------------------
(* Blockers reach a patch agent *)

InChain(phase) == \E i \in DOMAIN Phases : Phases[i] = phase

\* The chains whose reviews are patched: parsePhases takes any subset in any order, the
\* default chain is one of these.
PatchesReviews ==
    /\ MaxPatch > 0
    /\ InChain("review") => InChain("patch")
    /\ \A i, j \in DOMAIN Phases : Phases[i] = "review" /\ Phases[j] = "patch" => i < j

\* The findings of a review are with the document that records the review, until a patch
\* agent has been given them.
Kept(doc) == /\ "patch" \in doc.done /\ InChain("review") => "review" \in doc.done
             /\ unhanded => /\ "patch" \notin doc.done
                            /\ "review" \in doc.done => doc.findings > 0
BlockInv ==
    /\ Kept(mem) /\ Kept(disk)
    /\ pc # "off" /\ review # Unknown => review = mem.findings
    /\ pc \in {"preflight", "setup"} => review = Unknown
    /\ pc = "patch" /\ unhanded => attempt = 0 /\ remaining > 0
    /\ unhanded => InChain("review")

\* At the patch phase the review of the chain is recorded.
LEMMA ReviewedBefore ==
    ASSUME PatchesReviews, DocType, PosInv, pc # "off", idx <= Len(Phases),
           Phases[idx] = "patch", InChain("review")
    PROVE  "review" \in mem.done
<1>1. PICK i \in DOMAIN Phases : Phases[i] = "review"
  BY DEF InChain
<1>2. idx \in DOMAIN Phases
  BY Chain DEF DocType
<1>3. i < idx
  BY <1>1, <1>2 DEF PatchesReviews
<1>4. i \in 1..(idx - 1)
  BY <1>2, <1>3, Chain
<1> QED
  BY <1>1, <1>4 DEF PosInv

\* Completing another phase, or the patch phase with nothing left to hand over.
LEMMA CompletedKept ==
    ASSUME TypeInv, PosInv, BlockInv, NEW phase, phase # "review", idx <= Len(Phases),
           Phases[idx] = phase, Complete(phase, mem), pc \in InPhase, UNCHANGED review,
           unhanded' => unhanded,
           phase = "patch" => ~unhanded' /\ (InChain("review") => "review" \in mem.done)
    PROVE  BlockInv'
<1>1. /\ mem'.done = mem.done \cup {phase} /\ mem'.findings = mem.findings
      /\ disk' \in {mem', disk} /\ pc' = "phases"
  BY Completed DEF TypeInv, DocType
<1>2. Kept(mem)'
  BY <1>1 DEF BlockInv, Kept
<1>3. Kept(disk)'
  BY <1>1, <1>2 DEF BlockInv, Kept
<1>4. review' # Unknown => review' = mem'.findings
  BY <1>1 DEF BlockInv, InPhase
<1>5. unhanded' => InChain("review")
  BY DEF BlockInv
<1> QED
  BY <1>1, <1>2, <1>3, <1>4, <1>5 DEF BlockInv

\* Every step keeps the findings with the record of their review.
LEMMA BlockStep ==
    ASSUME PatchesReviews, TypeInv, DocInv, PosInv, BlockInv, [Next]_vars
    PROVE  BlockInv'
<1>1. CASE Start
  BY <1>1 DEF Start, BlockInv, Kept, Fresh
<1>2. CASE Crash
  BY <1>2 DEF Crash, BlockInv, Kept, NoDoc
<1>3. CASE ResolveState
  <2>1. mem' \in {Fresh, disk} /\ disk' \in {mem', disk} /\ unhanded' = unhanded
    BY <1>3 DEF ResolveState, Save
  <2>2. Kept(mem)' /\ Kept(disk)'
    BY <2>1 DEF BlockInv, Kept, Fresh
  <2>3. pc' \in {"off", "setup", "phases"} /\ review' = Unknown
    BY <1>3 DEF ResolveState, Return, BlockInv
  <2> QED
    BY <2>1, <2>2, <2>3 DEF BlockInv
<1>4. CASE Setup \/ RecordMerge
  <2>1. /\ mem'.done \in {mem.done \cup {"setup"}, mem.done \cup {"merge"}}
        /\ mem'.findings = mem.findings /\ disk' \in {mem', disk}
    BY <1>4, Marked DEF Setup, RecordMerge, TypeInv
  <2>2. /\ pc \in {"setup", "record"} /\ pc' \in {"phases", "verify"}
        /\ UNCHANGED <<review, unhanded>>
    BY <1>4 DEF Setup, RecordMerge
  <2>3. Kept(mem)'
    BY <2>1, <2>2 DEF BlockInv, Kept
  <2>4. Kept(disk)'
    BY <2>1, <2>2, <2>3 DEF BlockInv, Kept
  <2> QED
    BY <2>1, <2>2, <2>3, <2>4 DEF BlockInv
<1>5. CASE Review
  <2>1. PICK n \in 0..MaxBlockers : /\ Complete("review", [mem EXCEPT !.findings = n])
                                    /\ review' = n /\ unhanded' = (n > 0)
    BY <1>5 DEF Review
  <2>2. idx <= Len(Phases) /\ Phases[idx] = "review" /\ "review" \notin mem.done
    BY <1>5 DEF Review, AtPhase, IsDone
  <2>3. /\ [mem EXCEPT !.findings = n] \in Docs /\ [mem EXCEPT !.findings = n].done = mem.done
        /\ [mem EXCEPT !.findings = n].findings = n
    BY FindDoc DEF TypeInv, DocType
  <2>4. /\ mem'.done = mem.done \cup {"review"} /\ mem'.findings = n
        /\ disk' \in {mem', disk} /\ pc' = "phases"
    BY <2>1, <2>2, <2>3, Completed DEF TypeInv
  <2>5. InChain("review")
    BY <2>2, Chain DEF InChain, TypeInv, DocType
  <2>6. "patch" \notin mem.done
    BY <2>2, <2>5 DEF BlockInv, Kept
  <2>7. "patch" \notin disk.done /\ "review" \notin disk.done
    BY <1>5, <2>2, <2>6 DEF Review, AtPhase, DocInv
  <2>8. Kept(mem)'
    BY <2>1, <2>4, <2>6 DEF Kept
  <2>9. Kept(disk)'
    BY <2>4, <2>7, <2>8 DEF Kept
  <2> QED
    BY <2>1, <2>4, <2>5, <2>8, <2>9 DEF BlockInv
<1>6. CASE (\E p \in Agents : AgentPhase(p)) \/ (\E p \in Conditional : SkipConditional(p))
  <2>1. PICK p : p \notin {"review", "patch"} /\ (AgentPhase(p) \/ SkipConditional(p))
    BY <1>6 DEF Agents, Conditional
  <2> QED
    BY <2>1, CompletedKept DEF AgentPhase, SkipConditional, AtPhase, InPhase
<1>7. CASE TestGreen \/ TestRed \/ Resolve
  <2>1. /\ pc \in {"resolve", "resolving"} /\ idx <= Len(Phases) /\ Phases[idx] = "resolve"
        /\ UNCHANGED <<review, unhanded>>
    BY <1>7 DEF TestGreen, TestRed, Resolve, TypeInv, DocType
  <2>2. CASE Complete("resolve", mem)
    BY <2>1, <2>2, CompletedKept DEF InPhase
  <2>3. CASE UNCHANGED stateVars /\ pc' \in {"resolve", "resolving"}
    BY <2>1, <2>3 DEF BlockInv, Kept
  <2> QED
    BY <1>7, <2>2, <2>3 DEF TestGreen, TestRed, Resolve
<1>8. CASE EnterLoop("resolve", "resolve")
  BY <1>8 DEF EnterLoop, AtPhase, BlockInv, Kept
<1>9. CASE EnterLoop("patch", "patch")
  <2>1. /\ pc = "phases" /\ idx <= Len(Phases) /\ Phases[idx] = "patch" /\ pc' = "patch"
        /\ attempt' = 0 /\ remaining' = PatchFindings
        /\ UNCHANGED <<stateVars, review, unhanded>>
    BY <1>9 DEF EnterLoop, AtPhase
  <2>2. PatchFindings = mem.findings
    BY <2>1 DEF PatchFindings, BlockInv
  <2>3. unhanded => mem.findings > 0
    <3> SUFFICES ASSUME unhanded PROVE mem.findings > 0
      OBVIOUS
    <3>1. "review" \in mem.done
      BY <2>1, ReviewedBefore DEF BlockInv, TypeInv
    <3> QED
      BY <3>1 DEF BlockInv, Kept
  <2> QED
    BY <2>1, <2>2, <2>3 DEF BlockInv, Kept
<1>10. CASE PatchLoop \/ Patch
  <2>1. /\ pc \in {"patch", "patching"} /\ idx <= Len(Phases) /\ Phases[idx] = "patch"
        /\ UNCHANGED review
    BY <1>10 DEF PatchLoop, Patch, TypeInv, DocType
  <2>2. InChain("review") => "review" \in mem.done
    BY <2>1, ReviewedBefore DEF TypeInv
  <2>3. unhanded' => unhanded
    BY <1>10 DEF PatchLoop, Patch
  <2>4. ASSUME Complete("patch", mem) PROVE BlockInv'
    <3>1. CASE Patch
      BY <2>1, <2>2, <2>3, <2>4, <3>1, CompletedKept DEF Patch, InPhase
    <3>2. CASE PatchLoop
      <4>1. ~(remaining > 0 /\ attempt < MaxPatch)
        BY <2>4, <3>2 DEF PatchLoop, Complete
      <4>2. ~unhanded
        BY <3>2, <4>1 DEF PatchLoop, BlockInv, PatchesReviews
      <4> QED
        BY <2>1, <2>2, <2>3, <2>4, <4>2, CompletedKept DEF InPhase
    <3> QED
      BY <1>10, <3>1, <3>2
  <2>5. CASE PatchLoop /\ UNCHANGED stateVars /\ pc' = "patching"
    BY <2>1, <2>5 DEF PatchLoop, BlockInv, Kept
  <2>6. CASE Patch /\ UNCHANGED stateVars /\ pc' = "patch"
    BY <2>1, <2>6 DEF Patch, BlockInv, Kept
  <2> QED
    BY <1>10, <2>4, <2>5, <2>6 DEF PatchLoop, Patch
<1>11. CASE OpenPr
  BY <1>11 DEF OpenPr, Save, BlockInv, Kept
<1>12. CASE \/ Switch \/ PreflightStops \/ SetupFails \/ SkipDone \/ AgentFails \/ Finalize
            \/ GatesGreen \/ CommitAll \/ Push \/ CiSuccess \/ CiNone \/ CiPending
            \/ CiFailure \/ CiFix \/ FixCommitFails \/ FixPush \/ CommandFails
            \/ ConfirmMerge \/ SquashMerge \/ MergeMisreported \/ VerifyIssue \/ CiStep
  BY <1>12 DEF Switch, PreflightStops, Return, SetupFails, SkipDone, AgentFails, Finalize,
     GatesGreen, CommitAll, Push, PushBranch, CiSuccess, CiNone, CiPending, CiFailure,
     CiFix, FixCommitFails, FixPush, CommandFails, Fail, ConfirmMerge, SquashMerge, Land,
     MergeMisreported, VerifyIssue, CiStep, BlockInv, Kept
<1>13. CASE UNCHANGED vars
  BY <1>13 DEF vars, BlockInv, Kept
<1> QED
  BY <1>1, <1>2, <1>3, <1>4, <1>5, <1>6, <1>7, <1>8, <1>9, <1>10, <1>11, <1>12, <1>13 DEF
     Next, RunStep, PhaseStep, FinalStep, Agents

\* Blocker findings reach a patch agent before the merge, also when the run dies between
\* the review and the patch and is resumed, whatever writes of state.json are lost.  It
\* needs a chain that patches after its last review, and at least one patch attempt.
THEOREM BlockersReachPatch ==
    ASSUME PatchesReviews
    PROVE  Spec => BlockersHanded
<1>1. Init => BlockInv
  BY DEF Init, BlockInv, Kept, Fresh, NoDoc
<1>2. TypeInv /\ (DocInv /\ PosInv) /\ BlockInv /\ [Next]_vars => BlockInv'
  BY BlockStep
<1>3. TypeInv /\ (DocInv /\ PosInv) /\ BlockInv /\ [Next]_vars
        => [merged' # merged => ~unhanded]_vars
  <2> SUFFICES ASSUME TypeInv, PosInv, BlockInv, [Next]_vars, merged' # merged, unhanded
               PROVE  FALSE
    BY Zenon
  <2>1. pc = "merge"
    BY MergesOnly
  <2>2. idx = Len(Phases) + 1 /\ \A i \in 1..(idx - 1) : Phases[i] \in mem.done
    BY <2>1 DEF PosInv, Past, Pushed
  <2>3. \A i \in DOMAIN Phases : Phases[i] \in mem.done
    BY <2>2, Chain
  <2>4. InChain("patch")
    BY DEF BlockInv, PatchesReviews
  <2>5. "patch" \in mem.done
    BY <2>3, <2>4 DEF InChain
  <2> QED
    BY <2>5 DEF BlockInv, Kept
<1> QED
  BY <1>1, <1>2, <1>3, TypeInvHolds, DocumentTrue, PTL DEF Spec, BlockersHanded
=============================================================================
