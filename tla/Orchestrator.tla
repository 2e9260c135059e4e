----------------------------- MODULE Orchestrator -----------------------------
(***************************************************************************)
(* adw_sdlc/src/orchestrator.ts with git.ts, state.ts, run-phase.ts and    *)
(* phases.ts: the pipeline that takes one issue through agent phases, the  *)
(* local gates, a pull request, CI and the squash-merge, and that can die  *)
(* at any point and be run again with --resume.                            *)
(*                                                                         *)
(* One action is one external effect (an agent phase, a gate, a git or gh  *)
(* command) with the bookkeeping up to the next one.  The contents of a    *)
(* tree are a version number; an agent that edits makes a new version.     *)
(* The issue is always run under one adw_id: first a fresh run, then       *)
(* --resume.                                                               *)
(***************************************************************************)
EXTENDS Naturals, Sequences

CONSTANTS
    Phases,                             \* parsePhases: the agent phases, in order
    MaxResolve, MaxPatch, MaxCiFix,     \* the bounds of the three loops
    CiMaxPolls,                         \* ciMaxPolls
    SettlePolls,                        \* NO_CHECKS_SETTLE_POLLS
    Verify, ForceRun, AllowDirty,       \* the options verify, force and allowDirty
    MaxBlockers,                        \* bound: blocker findings of a review
    MaxVersion,                         \* bound: edits by the agent
    MaxRuns                             \* bound: runs of the pipeline

ASSUME OrchestratorAssumption ==
    /\ Phases \in Seq({"classify", "plan", "implement", "tests", "resolve", "e2e",
                       "review", "patch", "document"})
    /\ {MaxResolve, MaxPatch, MaxCiFix, CiMaxPolls, SettlePolls} \subseteq Nat
    /\ {Verify, ForceRun, AllowDirty} \subseteq BOOLEAN
    /\ {MaxBlockers, MaxVersion, MaxRuns} \subseteq Nat

VARIABLES
    pc, exit,                   \* the next effect of the process, and how the last run ended
    mem, disk,                  \* AdwState in memory and in state.json
    idx, review,                \* the phase loop: its position and `reviewResult`
    attempt, polls, nonePolls, remaining,       \* the counters of the loops
    tree, heads, where,         \* the working tree, the local branches, the checkout
    remote, pr, ci, trunk,      \* GitHub: the branch, its PR and checks, the base branch
    checks, issue,              \* whether the repository has CI; the issue
    last, runs,                 \* the newest version; the runs so far
    gated, merged,              \* history: versions past the gates, versions merged
    reading,                    \* history: what ciFixLoop last read, and of which head
    performed, unhanded,        \* history: phases done; blockers no patch agent was given
    amnesia, misreported        \* history: a merged run restarted without its state; a
                                \* merge that gh reported as failed

stateVars == <<mem, disk>>
loopVars == <<idx, review, attempt, polls, nonePolls, remaining>>
gitVars == <<tree, heads, where, last>>
hubVars == <<remote, pr, ci, trunk, issue>>
pastVars == <<gated, merged, performed, unhanded, amnesia, misreported>>
histVars == <<reading, gated, merged, performed, unhanded, amnesia, misreported>>
vars == <<pc, exit, mem, disk, idx, review, attempt, polls, nonePolls, remaining, tree,
          heads, where, remote, pr, ci, trunk, checks, issue, last, runs, reading, gated,
          merged, performed, unhanded, amnesia, misreported>>

Conditional == {"e2e", "document"}
Unknown == MaxBlockers + 1              \* reviewResult === null
NoVersion == MaxVersion + 1             \* no such branch
Fresh == [done |-> {}, findings |-> 0]
Unread == [of |-> NoVersion, says |-> "nothing"]
NoDoc == [done |-> {"nodoc"}, findings |-> 0]   \* state.json missing or unreadable

Init ==
    /\ pc = "off" /\ exit = "none"
    /\ mem = Fresh /\ disk = NoDoc
    /\ idx = 1 /\ review = Unknown
    /\ attempt = 0 /\ polls = 0 /\ nonePolls = 0 /\ remaining = 0
    /\ tree = 0 /\ heads = [base |-> 0, branch |-> NoVersion] /\ where = "base"
    /\ remote = NoVersion /\ pr = "none" /\ ci = "none" /\ trunk = 0
    /\ checks \in BOOLEAN /\ issue = "OPEN"
    /\ last = 0 /\ runs = 0
    /\ reading = Unread /\ gated = {} /\ merged = <<>>
    /\ performed = {} /\ unhanded = FALSE
    /\ amnesia = FALSE /\ misreported = FALSE

Dirty == tree # heads[where]
IsDone(phase) == phase \in mem.done

\* save(): best effort, a write that fails is swallowed.
Save(doc) == disk' \in {doc, disk}

\* An agent's session on the working tree: it may leave it as it was.
Edit == \/ UNCHANGED <<tree, last>>
        \/ last < MaxVersion /\ last' = last + 1 /\ tree' = last + 1

\* The promise of run() settles; an AdwError is exit "error".
Return(result) == pc' = "off" /\ exit' = result

-----------------------------------------------------------------------------
(* Start, preflight and setup *)

Start ==
    /\ pc = "off" /\ runs < MaxRuns
    /\ runs' = runs + 1
    /\ pc' = "preflight" /\ exit' = "none"
    /\ mem' = Fresh
    /\ idx' = 1 /\ review' = Unknown
    /\ attempt' = 0 /\ polls' = 0 /\ nonePolls' = 0 /\ remaining' = 0
    /\ UNCHANGED <<disk, gitVars, hubVars, checks, histVars>>

\* Between two runs somebody checks out the other branch in the same clone (external);
\* uncommitted edits come along.
Switch ==
    /\ pc = "off" /\ heads.branch # NoVersion
    /\ where' \in {"base", "branch"} \ {where}
    /\ tree' = IF Dirty THEN tree ELSE heads[where']
    /\ UNCHANGED <<pc, exit, stateVars, loopVars, heads, last, hubVars, checks, runs, histVars>>

\* The process dies, also in the middle of writing state.json.
Crash ==
    /\ pc # "off"
    /\ pc' = "off" /\ exit' = "none"
    /\ disk' \in {disk, NoDoc}
    /\ UNCHANGED <<mem, loopVars, gitVars, hubVars, checks, runs, histVars>>

\* An issue that is closed is skipped, one that cannot be read fails.
PreflightStops ==
    /\ pc = "preflight" /\ (Verify \/ ~ForceRun)
    /\ \/ issue = "CLOSED" /\ ~ForceRun /\ Return("ok")
       \/ Return("error")
    /\ UNCHANGED <<stateVars, loopVars, gitVars, hubVars, checks, runs, histVars>>

\* resolveState: load or mint the state and save it; only then is a fresh run
\* refused on a dirty tree.
ResolveState ==
    /\ pc = "preflight" /\ (issue = "OPEN" \/ ForceRun)
    /\ mem' = IF disk = NoDoc THEN Fresh ELSE disk
    /\ Save(mem')
    /\ IF disk = NoDoc /\ Dirty /\ ~AllowDirty
         THEN Return("error")
         ELSE pc' = (IF "setup" \in mem'.done THEN "phases" ELSE "setup") /\ UNCHANGED exit
    /\ amnesia' = (amnesia \/ ("setup" \notin mem'.done /\ merged # <<>>))
    /\ UNCHANGED <<loopVars, gitVars, hubVars, checks, runs, reading, gated, merged,
                   performed, unhanded, misreported>>

\* createOrCheckoutBranch: `git switch` to the branch, or to a new one from the
\* base of origin; uncommitted edits stay in the tree.
Setup ==
    /\ pc = "setup"
    /\ LET tip == IF heads.branch = NoVersion THEN trunk ELSE heads.branch
       IN /\ heads' = [heads EXCEPT !.branch = tip]
          /\ tree' = IF Dirty THEN tree ELSE tip
    /\ where' = "branch"
    /\ mem' = [mem EXCEPT !.done = @ \cup {"setup"}]
    /\ Save(mem')
    /\ pc' = "phases"
    /\ UNCHANGED <<exit, loopVars, last, hubVars, checks, runs, histVars>>

SetupFails ==
    /\ pc = "setup"
    /\ Return("error")
    /\ UNCHANGED <<stateVars, loopVars, gitVars, hubVars, checks, runs, histVars>>

-----------------------------------------------------------------------------
(* The phase loop of run() *)

AtPhase(phase) == pc = "phases" /\ idx <= Len(Phases) /\ Phases[idx] = phase

\* state.markDone(phase); state.save(); on to the next phase.
Complete(phase, doc) ==
    /\ mem' = [doc EXCEPT !.done = @ \cup {phase}]
    /\ Save(mem')
    /\ idx' = idx + 1
    /\ pc' = "phases"
    /\ performed' = performed \cup {phase}

\* Already completed in an earlier run.
SkipDone ==
    /\ pc = "phases" /\ idx <= Len(Phases) /\ IsDone(Phases[idx])
    /\ idx' = idx + 1
    /\ UNCHANGED <<pc, exit, stateVars, review, attempt, polls, nonePolls, remaining,
                   gitVars, hubVars, checks, runs, histVars>>

\* gateConditional says no: the phase counts as done.
SkipConditional(phase) ==
    /\ AtPhase(phase) /\ ~IsDone(phase) /\ phase \in Conditional
    /\ Complete(phase, mem)
    /\ UNCHANGED <<exit, review, attempt, polls, nonePolls, remaining, gitVars, hubVars,
                   checks, runs, reading, gated, merged, unhanded, amnesia, misreported>>

\* Faulty variant: the phase is marked and saved, and only then run.
AgentPhaseMarkFirst(phase) ==
    /\ AtPhase(phase) /\ phase \notin {"resolve", "patch", "review"}
    /\ IF ~IsDone(phase)
         THEN /\ mem' = [mem EXCEPT !.done = @ \cup {phase}]
              /\ disk' = mem'
              /\ UNCHANGED <<idx, tree, last, performed>>
         ELSE /\ Edit
              /\ idx' = idx + 1 /\ performed' = performed \cup {phase}
              /\ UNCHANGED stateVars
    /\ UNCHANGED <<pc, exit, review, attempt, polls, nonePolls, remaining, heads, where,
                   hubVars, checks, runs, reading, gated, merged, unhanded, amnesia, misreported>>

\* classify, plan, implement, tests, e2e, document.
AgentPhase(phase) ==
    /\ AtPhase(phase) /\ ~IsDone(phase) /\ phase \notin {"resolve", "patch", "review"}
    /\ Edit
    /\ Complete(phase, mem)
    /\ UNCHANGED <<exit, review, attempt, polls, nonePolls, remaining, heads, where, hubVars,
                   checks, runs, reading, gated, merged, unhanded, amnesia, misreported>>

\* The review's findings are kept in memory and persisted with the phase.
Review ==
    /\ AtPhase("review") /\ ~IsDone("review")
    /\ Edit
    /\ \E n \in 0..MaxBlockers :
         /\ review' = n
         /\ Complete("review", [mem EXCEPT !.findings = n])
         /\ unhanded' = (n > 0)
    /\ UNCHANGED <<exit, attempt, polls, nonePolls, remaining, heads, where, hubVars,
                   checks, runs, reading, gated, merged, amnesia, misreported>>

\* runAgentPhase throws (no valid reply after the nudge, timeout, budget) in a
\* phase or in one of the loops.
AgentFails ==
    /\ \/ /\ pc = "phases" /\ idx <= Len(Phases) /\ ~IsDone(Phases[idx])
          /\ Phases[idx] \notin {"resolve", "patch"}
       \/ pc \in {"resolving", "patching", "fixing"}
    /\ Edit
    /\ Return("error")
    /\ UNCHANGED <<stateVars, loopVars, heads, where, hubVars, checks, runs, histVars>>

\* Faulty variant: a resumed run patches the findings of its own review only.
PatchFindingsOfThisRun == IF review # Unknown THEN review ELSE 0

\* The findings for the patch phase: of this run's review, or those persisted.
PatchFindings == IF review # Unknown THEN review ELSE mem.findings

EnterLoop(phase, to) ==
    /\ AtPhase(phase) /\ ~IsDone(phase)
    /\ pc' = to
    /\ attempt' = 0
    /\ remaining' = IF phase = "patch" THEN PatchFindings ELSE remaining
    /\ UNCHANGED <<exit, stateVars, idx, review, polls, nonePolls, gitVars, hubVars,
                   checks, runs, histVars>>

\* resolveLoop: the test gate.  The loop's verdict is not looked at.
TestGreen ==
    /\ pc = "resolve"
    /\ Complete("resolve", mem)
    /\ UNCHANGED <<exit, review, attempt, polls, nonePolls, remaining, gitVars, hubVars,
                   checks, runs, reading, gated, merged, unhanded, amnesia, misreported>>

TestRed ==
    /\ pc = "resolve"
    /\ IF attempt >= MaxResolve
         THEN Complete("resolve", mem) /\ UNCHANGED attempt
         ELSE pc' = "resolving" /\ attempt' = attempt + 1
              /\ UNCHANGED <<stateVars, idx, performed>>
    /\ UNCHANGED <<exit, review, polls, nonePolls, remaining, gitVars, hubVars,
                   checks, runs, reading, gated, merged, unhanded, amnesia, misreported>>

\* The resolve agent; one that resolved nothing ends the loop.
Resolve ==
    /\ pc = "resolving"
    /\ Edit
    /\ \/ pc' = "resolve" /\ UNCHANGED <<stateVars, idx, performed>>
       \/ Complete("resolve", mem)
    /\ UNCHANGED <<exit, review, attempt, polls, nonePolls, remaining, heads, where, hubVars,
                   checks, runs, reading, gated, merged, unhanded, amnesia, misreported>>

\* patchLoop: while (remaining > 0 && attempt < maxAttempts).
PatchLoop ==
    /\ pc = "patch"
    /\ IF remaining > 0 /\ attempt < MaxPatch
         THEN pc' = "patching" /\ attempt' = attempt + 1
              /\ UNCHANGED <<stateVars, idx, performed>>
         ELSE Complete("patch", mem) /\ UNCHANGED attempt
    /\ UNCHANGED <<exit, review, polls, nonePolls, remaining, gitVars, hubVars,
                   checks, runs, reading, gated, merged, unhanded, amnesia, misreported>>

\* The patch agent reports what remains; no progress ends the loop.
Patch ==
    /\ pc = "patching"
    /\ Edit
    /\ unhanded' = FALSE
    /\ \/ /\ remaining' \in 0..(remaining - 1)
          /\ pc' = "patch"
          /\ UNCHANGED <<stateVars, idx, performed>>
       \/ UNCHANGED remaining /\ Complete("patch", mem)
    /\ UNCHANGED <<exit, review, attempt, polls, nonePolls, heads, where, hubVars,
                   checks, runs, reading, gated, merged, amnesia, misreported>>

-----------------------------------------------------------------------------
(* finalizeAndMerge *)

Fail(at) ==
    /\ pc \in at
    /\ Return("error")
    /\ UNCHANGED <<stateVars, loopVars, gitVars, hubVars, checks, runs, histVars>>

\* A gate, a git or a gh command fails, or the merge is not confirmed.
CommandFails == Fail({"gates", "commit", "push", "pr", "ci", "confirm", "merge", "verify"})

\* The resume guard: a recorded merge is only verified again.
Finalize ==
    /\ pc = "phases" /\ idx > Len(Phases)
    /\ pc' = IF IsDone("merge") THEN "verify" ELSE "gates"
    /\ UNCHANGED <<exit, stateVars, loopVars, gitVars, hubVars, checks, runs, histVars>>

GatesGreen ==
    /\ pc = "gates"
    /\ gated' = gated \cup {tree}
    /\ pc' = "commit"
    /\ UNCHANGED <<exit, stateVars, loopVars, gitVars, hubVars, checks, runs, reading, merged,
                   performed, unhanded, amnesia, misreported>>

\* commitAll: a clean tree is a no-op, else it commits to what is checked out.
CommitAll ==
    /\ pc \in {"commit", "fixed"}
    /\ heads' = [heads EXCEPT ![where] = tree]
    /\ pc' = IF pc = "commit" THEN "push" ELSE "fixpush"
    /\ UNCHANGED <<exit, stateVars, loopVars, tree, where, last, hubVars, checks, runs, histVars>>

\* `git push -u origin <branch>`; a new head has no checks yet.
PushBranch ==
    /\ heads.branch # NoVersion
    /\ remote' = heads.branch
    /\ ci' = IF remote = heads.branch THEN ci ELSE "none"

Push ==
    /\ pc = "push"
    /\ PushBranch
    /\ pc' = "pr"
    /\ UNCHANGED <<exit, stateVars, loopVars, gitVars, pr, trunk, issue, checks, runs, histVars>>

\* The open PR of the branch, or a new one (gh refuses one without commits).  A
\* PR whose number cannot be read from gh's output is not watched.
OpenPr ==
    /\ pc = "pr" /\ (pr = "open" \/ remote # trunk)
    /\ pr' = "open"
    /\ Save(mem)
    /\ attempt' = 0 /\ polls' = 0 /\ nonePolls' = 0 /\ reading' = Unread
    /\ \/ pc' = "ci"
       \/ pr # "open" /\ pc' = "confirm"
    /\ UNCHANGED <<exit, mem, idx, review, remaining, gitVars, remote, ci, trunk, issue,
                   checks, runs, pastVars>>

-----------------------------------------------------------------------------
(* ciFixLoop *)

\* ciStatus: the checks of the head at origin, as far as they have registered.
ReadChecks == reading' = [of |-> remote, says |-> ci]

CiSuccess ==
    /\ pc = "ci" /\ ci = "success"
    /\ ReadChecks
    /\ pc' = "confirm"
    /\ UNCHANGED <<exit, stateVars, loopVars, gitVars, hubVars, checks, runs, pastVars>>

\* No checks: the head counts as green once the run has read that often enough.  The
\* count is not reset when a fix is pushed, whose checks may register later.
CiNone ==
    /\ pc = "ci" /\ ci = "none"
    /\ ReadChecks
    /\ nonePolls' = nonePolls + 1
    /\ pc' = IF nonePolls' > SettlePolls THEN "confirm" ELSE "ci"
    /\ UNCHANGED <<exit, stateVars, idx, review, attempt, polls, remaining, gitVars, hubVars,
                   checks, runs, pastVars>>

CiPending ==
    /\ pc = "ci" /\ ci = "pending"
    /\ ReadChecks
    /\ polls' = polls + 1
    /\ IF polls' > CiMaxPolls THEN Return("error") ELSE UNCHANGED <<pc, exit>>
    /\ UNCHANGED <<stateVars, idx, review, attempt, nonePolls, remaining, gitVars, hubVars,
                   checks, runs, pastVars>>

\* Faulty variant: an attempt is not counted.
CiFailureUncounted ==
    /\ pc = "ci" /\ ci = "failure"
    /\ ReadChecks
    /\ pc' = "fixing"
    /\ UNCHANGED <<exit, stateVars, loopVars, gitVars, hubVars, checks, runs, pastVars>>

CiFailure ==
    /\ pc = "ci" /\ ci = "failure"
    /\ ReadChecks
    /\ IF attempt >= MaxCiFix
         THEN Return("error") /\ UNCHANGED attempt
         ELSE pc' = "fixing" /\ attempt' = attempt + 1 /\ UNCHANGED exit
    /\ UNCHANGED <<stateVars, idx, review, polls, nonePolls, remaining, gitVars, hubVars,
                   checks, runs, pastVars>>

\* The agent fixes something, or nothing; a fix that changed nothing is an error.
CiFix ==
    /\ pc = "fixing"
    /\ Edit
    /\ \/ tree' # heads[where] /\ pc' = "fixed" /\ UNCHANGED exit
       \/ Return("error")
    /\ UNCHANGED <<stateVars, loopVars, heads, where, hubVars, checks, runs, histVars>>

\* The fix could not be committed: poll again.
FixCommitFails ==
    /\ pc = "fixed"
    /\ pc' = "ci"
    /\ UNCHANGED <<exit, stateVars, loopVars, gitVars, hubVars, checks, runs, histVars>>

\* Faulty variant: a pushed fix is taken for a green one.
FixPushTrusted ==
    /\ pc = "fixpush"
    /\ PushBranch
    /\ polls' = 0
    /\ pc' = "confirm"
    /\ UNCHANGED <<exit, stateVars, idx, review, attempt, nonePolls, remaining, gitVars,
                   pr, trunk, issue, checks, runs, histVars>>

\* Push the fix; whether that worked is not looked at.
FixPush ==
    /\ pc = "fixpush"
    /\ PushBranch \/ UNCHANGED <<remote, ci>>
    /\ polls' = 0
    /\ pc' = "ci"
    /\ UNCHANGED <<exit, stateVars, idx, review, attempt, nonePolls, remaining, gitVars,
                   pr, trunk, issue, checks, runs, histVars>>

-----------------------------------------------------------------------------
(* The merge *)

ConfirmMerge ==
    /\ pc = "confirm"
    /\ pc' = "merge"
    /\ UNCHANGED <<exit, stateVars, loopVars, gitVars, hubVars, checks, runs, histVars>>

\* The PR's head becomes the base of origin; its text may close the issue.
Land ==
    /\ pr = "open"
    /\ pr' = "merged"
    /\ trunk' = remote
    /\ merged' = Append(merged, remote)
    /\ issue' \in {issue, "CLOSED"}

\* Faulty variant: the merge leaves the branch where it is.
SquashMergeKeepsBranch ==
    /\ pc = "merge"
    /\ Land
    /\ pc' = "record"
    /\ UNCHANGED <<exit, stateVars, loopVars, gitVars, remote, ci, checks, runs, reading, gated,
                   performed, unhanded, amnesia, misreported>>

\* gh pr merge --squash --delete-branch: the branch goes here and at origin, and
\* the base branch is checked out.
SquashMerge ==
    /\ pc = "merge"
    /\ Land
    /\ remote' = NoVersion /\ ci' = "none"
    /\ heads' = [base |-> remote, branch |-> NoVersion]
    /\ where' = "base"
    /\ tree' = IF Dirty THEN tree ELSE remote
    /\ pc' = "record"
    /\ UNCHANGED <<exit, stateVars, loopVars, last, checks, runs, reading, gated, performed,
                   unhanded, amnesia, misreported>>

\* gh merges and then fails, before it has deleted the branch.
MergeMisreported ==
    /\ pc = "merge"
    /\ Land
    /\ misreported' = TRUE
    /\ Return("error")
    /\ UNCHANGED <<stateVars, loopVars, gitVars, remote, ci, checks, runs, reading, gated,
                   performed, unhanded, amnesia>>

\* pullRebase, whose result is not looked at, then markDone('merge') and save.
RecordMerge ==
    /\ pc = "record"
    /\ \/ /\ where' = "base"
          /\ heads' = [heads EXCEPT !.base = trunk]
          /\ tree' = IF Dirty THEN tree ELSE trunk
       \/ UNCHANGED <<where, heads, tree>>
    /\ mem' = [mem EXCEPT !.done = @ \cup {"merge"}]
    /\ Save(mem')
    /\ pc' = "verify"
    /\ UNCHANGED <<exit, loopVars, last, hubVars, checks, runs, histVars>>

\* Faulty variant: the exit code does not wait for the issue.
VerifyUnchecked ==
    /\ pc = "verify"
    /\ Return("ok")
    /\ UNCHANGED <<stateVars, loopVars, gitVars, hubVars, checks, runs, histVars>>

\* An issue that is still open after the merge is a failure (CommandFails).
VerifyIssue ==
    /\ pc = "verify" /\ (Verify => issue = "CLOSED")
    /\ Return("ok")
    /\ UNCHANGED <<stateVars, loopVars, gitVars, hubVars, checks, runs, histVars>>

\* CI registers its checks and runs them, any time after the push (external: GitHub).
CiStep ==
    /\ checks /\ remote # NoVersion
    /\ \/ ci = "none" /\ ci' = "pending"
       \/ ci = "pending" /\ ci' \in {"success", "failure"}
    /\ UNCHANGED <<pc, exit, stateVars, loopVars, gitVars, remote, pr, trunk, issue, checks,
                   runs, histVars>>

-----------------------------------------------------------------------------
PhaseStep == \/ SkipDone \/ Review \/ AgentFails
             \/ \E p \in {"classify", "plan", "implement", "tests", "e2e", "document"} :
                  AgentPhase(p)
             \/ \E p \in Conditional : SkipConditional(p)
             \/ EnterLoop("resolve", "resolve") \/ EnterLoop("patch", "patch")
             \/ TestGreen \/ TestRed \/ Resolve \/ PatchLoop \/ Patch

FinalStep == \/ Finalize \/ GatesGreen \/ CommitAll \/ Push \/ OpenPr
             \/ CiSuccess \/ CiNone \/ CiPending \/ CiFailure \/ CiFix
             \/ FixCommitFails \/ FixPush \/ CommandFails
             \/ ConfirmMerge \/ SquashMerge \/ MergeMisreported \/ RecordMerge \/ VerifyIssue

RunStep == \/ PreflightStops \/ ResolveState \/ Setup \/ SetupFails
           \/ PhaseStep \/ FinalStep

Next == Start \/ Switch \/ Crash \/ RunStep \/ CiStep

Spec == Init /\ [][Next]_vars

\* Every command, agent session and sleep of the process comes to an end.
FairSpec == Spec /\ WF_vars(RunStep)

-----------------------------------------------------------------------------
(* Properties *)

Versions == 0..MaxVersion
PhaseNames == {Phases[i] : i \in DOMAIN Phases} \cup {"setup", "merge"}
Docs == [done : SUBSET PhaseNames, findings : 0..MaxBlockers]

TypeOK ==
    /\ pc \in {"off", "preflight", "setup", "phases", "resolve", "resolving", "patch",
               "patching", "gates", "commit", "push", "pr", "ci", "fixing", "fixed",
               "fixpush", "confirm", "merge", "record", "verify"}
    /\ exit \in {"none", "ok", "error"}
    /\ mem \in Docs /\ disk \in Docs \cup {NoDoc}
    /\ idx \in 1..(Len(Phases) + 1) /\ review \in 0..Unknown
    /\ attempt \in Nat /\ polls \in 0..(CiMaxPolls + 1)
    /\ nonePolls \in 0..(SettlePolls + 1) /\ remaining \in 0..MaxBlockers
    /\ tree \in Versions /\ where \in {"base", "branch"}
    /\ heads \in [base : Versions, branch : Versions \cup {NoVersion}]
    /\ remote \in Versions \cup {NoVersion} /\ trunk \in Versions
    /\ pr \in {"none", "open", "merged"}
    /\ ci \in {"none", "pending", "success", "failure"}
    /\ checks \in BOOLEAN /\ issue \in {"OPEN", "CLOSED"}
    /\ last \in Versions /\ runs \in 0..MaxRuns
    /\ gated \subseteq Versions
    /\ reading.of \in Versions \cup {NoVersion}
    /\ reading.says \in {"nothing", "none", "pending", "success", "failure"}
    /\ merged \in Seq(Versions)
    /\ performed \subseteq PhaseNames
    /\ {unhanded, amnesia, misreported} \subseteq BOOLEAN

\* An issue is merged once, through deaths and resumes at any point, also between
\* the merge and its record; it takes a state file that was lost or never written
\* past its first save, or a gh that merges and reports failure, to merge it twice.
MergedOnce == Len(merged) > 1 => amnesia \/ misreported

\* What is merged went through every phase of the chain (or its gate said no),
\* whatever was interrupted and resumed: a phase is recorded only once it is done.
NothingSkipped ==
    merged # <<>> => \A i \in DOMAIN Phases : Phases[i] \in performed

\* Blocker findings reach a patch agent before the merge, also when the run died
\* between the review and the patch and was resumed.
BlockersHanded == [][merged' # merged => ~unhanded]_vars

\* "Merge only on green" (orchestrator.ts:659): what a run merges is the head whose
\* checks it last read, and it read that they had passed, or that there were none, the
\* settle polls of the run being used up; a head it read nothing of passed the local
\* gates.  So a fix is not merged on the checks of the head before it, nor while its own
\* are known to run or to fail.
MergeOnlyOnGreen ==
    [][merged' # merged =>
         \/ reading = [of |-> remote, says |-> "success"]
         \/ reading = [of |-> remote, says |-> "none"] /\ nonePolls > SettlePolls
         \/ reading = Unread /\ remote \in gated]_vars

\* With verification on, exit 0 means that the issue is closed, on every path.
HonestExit == Verify /\ exit = "ok" => issue = "CLOSED"

\* Every run ends: the loops are bounded whatever tests, agents and CI do.
Terminates == pc # "off" ~> pc = "off"
=============================================================================
