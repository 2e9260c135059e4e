----------------------------- MODULE PhaseRunner -----------------------------
(***************************************************************************)
(* adw_sdlc/src/run-phase.ts over adw_sdlc/src/runners: one agent phase,   *)
(* its time box and its single nudge, over each of the four backends.      *)
(*                                                                         *)
(*   pi              a child process, killed when the signal aborts;       *)
(*   claude, codex   the message stream of a vendor's SDK;                 *)
(*   opencode        a prompt sent to a server (OpencodeRunner has the     *)
(*                   server itself and the transcript of the session).     *)
(*                                                                         *)
(* The phase "classify" may go without a backend: one structured call of   *)
(* the Anthropic SDK (structured-call.ts), with no tools and no agent.     *)
(*                                                                         *)
(* A reply is Chunks pieces of text, and it conforms to the schema of the  *)
(* phase or it does not.  The host (orchestrator.ts) runs one phase after  *)
(* the other, adds up what they cost, and gives up on the first that       *)
(* fails; it may be resumed from the state it saved.                       *)
(***************************************************************************)
EXTENDS Naturals, FiniteSets

CONSTANTS
    Backends,           \* the backends: "pi", "opencode", "claude", "codex"
    Chunks,             \* bound: pieces of text in a reply
    MaxPhases           \* bound: phases the host runs

ASSUME PhaseRunnerAssumption ==
    /\ Backends \subseteq {"pi", "opencode", "claude", "codex"}
    /\ Chunks \in Nat \ {0} /\ MaxPhases \in Nat

VARIABLES
    backend,
    phase, phases,      \* how the current phase stands; the phases begun
    try, aborted,       \* the attempt and its signal
    cut,                \* an attempt that was aborted, or ended by its budget, was nudged
    at,                 \* where runPhase is
    child,              \* pi: the child process
    agents,             \* the attempts whose agent is at work on the tree
    said, got,          \* pieces of the reply produced, and received by the runner
    valid,              \* the reply of this attempt conforms to the schema
    spent, total, disk, \* the usage of the attempts before this one; totalCostUsd, and
                        \* the saved state
    bill, ledger        \* history: what the attempts of this phase reported, and those
                        \* of the phases done

hostVars == <<backend, phases>>
costVars == <<spent, total, disk, bill, ledger>>
vars == <<backend, phase, phases, try, aborted, cut, at, child, agents, said, got, valid,
          spent, total, disk, bill, ledger>>

Attempt == <<phases, try>>

(* PhaseUsage.costUsd: a sum of dollars is the set of attempts it is the   *)
(* sum for, and of none when costUsd is undefined; null is not known.      *)
Absent == [known |-> TRUE, of |-> {}]
Unpriced == [known |-> FALSE, of |-> {}]
Priced == [known |-> TRUE, of |-> {Attempt}]

Init ==
    /\ backend \in Backends
    /\ phase = "idle" /\ phases = 0
    /\ try = 0 /\ aborted = FALSE /\ cut = FALSE
    /\ at = "none" /\ child = "none"
    /\ agents = {}
    /\ said = 0 /\ got = 0 /\ valid = FALSE
    /\ spent = Absent /\ total = Absent
    /\ disk = [total |-> Absent, ledger |-> {}]
    /\ bill = {} /\ ledger = {}

-----------------------------------------------------------------------------
(* The cost of a run *)

\* Faulty variant: an attempt that could not be priced counts as nothing.
MergeUsagePriced(a, b) == [known |-> a.known \/ b.known, of |-> a.of \cup b.of]

\* mergeUsage: if either is null so is the pair, else the sum of what there is.
MergeUsage(a, b) ==
    IF a.known /\ b.known THEN [known |-> TRUE, of |-> a.of \cup b.of] ELSE Unpriced

\* recordUsage: null sticks, and an absent cost changes nothing.
RecordUsage(usage) ==
    IF ~usage.known THEN Unpriced
    ELSE IF usage.of # {} /\ total.known THEN [total EXCEPT !.of = @ \cup usage.of]
    ELSE total

\* costUsd of pricing.ts, for a model with a price: null without token counts.
CostUsd(usage) == IF usage.of = {} THEN Unpriced ELSE usage

\* A phase is done: its usage is recorded, and the state is saved, best effort.
Account(usage, reports) ==
    /\ total' = RecordUsage(usage)
    /\ ledger' = ledger \cup reports
    /\ disk' \in {disk, [total |-> total', ledger |-> ledger']}

\* The host is run again, with --resume.
Resume ==
    /\ phase = "error" /\ phases < MaxPhases
    /\ phase' = "idle"
    /\ total' = disk.total /\ ledger' = disk.ledger
    /\ UNCHANGED <<hostVars, try, aborted, cut, at, child, agents, said, got, valid,
                   spent, disk, bill>>

-----------------------------------------------------------------------------
(* runAgentPhase *)

\* invoke: a new AbortController with its timer, a new transcript, and runPhase is entered.
Invoke(n) ==
    /\ try' = n /\ aborted' = FALSE
    /\ at' = "enter"
    /\ said' = 0 /\ got' = 0 /\ valid' \in BOOLEAN

RunAgentPhase ==
    /\ phase \in {"idle", "ok"} /\ phases < MaxPhases
    /\ phase' = "run" /\ phases' = phases + 1 /\ cut' = FALSE
    /\ Invoke(1)
    /\ spent' = Absent /\ bill' = {}
    /\ UNCHANGED <<backend, child, agents, total, disk, ledger>>

\* extract: the reply is read whatever the exit code and the signal.
Extract(signal, received) == received = Chunks /\ valid

\* Only a clean run earns the nudge, and only the first.
Nudge(signal) == try = 1 /\ signal = "none"

\* runPhase returns with what it has received and one of the usages.
Return(signal, received, usages) == \E usage \in usages :
    \/ /\ Extract(signal, received)
       /\ phase' = "ok" /\ at' = "none" /\ got' = received
       /\ Account(MergeUsage(spent, usage), bill \cup {usage})
       /\ UNCHANGED <<try, aborted, cut, said, valid, spent, bill>>
    \/ /\ ~Extract(signal, received) /\ ~Nudge(signal)
       /\ phase' = "error" /\ at' = "none" /\ got' = received
       /\ UNCHANGED <<try, aborted, cut, said, valid, costVars>>
    \/ /\ ~Extract(signal, received) /\ Nudge(signal)
       /\ cut' = (aborted \/ signal # "none")
       /\ Invoke(try + 1)
       /\ spent' = usage /\ bill' = {usage}
       /\ UNCHANGED <<phase, total, disk, ledger>>

\* abortKind: the only abort of this host is its timer's.
Signal == IF aborted THEN "timeout" ELSE "none"

\* The phase timer; the pi runner answers it with SIGTERM and arms its own timer.
Timeout ==
    /\ phase = "run" /\ ~aborted
    /\ aborted' = TRUE
    /\ child' = IF child = "live" THEN "term" ELSE child
    /\ UNCHANGED <<hostVars, phase, try, cut, at, agents, said, got, valid, costVars>>

-----------------------------------------------------------------------------
(* The agent (external) *)

\* A piece of the reply.  The stream of an SDK hands it to the runner at once.
Say ==
    /\ Attempt \in agents /\ at \in {"child", "stream", "prompt"} /\ said < Chunks
    /\ said' = said + 1
    /\ got' = IF at = "stream" THEN said + 1 ELSE got
    /\ UNCHANGED <<hostVars, phase, try, aborted, cut, at, child, agents, valid, costVars>>

\* The runner reads a line of the child's stdout, or an event of the opencode server.
Receive ==
    /\ at \in {"child", "prompt"} /\ got < said
    /\ got' = got + 1
    /\ UNCHANGED <<hostVars, phase, try, aborted, cut, at, child, agents, said, valid, costVars>>

-----------------------------------------------------------------------------
(* runner-pi.ts *)

Spawn ==
    /\ backend = "pi" /\ at = "enter" /\ ~aborted
    /\ at' = "child" /\ child' = "live"
    /\ agents' = agents \cup {Attempt}
    /\ UNCHANGED <<hostVars, phase, try, aborted, cut, said, got, valid, costVars>>

\* Aborted already, no binary, or the 'error' event of a child that never came up.
SpawnFails ==
    /\ backend = "pi" /\ at = "enter"
    /\ Return(Signal, got, {Absent})
    /\ UNCHANGED <<hostVars, child, agents>>

\* The child ends by itself, on SIGTERM, or of the SIGKILL.
ChildExits ==
    /\ child \in {"live", "term", "kill"}
    /\ child' = "exited"
    /\ agents' = agents \ {Attempt}
    /\ UNCHANGED <<hostVars, phase, try, aborted, cut, at, said, got, valid, costVars>>

\* Faulty variant: the abort is not escalated.
KillTimerNever == FALSE /\ UNCHANGED vars

\* KILL_GRACE_MS after the SIGTERM: a child that is still there is killed.
KillTimer ==
    /\ child = "term"
    /\ child' = "kill"
    /\ UNCHANGED <<hostVars, phase, try, aborted, cut, at, agents, said, got, valid, costVars>>

\* UsageTotals: nothing seen, or the sum over the messages, null if one has no price.
ChildUsage == {Absent, Priced, Unpriced}

\* Faulty variant: runPhase returns once it has signalled the child.
ChildClosesEarly ==
    /\ at = "child" /\ child \in {"term", "exited"} /\ got = said
    /\ Return(Signal, got, ChildUsage)
    /\ UNCHANGED <<hostVars, child, agents>>

\* Faulty variant: 'exit' instead of 'close'.
ChildClosesUndrained ==
    /\ at = "child" /\ child = "exited"
    /\ Return(Signal, got, ChildUsage)
    /\ UNCHANGED <<hostVars, child, agents>>

\* Faulty variant: the exit code decides, and the signal is not looked at.
ChildClosesUnsignalled ==
    /\ at = "child" /\ child = "exited" /\ got = said
    /\ Return("none", got, ChildUsage)
    /\ UNCHANGED <<hostVars, child, agents>>

\* 'close': the child is gone and its output is drained.
ChildCloses ==
    /\ at = "child" /\ child = "exited" /\ got = said
    /\ Return(Signal, got, ChildUsage)
    /\ UNCHANGED <<hostVars, child, agents>>

-----------------------------------------------------------------------------
(* runner-claude.ts and runner-codex.ts *)

Query ==
    /\ backend \in {"claude", "codex"} /\ at = "enter"
    /\ at' = "stream"
    /\ agents' = agents \cup {Attempt}
    /\ UNCHANGED <<hostVars, phase, try, aborted, cut, child, said, got, valid, costVars>>

\* What the runner reports; maxBudgetUsd is claude's own cap.
StreamSignals ==
    IF aborted THEN {"timeout"}
    ELSE {"none"} \cup (IF backend = "claude" THEN {"budget"} ELSE {})

\* usageOf: claude's result message has dollars, codex's tokens are priced if they are
\* there and the model has a price; a stream that broke off may have neither.
StreamUsage(signal) ==
    CASE signal = "budget" -> {Priced}
      [] backend = "claude" /\ signal # "budget" -> {Absent, Priced}
      [] OTHER -> {Absent, Priced, Unpriced}

\* The stream ends or throws; the SDK has then ended its own child.
StreamEnds ==
    /\ at = "stream"
    /\ agents' = agents \ {Attempt}
    /\ \E signal \in StreamSignals : Return(signal, got, StreamUsage(signal))
    /\ UNCHANGED <<hostVars, child>>

-----------------------------------------------------------------------------
(* runner-opencode.ts *)

\* The server is up and the session created: the prompt is sent.
Prompt ==
    /\ backend = "opencode" /\ at = "enter" /\ ~aborted
    /\ at' = "prompt"
    /\ agents' = agents \cup {Attempt}
    /\ UNCHANGED <<hostVars, phase, try, aborted, cut, child, said, got, valid, costVars>>

\* No server or no session: a throw is reported as the timeout if the signal has aborted
\* by then, the error envelope of session.create as a clean run in any case.
PromptNever ==
    /\ backend = "opencode" /\ at = "enter"
    /\ \E signal \in {Signal, "none"} : Return(signal, got, {Absent})
    /\ UNCHANGED <<hostVars, child, agents>>

\* The answer: its parts are replayed, so that all of the reply has been received.
PromptDone ==
    /\ at = "prompt" /\ said = Chunks
    /\ agents' = agents \ {Attempt}
    /\ Return(Signal, said, {Priced, Unpriced})
    /\ UNCHANGED <<hostVars, child>>

\* The prompt is answered by an error envelope, whether the signal has aborted or not, or
\* throws before it has.  Nothing tells the server, whose agent may go on.
PromptFails ==
    /\ at = "prompt"
    /\ Return("none", got, {Absent})
    /\ UNCHANGED <<hostVars, child, agents>>

\* The aborted request; session.abort may or may not reach the server.
PromptAborted ==
    /\ at = "prompt" /\ aborted
    /\ agents' \in {agents, agents \ {Attempt}}
    /\ Return("timeout", got, {Absent})
    /\ UNCHANGED <<hostVars, child>>

\* An agent that was left behind comes to its end (external).
AgentEnds(a) ==
    /\ backend = "opencode" /\ a \in agents /\ (a # Attempt \/ at # "prompt")
    /\ agents' = agents \ {a}
    /\ UNCHANGED <<hostVars, phase, try, aborted, cut, at, child, said, got, valid, costVars>>

-----------------------------------------------------------------------------
(* structured-call.ts: the first phase, when an API key is configured *)

\* The signal is one for both attempts.
Classify ==
    /\ phase = "idle" /\ ledger = {} /\ phases < MaxPhases
    /\ phase' = "run" /\ phases' = phases + 1 /\ cut' = FALSE
    /\ try' = 1 /\ aborted' = FALSE
    /\ at' = "parse"
    /\ said' = 0 /\ got' = 0 /\ valid' \in BOOLEAN
    /\ spent' = Absent /\ bill' = {}
    /\ UNCHANGED <<backend, child, agents, total, disk, ledger>>

\* A message with a parsed output that conforms: the tokens of the attempts are priced.
Parsed ==
    /\ at = "parse" /\ ~aborted /\ valid
    /\ phase' = "ok" /\ at' = "none"
    /\ \E usage \in {Absent, Priced} :
         Account(CostUsd(MergeUsage(spent, usage)), bill \cup {usage})
    /\ UNCHANGED <<hostVars, try, aborted, cut, child, agents, said, got, valid, spent, bill>>

\* A refusal or a truncation is asked again, once.
ParsedNothing ==
    /\ at = "parse" /\ ~aborted /\ try = 1
    /\ try' = 2 /\ valid' \in BOOLEAN
    /\ \E usage \in {Absent, Priced} : spent' = usage /\ bill' = {usage}
    /\ UNCHANGED <<hostVars, phase, aborted, cut, at, child, agents, said, got,
                   total, disk, ledger>>

\* The request is rejected, as when its signal aborts, the output does not conform, or
\* there is none again.
ParseFails ==
    /\ at = "parse"
    /\ phase' = "error" /\ at' = "none"
    /\ UNCHANGED <<hostVars, try, aborted, cut, child, agents, said, got, valid, costVars>>

-----------------------------------------------------------------------------

Next ==
    \/ Resume \/ Classify \/ Parsed \/ ParsedNothing \/ ParseFails
    \/ RunAgentPhase \/ Timeout \/ Say \/ Receive
    \/ Spawn \/ SpawnFails \/ ChildExits \/ KillTimer \/ ChildCloses
    \/ Query \/ StreamEnds
    \/ Prompt \/ PromptNever \/ PromptDone \/ PromptFails \/ PromptAborted
    \/ \E a \in agents : AgentEnds(a)

Spec == Init /\ [][Next]_vars

\* What aborts is answered; only the signals that kill are sure to end a child.  A nudge
\* that follows an abort has a time box as well: `timeoutMs` is the same for both.
Fairness ==
    /\ WF_vars(Spawn \/ SpawnFails \/ Query \/ PromptNever)
    /\ WF_vars(KillTimer)
    /\ WF_vars(child = "kill" /\ ChildExits)
    /\ WF_vars(at = "child" /\ Receive)
    /\ WF_vars(ChildCloses)
    /\ WF_vars(aborted /\ StreamEnds)
    /\ WF_vars(PromptAborted)
    /\ WF_vars(aborted /\ ParseFails)
    /\ WF_vars(cut /\ Timeout)

FairSpec == Spec /\ Fairness

-----------------------------------------------------------------------------

Usages == [known : BOOLEAN, of : SUBSET ((1..MaxPhases) \X {1, 2})]

\* What the variables hold.
TypeOK ==
    /\ backend \in Backends
    /\ phase \in {"idle", "run", "ok", "error"} /\ phases \in 0..MaxPhases
    /\ try \in 0..2 /\ aborted \in BOOLEAN /\ cut \in BOOLEAN
    /\ at \in {"none", "enter", "child", "stream", "prompt", "parse"}
    /\ child \in {"none", "live", "term", "kill", "exited"}
    /\ agents \subseteq (1..MaxPhases) \X {1, 2}
    /\ said \in 0..Chunks /\ got \in 0..said /\ valid \in BOOLEAN
    /\ {spent, total} \subseteq Usages /\ bill \subseteq Usages /\ ledger \subseteq Usages
    /\ disk \in [total : Usages, ledger : SUBSET Usages]

(* run-phase.ts: "a timed-out/killed runner won't do better on a re-run":  *)
(* the nudge does not follow an attempt that was aborted or hit its        *)
(* budget, on whichever path the runner of the backend came to report it.  *)
(* One path is open: an opencode server that answers with an error         *)
(* envelope after the abort, and so without any usage.                     *)
KilledNotRetried == try = 2 /\ cut => backend = "opencode" /\ spent = Absent

(* Two agents never edit the tree at once: whoever begins an attempt or a  *)
(* phase, the agent of the one before is gone.  The opencode server's      *)
(* agent is not the runner's to end, so this is not promised for it.       *)
OneAgent == backend # "opencode" => Cardinality(agents) <= 1

(* A conforming reply that the agent finished before it ended is accepted, *)
(* however late the time box cut in: no attempt that was answered in full  *)
(* is nudged, and no phase fails with the answer at hand.                  *)
NoReplyWasted ==
    [][(at \in {"child", "stream"} /\ at' # at /\ said = Chunks /\ valid) => phase' = "ok"]_vars

(* A phase whose time box has run out ends, even over a child that ignores *)
(* SIGTERM, and after at most one more time box where it is nudged.        *)
PhaseEnds == aborted ~> phase # "run"

(* orchestrator.ts:307, "rather than silently becoming a false partial     *)
(* sum": when the total is a number, it has the dollars of every attempt   *)
(* of the phases done that reported any, the one before a nudge included,  *)
(* and none of these attempts was without a price, in whichever order they *)
(* came and through a resume.                                              *)
CostIsWhole ==
    total.known => Unpriced \notin ledger /\ total.of = UNION {u.of : u \in ledger}
=============================================================================
