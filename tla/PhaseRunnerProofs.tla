-------------------------- MODULE PhaseRunnerProofs --------------------------
(***************************************************************************)
(* What running an agent phase guarantees for every set of backends, any   *)
(* length of a reply and any number of phases: a killed attempt is not     *)
(* nudged, agents do not overlap, an answer that is complete is taken, and *)
(* the total of a run has every attempt that reported a cost.              *)
(***************************************************************************)
EXTENDS PhaseRunner, FiniteSetTheorems, TLAPS

Attempts == (1..MaxPhases) \X {1, 2}
Ats == {"none", "enter", "child", "stream", "prompt", "parse"}

\* Where the process is: runPhase is entered only while the phase runs.
ControlInv ==
    /\ backend \in Backends
    /\ phase \in {"idle", "run", "ok", "error"} /\ phases \in 0..MaxPhases
    /\ try \in 0..2 /\ aborted \in BOOLEAN /\ at \in Ats
    /\ child \in {"none", "live", "term", "kill", "exited"}
    /\ phase # "run" => at = "none"
    /\ phase = "run" => phases >= 1 /\ try \in {1, 2}
    /\ at = "prompt" => backend = "opencode"
    /\ cut \in BOOLEAN /\ (cut => try = 2) /\ KilledNotRetried

\* What was received of what was said; the stream of an SDK is read as it is produced.
ReplyInv ==
    /\ said \in 0..Chunks /\ got \in 0..said /\ valid \in BOOLEAN
    /\ at \in {"enter", "stream"} => got = said

\* Each backend has its own place to wait, and the agents at work are those of the
\* attempt that waits there; opencode's server may have others.
AgentInv ==
    /\ agents \subseteq Attempts
    /\ at = "child" => backend = "pi"
    /\ at = "stream" => backend \in {"claude", "codex"}
    /\ child \in {"live", "term", "kill"} => at = "child"
    /\ backend # "opencode" =>
         /\ agents \subseteq {Attempt}
         /\ at \notin {"child", "stream"} => agents = {}
         /\ child = "exited" /\ at = "child" => agents = {}

\* A cost that is a number is the sum of the reports, and none of them was unpriced.
Whole(usage, reports) ==
    usage.known => Unpriced \notin reports /\ usage.of = UNION {u.of : u \in reports}

CostInv ==
    /\ spent \in Usages /\ total \in Usages /\ bill \subseteq Usages /\ ledger \subseteq Usages
    /\ disk \in [total : Usages, ledger : SUBSET Usages]
    /\ Whole(spent, bill) /\ Whole(total, ledger) /\ Whole(disk.total, disk.ledger)

USE DEF hostVars, costVars

\* The constants, one by one.
LEMMA Consts ==
    /\ Backends \subseteq {"pi", "opencode", "claude", "codex"}
    /\ Chunks \in Nat \ {0} /\ MaxPhases \in Nat
BY PhaseRunnerAssumption

\* What a runner reports when its signal has aborted: the abort, except for the error
\* envelopes of an opencode server, which come without a usage.
Owned(signal, usages) ==
    aborted => signal # "none" \/ (backend = "opencode" /\ usages = {Absent})

\* The runs that return.
Returning ==
    \E signal \in {"none", "timeout", "budget"}, received \in 0..said,
       usages \in SUBSET {Absent, Priced, Unpriced} :
      /\ at # "none" /\ Owned(signal, usages)
      /\ at \in {"child", "stream"} => received = said
      /\ Return(signal, received, usages) /\ UNCHANGED <<hostVars, child>>

\* Each way in which a runner returns, whatever its backend.
LEMMA RunnersReturn ==
    ASSUME ControlInv, ReplyInv,
           \/ SpawnFails \/ ChildCloses \/ StreamEnds
           \/ PromptNever \/ PromptDone \/ PromptFails \/ PromptAborted
    PROVE  Returning
<1>0. said \in 0..Chunks /\ got \in 0..said /\ got \in 0..said /\ said \in 0..said
      /\ (at = "stream" => got = said)
  BY Consts DEF ReplyInv
<1>1. CASE SpawnFails \/ PromptNever
  <2>1. PICK signal \in {Signal, "none"} :
          /\ at = "enter" /\ Return(signal, got, {Absent}) /\ UNCHANGED <<hostVars, child>>
          /\ signal = Signal \/ backend = "opencode"
    BY <1>1 DEF SpawnFails, PromptNever
  <2>2. signal \in {"none", "timeout", "budget"} /\ Owned(signal, {Absent})
    BY <2>1 DEF Signal, Owned
  <2> QED
    BY <1>0, <2>1, <2>2 DEF Returning
<1>2. CASE ChildCloses
  <2>1. at = "child" /\ got = said /\ Return(Signal, got, ChildUsage)
        /\ UNCHANGED <<hostVars, child>>
    BY <1>2 DEF ChildCloses
  <2>2. /\ Signal \in {"none", "timeout", "budget"}
        /\ \A usages : Owned(Signal, usages)
    BY DEF Signal, Owned
  <2>3. ChildUsage \in SUBSET {Absent, Priced, Unpriced}
    BY DEF ChildUsage
  <2> QED
    BY <1>0, <2>1, <2>2, <2>3 DEF Returning
<1>3. CASE StreamEnds
  <2>1. PICK signal \in StreamSignals : Return(signal, got, StreamUsage(signal))
    BY <1>3 DEF StreamEnds
  <2>2. /\ signal \in {"none", "timeout", "budget"}
        /\ \A usages : Owned(signal, usages)
    BY <2>1 DEF StreamSignals, Owned
  <2>3. StreamUsage(signal) \in SUBSET {Absent, Priced, Unpriced}
    BY DEF StreamUsage
  <2>4. at = "stream" /\ UNCHANGED <<hostVars, child>>
    BY <1>3 DEF StreamEnds
  <2> QED
    BY <1>0, <2>1, <2>2, <2>3, <2>4 DEF Returning
<1>4. CASE PromptDone
  <2>1. at = "prompt" /\ Return(Signal, said, {Priced, Unpriced})
        /\ UNCHANGED <<hostVars, child>>
    BY <1>4 DEF PromptDone
  <2>2. /\ Signal \in {"none", "timeout", "budget"}
        /\ \A usages : Owned(Signal, usages)
    BY DEF Signal, Owned
  <2> QED
    BY <1>0, <2>1, <2>2 DEF Returning
<1>5. CASE PromptFails
  <2>1. at = "prompt" /\ Return("none", got, {Absent}) /\ UNCHANGED <<hostVars, child>>
    BY <1>5 DEF PromptFails
  <2>2. Owned("none", {Absent})
    BY <2>1 DEF Owned, ControlInv
  <2> QED
    BY <1>0, <2>1, <2>2 DEF Returning
<1>6. CASE PromptAborted
  <2>1. at = "prompt" /\ Return("timeout", got, {Absent}) /\ UNCHANGED <<hostVars, child>>
    BY <1>6 DEF PromptAborted
  <2>2. Owned("timeout", {Absent})
    BY DEF Owned
  <2> QED
    BY <1>0, <2>1, <2>2 DEF Returning
<1> QED
  BY <1>1, <1>2, <1>3, <1>4, <1>5, <1>6

\* Next, with the runners' returns in one place.
LEMMA Steps ==
    ASSUME ControlInv, ReplyInv, [Next]_vars
    PROVE  \/ Resume \/ Classify \/ Parsed \/ ParsedNothing \/ ParseFails
           \/ RunAgentPhase \/ Timeout \/ Say \/ Receive
           \/ Spawn \/ ChildExits \/ KillTimer \/ Query \/ Prompt \/ Returning
           \/ (\E a \in agents : AgentEnds(a)) \/ UNCHANGED vars
BY RunnersReturn DEF Next

-----------------------------------------------------------------------------
(* The nudge *)

\* Only an attempt that was not killed is nudged, or one without any usage, and only once.
LEMMA ControlStep ==
    ASSUME ControlInv, ReplyInv, [Next]_vars
    PROVE  ControlInv'
<1> USE DEF ControlInv, KilledNotRetried, Ats
<1>1. CASE Resume
  BY <1>1 DEF Resume
<1>2. CASE Classify \/ RunAgentPhase
  <2>1. /\ phase' = "run" /\ phases' = phases + 1 /\ cut' = FALSE /\ try' = 1
        /\ aborted' = FALSE /\ at' \in {"enter", "parse"} /\ phases < MaxPhases
        /\ UNCHANGED <<backend, child>>
    BY <1>2 DEF Classify, RunAgentPhase, Invoke
  <2>2. phases' \in 0..MaxPhases /\ phases' >= 1 /\ try' \in 0..2
    BY <2>1, Consts
  <2> QED
    BY <2>1, <2>2
<1>3. CASE Parsed \/ ParsedNothing \/ ParseFails
  BY <1>3 DEF Parsed, ParsedNothing, ParseFails
<1>4. CASE Timeout
  BY <1>4 DEF Timeout
<1>5. CASE Say \/ Receive \/ (\E a \in agents : AgentEnds(a))
  BY <1>5 DEF Say, Receive, AgentEnds
<1>6. CASE Spawn \/ ChildExits \/ KillTimer \/ Query \/ Prompt
  BY <1>6 DEF Spawn, ChildExits, KillTimer, Query, Prompt
<1>7. CASE Returning
  <2>1. PICK signal \in {"none", "timeout", "budget"}, received \in 0..said,
             usages \in SUBSET {Absent, Priced, Unpriced} :
          /\ at # "none" /\ Owned(signal, usages)
          /\ Return(signal, received, usages) /\ UNCHANGED <<hostVars, child>>
    BY <1>7 DEF Returning
  <2>2. CASE ~Nudge(signal) \/ Extract(signal, received)
    <3>1. /\ phase' \in {"ok", "error"} /\ at' = "none"
          /\ UNCHANGED <<backend, phases, try, aborted, cut, child, spent>>
      BY <2>1, <2>2 DEF Return
    <3> QED
      BY <3>1
  <2>3. CASE Nudge(signal) /\ ~Extract(signal, received)
    <3>1. try = 1 /\ signal = "none" /\ (aborted => backend = "opencode" /\ usages = {Absent})
      BY <2>1, <2>3 DEF Nudge, Owned
    <3>2. /\ cut' = aborted /\ try' = 2 /\ aborted' = FALSE /\ at' = "enter"
          /\ spent' \in usages
          /\ UNCHANGED <<phase, phases, backend, child>>
      BY <2>1, <2>3, <3>1 DEF Return, Invoke
    <3>3. phase = "run" /\ try' \in 0..2
      BY <2>1, <3>2
    <3>4. KilledNotRetried'
      <4>1. cut' => aborted
        BY <3>2
      <4>2. cut' => backend = "opencode" /\ spent' = Absent'
        BY <3>1, <3>2, <4>1 DEF Absent
      <4> QED
        BY <3>2, <4>2
    <3> QED
      BY <3>2, <3>3, <3>4
  <2> QED
    BY <2>2, <2>3
<1>8. CASE UNCHANGED vars
  BY <1>8 DEF vars
<1> QED
  BY <1>1, <1>2, <1>3, <1>4, <1>5, <1>6, <1>7, <1>8, Steps

\* What was received never runs ahead of what was said.
LEMMA ReplyStep ==
    ASSUME ControlInv, ReplyInv, [Next]_vars
    PROVE  ReplyInv'
<1>1. CASE Resume \/ Parsed \/ ParseFails \/ Timeout \/ ChildExits \/ KillTimer
           \/ (\E a \in agents : AgentEnds(a))
  BY <1>1 DEF Resume, Parsed, ParseFails, Timeout, ChildExits, KillTimer, AgentEnds, ReplyInv
<1>2. CASE Classify \/ RunAgentPhase
  <2>1. said' = 0 /\ got' = 0 /\ valid' \in BOOLEAN
    BY <1>2 DEF Classify, RunAgentPhase, Invoke
  <2> QED
    BY <2>1, Consts DEF ReplyInv
<1>3. CASE ParsedNothing
  BY <1>3 DEF ParsedNothing, ReplyInv
<1>4. CASE Say \/ Receive
  BY <1>4, Consts DEF Say, Receive, ReplyInv
<1>5. CASE Spawn \/ Prompt \/ Query
  BY <1>5 DEF Spawn, Prompt, Query, ReplyInv
<1>7. CASE Returning
  <2>1. PICK signal \in {"none", "timeout", "budget"}, received \in 0..said,
             usages \in SUBSET {Absent, Priced, Unpriced} : Return(signal, received, usages)
    BY <1>7 DEF Returning
  <2>2. CASE ~Nudge(signal) \/ Extract(signal, received)
    <3>1. got' = received /\ at' = "none" /\ UNCHANGED <<said, valid>>
      BY <2>1, <2>2 DEF Return
    <3> QED
      BY <3>1 DEF ReplyInv
  <2>3. CASE Nudge(signal) /\ ~Extract(signal, received)
    <3>1. said' = 0 /\ got' = 0 /\ valid' \in BOOLEAN
      BY <2>1, <2>3 DEF Return, Invoke
    <3> QED
      BY <3>1, Consts DEF ReplyInv
  <2> QED
    BY <2>2, <2>3
<1>8. CASE UNCHANGED vars
  BY <1>8 DEF vars, ReplyInv
<1> QED
  BY <1>1, <1>2, <1>3, <1>4, <1>5, <1>7, <1>8, Steps

\* The control of a phase and its reply, in every reachable state.
THEOREM ControlHolds == Spec => [](ControlInv /\ ReplyInv)
<1>1. Init => ControlInv /\ ReplyInv
  <2> SUFFICES ASSUME Init PROVE ControlInv /\ ReplyInv
    OBVIOUS
  <2>1. phases \in 0..MaxPhases /\ try \in 0..2 /\ said \in 0..Chunks /\ got \in 0..said
    BY Consts DEF Init
  <2>2. aborted \in BOOLEAN /\ valid \in BOOLEAN /\ cut = FALSE
    BY Zenon DEF Init
  <2> QED
    BY <2>1, <2>2 DEF Init, ControlInv, KilledNotRetried, ReplyInv, Ats
<1>2. (ControlInv /\ ReplyInv) /\ [Next]_vars => (ControlInv /\ ReplyInv)'
  BY ControlStep, ReplyStep
<1> QED
  BY <1>1, <1>2, PTL DEF Spec

\* The nudge does not follow an attempt that was aborted or hit its budget, on whichever
\* path the runner of the backend came to report it, but for an opencode server that
\* answers with an error envelope after the abort: that attempt has reported no usage.
THEOREM KilledStaysKilled == Spec => []KilledNotRetried
<1>1. ControlInv => KilledNotRetried
  BY DEF ControlInv
<1> QED
  BY <1>1, ControlHolds, PTL

\* A conforming reply that was finished before the agent ended is accepted: a runner that
\* leaves a child or a stream has read all that was said, and reads it before the signal.
THEOREM AnswerTaken == Spec => NoReplyWasted
<1>1. ControlInv /\ ReplyInv /\ [Next]_vars
        => [(at \in {"child", "stream"} /\ at' # at /\ said = Chunks /\ valid)
              => phase' = "ok"]_vars
  <2> SUFFICES ASSUME ControlInv, ReplyInv, [Next]_vars, at \in {"child", "stream"},
                      at' # at, said = Chunks, valid
               PROVE  phase' = "ok"
    OBVIOUS
  <2>1. CASE Resume \/ Say \/ Receive \/ ChildExits \/ KillTimer \/ Timeout
             \/ (\E a \in agents : AgentEnds(a)) \/ UNCHANGED vars
    BY <2>1 DEF Resume, Say, Receive, ChildExits, KillTimer, Timeout, AgentEnds, vars
  <2>2. CASE Classify \/ RunAgentPhase
    BY <2>2 DEF Classify, RunAgentPhase, ControlInv
  <2>3. CASE Parsed \/ ParsedNothing \/ ParseFails \/ Spawn \/ Query \/ Prompt
    BY <2>3 DEF Parsed, ParsedNothing, ParseFails, Spawn, Query, Prompt
  <2>4. CASE Returning
    <3>1. PICK signal \in {"none", "timeout", "budget"}, received \in 0..said,
               usages \in SUBSET {Absent, Priced, Unpriced} :
            received = said /\ Return(signal, received, usages)
      BY <2>4 DEF Returning
    <3>2. Extract(signal, received)
      BY <3>1 DEF Extract
    <3> QED
      BY <3>1, <3>2 DEF Return
  <2> QED
    BY <2>1, <2>2, <2>3, <2>4, Steps
<1> QED
  BY <1>1, ControlHolds, PTL DEF Spec, NoReplyWasted

-----------------------------------------------------------------------------
(* Agents *)

\* While a phase runs, its attempt is one of those the run may make.
LEMMA AttemptType ==
    ASSUME ControlInv, at # "none"
    PROVE  Attempt \in Attempts
<1>1. phases \in 1..MaxPhases /\ try \in {1, 2}
  BY Consts DEF ControlInv
<1> QED
  BY <1>1 DEF Attempt, Attempts

\* A runner of a child or of a stream returns when its agent is gone; entering runPhase
\* finds none at work.
LEMMA AgentStep ==
    ASSUME ControlInv, ReplyInv, AgentInv, [Next]_vars
    PROVE  AgentInv'
<1>1. CASE Resume \/ Parsed \/ ParseFails \/ Say \/ Receive \/ UNCHANGED vars
  BY <1>1 DEF Resume, Parsed, ParseFails, Say, Receive, vars, AgentInv, Attempt
<1>2. CASE Classify \/ RunAgentPhase \/ ParsedNothing
  <2>1. at \in {"none", "parse"} /\ at' \in {"enter", "parse"} /\ UNCHANGED <<backend, child, agents>>
    BY <1>2 DEF Classify, RunAgentPhase, ParsedNothing, Invoke, ControlInv
  <2> QED
    BY <2>1 DEF AgentInv
<1>3. CASE Timeout \/ KillTimer
  <2>1. /\ UNCHANGED <<backend, phases, try, at, agents>>
        /\ child' = child \/ (child \in {"live", "term"} /\ child' \in {"term", "kill"})
    BY <1>3 DEF Timeout, KillTimer
  <2> QED
    BY <2>1 DEF AgentInv, Attempt
<1>4. CASE Spawn \/ Query \/ Prompt
  <2>1. /\ at = "enter" /\ agents' = agents \cup {Attempt}
        /\ UNCHANGED <<backend, phases, try>>
        /\ \/ backend = "pi" /\ at' = "child" /\ child' = "live"
           \/ backend \in {"claude", "codex"} /\ at' = "stream" /\ UNCHANGED child
           \/ backend = "opencode" /\ at' = "prompt" /\ UNCHANGED child
    BY <1>4 DEF Spawn, Query, Prompt
  <2>2. Attempt \in Attempts
    BY <2>1, AttemptType
  <2>3. Attempt' = Attempt
    BY <2>1 DEF Attempt
  <2> QED
    BY <2>1, <2>2, <2>3 DEF AgentInv
<1>5. CASE ChildExits
  <2>1. /\ child \in {"live", "term", "kill"} /\ child' = "exited"
        /\ agents' = agents \ {Attempt} /\ UNCHANGED <<backend, phases, try, at>>
    BY <1>5 DEF ChildExits
  <2>2. Attempt' = Attempt
    BY <2>1 DEF Attempt
  <2> QED
    BY <2>1, <2>2 DEF AgentInv
<1>6. CASE \E a \in agents : AgentEnds(a)
  BY <1>6 DEF AgentEnds, AgentInv
<1>7. CASE \/ SpawnFails \/ ChildCloses \/ StreamEnds
           \/ PromptNever \/ PromptDone \/ PromptFails \/ PromptAborted
  <2>1. at' \in {"none", "enter"} /\ UNCHANGED <<backend, child>>
    BY <1>7, RunnersReturn DEF Returning, Return, Invoke
  <2>2. agents' \subseteq agents
    BY <1>7 DEF SpawnFails, ChildCloses, StreamEnds, PromptNever, PromptDone, PromptFails,
                PromptAborted
  <2>3. child \notin {"live", "term", "kill"}
    BY <1>7 DEF SpawnFails, ChildCloses, StreamEnds, PromptNever, PromptDone, PromptFails,
                PromptAborted, AgentInv
  <2>4. backend # "opencode" => agents' = {}
    BY <1>7 DEF SpawnFails, ChildCloses, StreamEnds, PromptNever, PromptDone, PromptFails,
                PromptAborted, AgentInv
  <2> QED
    BY <2>1, <2>2, <2>3, <2>4 DEF AgentInv
<1> QED
  BY <1>1, <1>2, <1>3, <1>4, <1>5, <1>6, <1>7 DEF Next

\* The agents at work, in every reachable state.
LEMMA AgentInvHolds == Spec => []AgentInv
<1>1. Init => AgentInv
  BY DEF Init, AgentInv
<1>2. (ControlInv /\ ReplyInv) /\ AgentInv /\ [Next]_vars => AgentInv'
  BY AgentStep
<1> QED
  BY <1>1, <1>2, ControlHolds, PTL DEF Spec

\* Two agents never edit the tree at once, whatever is timed out, killed, nudged or run
\* next; opencode's server is excepted, whose agents the runner cannot end.
THEOREM AgentsDoNotOverlap == Spec => []OneAgent
<1>1. AgentInv => OneAgent
  <2> SUFFICES ASSUME AgentInv, backend # "opencode" PROVE Cardinality(agents) <= 1
    BY DEF OneAgent
  <2>1. agents \subseteq {Attempt}
    BY DEF AgentInv
  <2>2. IsFiniteSet({Attempt}) /\ Cardinality({Attempt}) = 1
    BY FS_Singleton
  <2> QED
    BY <2>1, <2>2, FS_Subset
<1> QED
  BY <1>1, AgentInvHolds, PTL

-----------------------------------------------------------------------------
(* The cost *)

\* What an attempt reports is a usage, and a whole one.
LEMMA ReportType ==
    ASSUME ControlInv, at # "none", NEW u \in {Absent, Priced, Unpriced}
    PROVE  u \in Usages /\ (u.known <=> u # Unpriced)
<1>1. Attempt \in (1..MaxPhases) \X {1, 2}
  BY AttemptType DEF Attempts
<1>2. Absent \in Usages /\ Priced \in Usages /\ Unpriced \in Usages
  BY <1>1 DEF Usages, Absent, Priced, Unpriced
<1>3. Absent.known = TRUE /\ Priced.known = TRUE /\ Unpriced.known = FALSE
  BY DEF Absent, Priced, Unpriced
<1> QED
  BY <1>2, <1>3

\* mergeUsage keeps a sum whole.
LEMMA MergeWhole ==
    ASSUME NEW a \in Usages, NEW reports \in SUBSET Usages, Whole(a, reports),
           NEW u \in Usages, u.known <=> u # Unpriced
    PROVE  MergeUsage(a, u) \in Usages /\ Whole(MergeUsage(a, u), reports \cup {u})
<1>1. CASE ~(a.known /\ u.known)
  <2>1. MergeUsage(a, u) = Unpriced
    BY <1>1 DEF MergeUsage
  <2> QED
    BY <2>1 DEF Unpriced, Usages, Whole
<1>2. CASE a.known /\ u.known
  <2>1. /\ MergeUsage(a, u) = [known |-> TRUE, of |-> a.of \cup u.of]
    BY <1>2 DEF MergeUsage
  <2>2. MergeUsage(a, u) \in Usages
    BY <2>1 DEF Usages
  <2>3. UNION {v.of : v \in reports \cup {u}} = (UNION {v.of : v \in reports}) \cup u.of
    OBVIOUS
  <2>4. MergeUsage(a, u).of = a.of \cup u.of
    BY <2>1
  <2>5. Unpriced \notin reports \cup {u} /\ a.of = UNION {v.of : v \in reports}
    BY <1>2 DEF Whole
  <2> QED
    BY <2>2, <2>3, <2>4, <2>5 DEF Whole
<1> QED
  BY <1>1, <1>2

\* recordUsage keeps the total whole, and so does a state that is saved.
LEMMA AccountWhole ==
    ASSUME CostInv, NEW usage \in Usages, NEW reports \in SUBSET Usages,
           Whole(usage, reports), Account(usage, reports), UNCHANGED <<spent, bill>>
    PROVE  CostInv'
<1>1. total' = RecordUsage(usage) /\ ledger' = ledger \cup reports
      /\ disk' \in {disk, [total |-> total', ledger |-> ledger']}
  BY DEF Account
<1>2. total \in Usages /\ Whole(total, ledger) /\ ledger \subseteq Usages
  BY DEF CostInv
<1>3. UNION {v.of : v \in ledger \cup reports}
        = (UNION {v.of : v \in ledger}) \cup (UNION {v.of : v \in reports})
  OBVIOUS
<1>4. total' \in Usages /\ Whole(total', ledger')
  <2>1. CASE ~usage.known
    <3>1. total' = Unpriced
      BY <1>1, <2>1 DEF RecordUsage
    <3> QED
      BY <3>1 DEF Unpriced, Usages, Whole
  <2>2. CASE usage.known /\ ~total.known
    <3>1. total' = total
      BY <1>1, <2>2 DEF RecordUsage
    <3> QED
      BY <1>2, <2>2, <3>1 DEF Whole
  <2>3. CASE usage.known /\ total.known
    <3>1. /\ usage.of = UNION {v.of : v \in reports} /\ Unpriced \notin reports
          /\ total.of = UNION {v.of : v \in ledger} /\ Unpriced \notin ledger
      BY <1>2, <2>3 DEF Whole
    <3>2. total' \in Usages /\ total'.of = total.of \cup usage.of
      BY <1>1, <1>2, <2>3 DEF RecordUsage, Usages
    <3> QED
      BY <1>1, <1>3, <3>1, <3>2 DEF Whole
  <2> QED
    BY <2>1, <2>2, <2>3
<1>5. ledger' \subseteq Usages
  BY <1>1, <1>2
<1>6. disk' \in [total : Usages, ledger : SUBSET Usages] /\ Whole(disk'.total, disk'.ledger)
  BY <1>1, <1>4, <1>5 DEF CostInv
<1>7. Unpriced' = Unpriced /\ Usages' = Usages
  BY DEF Unpriced, Usages
<1> QED
  BY <1>4, <1>5, <1>6, <1>7 DEF CostInv, Whole

\* Every step keeps the sums whole.
LEMMA CostStep ==
    ASSUME ControlInv, ReplyInv, CostInv, [Next]_vars
    PROVE  CostInv'
<1>0. ASSUME UNCHANGED costVars PROVE CostInv'
  BY <1>0 DEF CostInv, Whole, Unpriced, Usages
<1>1. CASE ParseFails \/ Timeout \/ Say \/ Receive \/ Spawn \/ ChildExits \/ KillTimer
           \/ Query \/ Prompt \/ (\E a \in agents : AgentEnds(a)) \/ UNCHANGED vars
  BY <1>0, <1>1 DEF ParseFails, Timeout, Say, Receive, Spawn, ChildExits, KillTimer, Query,
                    Prompt, AgentEnds, vars
<1>2. CASE Resume
  BY <1>2 DEF Resume, CostInv, Whole, Unpriced, Usages
<1>3. CASE Classify \/ RunAgentPhase
  <2>1. spent' = Absent /\ bill' = {} /\ UNCHANGED <<total, disk, ledger>>
    BY <1>3 DEF Classify, RunAgentPhase
  <2> QED
    BY <2>1 DEF CostInv, Whole, Absent, Unpriced, Usages
<1>4. ASSUME NEW u \in {Absent, Priced, Unpriced}, at # "none", spent' = u, bill' = {u},
             UNCHANGED <<total, disk, ledger>>
      PROVE  CostInv'
  <2>1. u \in Usages /\ (u.known <=> u # Unpriced)
    BY <1>4, ReportType
  <2>2. Whole(u, {u})
    <3>1. UNION {v.of : v \in {u}} = u.of
      OBVIOUS
    <3> QED
      BY <2>1, <3>1 DEF Whole
  <2> QED
    BY <1>4, <2>1, <2>2 DEF CostInv, Whole, Unpriced, Usages
<1>5. CASE ParsedNothing
  BY <1>4, <1>5 DEF ParsedNothing
<1>6. CASE Parsed
  <2>1. PICK u \in {Absent, Priced} : Account(CostUsd(MergeUsage(spent, u)), bill \cup {u})
    BY <1>6 DEF Parsed
  <2>2. at # "none" /\ UNCHANGED <<spent, bill>>
    BY <1>6 DEF Parsed
  <2>3. u \in Usages /\ (u.known <=> u # Unpriced)
    BY <2>2, ReportType
  <2>4. /\ MergeUsage(spent, u) \in Usages /\ Whole(MergeUsage(spent, u), bill \cup {u})
        /\ bill \cup {u} \in SUBSET Usages
    BY <2>3, MergeWhole DEF CostInv
  <2>5. /\ CostUsd(MergeUsage(spent, u)) \in Usages
        /\ Whole(CostUsd(MergeUsage(spent, u)), bill \cup {u})
    BY <2>4 DEF CostUsd, Unpriced, Usages, Whole
  <2> QED
    BY <2>1, <2>2, <2>4, <2>5, AccountWhole
<1>7. CASE Returning
  <2>1. PICK signal \in {"none", "timeout", "budget"}, received \in 0..said,
             usages \in SUBSET {Absent, Priced, Unpriced} :
          at # "none" /\ Return(signal, received, usages)
    BY <1>7 DEF Returning
  <2>2. PICK u \in usages :
          \/ Account(MergeUsage(spent, u), bill \cup {u}) /\ UNCHANGED <<spent, bill>>
          \/ UNCHANGED costVars
          \/ spent' = u /\ bill' = {u} /\ UNCHANGED <<total, disk, ledger>>
    BY <2>1 DEF Return
  <2>3. u \in Usages /\ (u.known <=> u # Unpriced)
    BY <2>1, ReportType
  <2>4. /\ MergeUsage(spent, u) \in Usages /\ Whole(MergeUsage(spent, u), bill \cup {u})
        /\ bill \cup {u} \in SUBSET Usages
    BY <2>3, MergeWhole DEF CostInv
  <2> QED
    BY <1>0, <1>4, <2>1, <2>2, <2>4, AccountWhole
<1> QED
  BY <1>1, <1>2, <1>3, <1>5, <1>6, <1>7, Steps

\* The sums, in every reachable state.
LEMMA CostInvHolds == Spec => []CostInv
<1>1. Init => CostInv
  BY DEF Init, CostInv, Whole, Absent, Unpriced, Usages
<1>2. (ControlInv /\ ReplyInv) /\ CostInv /\ [Next]_vars => CostInv'
  BY CostStep
<1> QED
  BY <1>1, <1>2, ControlHolds, PTL DEF Spec

\* A total that is a number has the dollars of every attempt of the phases done that
\* reported any, the one before a nudge included, and none of these was without a price,
\* in whichever order they came, through nudges, lost saves and resumes.
THEOREM TotalIsWhole == Spec => []CostIsWhole
<1>1. CostInv => CostIsWhole
  BY DEF CostInv, Whole, CostIsWhole
<1> QED
  BY <1>1, CostInvHolds, PTL

\* Type correctness.
THEOREM PhaseRunnerTypeCorrect == Spec => []TypeOK
<1>1. (ControlInv /\ ReplyInv) /\ AgentInv /\ CostInv => TypeOK
  BY DEF ControlInv, ReplyInv, AgentInv, CostInv, TypeOK, Ats, Attempts
<1> QED
  BY <1>1, ControlHolds, AgentInvHolds, CostInvHolds, PTL
=============================================================================
