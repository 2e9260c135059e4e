---------------------------- MODULE OpencodeRunner ----------------------------
(***************************************************************************)
(* adw_sdlc/src/runners/runner-opencode.ts: the `opencode serve` that the  *)
(* runner starts on demand and shares among its calls, its teardown by     *)
(* stop() at any time, and the transcript each call gathers from the       *)
(* event stream and from the answer to its prompt.                         *)
(*                                                                         *)
(* A start is one run of spawnServer, named by its number; the process of  *)
(* its current bind attempt is the only one of its processes that can be   *)
(* alive.  A reply is one text part of Chunks pieces; piece i is i, and    *)
(* the text of the user's prompt, which the bus replays, is 0.             *)
(***************************************************************************)
EXTENDS Naturals, Sequences, FiniteSets

CONSTANTS
    Calls,              \* the calls of runPhase, each made once
    BindAttempts,       \* SERVER_BIND_ATTEMPTS
    Chunks,             \* bound: pieces of text in a reply
    MaxStarts,          \* bound: starts of the server
    MaxStops,           \* bound: calls of stop()
    MaxLost             \* bound: events the stream drops

ASSUME OpencodeRunnerAssumption ==
    /\ {BindAttempts, Chunks} \subseteq Nat \ {0}
    /\ {MaxStarts, MaxStops, MaxLost} \subseteq Nat

VARIABLES
    server, starting,   \* this.server and this.starting: a start, or 0 for null
    starts, stops,      \* how many so far
    stopped,            \* auxiliary: the starts before the last stop()
    start,              \* start -> "none", "boot", "ready" or "failed"
    binds,              \* start -> the bind attempts it has made
    proc,               \* start -> the process: "none", "up", "term" (signalled), "dead"
    pc, on, aborted,    \* call -> where it is, the start it uses, its signal
    said, told,         \* call -> the agent's progress, and what the server has announced
    tee, bus, known,    \* call -> its subscription, the events on their way, assistantMessages
    text, written,      \* call -> Transcript.text, and the length recorded for the part
    lost

serverVars == <<server, starting, starts, stops, stopped, start, binds, proc>>
agentVars == <<said, told>>
teeVars == <<tee, known, text, written>>
vars == <<server, starting, starts, stops, stopped, start, binds, proc, pc, on, aborted, said,
          told, tee, bus, known, text, written, lost>>

Starts == 1..MaxStarts
Reply == [i \in 1..Chunks |-> i]

Init ==
    /\ server = 0 /\ starting = 0 /\ starts = 0 /\ stops = 0 /\ stopped = {}
    /\ start = [s \in Starts |-> "none"]
    /\ binds = [s \in Starts |-> 0]
    /\ proc = [s \in Starts |-> "none"]
    /\ pc = [c \in Calls |-> "idle"]
    /\ on = [c \in Calls |-> 0]
    /\ aborted = [c \in Calls |-> FALSE]
    /\ said = [c \in Calls |-> 0]
    /\ told = [c \in Calls |-> "nothing"]
    /\ tee = [c \in Calls |-> "off"]
    /\ bus = [c \in Calls |-> <<>>]
    /\ known = [c \in Calls |-> FALSE]
    /\ text = [c \in Calls |-> <<>>]
    /\ written = [c \in Calls |-> 0]
    /\ lost = 0

-----------------------------------------------------------------------------
(* ensureServer and stop *)

\* Begin a start.
Begin(c) ==
    /\ starts < MaxStarts
    /\ starts' = starts + 1 /\ starting' = starts + 1
    /\ start' = [start EXCEPT ![starts + 1] = "boot"]
    /\ binds' = [binds EXCEPT ![starts + 1] = 1]
    /\ proc' = [proc EXCEPT ![starts + 1] = "up"]
    /\ pc' = [pc EXCEPT ![c] = "start"]
    /\ on' = [on EXCEPT ![c] = starts + 1]
    /\ UNCHANGED <<server, stops, stopped>>

\* Faulty variant: a call does not join the start under way.
EnsureServerAlone(c) ==
    \/ /\ server # 0
       /\ pc' = [pc EXCEPT ![c] = "create"]
       /\ on' = [on EXCEPT ![c] = server]
       /\ UNCHANGED serverVars
    \/ server = 0 /\ Begin(c)

\* ensureServer: use the server, join the start under way, or begin a start.
EnsureServer(c) ==
    \/ /\ server # 0
       /\ pc' = [pc EXCEPT ![c] = "create"]
       /\ on' = [on EXCEPT ![c] = server]
       /\ UNCHANGED serverVars
    \/ /\ server = 0 /\ starting # 0
       /\ pc' = [pc EXCEPT ![c] = "start"]
       /\ on' = [on EXCEPT ![c] = starting]
       /\ UNCHANGED serverVars
    \/ server = 0 /\ starting = 0 /\ Begin(c)

RunPhase(c) ==
    /\ pc[c] = "idle"
    /\ EnsureServer(c)
    /\ UNCHANGED <<aborted, agentVars, teeVars, bus, lost>>

\* The calls that await a start go on to `next`; an aborted one has its next fetch rejected.
Wake(s, next) ==
    pc' = [c \in Calls |-> IF pc[c] = "start" /\ on[c] = s
                           THEN IF aborted[c] THEN "failed" ELSE next
                           ELSE pc[c]]

\* The start rejects, with the fate of its process.
StartFails(s, fate) ==
    /\ start' = [start EXCEPT ![s] = "failed"]
    /\ starting' = IF starting = s THEN 0 ELSE starting
    /\ proc' = [proc EXCEPT ![s] = fate]
    /\ Wake(s, "failed")
    /\ UNCHANGED <<server, binds>>

\* Faulty variant: a start that stop() has overtaken is installed all the same.
InstallAlways(s) ==
    /\ server' = s
    /\ start' = [start EXCEPT ![s] = "ready"]
    /\ Wake(s, "create")
    /\ UNCHANGED <<starting, binds, proc>>

\* Installed, unless stop() ran in the meantime: then the process is signalled.
Install(s) ==
    \/ /\ starting = s
       /\ server' = s
       /\ start' = [start EXCEPT ![s] = "ready"]
       /\ Wake(s, "create")
       /\ UNCHANGED <<starting, binds, proc>>
    \/ starting # s /\ StartFails(s, "term")

\* The start is still waiting for its banner.
Booting(s) == start[s] = "boot" /\ proc[s] = "up"

\* The readiness banner.
Banner(s) ==
    /\ Booting(s)
    /\ Install(s)
    /\ UNCHANGED <<starts, stops, stopped, on, aborted, agentVars, teeVars, bus, lost>>

\* The process exits before its banner: another port, until the attempts are used up.
ExitBeforeReady(s) ==
    /\ Booting(s)
    /\ \/ /\ binds[s] < BindAttempts
          /\ binds' = [binds EXCEPT ![s] = @ + 1]
          /\ UNCHANGED <<server, starting, start, proc, pc>>
       \/ binds[s] = BindAttempts /\ StartFails(s, "dead")
    /\ UNCHANGED <<starts, stops, stopped, on, aborted, agentVars, teeVars, bus, lost>>

\* Faulty variant: only the exit of the process ends the wait.
BannerTimeoutNever(s) == FALSE /\ Booting(s) /\ UNCHANGED vars

\* SERVER_START_TIMEOUT_MS, or a banner without a url.
BannerTimeout(s) ==
    /\ Booting(s)
    /\ StartFails(s, "term")
    /\ UNCHANGED <<starts, stops, stopped, on, aborted, agentVars, teeVars, bus, lost>>

\* No binary, or the 'error' event of the spawn.
SpawnFails(s) ==
    /\ Booting(s)
    /\ StartFails(s, "dead")
    /\ UNCHANGED <<starts, stops, stopped, on, aborted, agentVars, teeVars, bus, lost>>

\* A server dies of its signal, or crashes; this.server keeps naming it.
ServerDies(s) ==
    /\ proc[s] = "term" \/ (start[s] = "ready" /\ proc[s] = "up")
    /\ proc' = [proc EXCEPT ![s] = "dead"]
    /\ UNCHANGED <<server, starting, starts, stops, stopped, start, binds, pc, on, aborted,
                   agentVars, teeVars, bus, lost>>

\* Faulty variant: stop() leaves the start under way alone.
StopServerOnly ==
    /\ stops < MaxStops /\ stops' = stops + 1 /\ stopped' = 1..starts
    /\ server' = 0
    /\ proc' = [s \in Starts |-> IF s = server /\ proc[s] = "up" THEN "term" ELSE proc[s]]
    /\ UNCHANGED <<starting, starts, start, binds, pc, on, aborted, agentVars, teeVars, bus,
                   lost>>

Stop ==
    /\ stops < MaxStops /\ stops' = stops + 1 /\ stopped' = 1..starts
    /\ starting' = 0 /\ server' = 0
    /\ proc' = [s \in Starts |-> IF s = server /\ proc[s] = "up" THEN "term" ELSE proc[s]]
    /\ UNCHANGED <<starts, start, binds, pc, on, aborted, agentVars, teeVars, bus, lost>>

-----------------------------------------------------------------------------
(* runPhase *)

\* events.abort() on the way out: what the stream still holds is given up.
EventsAbort(c) ==
    /\ tee' = [tee EXCEPT ![c] = "over"]
    /\ bus' = [bus EXCEPT ![c] = <<>>]

\* The signal aborts: the request in flight rejects; a start is waited for.
Timeout(c) ==
    /\ pc[c] \in {"start", "create", "prompt"} /\ ~aborted[c]
    /\ aborted' = [aborted EXCEPT ![c] = TRUE]
    /\ pc' = [pc EXCEPT ![c] = IF @ = "start" THEN @ ELSE "failed"]
    /\ IF pc[c] = "start" THEN UNCHANGED <<tee, bus>> ELSE EventsAbort(c)
    /\ UNCHANGED <<serverVars, on, agentVars, known, text, written, lost>>

\* session.create answers; teeEvents and the prompt are on their way.
Create(c) ==
    /\ pc[c] = "create" /\ proc[on[c]] = "up"
    /\ pc' = [pc EXCEPT ![c] = "prompt"]
    /\ UNCHANGED <<serverVars, on, aborted, agentVars, teeVars, bus, lost>>

\* An error from either request.
RequestFails(c) ==
    /\ pc[c] \in {"create", "prompt"}
    /\ pc' = [pc EXCEPT ![c] = "failed"]
    /\ EventsAbort(c)
    /\ UNCHANGED <<serverVars, on, aborted, agentVars, known, text, written, lost>>

-----------------------------------------------------------------------------
(* Transcript *)

\* Faulty variant: a delta is written without being counted.
DeltaUncounted(c, n) ==
    /\ text' = [text EXCEPT ![c] = Append(@, n)]
    /\ UNCHANGED written

Delta(c, n) ==
    /\ text' = [text EXCEPT ![c] = Append(@, n)]
    /\ written' = [written EXCEPT ![c] = @ + 1]

\* The unseen tail of the part's first n pieces, unseen by its length.
FullText(c, n) ==
    /\ text' = [text EXCEPT ![c] = @ \o SubSeq(Reply, written[c] + 1, n)]
    /\ written' = [written EXCEPT ![c] = IF n > @ THEN n ELSE @]

\* The answer to the prompt: its parts are replayed.
PromptDone(c) ==
    /\ pc[c] = "prompt" /\ said[c] = Chunks /\ proc[on[c]] = "up"
    /\ pc' = [pc EXCEPT ![c] = "done"]
    /\ FullText(c, Chunks)
    /\ EventsAbort(c)
    /\ UNCHANGED <<serverVars, on, aborted, agentVars, known, lost>>

Subscribe(c) ==
    /\ pc[c] = "prompt" /\ tee[c] = "off" /\ proc[on[c]] = "up"
    /\ tee' = [tee EXCEPT ![c] = "on"]
    /\ UNCHANGED <<serverVars, pc, on, aborted, agentVars, bus, known, text, written, lost>>

\* teeEvents: parts of messages not known to be the assistant's are passed over.
TeeNext(c) ==
    /\ pc[c] = "prompt" /\ bus[c] # <<>>
    /\ bus' = [bus EXCEPT ![c] = Tail(@)]
    /\ LET e == Head(bus[c]) IN
       \/ e.type = "message" /\ known' = [known EXCEPT ![c] = TRUE] /\ UNCHANGED <<text, written>>
       \/ e.type = "delta" /\ known[c] /\ Delta(c, e.n) /\ UNCHANGED known
       \/ e.type = "part" /\ known[c] /\ FullText(c, e.n) /\ UNCHANGED known
       \/ e.type = "user" /\ UNCHANGED <<known, text, written>>
       \/ e.type \in {"delta", "part"} /\ ~known[c] /\ UNCHANGED <<known, text, written>>
    /\ UNCHANGED <<serverVars, pc, on, aborted, agentVars, tee, lost>>

\* The stream ends or throws: teeEvents is over.  (Failing to subscribe is as never subscribing.)
TeeFails(c) ==
    /\ pc[c] = "prompt" /\ tee[c] = "on"
    /\ EventsAbort(c)
    /\ UNCHANGED <<serverVars, pc, on, aborted, agentVars, known, text, written, lost>>

-----------------------------------------------------------------------------
(* The server at work on a prompt, and its event stream (external) *)

\* A subscriber receives the events in order; the events before it subscribed are not replayed.
Publish(c, type, n) ==
    bus' = [bus EXCEPT ![c] = IF tee[c] = "on" THEN Append(@, [type |-> type, n |-> n]) ELSE @]

Working(c) == pc[c] = "prompt" /\ proc[on[c]] = "up"

\* The user's message, then message.updated, then the deltas of the part, then the whole part.
Announce(c) ==
    /\ Working(c)
    /\ \/ /\ told[c] = "nothing" /\ told' = [told EXCEPT ![c] = "user"]
          /\ Publish(c, "user", 0)
       \/ /\ told[c] = "user" /\ told' = [told EXCEPT ![c] = "message"]
          /\ Publish(c, "message", 0)
       \/ /\ told[c] = "message" /\ said[c] = Chunks /\ told' = [told EXCEPT ![c] = "part"]
          /\ Publish(c, "part", Chunks)
    /\ UNCHANGED <<serverVars, pc, on, aborted, said, teeVars, lost>>

Say(c) ==
    /\ Working(c) /\ told[c] = "message" /\ said[c] < Chunks
    /\ said' = [said EXCEPT ![c] = @ + 1]
    /\ Publish(c, "delta", said[c] + 1)
    /\ UNCHANGED <<serverVars, pc, on, aborted, told, teeVars, lost>>

\* The stream drops an event, as when it reconnects.
LoseEvent(c) ==
    /\ bus[c] # <<>> /\ lost < MaxLost
    /\ lost' = lost + 1
    /\ bus' = [bus EXCEPT ![c] = Tail(@)]
    /\ UNCHANGED <<serverVars, pc, on, aborted, agentVars, teeVars>>

-----------------------------------------------------------------------------

Next ==
    \/ Stop
    \/ \E c \in Calls :
         \/ RunPhase(c) \/ Timeout(c) \/ Create(c) \/ RequestFails(c) \/ PromptDone(c)
         \/ Subscribe(c) \/ TeeNext(c) \/ TeeFails(c) \/ Announce(c) \/ Say(c)
    \/ \E s \in Starts :
         \/ Banner(s) \/ ExitBeforeReady(s) \/ BannerTimeout(s) \/ SpawnFails(s) \/ ServerDies(s)

Spec == Init /\ [][Next]_vars

\* The start timer fires, and a signalled server exits.
FairSpec ==
    /\ Spec
    /\ \A s \in Starts : WF_vars(BannerTimeout(s)) /\ WF_vars(proc[s] = "term" /\ ServerDies(s))

\* With a stream that drops events.
LossySpec == Init /\ [][Next \/ \E c \in Calls : LoseEvent(c)]_vars

-----------------------------------------------------------------------------

\* What the variables hold.
TypeOK ==
    /\ {server, starting, starts} \subseteq 0..MaxStarts
    /\ stops \in 0..MaxStops /\ stopped \subseteq Starts /\ lost \in 0..MaxLost
    /\ start \in [Starts -> {"none", "boot", "ready", "failed"}]
    /\ binds \in [Starts -> 0..BindAttempts]
    /\ proc \in [Starts -> {"none", "up", "term", "dead"}]
    /\ pc \in [Calls -> {"idle", "start", "create", "prompt", "done", "failed"}]
    /\ on \in [Calls -> 0..MaxStarts]
    /\ aborted \in [Calls -> BOOLEAN]
    /\ said \in [Calls -> 0..Chunks]
    /\ told \in [Calls -> {"nothing", "user", "message", "part"}]
    /\ tee \in [Calls -> {"off", "on", "over"}] /\ known \in [Calls -> BOOLEAN]
    /\ \A c \in Calls :
         \A i \in DOMAIN bus[c] : bus[c][i].type \in {"user", "message", "delta", "part"}
    /\ \A c \in Calls : text[c] \in Seq(0..Chunks) /\ written[c] \in 0..Chunks

(* A server process nobody has signalled is the one stop() would signal,   *)
(* or is being started: however starts, failures, calls and stop()         *)
(* interleave, no server outlives its runner unnoticed.                    *)
NoOrphan ==
    \A s \in Starts : proc[s] = "up" => s = server \/ start[s] = "boot"

(* Concurrent callers share one server: of the servers begun since the     *)
(* last stop(), at most one runs that has not been signalled.              *)
OneServer == Cardinality({s \in Starts \ stopped : proc[s] = "up"}) <= 1

(* The final parts are authoritative: the transcript of an answered call   *)
(* is the reply, whatever the event stream brought.                        *)
AnswerWhole == \A c \in Calls : pc[c] = "done" => text[c] = Reply

(* Transcript: deltas, updates and the final parts may all replay the same *)
(* text; what a call has gathered is at every moment a beginning of the    *)
(* reply, without gap or repetition, and an answered call has all of it.   *)
TranscriptFaithful ==
    /\ AnswerWhole
    /\ \A c \in Calls : \A i \in DOMAIN text[c] : text[c][i] = i /\ i <= Chunks

(* A call whose signal aborts returns, even if it was waiting for a server *)
(* that neither comes up nor exits.                                        *)
AbortedReturns == \A c \in Calls : aborted[c] ~> pc[c] \in {"done", "failed"}

(* Every server begun before a stop() comes to its end, the one that was  *)
(* still starting included: it is not resurrected.                         *)
StopTearsDown == \A s \in Starts : s \in stopped ~> proc[s] = "dead"
=============================================================================
