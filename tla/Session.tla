------------------------------- MODULE Session -------------------------------
(***************************************************************************)
(* An MxSession (session.ts) with its heartbeat (heartbeat.ts), and the    *)
(* daemon's view of the agent it registers.                                *)
(*                                                                         *)
(* Every request goes through the unified client.  A request whose caller  *)
(* has given up may still be carried out ("late"): that is all Transport   *)
(* promises, and it is what makes closing a session delicate.              *)
(***************************************************************************)
EXTENDS Naturals

CONSTANT MaxFailures    \* requests that fail at the caller

ASSUME FailuresAssumption == MaxFailures \in Nat

Kinds == {"register", "beat", "deregister"}

VARIABLES
    options,    \* reregister: a beat is agent.register; deregister: a method is configured
    phase,      \* #state; "idle" before openSession, "failed" when it threw, "dead" with the process
    timer,      \* the heartbeat's schedule runs
    inFlight,   \* a tick awaits its answer
    current,    \* [Kinds -> {"none", "sent", "done"}]: the request its caller awaits
    late,       \* [Kinds -> Nat]: requests nobody awaits that may still be carried out
    listed,     \* what agent.list says of the agent: "absent", "active" or "stale"
    failures

sessionVars == <<options, phase, timer, inFlight, current, late, listed, failures>>

SessionInit ==
    /\ options \in [reregister : BOOLEAN, deregister : BOOLEAN]
    /\ phase = "idle"
    /\ timer = FALSE /\ inFlight = FALSE
    /\ current = [k \in Kinds |-> "none"]
    /\ late = [k \in Kinds |-> 0]
    /\ listed = "absent"
    /\ failures = 0

-----------------------------------------------------------------------------
(* Requests *)

Sends(k) == current' = [current EXCEPT ![k] = "sent"]

\* The answer reaches the caller.
Answered(k) == /\ current[k] = "done"
               /\ current' = [current EXCEPT ![k] = "none"]
               /\ UNCHANGED <<late, failures>>

\* The caller's promise rejects: the request never ran, ran, or may run later.
Fails(k) == /\ current[k] # "none" /\ failures < MaxFailures
            /\ failures' = failures + 1
            /\ current' = [current EXCEPT ![k] = "none"]
            /\ \/ UNCHANGED late
               \/ current[k] = "sent" /\ late' = [late EXCEPT ![k] = @ + 1]

\* What carrying out a request does to the agent's record.
Effect(k) == CASE k = "register" -> "active"
               [] k = "beat" -> IF options.reregister \/ listed # "absent" THEN "active" ELSE "absent"
               [] k = "deregister" -> "absent"

DaemonExecute(k) ==
    /\ current[k] = "sent"
    /\ current' = [current EXCEPT ![k] = "done"]
    /\ listed' = Effect(k)
    /\ UNCHANGED <<options, phase, timer, inFlight, late, failures>>

DaemonExecuteLate(k) ==
    /\ late[k] > 0
    /\ late' = [late EXCEPT ![k] = @ - 1]
    /\ listed' = Effect(k)
    /\ UNCHANGED <<options, phase, timer, inFlight, current, failures>>

\* last_seen_ts ages out of the staleness window.
Decay == /\ listed = "active"
         /\ listed' = "stale"
         /\ UNCHANGED <<options, phase, timer, inFlight, current, late, failures>>

-----------------------------------------------------------------------------
(* openSession *)

OpenSession ==
    /\ phase = "idle"
    /\ phase' = "opening"
    /\ Sends("register")
    /\ UNCHANGED <<options, timer, inFlight, late, listed, failures>>

\* parseAgentState accepts the answer: the heartbeat starts.
Registered ==
    /\ phase = "opening"
    /\ Answered("register")
    /\ phase' = "active" /\ timer' = TRUE
    /\ UNCHANGED <<options, inFlight, listed>>

\* The call or parseAgentState throws: no heartbeat, the own client is closed.
OpenFails ==
    /\ phase = "opening"
    /\ Fails("register")
    /\ phase' = "failed"
    /\ UNCHANGED <<options, timer, inFlight, listed>>

-----------------------------------------------------------------------------
(* startHeartbeat *)

\* The interval fires; while a tick is under way it does nothing.
HeartbeatTick ==
    /\ timer /\ ~inFlight
    /\ inFlight' = TRUE
    /\ Sends("beat")
    /\ UNCHANGED <<options, phase, timer, late, listed, failures>>

TickOk ==
    /\ inFlight /\ Answered("beat")
    /\ inFlight' = FALSE
    /\ UNCHANGED <<options, phase, timer, listed>>

\* Faulty variant: a tick that failed is never over.
TickFailsForGood ==
    /\ inFlight /\ Fails("beat")
    /\ UNCHANGED <<options, phase, timer, inFlight, listed>>

TickFails ==
    /\ inFlight /\ Fails("beat")
    /\ inFlight' = FALSE
    /\ UNCHANGED <<options, phase, timer, listed>>

-----------------------------------------------------------------------------
(* close *)

\* Faulty variant: the heartbeat goes on.
CloseOnly ==
    /\ phase = "active"
    /\ phase' = "closing"
    /\ IF options.deregister THEN Sends("deregister") ELSE UNCHANGED current
    /\ UNCHANGED <<options, timer, inFlight, late, listed, failures>>

\* The heartbeat stops; a tick under way is left alone.
Close ==
    /\ phase = "active"
    /\ phase' = "closing" /\ timer' = FALSE
    /\ IF options.deregister THEN Sends("deregister") ELSE UNCHANGED current
    /\ UNCHANGED <<options, inFlight, late, listed, failures>>

\* A failure of the deregister method is logged and close goes on.
Deregistered ==
    /\ phase = "closing"
    /\ Answered("deregister") \/ Fails("deregister")
    /\ UNCHANGED <<options, phase, timer, inFlight, listed>>

\* The end of close().  Closing the client rejects a tick under way, unless the
\* client is not the session's own or the tick is between two attempts.
CloseClient ==
    /\ phase = "closing" /\ current["deregister"] = "none"
    /\ phase' = "closed"
    /\ \/ UNCHANGED <<inFlight, current, late>>
       \/ /\ inFlight /\ inFlight' = FALSE
          /\ current' = [current EXCEPT !["beat"] = "none"]
          /\ \/ UNCHANGED late
             \/ current["beat"] = "sent" /\ late' = [late EXCEPT !["beat"] = @ + 1]
    /\ UNCHANGED <<options, timer, listed, failures>>

\* The process ends, whatever it is doing: what it sent may still be carried out.
ProcessEnds ==
    /\ phase' = "dead" /\ timer' = FALSE /\ inFlight' = FALSE
    /\ current' = [k \in Kinds |-> "none"]
    /\ late' = [k \in Kinds |-> late[k] + IF current[k] = "sent" THEN 1 ELSE 0]
    /\ UNCHANGED <<options, listed, failures>>

SessionStep ==
    \/ OpenSession \/ Registered \/ OpenFails
    \/ HeartbeatTick \/ TickOk \/ TickFails
    \/ Deregistered \/ CloseClient
    \/ Decay
    \/ \E k \in Kinds : DaemonExecute(k) \/ DaemonExecuteLate(k)

\* Timers fire, a client's call settles, close() runs on, the daemon serves what
\* it is sent and lets an agent it does not hear from go stale.
SessionFairness ==
    /\ WF_sessionVars(OpenSession)
    /\ WF_sessionVars(Registered)
    /\ WF_sessionVars(HeartbeatTick)
    /\ WF_sessionVars(TickOk)
    /\ WF_sessionVars(Deregistered)
    /\ WF_sessionVars(CloseClient)
    /\ WF_sessionVars(Decay)
    /\ \A k \in Kinds : WF_sessionVars(DaemonExecute(k)) /\ WF_sessionVars(DaemonExecuteLate(k))

-----------------------------------------------------------------------------
(* Properties *)

\* While the session is open the daemon lists the agent as active again and
\* again: a failed or slow tick may let it go stale, the next one restores it.
StaysActive == phase = "active" ~> (listed = "active" \/ phase # "active")

=============================================================================
