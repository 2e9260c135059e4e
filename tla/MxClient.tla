------------------------------- MODULE MxClient -------------------------------
(***************************************************************************)
(* packages/toolbelt/src/client.ts and retry.ts: the unified client.  It   *)
(* sends a request over IPC or the CLI, retries it, and fails over from    *)
(* IPC to the CLI.  Every transport call is one attempt.  The IPC side is  *)
(* the promise IpcClient is shown to keep (Transport); the CLI side is     *)
(* CliClient itself.                                                       *)
(***************************************************************************)
EXTENDS Naturals

CONSTANTS
    Reqs,           \* the calls the host makes on the unified client
    MaxAttempts,    \* RetryPolicy.maxAttempts
    Retryable,      \* RetryPolicy.retryableCodes
    MaxClose        \* bound: close() calls of the host

ASSUME MxAssumption == /\ MaxAttempts \in Nat \ {0}
                       /\ MaxClose \in Nat

VARIABLES
    preference,     \* #preference
    active,         \* #active
    req,            \* per request: its continuation
    status, executed, child, overflow,      \* the attempts, see CliClient
    conn,           \* the IPC client objects whose socket is connected
    unsent,         \* the IPC attempts that failed with 'connect_failed' before the write
    late,           \* the objects a request still held for later when close() dropped them
    closes          \* how often the host called close()

clientVars == <<preference, active, req>>
callVars == <<status, executed, child, overflow>>
ipcVars == <<conn, unsent, late>>
vars == <<preference, active, req, status, executed, child, overflow,
          conn, unsent, late, closes>>

\* #ipc is built once between two close() calls: the count of those names it.
Objects == 0..MaxClose

\* A request makes at most three series of attempts: sticky, IPC and CLI.
Tries == 1..(3 * MaxAttempts)
Attempts == Reqs \X Tries

Ipc == INSTANCE Transport WITH Calls <- Attempts
Cli == INSTANCE CliClient WITH Calls <- Attempts

Codes == Ipc!Codes \cup {"invalid_args"}
NoReq == [stage |-> "idle", which |-> "ipc", object |-> 0, tries |-> 0, n |-> 0,
          backoff |-> FALSE]

Init == /\ preference \in {"auto", "ipc", "cli"}
        /\ active = "none"
        /\ req = [r \in Reqs |-> NoReq]
        /\ Cli!Init
        /\ conn = {}
        /\ unsent = {}
        /\ late = {}
        /\ closes = 0

Current(r) == <<r, req[r].n>>
Code(r) == status[Current(r)]
Done(r) == req[r].stage \in Codes

Finish(r, code) == /\ req' = [req EXCEPT ![r].stage = code]
                   /\ UNCHANGED callVars

\* transport.call(): the next attempt of r, over w.
Launch(r, w) == LET a == <<r, req[r].n + 1>> IN
    \/ /\ w = "ipc"
       /\ Ipc!Issue(a)
       /\ UNCHANGED <<child, overflow>>
    \/ /\ w = "cli"
       /\ Cli!Spawn(a) \/ Cli!Refuse(a)

\* Faulty variant: the transports are looked up once per call.
BeginFirstObject(r, stage, w) ==
    /\ Launch(r, w)
    /\ req' = [req EXCEPT ![r] = [stage |-> stage, which |-> w, tries |-> 1,
                                  object |-> IF req[r].n = 0 THEN closes ELSE req[r].object,
                                  n |-> req[r].n + 1, backoff |-> FALSE]]

\* #attempt: a fresh series of tries over w, for the caller named by stage.  The
\* transport object is looked up here and kept for the whole series.
Begin(r, stage, w) ==
    /\ Launch(r, w)
    /\ req' = [req EXCEPT ![r] = [stage |-> stage, which |-> w, object |-> closes,
                                  tries |-> 1, n |-> req[r].n + 1, backoff |-> FALSE]]

\* #select: IPC when the socket file is there, else straight to the CLI.  The daemon
\* creates and removes that file at any time, so existsSync may say either.
Select(r) == Begin(r, "ipc", "ipc") \/ Begin(r, "cli", "cli")

\* call(): the credential guard, then the preferred transport, the sticky one,
\* or a fresh selection.
Call(r) ==
    /\ req[r].stage = "idle"
    /\ \/ Finish(r, "invalid_args")
       \/ preference # "auto" /\ Begin(r, "only", preference)
       \/ preference = "auto" /\ active # "none" /\ Begin(r, "sticky", active)
       \/ preference = "auto" /\ active = "none" /\ Select(r)
    /\ UNCHANGED <<preference, active, ipcVars, closes>>

\* The attempt of r has settled.
Settled(r) == req[r].stage # "idle" /\ ~Done(r) /\ ~req[r].backoff /\ Code(r) \in Codes

\* #attempt returns: remember the transport that answered.
Answered(r) ==
    /\ Settled(r) /\ Code(r) = "ok"
    /\ active' = req[r].which
    /\ Finish(r, "ok")
    /\ UNCHANGED <<preference, ipcVars, closes>>

\* withRetry: whether it will run fn again.
Retries(r) == Code(r) \in Retryable /\ req[r].tries < MaxAttempts

RetryLater(r) ==
    /\ Settled(r) /\ Retries(r)
    /\ req' = [req EXCEPT ![r].backoff = TRUE]
    /\ UNCHANGED <<preference, active, callVars, ipcVars, closes>>

\* The backoff sleep is over: the same transport object is called again.
Retry(r) ==
    /\ ~Done(r) /\ req[r].backoff
    /\ Launch(r, req[r].which)
    /\ req' = [req EXCEPT ![r].n = @ + 1, ![r].tries = @ + 1, ![r].backoff = FALSE]
    /\ UNCHANGED <<preference, active, ipcVars, closes>>

\* Faulty variant: a lost connection is taken for an absent daemon.
FailoverCodesWide == {"not_running", "closed"}

\* isNotRunning: the codes on which the client turns to the other transport.
FailoverCodes == {"not_running"}

Failed(r) == Settled(r) /\ Code(r) # "ok" /\ ~Retries(r)

\* #callAuto: the sticky transport is gone, select again.
Reselect(r) ==
    /\ Failed(r) /\ req[r].stage = "sticky" /\ Code(r) \in FailoverCodes
    /\ active' = "none"
    /\ Select(r)
    /\ UNCHANGED <<preference, ipcVars, closes>>

\* #select: IPC is not there, try the CLI.
Failover(r) ==
    /\ Failed(r) /\ req[r].stage = "ipc" /\ Code(r) \in FailoverCodes
    /\ Begin(r, "cli", "cli")
    /\ UNCHANGED <<preference, active, ipcVars, closes>>

\* Any other failure, and every failure of the last resort, goes to the host.
Throw(r) ==
    /\ Failed(r)
    /\ req[r].stage \in {"only", "cli"} \/ Code(r) \notin FailoverCodes
    /\ Finish(r, Code(r))
    /\ UNCHANGED <<preference, active, ipcVars, closes>>

\* The requests that await an answer over the socket of object g.
Pending(g) == {r \in Reqs : /\ req[r].which = "ipc" /\ req[r].object = g
                            /\ req[r].n > 0 /\ Code(r) = "open" /\ g \in conn}

\* r will call object g (again): it awaits g's connection, sleeps, or is about to.
Holds(r, g) == /\ req[r].which = "ipc" /\ req[r].object = g /\ req[r].n > 0 /\ ~Done(r)
               /\ \/ Code(r) = "open" /\ g \notin conn
                  \/ req[r].backoff
                  \/ Settled(r) /\ Retries(r)

\* close(): both transports are closed and dropped.  IpcClient.close() destroys the
\* socket and rejects the calls that are pending on it; CliClient has nothing to close.
Close ==
    /\ closes < MaxClose
    /\ closes' = closes + 1
    /\ active' = "none"
    /\ Ipc!Settle({Current(r) : r \in Pending(closes)}, "closed")
    /\ conn' = conn \ {closes}
    /\ late' = IF \E r \in Reqs : Holds(r, closes) THEN late \cup {closes} ELSE late
    /\ UNCHANGED <<preference, req, child, overflow, unsent>>

-----------------------------------------------------------------------------
(* IpcClient, by its promise *)

\* A call finds no connection and opens one, also on an object that was closed.
Connect(g) ==
    /\ g \notin conn
    /\ \E r \in Reqs : Holds(r, g) /\ Code(r) = "open"
    /\ conn' = conn \cup {g}
    /\ UNCHANGED <<clientVars, callVars, unsent, late, closes>>

\* The peer or the system ends the connection: #failAll.  An 'error' event raises
\* 'connect_failed', also for the requests that were already written.
Disconnect(g) ==
    /\ g \in conn
    /\ conn' = conn \ {g}
    /\ \E code \in {"closed", "connect_failed"} :
         Ipc!Settle({Current(r) : r \in Pending(g)}, code)
    /\ UNCHANGED <<clientVars, child, overflow, unsent, late, closes>>

\* The daemon runs the request: while the call is open over its connection, or
\* later, when the bytes are on their way.
Runs(r, a) ==
    /\ Ipc!Execute(a) /\ a \notin unsent
    /\ status[a] = "open" => r \in Pending(req[r].object)
    /\ UNCHANGED unsent

\* A call settles by itself: no connection, a reply, a bad frame or its timer.
Settles(r, a) ==
    \E code \in Ipc!Codes \ {"closed"} :
        /\ Ipc!Settle({a}, code)
        /\ code \in {"connect_failed", "not_running"} => req[r].object \notin conn
        /\ code \in {"ok", "rpc", "protocol", "frame"} => req[r].object \in conn
        /\ unsent' = IF code = "connect_failed" THEN unsent \cup {a} ELSE unsent

IpcStep(r, i) == LET a == <<r, i>> IN
    /\ status[a] # "idle" /\ child[a] = "none"
    /\ Runs(r, a) \/ Settles(r, a)
    /\ UNCHANGED <<child, overflow, clientVars, conn, late, closes>>

CliStep(a) == Cli!ChildStep(a) /\ UNCHANGED <<clientVars, ipcVars, closes>>

Next == \/ \E r \in Reqs : \/ Call(r) \/ Answered(r) \/ RetryLater(r) \/ Retry(r)
                           \/ Reselect(r) \/ Failover(r) \/ Throw(r)
        \/ Close
        \/ \E g \in Objects : Connect(g) \/ Disconnect(g)
        \/ \E r \in Reqs, i \in Tries : IpcStep(r, i) \/ CliStep(<<r, i>>)

Spec == Init /\ [][Next]_vars

-----------------------------------------------------------------------------
(* Properties *)

TypeOK ==
    /\ preference \in {"auto", "ipc", "cli"}
    /\ active \in {"none", "ipc", "cli"}
    /\ req \in [Reqs -> [stage : {"idle", "only", "sticky", "ipc", "cli"} \cup Codes,
                         which : {"ipc", "cli"}, object : Objects,
                         tries : 0..MaxAttempts,
                         n : {0} \cup Tries, backoff : BOOLEAN]]
    /\ status \in [Attempts -> {"idle", "open"} \cup Codes]
    /\ executed \in [Attempts -> {0, 1}]
    /\ child \in [Attempts -> {"none", "running", "killed", "exited", "failed"}]
    /\ overflow \subseteq Attempts
    /\ conn \subseteq Objects
    /\ unsent \subseteq Attempts
    /\ late \subseteq Objects
    /\ closes \in 0..MaxClose

Ran(r, i) == executed[<<r, i>>] = 1

\* "Retrying a call that might already have executed is a correctness bug"
\* (retry.ts:4): whatever retry and failover do, the daemon runs a request at
\* most once.
AtMostOnce == \A r \in Reqs : \A i, j \in Tries : Ran(r, i) /\ Ran(r, j) => i = j

\* An attempt the client made again though the daemon may have it: the code is one the
\* policy repeats, and neither the connection nor the subprocess failed to start.
Resent(r, i) == /\ i < req[r].n /\ status[<<r, i>>] \in Retryable
                /\ <<r, i>> \notin unsent /\ child[<<r, i>>] # "failed"

\* The one way to run a request twice: an attempt that was written ends with a code the
\* retry policy repeats (by default the 'connect_failed' of a connection lost after the
\* write).  Failover, a new selection, close() and a late run never run it again.
SecondRunIsRetry == \A r \in Reqs : \A i, j \in Tries :
                      i < j /\ Ran(r, i) /\ Ran(r, j) => Resent(r, i)

\* What the host is told is true of all the attempts together: an answer over IPC
\* comes from a run of the last attempt, an answer over the CLI never from a cut
\* output, and "daemon unreachable" and "invalid arguments" mean that nothing ran
\* but an attempt the retry policy repeated.
HonestOutcome ==
    \A r \in Reqs :
      /\ req[r].stage \in {"ok", "rpc"} => IF req[r].which = "ipc" THEN Ran(r, req[r].n)
                                           ELSE Current(r) \notin overflow
      /\ req[r].stage \in {"not_running", "invalid_args"} =>
           \A i \in Tries : Ran(r, i) => Resent(r, i)

\* close() leaves no connection behind: an object it dropped is connected only if a
\* request was, at that close(), awaiting its connection or about to try it again.
CloseReleases == \A g \in conn : g = closes \/ g \in late
=============================================================================
