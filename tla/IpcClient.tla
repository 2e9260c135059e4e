------------------------------ MODULE IpcClient ------------------------------
(***************************************************************************)
(* packages/toolbelt/src/ipc/client.ts: the framed JSON-RPC client that    *)
(* multiplexes calls over one socket to the daemon, with the incremental   *)
(* decoder of ipc/framing.ts.                                              *)
(*                                                                         *)
(* One action is one turn of the event loop.  `await this.#connect()`      *)
(* continues in a microtask: a call is "resumed" until it has written its  *)
(* request, only the host's own synchronous call()/close() come between,   *)
(* and socket events and timers wait until no microtask is left.           *)
(*                                                                         *)
(* The inbound byte stream is cut into units: a length prefix, or a body.  *)
(* A chunk delivers one unit, so every split of the stream at these points *)
(* happens.  A body read where a length prefix is due starts with '{"js',  *)
(* a length beyond MAX_FRAME_BYTES.                                        *)
(***************************************************************************)
EXTENDS Naturals, Sequences

CONSTANTS
    Calls,          \* the calls the host makes
    Conns,          \* sockets, one per connect()
    NoConn,
    NoCall,
    MaxJunk,        \* bound: malformed frames and replies the daemon may send
    MaxClose,       \* bound: close() calls of the host
    ReuseClosed     \* TRUE: the host calls again on a client it has closed

ASSUME IpcAssumption ==
    /\ NoConn \notin Conns
    /\ NoCall \notin Calls
    /\ MaxJunk \in Nat
    /\ MaxClose \in Nat
    /\ ReuseClosed \in BOOLEAN

VARIABLES
    socket,         \* #socket
    connecting,     \* #connecting, named by the socket it opens
    decoder,        \* what #decoder has buffered: "empty", "header" or "poison"
    pending,        \* the calls with an entry (and a live timer) in #pending
    st,             \* per call: where its continuation is, or how it settled
    via,            \* per call: the socket its continuation holds
    conn,           \* per socket: its state as node:net reports it
    inbox,          \* per socket: requests written, not read by the daemon
    running,        \* per socket: requests the daemon ran and owes an answer
    stream,         \* per socket: units on their way to the client
    served,         \* the sockets whose daemon end is alive
    executed,       \* per call: how often the daemon ran it
    junk,           \* malformed frames sent so far
    closes          \* close() calls so far

clientVars == <<socket, connecting, decoder, pending, st, via>>
daemonVars == <<inbox, running, stream, served, executed, junk>>
vars == <<socket, connecting, decoder, pending, st, via, conn,
          inbox, running, stream, served, executed, junk, closes>>

Codes == {"ok", "rpc", "protocol", "frame", "timeout",
          "connect_failed", "not_running", "closed"}
Waiting == {"awaiting", "resumed", "sent"}
ConnStates == {"free", "opening", "open", "ending", "destroyed", "closed", "failed"}
Answers == {"result", "error", "neither"}
Tags == {"header", "oversize", "badjson", "notification"} \cup Answers
Units == [tag : Tags, id : Calls \cup {NoCall}]

Unit(tag) == [tag |-> tag, id |-> NoCall]
Usable(k) == k # NoConn /\ conn[k] \in {"open", "ending"}   \* socket && !socket.destroyed
Quiet == \A c \in Calls : st[c] # "resumed"                 \* no microtask is left

Init ==
    /\ socket = NoConn
    /\ connecting = NoConn
    /\ decoder = "empty"
    /\ pending = {}
    /\ st = [c \in Calls |-> "idle"]
    /\ via = [c \in Calls |-> NoConn]
    /\ conn = [k \in Conns |-> "free"]
    /\ inbox = [k \in Conns |-> {}]
    /\ running = [k \in Conns |-> {}]
    /\ stream = [k \in Conns |-> <<>>]
    /\ served = {}
    /\ executed = [c \in Calls |-> 0]
    /\ junk = 0
    /\ closes = 0

\* Promises settle once: rejecting a settled call changes nothing.
Reject(S, code) ==
    [c \in Calls |-> IF c \in S /\ st[c] \in Waiting THEN code ELSE st[c]]

\* Faulty variant: the entries are dropped without being rejected.
FailAllSilently(code) == pending' = {} /\ st' = st

\* #failAll: clears every timer, rejects every entry, empties the map.
FailAll(code) == /\ pending' = {}
                 /\ st' = Reject(pending, code)

-----------------------------------------------------------------------------
(* The host *)

\* call() up to `await this.#connect()`: reuse the socket, join the attempt
\* under way, or start one.
CallReuse(c) ==
    /\ Usable(socket)
    /\ st' = [st EXCEPT ![c] = "resumed"]
    /\ via' = [via EXCEPT ![c] = socket]
    /\ UNCHANGED <<connecting, conn>>

CallJoin(c) ==
    /\ ~Usable(socket)
    /\ connecting # NoConn
    /\ st' = [st EXCEPT ![c] = "awaiting"]
    /\ via' = [via EXCEPT ![c] = connecting]
    /\ UNCHANGED <<connecting, conn>>

\* Faulty variants of the next action: no check for an attempt under way; no
\* check for a usable socket.
CallConnectAgain(c) ==
    /\ ~Usable(socket)
    /\ \E k \in Conns : /\ conn[k] = "free"
                         /\ conn' = [conn EXCEPT ![k] = "opening"]
                         /\ connecting' = k
                         /\ via' = [via EXCEPT ![c] = k]
    /\ st' = [st EXCEPT ![c] = "awaiting"]

CallConnectAlways(c) ==
    /\ connecting = NoConn
    /\ \E k \in Conns : /\ conn[k] = "free"
                         /\ conn' = [conn EXCEPT ![k] = "opening"]
                         /\ connecting' = k
                         /\ via' = [via EXCEPT ![c] = k]
    /\ st' = [st EXCEPT ![c] = "awaiting"]

CallConnect(c) ==
    /\ ~Usable(socket)
    /\ connecting = NoConn
    /\ \E k \in Conns :
         /\ conn[k] = "free"
         /\ conn' = [conn EXCEPT ![k] = "opening"]
         /\ connecting' = k
         /\ via' = [via EXCEPT ![c] = k]
    /\ st' = [st EXCEPT ![c] = "awaiting"]

Call(c) ==
    /\ st[c] = "idle"
    /\ closes = 0 \/ ReuseClosed
    /\ CallReuse(c) \/ CallJoin(c) \/ CallConnect(c)
    /\ UNCHANGED <<socket, decoder, pending, daemonVars, closes>>

\* close(): reject what is pending, forget the socket, end it.  A connect
\* attempt under way, and the calls that await it, are left alone.
Close ==
    /\ closes < MaxClose
    /\ closes' = closes + 1
    /\ FailAll("closed")
    /\ socket' = NoConn
    /\ conn' = IF Usable(socket) THEN [conn EXCEPT ![socket] = "ending"] ELSE conn
    /\ UNCHANGED <<connecting, decoder, via, daemonVars>>

-----------------------------------------------------------------------------
(* The continuation of call() once it has a socket *)

\* The request is written: register the entry, then socket.write.
Send(c) ==
    /\ st[c] = "resumed" /\ conn[via[c]] = "open"
    /\ pending' = pending \cup {c}
    /\ st' = [st EXCEPT ![c] = "sent"]
    /\ inbox' = [inbox EXCEPT ![via[c]] = @ \cup {c}]
    /\ UNCHANGED <<socket, connecting, decoder, via, conn, running, stream,
                   served, executed, junk, closes>>

\* The request exceeds MAX_FRAME_BYTES, and encodeFrame throws inside the promise
\* executor: the call is rejected, its registered entry stays until its timer fires.
SendOversize(c) ==
    /\ st[c] = "resumed"
    /\ pending' = pending \cup {c}
    /\ st' = [st EXCEPT ![c] = "frame"]
    /\ UNCHANGED <<socket, connecting, decoder, via, conn, daemonVars, closes>>

\* Writing to a socket that has been ended destroys it with an error, whose
\* 'error' event fails every entry; the write callback rejects this call.
SendEnding(c) ==
    /\ st[c] = "resumed" /\ conn[via[c]] = "ending"
    /\ pending' = {}
    /\ st' = Reject(pending \cup {c}, "connect_failed")
    /\ conn' = [conn EXCEPT ![via[c]] = "destroyed"]
    /\ UNCHANGED <<socket, connecting, decoder, via, daemonVars, closes>>

\* On a destroyed socket only the write callback reports.
SendDead(c) ==
    /\ st[c] = "resumed"
    /\ conn[via[c]] \in {"destroyed", "closed"}
    /\ st' = [st EXCEPT ![c] = "connect_failed"]
    /\ UNCHANGED <<socket, connecting, decoder, pending, via, conn, daemonVars, closes>>

Resume(c) == Send(c) \/ SendOversize(c) \/ SendEnding(c) \/ SendDead(c)

-----------------------------------------------------------------------------
(* Socket events and timers *)

\* 'connect'.  The event loop runs the close callbacks of destroyed handles
\* before it completes another connect.
Connected(k) ==
    /\ Quiet
    /\ conn[k] = "opening"
    /\ \A j \in Conns : conn[j] # "destroyed"
    /\ conn' = [conn EXCEPT ![k] = "open"]
    /\ socket' = k
    /\ connecting' = NoConn
    /\ st' = [c \in Calls |-> IF st[c] = "awaiting" /\ via[c] = k THEN "resumed" ELSE st[c]]
    /\ served' = served \cup {k}
    /\ UNCHANGED <<decoder, pending, via, inbox, running, stream, executed, junk, closes>>

\* 'error' before 'connect': ENOENT and ECONNREFUSED are 'not_running', any
\* other cause is 'connect_failed'.
ConnectError(k, code) ==
    /\ Quiet
    /\ conn[k] = "opening"
    /\ conn' = [conn EXCEPT ![k] = "failed"]
    /\ connecting' = NoConn
    /\ st' = [c \in Calls |-> IF st[c] = "awaiting" /\ via[c] = k THEN code ELSE st[c]]
    /\ UNCHANGED <<socket, decoder, pending, via, daemonVars, closes>>

\* 'error' after 'connect' (a reset, a broken pipe).
SocketError(k) ==
    /\ Quiet
    /\ conn[k] \in {"open", "ending"}
    /\ conn' = [conn EXCEPT ![k] = "destroyed"]
    /\ FailAll("connect_failed")
    /\ UNCHANGED <<socket, connecting, decoder, via, daemonVars, closes>>

\* The daemon's FIN, once its data is read; the socket ends itself
\* (allowHalfOpen is false) and is not yet destroyed.
PeerEnd(k) ==
    /\ Quiet
    /\ conn[k] = "open" /\ k \notin served /\ stream[k] = <<>>
    /\ conn' = [conn EXCEPT ![k] = "ending"]
    /\ UNCHANGED <<clientVars, daemonVars, closes>>

\* end() has flushed: socket.destroy().
Ended(k) ==
    /\ Quiet
    /\ conn[k] = "ending"
    /\ conn' = [conn EXCEPT ![k] = "destroyed"]
    /\ UNCHANGED <<clientVars, daemonVars, closes>>

\* 'close': #onClose drops #socket and fails every entry, whichever socket
\* the event came from.
OnClose(k) ==
    /\ Quiet
    /\ conn[k] = "destroyed"
    /\ conn' = [conn EXCEPT ![k] = "closed"]
    /\ socket' = NoConn
    /\ FailAll("closed")
    /\ UNCHANGED <<connecting, decoder, via, daemonVars, closes>>

\* Faulty variant: the timer drops the entry and forgets the call.
TimeoutSilently(c) ==
    /\ Quiet
    /\ c \in pending
    /\ pending' = pending \ {c}
    /\ UNCHANGED <<socket, connecting, decoder, st, via, conn, daemonVars, closes>>

\* The timer of an entry: drop it, reject its call.
Timeout(c) ==
    /\ Quiet
    /\ c \in pending
    /\ pending' = pending \ {c}
    /\ st' = Reject({c}, "timeout")
    /\ UNCHANGED <<socket, connecting, decoder, via, conn, daemonVars, closes>>

\* #decoder.push throws: the buffer keeps the bad prefix, #onData fails every
\* entry and destroys the current socket.
DecodeThrows ==
    /\ decoder' = "poison"
    /\ FailAll("frame")
    /\ conn' = IF Usable(socket) THEN [conn EXCEPT ![socket] = "destroyed"] ELSE conn

\* Faulty variant: an answer settles whichever call is pending, not its own.
DispatchAny(u) ==
    \/ /\ u.tag \in Answers
       /\ \E c \in pending : /\ pending' = pending \ {c}
                             /\ st' = Reject({c}, "ok")
    \/ /\ u.tag \notin Answers \/ pending = {}
       /\ UNCHANGED <<pending, st>>

\* #dispatch: a body that is no JSON fails every entry; one without an id, or
\* for an id that is not pending, is ignored; the others settle their call.
Dispatch(u) ==
    \/ /\ u.tag \in {"badjson", "header", "oversize"}
       /\ FailAll("protocol")
    \/ /\ u.tag = "notification" \/ (u.tag \in Answers /\ u.id \notin pending)
       /\ UNCHANGED <<pending, st>>
    \/ /\ u.tag \in Answers /\ u.id \in pending
       /\ pending' = pending \ {u.id}
       /\ st' = Reject({u.id}, CASE u.tag = "result" -> "ok"
                                 [] u.tag = "error" -> "rpc"
                                 [] OTHER -> "protocol")

\* 'data': FrameDecoder.push on what is buffered and the new unit.
Decode(u) ==
    \/ /\ decoder = "empty" /\ u.tag = "header"
       /\ decoder' = "header"
       /\ UNCHANGED <<pending, st, conn>>
    \/ /\ decoder = "header"
       /\ decoder' = "empty"
       /\ Dispatch(u)
       /\ UNCHANGED conn
    \/ /\ decoder = "poison" \/ (decoder = "empty" /\ u.tag # "header")
       /\ DecodeThrows

OnData(k) ==
    /\ Quiet
    /\ conn[k] \in {"open", "ending"}
    /\ stream[k] # <<>>
    /\ stream' = [stream EXCEPT ![k] = Tail(@)]
    /\ Decode(Head(stream[k]))
    /\ UNCHANGED <<socket, connecting, via, inbox, running, served, executed, junk, closes>>

-----------------------------------------------------------------------------
(* The daemon's end of a socket (external: mx-agent) *)

\* It reads and runs a request, also one whose client has gone.
DaemonExecute(k, c) ==
    /\ k \in served /\ c \in inbox[k]
    /\ inbox' = [inbox EXCEPT ![k] = @ \ {c}]
    /\ running' = [running EXCEPT ![k] = @ \cup {c}]
    /\ executed' = [executed EXCEPT ![c] = @ + 1]
    /\ UNCHANGED <<clientVars, conn, stream, served, junk, closes>>

DaemonReply(k, c, a) ==
    /\ k \in served /\ c \in running[k]
    /\ running' = [running EXCEPT ![k] = @ \ {c}]
    /\ stream' = [stream EXCEPT ![k] = @ \o <<Unit("header"), [tag |-> a, id |-> c]>>]
    /\ junk' = IF a = "neither" THEN junk + 1 ELSE junk
    /\ junk' <= MaxJunk
    /\ UNCHANGED <<clientVars, conn, inbox, served, executed, closes>>

DaemonJunk(k) ==
    /\ k \in served /\ junk < MaxJunk
    /\ junk' = junk + 1
    /\ \E s \in {<<Unit("header"), Unit("badjson")>>,
                 <<Unit("header"), Unit("notification")>>, <<Unit("oversize")>>} :
         stream' = [stream EXCEPT ![k] = @ \o s]
    /\ UNCHANGED <<clientVars, conn, inbox, running, served, executed, closes>>

\* It stops: what it has not read is lost, and so may be the end of what it
\* was sending, in the middle of a frame.
DaemonGone(k) ==
    /\ k \in served
    /\ served' = served \ {k}
    /\ inbox' = [inbox EXCEPT ![k] = {}]
    /\ running' = [running EXCEPT ![k] = {}]
    /\ \E n \in 0..Len(stream[k]) : stream' = [stream EXCEPT ![k] = SubSeq(@, 1, n)]
    /\ UNCHANGED <<clientVars, conn, executed, junk, closes>>

-----------------------------------------------------------------------------
HostStep == \/ \E c \in Calls : Call(c) \/ Resume(c)
            \/ Close

EventStep == \/ \E k \in Conns : \/ Connected(k) \/ SocketError(k) \/ PeerEnd(k)
                                 \/ Ended(k) \/ OnClose(k) \/ OnData(k)
                                 \/ \E code \in {"not_running", "connect_failed"} :
                                      ConnectError(k, code)
             \/ \E c \in Calls : Timeout(c)

DaemonStep == \E k \in Conns : \/ DaemonJunk(k) \/ DaemonGone(k)
                               \/ \E c \in Calls : \/ DaemonExecute(k, c)
                                                   \/ \E a \in Answers : DaemonReply(k, c, a)

Next == HostStep \/ EventStep \/ DaemonStep

Spec == Init /\ [][Next]_vars

\* The event loop runs microtasks, due timers and completed connects, and
\* delivers the 'close' of a destroyed socket; nothing is assumed of the daemon.
Fairness == /\ \A c \in Calls : WF_vars(Resume(c)) /\ WF_vars(Timeout(c))
            /\ \A k \in Conns :
                 /\ WF_vars(Connected(k) \/ ConnectError(k, "not_running"))
                 /\ WF_vars(OnClose(k))

FairSpec == Spec /\ Fairness

-----------------------------------------------------------------------------
(* Properties *)

TypeOK ==
    /\ socket \in Conns \cup {NoConn}
    /\ connecting \in Conns \cup {NoConn}
    /\ decoder \in {"empty", "header", "poison"}
    /\ pending \subseteq Calls
    /\ st \in [Calls -> {"idle"} \cup Waiting \cup Codes]
    /\ via \in [Calls -> Conns \cup {NoConn}]
    /\ conn \in [Conns -> ConnStates]
    /\ inbox \in [Conns -> SUBSET Calls]
    /\ running \in [Conns -> SUBSET Calls]
    /\ stream \in [Conns -> Seq(Units)]
    /\ served \subseteq Conns
    /\ executed \in [Calls -> Nat]
    /\ junk \in 0..MaxJunk
    /\ closes \in 0..MaxClose

\* No call is stranded: one that has written its request keeps the entry, and
\* with it the timer, that will settle it; one that awaits a socket awaits the
\* attempt that is really under way, so #connecting is never dropped early.
NoStrandedCall ==
    \A c \in Calls :
      /\ st[c] = "sent" => c \in pending
      /\ st[c] = "awaiting" => via[c] = connecting /\ conn[via[c]] = "opening"

\* No socket leaks: a socket that is connected is the one #socket names, so
\* close() can still end it.
NoLeakedSocket == \A k \in Conns : conn[k] = "open" => socket = k

\* A call in flight is failed as 'closed' or 'connect_failed' only when its own
\* socket is lost, although #failAll and #onClose do not look at the socket.
OnlyOwnSocketFails ==
    [][\A c \in Calls : st[c] = "sent" /\ st'[c] \in {"closed", "connect_failed"}
                          => conn'[via[c]] # "open"]_vars

\* The client is a transport: see Transport.
T == INSTANCE Transport WITH
       status <- [c \in Calls |-> IF st[c] \in Waiting THEN "open" ELSE st[c]]

ImplementsTransport == T!Spec

\* Every call settles: the per-call timer, or the end of the connect attempt,
\* gets every call() to an outcome whatever the daemon does.
EveryCallSettles == \A c \in Calls : st[c] \in Waiting ~> st[c] \in Codes

\* "'protocol' // response was not a valid JSON-RPC 2.0 envelope" (errors.ts:15):
\* a call fails that way only if the daemon did send something malformed.
ProtocolMeansMalformed ==
    \A c \in Calls : st[c] = "protocol" => junk > 0
=============================================================================
