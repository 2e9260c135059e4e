--------------------------- MODULE IpcClientProofs ---------------------------
(***************************************************************************)
(* What TLAPS proves of IpcClient for every set of calls and sockets and   *)
(* every bound: it never strands a call, never leaks a socket unless it is *)
(* used after close(), and implements Transport.                           *)
(***************************************************************************)
EXTENDS IpcClient, SequenceTheorems, TLAPS

LEMMA FailAllType ==
    ASSUME TypeOK, NEW code \in Codes, FailAll(code)
    PROVE  /\ pending' \subseteq Calls
           /\ st' \in [Calls -> {"idle"} \cup Waiting \cup Codes]
BY DEF TypeOK, FailAll, Reject, Waiting, Codes

LEMMA DispatchType ==
    ASSUME TypeOK, NEW u \in Units, Dispatch(u)
    PROVE  /\ pending' \subseteq Calls
           /\ st' \in [Calls -> {"idle"} \cup Waiting \cup Codes]
<1>1. CASE FailAll("protocol")
  BY <1>1, FailAllType DEF Codes
<1>2. CASE UNCHANGED <<pending, st>>
  BY <1>2 DEF TypeOK
<1>3. CASE pending' = pending \ {u.id} /\ st' = Reject({u.id}, "ok")
  BY <1>3 DEF TypeOK, Reject, Waiting, Codes
<1>4. CASE pending' = pending \ {u.id} /\ st' = Reject({u.id}, "rpc")
  BY <1>4 DEF TypeOK, Reject, Waiting, Codes
<1>5. CASE pending' = pending \ {u.id} /\ st' = Reject({u.id}, "protocol")
  BY <1>5 DEF TypeOK, Reject, Waiting, Codes
<1> QED
  BY <1>1, <1>2, <1>3, <1>4, <1>5 DEF Dispatch

LEMMA DecodeType ==
    ASSUME TypeOK, NEW u \in Units, Decode(u)
    PROVE  /\ decoder' \in {"empty", "header", "poison"}
           /\ pending' \subseteq Calls
           /\ st' \in [Calls -> {"idle"} \cup Waiting \cup Codes]
           /\ conn' \in [Conns -> ConnStates]
<1>1. CASE decoder' = "header" /\ UNCHANGED <<pending, st, conn>>
  BY <1>1 DEF TypeOK
<1>2. CASE decoder' = "empty" /\ Dispatch(u) /\ UNCHANGED conn
  BY <1>2, DispatchType DEF TypeOK
<1>3. CASE DecodeThrows
  BY <1>3, FailAllType DEF DecodeThrows, TypeOK, Codes, ConnStates
<1> QED
  BY <1>1, <1>2, <1>3 DEF Decode

LEMMA TypeInit == ASSUME IpcAssumption, Init PROVE TypeOK
BY EmptySeq DEF IpcAssumption, Init, TypeOK, Waiting, Codes, ConnStates

LEMMA TypeStep ==
    ASSUME IpcAssumption, TypeOK, [Next]_vars
    PROVE  TypeOK'
<1> USE DEF TypeOK
<1>1. ASSUME NEW c \in Calls, Call(c) PROVE TypeOK'
  <2> USE DEF Waiting, daemonVars
  <2>1. CASE CallReuse(c)
    BY <1>1, <2>1 DEF Call, CallReuse
  <2>2. CASE CallJoin(c)
    BY <1>1, <2>2 DEF Call, CallJoin
  <2>3. CASE CallConnect(c)
    BY <1>1, <2>3 DEF Call, CallConnect, ConnStates
  <2> QED
    BY <1>1, <2>1, <2>2, <2>3 DEF Call
<1>2. ASSUME NEW c \in Calls, Resume(c) PROVE TypeOK'
  <2>1. CASE Send(c)
    BY <2>1, <1>2 DEF Send, Waiting
  <2>2. CASE SendOversize(c)
    BY <2>2, <1>2 DEF SendOversize, Codes, daemonVars
  <2>3. CASE SendEnding(c)
    BY <2>3, <1>2 DEF SendEnding, Reject, Waiting, Codes, ConnStates, daemonVars
  <2>4. CASE SendDead(c)
    BY <2>4, <1>2 DEF SendDead, Codes, daemonVars
  <2> QED
    BY <1>2, <2>1, <2>2, <2>3, <2>4 DEF Resume
<1>3. ASSUME Close PROVE TypeOK'
  <2>1. "closed" \in Codes
    BY DEF Codes
  <2>2. closes' \in 0..MaxClose
    BY <1>3 DEF Close, IpcAssumption
  <2>3. conn' \in [Conns -> ConnStates]
    BY <1>3 DEF Close, ConnStates
  <2> QED
    BY <1>3, <2>1, <2>2, <2>3, FailAllType DEF Close, daemonVars
<1>4. ASSUME NEW k \in Conns, Connected(k) PROVE TypeOK'
  BY <1>4 DEF Connected, Waiting, ConnStates
<1>5. ASSUME NEW k \in Conns, SocketError(k) PROVE TypeOK'
  BY <1>5, FailAllType DEF SocketError, Codes, ConnStates, daemonVars
<1>6. ASSUME NEW k \in Conns, PeerEnd(k) \/ Ended(k) PROVE TypeOK'
  BY <1>6 DEF PeerEnd, Ended, ConnStates, daemonVars, clientVars
<1>7. ASSUME NEW k \in Conns, OnClose(k) PROVE TypeOK'
  BY <1>7, FailAllType DEF OnClose, Codes, ConnStates, daemonVars
<1>8. ASSUME NEW k \in Conns, OnData(k) PROVE TypeOK'
  <2>1. Head(stream[k]) \in Units /\ Tail(stream[k]) \in Seq(Units)
    BY <1>8, HeadTailProperties DEF OnData
  <2> QED
    BY <1>8, <2>1, DecodeType DEF OnData
<1>9. ASSUME NEW k \in Conns, NEW code \in {"not_running", "connect_failed"},
             ConnectError(k, code)
      PROVE  TypeOK'
  BY <1>9 DEF ConnectError, Codes, ConnStates, daemonVars
<1>10. ASSUME NEW c \in Calls, Timeout(c) PROVE TypeOK'
  BY <1>10 DEF Timeout, Reject, Waiting, Codes, daemonVars
<1>11. ASSUME NEW k \in Conns, DaemonJunk(k) PROVE TypeOK'
  <2>1. PICK s \in {<<Unit("header"), Unit("badjson")>>,
                    <<Unit("header"), Unit("notification")>>, <<Unit("oversize")>>} :
          stream' = [stream EXCEPT ![k] = stream[k] \o s]
    BY <1>11 DEF DaemonJunk
  <2>2. \A t \in Tags : Unit(t) \in Units
    BY DEF Unit, Units
  <2>3. s \in Seq(Units)
    <3>1. /\ Unit("header") \in Units /\ Unit("badjson") \in Units
          /\ Unit("notification") \in Units /\ Unit("oversize") \in Units
      BY <2>2 DEF Tags
    <3>2. /\ <<Unit("header"), Unit("badjson")>> \in Seq(Units)
          /\ <<Unit("header"), Unit("notification")>> \in Seq(Units)
          /\ <<Unit("oversize")>> \in Seq(Units)
      BY <3>1
    <3> QED
      BY <3>2, Zenon
  <2>4. stream[k] \o s \in Seq(Units)
    BY <2>3, ConcatProperties
  <2> QED
    <3>1. /\ junk < MaxJunk /\ junk' = junk + 1
          /\ UNCHANGED <<clientVars, conn, inbox, running, served, executed, closes>>
      BY <1>11, Zenon DEF DaemonJunk
    <3> QED
      BY <2>1, <2>4, <3>1 DEF clientVars, IpcAssumption
<1>12. ASSUME NEW k \in Conns, DaemonGone(k) PROVE TypeOK'
  <2>1. PICK n \in 0..Len(stream[k]) :
          stream' = [stream EXCEPT ![k] = SubSeq(stream[k], 1, n)]
    BY <1>12 DEF DaemonGone
  <2>2. SubSeq(stream[k], 1, n) \in Seq(Units)
    BY SubSeqProperties, LenProperties
  <2> QED
    BY <1>12, <2>1, <2>2 DEF DaemonGone, clientVars
<1>13. ASSUME NEW k \in Conns, NEW c \in Calls, DaemonExecute(k, c) PROVE TypeOK'
  BY <1>13 DEF DaemonExecute, clientVars
<1>14. ASSUME NEW k \in Conns, NEW c \in Calls, NEW a \in Answers, DaemonReply(k, c, a)
       PROVE  TypeOK'
  <2>1. <<Unit("header"), [tag |-> a, id |-> c]>> \in Seq(Units)
    BY DEF Unit, Units, Tags, Answers
  <2>2. stream[k] \o <<Unit("header"), [tag |-> a, id |-> c]>> \in Seq(Units)
    BY <2>1, ConcatProperties
  <2> QED
    BY <1>14, <2>2 DEF DaemonReply, clientVars, IpcAssumption
<1>15. CASE UNCHANGED vars
  BY <1>15 DEF vars
<1> QED
  BY <1>1, <1>2, <1>3, <1>4, <1>5, <1>6, <1>7, <1>8, <1>9, <1>10, <1>11, <1>12, <1>13,
     <1>14, <1>15
     DEF Next, HostStep, EventStep, DaemonStep

\* Every variable of the client and of its environment keeps its type, the
\* settled calls a code of the closed taxonomy (IpcErrorCode).
THEOREM TypeCorrect == Spec => []TypeOK
<1>1. Init => TypeOK
  BY IpcAssumption, TypeInit
<1>2. TypeOK /\ [Next]_vars => TypeOK'
  BY IpcAssumption, TypeStep
<1> QED
  BY <1>1, <1>2, PTL DEF Spec

-----------------------------------------------------------------------------
(* No call is stranded *)

\* #connecting is the one socket that is opening; a call in flight has a socket.
ConnectInv ==
    /\ \A k \in Conns : conn[k] = "opening" <=> connecting = k
    /\ \A c \in Calls : st[c] \in Waiting => via[c] \in Conns

StrandInv == TypeOK /\ ConnectInv /\ NoStrandedCall

\* #failAll leaves no call that has sent its request, and touches no other.
LEMMA FailAllStrand ==
    ASSUME StrandInv, NEW code \in Codes, FailAll(code)
    PROVE  /\ \A c \in Calls : st'[c] # "sent"
           /\ \A c \in Calls : st'[c] \in Waiting => st'[c] = st[c]
BY DEF StrandInv, TypeOK, NoStrandedCall, FailAll, Reject, Codes, Waiting

\* Neither does an answer that is dispatched.
LEMMA DispatchStrand ==
    ASSUME StrandInv, NEW u \in Units, Dispatch(u)
    PROVE  /\ \A c \in Calls : st'[c] = "sent" => c \in pending'
           /\ \A c \in Calls : st'[c] \in Waiting => st'[c] = st[c]
<1>1. CASE FailAll("protocol")
  BY <1>1, FailAllStrand DEF Codes
<1>2. CASE UNCHANGED <<pending, st>>
  BY <1>2 DEF StrandInv, NoStrandedCall
<1>3. ASSUME NEW code \in {"ok", "rpc", "protocol"},
             pending' = pending \ {u.id}, st' = Reject({u.id}, code)
      PROVE  /\ \A c \in Calls : st'[c] = "sent" => c \in pending'
             /\ \A c \in Calls : st'[c] \in Waiting => st'[c] = st[c]
  BY <1>3 DEF StrandInv, TypeOK, NoStrandedCall, Reject, Waiting
<1> QED
  BY <1>1, <1>2, <1>3 DEF Dispatch

LEMMA DecodeStrand ==
    ASSUME StrandInv, NEW u \in Units, Decode(u)
    PROVE  /\ \A c \in Calls : st'[c] = "sent" => c \in pending'
           /\ \A c \in Calls : st'[c] \in Waiting => st'[c] = st[c]
           /\ \A k \in Conns : conn'[k] = "opening" <=> conn[k] = "opening"
<1>1. CASE UNCHANGED <<pending, st, conn>>
  BY <1>1 DEF StrandInv, NoStrandedCall
<1>2. CASE Dispatch(u) /\ UNCHANGED conn
  BY <1>2, DispatchStrand
<1>3. CASE DecodeThrows
  BY <1>3, FailAllStrand DEF DecodeThrows, Codes, Usable, StrandInv, TypeOK
<1> QED
  BY <1>1, <1>2, <1>3 DEF Decode

LEMMA StrandInit == ASSUME IpcAssumption, Init PROVE StrandInv
BY TypeInit DEF Init, IpcAssumption, StrandInv, ConnectInv, NoStrandedCall, Waiting

LEMMA StrandStep ==
    ASSUME IpcAssumption, StrandInv, [Next]_vars
    PROVE  StrandInv'
<1> USE DEF StrandInv
<1>0. TypeOK'
  BY TypeStep
<1> SUFFICES ConnectInv' /\ NoStrandedCall'
  BY <1>0
<1> USE DEF TypeOK, ConnectInv, NoStrandedCall, Waiting
<1>1. ASSUME NEW c \in Calls, Call(c) PROVE ConnectInv' /\ NoStrandedCall'
  <2>1. CASE CallReuse(c)
    BY <1>1, <2>1 DEF Call, CallReuse, Usable
  <2>2. CASE CallJoin(c)
    BY <1>1, <2>2 DEF Call, CallJoin
  <2>3. CASE CallConnect(c)
    BY <1>1, <2>3, IpcAssumption DEF Call, CallConnect, IpcAssumption
  <2> QED
    BY <1>1, <2>1, <2>2, <2>3 DEF Call
<1>2. ASSUME NEW c \in Calls, Resume(c) PROVE ConnectInv' /\ NoStrandedCall'
  <2>1. CASE Send(c)
    BY <2>1 DEF Send
  <2>2. CASE SendOversize(c)
    BY <2>2 DEF SendOversize
  <2>3. CASE SendEnding(c)
    BY <2>3 DEF SendEnding, Reject, Waiting
  <2>4. CASE SendDead(c)
    BY <2>4 DEF SendDead
  <2> QED
    BY <1>2, <2>1, <2>2, <2>3, <2>4 DEF Resume
<1>3. ASSUME Close PROVE ConnectInv' /\ NoStrandedCall'
  <2>1. \A k \in Conns : conn'[k] = "opening" <=> conn[k] = "opening"
    BY <1>3 DEF Close, Usable
  <2> QED
    BY <1>3, <2>1, FailAllStrand DEF Close, Codes
<1>4. ASSUME NEW k \in Conns, Connected(k) PROVE ConnectInv' /\ NoStrandedCall'
  BY <1>4, IpcAssumption DEF Connected, IpcAssumption
<1>5. ASSUME NEW k \in Conns, SocketError(k) PROVE ConnectInv' /\ NoStrandedCall'
  BY <1>5, FailAllStrand DEF SocketError, Codes
<1>6. ASSUME NEW k \in Conns, PeerEnd(k) \/ Ended(k) PROVE ConnectInv' /\ NoStrandedCall'
  BY <1>6 DEF PeerEnd, Ended, clientVars
<1>7. ASSUME NEW k \in Conns, OnClose(k) PROVE ConnectInv' /\ NoStrandedCall'
  BY <1>7, FailAllStrand DEF OnClose, Codes
<1>8. ASSUME NEW k \in Conns, OnData(k) PROVE ConnectInv' /\ NoStrandedCall'
  <2>1. Head(stream[k]) \in Units
    BY <1>8, HeadTailProperties DEF OnData
  <2> QED
    BY <1>8, <2>1, DecodeStrand DEF OnData
<1>9. ASSUME NEW k \in Conns, NEW code \in {"not_running", "connect_failed"},
             ConnectError(k, code)
      PROVE  ConnectInv' /\ NoStrandedCall'
  BY <1>9, IpcAssumption DEF ConnectError, IpcAssumption
<1>10. ASSUME NEW c \in Calls, Timeout(c) PROVE ConnectInv' /\ NoStrandedCall'
  BY <1>10 DEF Timeout, Reject, Waiting
<1>11. ASSUME DaemonStep \/ UNCHANGED vars PROVE ConnectInv' /\ NoStrandedCall'
  <2>1. UNCHANGED <<clientVars, conn>>
    BY <1>11 DEF DaemonStep, DaemonJunk, DaemonGone, DaemonExecute, DaemonReply, vars,
                 clientVars
  <2> QED
    BY <2>1 DEF clientVars
<1> QED
  BY <1>1, <1>2, <1>3, <1>4, <1>5, <1>6, <1>7, <1>8, <1>9, <1>10, <1>11
     DEF Next, HostStep, EventStep

\* Whatever the host, the daemon and the network do, a call that is in flight
\* keeps the timer or the connect attempt that will settle it.
THEOREM NeverStranded == Spec => []NoStrandedCall
<1>1. Init => StrandInv
  BY IpcAssumption, StrandInit
<1>2. StrandInv /\ [Next]_vars => StrandInv'
  BY IpcAssumption, StrandStep
<1>3. StrandInv => NoStrandedCall
  BY DEF StrandInv
<1> QED
  BY <1>1, <1>2, <1>3, PTL DEF Spec

-----------------------------------------------------------------------------
(* No socket leaks *)

Live(k) == conn[k] \in {"open", "ending", "destroyed"}

\* One socket is alive at a time, #socket names it until close(), and nothing
\* is opened while it can still be written to.
LeakInv ==
    /\ StrandInv
    /\ \A j, k \in Conns : Live(j) /\ Live(k) => j = k
    /\ connecting # NoConn => \A k \in Conns : conn[k] \notin {"open", "ending"}
    /\ closes = 0 => \A k \in Conns : Live(k) => socket = k
    /\ NoLeakedSocket

LEMMA LeakInit == ASSUME IpcAssumption, Init PROVE LeakInv
BY StrandInit DEF Init, LeakInv, Live, NoLeakedSocket

LEMMA LeakStep ==
    ASSUME IpcAssumption, ~ReuseClosed, LeakInv, [Next]_vars
    PROVE  LeakInv'
<1> USE DEF LeakInv
<1>0. StrandInv'
  BY StrandStep
<1> DEFINE Rest == /\ \A j, k \in Conns : Live(j) /\ Live(k) => j = k
                   /\ connecting # NoConn => \A k \in Conns : conn[k] \notin {"open", "ending"}
                   /\ closes = 0 => \A k \in Conns : Live(k) => socket = k
                   /\ NoLeakedSocket
<1> SUFFICES Rest'
  BY <1>0
<1> USE DEF Live, NoLeakedSocket, StrandInv, TypeOK
<1>1. ASSUME NEW c \in Calls, Call(c) PROVE Rest'
  <2>1. CASE CallReuse(c) \/ CallJoin(c)
    BY <1>1, <2>1 DEF Call, CallReuse, CallJoin
  <2>2. CASE CallConnect(c)
    BY <1>1, <2>2 DEF Call, CallConnect, Usable, IpcAssumption
  <2> QED
    BY <1>1, <2>1, <2>2 DEF Call
<1>2. ASSUME NEW c \in Calls, Resume(c) PROVE Rest'
  BY <1>2 DEF Resume, Send, SendOversize, SendEnding, SendDead
<1>3. ASSUME Close PROVE Rest'
  <2>1. closes' # 0
    BY <1>3 DEF Close, IpcAssumption
  <2>2. \A k \in Conns : /\ conn'[k] # "open"
                         /\ Live(k)' => Live(k)
                         /\ conn'[k] = "ending" => conn[k] \in {"open", "ending"}
    BY <1>3 DEF Close, Usable, IpcAssumption
  <2>3. connecting' = connecting
    BY <1>3 DEF Close
  <2> QED
    BY <2>1, <2>2, <2>3
<1>4. ASSUME NEW k \in Conns, Connected(k) PROVE Rest'
  BY <1>4 DEF Connected, ConnectInv, IpcAssumption
<1>5. ASSUME NEW k \in Conns, SocketError(k) PROVE Rest'
  BY <1>5 DEF SocketError
<1>6. ASSUME NEW k \in Conns, PeerEnd(k) \/ Ended(k) PROVE Rest'
  BY <1>6 DEF PeerEnd, Ended, clientVars
<1>7. ASSUME NEW k \in Conns, OnClose(k) PROVE Rest'
  BY <1>7 DEF OnClose
<1>8. ASSUME NEW k \in Conns, OnData(k) PROVE Rest'
  <2>1. UNCHANGED <<socket, connecting, closes>>
    BY <1>8 DEF OnData
  <2>2. \/ UNCHANGED conn
        \/ Usable(socket) /\ conn' = [conn EXCEPT ![socket] = "destroyed"]
    BY <1>8 DEF OnData, Decode, DecodeThrows
  <2> QED
    BY <2>1, <2>2 DEF Usable
<1>9. ASSUME NEW k \in Conns, NEW code \in {"not_running", "connect_failed"},
             ConnectError(k, code)
      PROVE  Rest'
  BY <1>9 DEF ConnectError
<1>10. CASE UNCHANGED <<socket, connecting, conn, closes>>
  BY <1>10
<1> QED
  BY <1>1, <1>2, <1>3, <1>4, <1>5, <1>6, <1>7, <1>8, <1>9, <1>10
     DEF Next, HostStep, EventStep, DaemonStep, DaemonJunk, DaemonGone, DaemonExecute,
         DaemonReply, Timeout, vars, clientVars

\* A client that is not used after close() never loses a connected socket: the
\* one that is open is #socket, in spite of #onClose forgetting #socket without
\* looking which socket was closed.
THEOREM NeverLeaks == ~ReuseClosed /\ Spec => []NoLeakedSocket
<1> SUFFICES ASSUME ~ReuseClosed PROVE Spec => []NoLeakedSocket
  OBVIOUS
<1>1. Init => LeakInv
  BY IpcAssumption, LeakInit
<1>2. LeakInv /\ [Next]_vars => LeakInv'
  BY IpcAssumption, LeakStep
<1>3. LeakInv => NoLeakedSocket
  BY DEF LeakInv
<1> QED
  BY <1>1, <1>2, <1>3, PTL DEF Spec

-----------------------------------------------------------------------------
(* A call fails for the loss of its own socket only *)

LEMMA OwnSocketStep ==
    ASSUME IpcAssumption, ~ReuseClosed, LeakInv, Next,
           NEW c \in Calls, st[c] = "sent", st'[c] \in {"closed", "connect_failed"}
    PROVE  conn'[via[c]] # "open"
<1> USE DEF LeakInv, StrandInv, TypeOK, Live, NoLeakedSocket, ConnectInv, Waiting
<1>1. via[c] \in Conns
  OBVIOUS
<1>2. ASSUME Close PROVE conn'[via[c]] # "open"
  BY <1>1, <1>2 DEF Close, Usable, IpcAssumption
<1>3. ASSUME NEW k \in Conns, SocketError(k) \/ OnClose(k) PROVE conn'[via[c]] # "open"
  BY <1>1, <1>3 DEF SocketError, OnClose
<1>4. ASSUME NEW d \in Calls, SendEnding(d) PROVE conn'[via[c]] # "open"
  BY <1>1, <1>4 DEF SendEnding
<1>5. ASSUME NEW d \in Calls,
             Call(d) \/ Send(d) \/ SendOversize(d) \/ SendDead(d) \/ Timeout(d)
      PROVE  FALSE
  BY <1>5 DEF Call, CallReuse, CallJoin, CallConnect, Send, SendOversize, SendDead,
              Timeout, Reject
<1>6. ASSUME NEW k \in Conns, PeerEnd(k) \/ Ended(k) \/ Connected(k) PROVE FALSE
  BY <1>6 DEF PeerEnd, Ended, Connected, clientVars
<1>7. ASSUME NEW k \in Conns, NEW code \in {"not_running", "connect_failed"},
             ConnectError(k, code)
      PROVE  FALSE
  BY <1>7 DEF ConnectError
<1>8. ASSUME NEW k \in Conns, OnData(k) PROVE FALSE
  <2>1. PICK code \in {"frame", "protocol", "ok", "rpc"}, S \in {pending, {Head(stream[k]).id}} :
          st' = st \/ st' = Reject(S, code)
    BY <1>8 DEF OnData, Decode, DecodeThrows, Dispatch, FailAll
  <2> QED
    BY <2>1 DEF Reject
<1>9. ASSUME DaemonStep PROVE FALSE
  BY <1>9 DEF DaemonStep, DaemonJunk, DaemonGone, DaemonExecute, DaemonReply, clientVars
<1> QED
  BY <1>2, <1>3, <1>4, <1>5, <1>6, <1>7, <1>8, <1>9
     DEF Next, HostStep, EventStep, Resume

\* #failAll and #onClose act on every entry whichever socket the event came
\* from, yet a call is never failed as 'closed' or 'connect_failed' while the
\* socket that carries it is healthy (for a client not used after close()).
THEOREM OthersSurvive == ~ReuseClosed /\ Spec => OnlyOwnSocketFails
<1> SUFFICES ASSUME ~ReuseClosed PROVE Spec => OnlyOwnSocketFails
  OBVIOUS
<1>1. Init => LeakInv
  BY IpcAssumption, LeakInit
<1>2. LeakInv /\ [Next]_vars => LeakInv'
  BY IpcAssumption, LeakStep
<1>3. LeakInv /\ [Next]_vars =>
        [\A c \in Calls : st[c] = "sent" /\ st'[c] \in {"closed", "connect_failed"}
                             => conn'[via[c]] # "open"]_vars
  BY IpcAssumption, OwnSocketStep
<1> QED
  BY <1>1, <1>2, <1>3, PTL DEF Spec, OnlyOwnSocketFails

-----------------------------------------------------------------------------
(***************************************************************************)
(* IpcClient implements Transport: each of its steps settles calls, issues *)
(* one, runs one at the daemon, or is invisible.                           *)
(***************************************************************************)

Answered(u) == u.tag \in Answers => u.id \in Calls /\ executed[u.id] = 1

\* A request reaches the daemon once, over the socket its call holds, after the
\* call wrote it; a call refused by connect() never wrote; an answer on its way
\* to the client is the answer of a run.
RequestInv ==
    /\ \A c \in Calls : executed[c] \in {0, 1}
    /\ \A c \in Calls : st[c] \in {"idle", "awaiting", "resumed", "not_running"} =>
         executed[c] = 0 /\ \A k \in Conns : c \notin inbox[k]
    /\ \A c \in Calls, k \in Conns : c \in inbox[k] => executed[c] = 0 /\ via[c] = k
    /\ \A c \in Calls, k \in Conns : c \in running[k] => executed[c] = 1
    /\ \A k \in Conns : \A i \in 1..Len(stream[k]) : Answered(stream[k][i])

RefInv == StrandInv /\ RequestInv

\* Steps that neither write a request nor touch the daemon's end: they may only
\* move a call from waiting to settled, and to 'not_running' from awaiting.
LEMMA ClientOnlyStep ==
    ASSUME RefInv,
           UNCHANGED <<inbox, running, executed>>,
           \A k \in Conns : \A i \in 1..Len(stream'[k]) : Answered(stream'[k][i]),
           \A c \in Calls : via'[c] = via[c] \/ st[c] = "idle",
           \A c \in Calls : st'[c] \in {"idle", "awaiting", "resumed", "not_running"} =>
                              st[c] \in {"idle", "awaiting", "resumed", "not_running"}
    PROVE  RequestInv'
BY DEF RefInv, RequestInv, Answered

LEMMA AnsweredKept ==
    ASSUME RefInv, UNCHANGED <<stream, executed>>
    PROVE  \A k \in Conns : \A i \in 1..Len(stream'[k]) : Answered(stream'[k][i])
BY DEF RefInv, RequestInv, Answered

\* Rejecting calls with a code other than 'not_running'.
LEMMA RejectStep ==
    ASSUME RefInv, NEW S, NEW code \in Codes \ {"not_running"}, st' = Reject(S, code)
    PROVE  \A c \in Calls : st'[c] \in {"idle", "awaiting", "resumed", "not_running"} =>
                              st[c] \in {"idle", "awaiting", "resumed", "not_running"}
BY DEF RefInv, StrandInv, TypeOK, Reject, Codes, Waiting

\* What Decode can do to the calls.
LEMMA DecodeRejects ==
    ASSUME NEW u, Decode(u)
    PROVE  \/ st' = st
           \/ st' = Reject(pending, "frame")
           \/ st' = Reject(pending, "protocol")
           \/ st' = Reject({u.id}, "protocol")
           \/ u.tag \in Answers /\ st' = Reject({u.id}, "ok")
           \/ u.tag \in Answers /\ st' = Reject({u.id}, "rpc")
BY DEF Decode, DecodeThrows, Dispatch, FailAll

LEMMA RequestInit == ASSUME IpcAssumption, Init PROVE RefInv
BY StrandInit DEF Init, RefInv, RequestInv

LEMMA RequestStep ==
    ASSUME IpcAssumption, RefInv, [Next]_vars
    PROVE  RefInv'
<1> DEFINE Early == {"idle", "awaiting", "resumed", "not_running"}
<1>0. StrandInv'
  BY StrandStep DEF RefInv
<1> SUFFICES RequestInv'
  BY <1>0 DEF RefInv
<1>t. TypeOK
  BY DEF RefInv, StrandInv
<1>1. ASSUME NEW c \in Calls, Call(c) PROVE RequestInv'
  <2>1. UNCHANGED <<inbox, running, stream, executed>>
    BY <1>1 DEF Call, daemonVars
  <2>2. st[c] = "idle" /\ \A d \in Calls : d # c => st'[d] = st[d] /\ via'[d] = via[d]
    BY <1>1, <1>t DEF Call, CallReuse, CallJoin, CallConnect, TypeOK
  <2> QED
    BY <2>1, <2>2, ClientOnlyStep, AnsweredKept
<1>2. ASSUME NEW c \in Calls, Send(c) PROVE RequestInv'
  BY <1>2, <1>t DEF Send, RefInv, RequestInv, TypeOK, Answered
<1>3. ASSUME NEW c \in Calls, SendOversize(c) \/ SendDead(c) PROVE RequestInv'
  <2>1. UNCHANGED <<inbox, running, stream, executed, via>>
    BY <1>3 DEF SendOversize, SendDead, daemonVars
  <2>2. \A d \in Calls : st'[d] \in Early => st[d] \in Early
    BY <1>3, <1>t DEF SendOversize, SendDead, TypeOK
  <2> QED
    BY <2>1, <2>2, ClientOnlyStep, AnsweredKept
<1>4. ASSUME NEW c \in Calls, SendEnding(c) \/ Timeout(c) PROVE RequestInv'
  <2>1. UNCHANGED <<inbox, running, stream, executed, via>>
    BY <1>4 DEF SendEnding, Timeout, daemonVars
  <2>2. st' = Reject(pending \cup {c}, "connect_failed") \/ st' = Reject({c}, "timeout")
    BY <1>4 DEF SendEnding, Timeout
  <2>3. \A d \in Calls : st'[d] \in Early => st[d] \in Early
    BY <2>2, RejectStep DEF Codes
  <2> QED
    BY <2>1, <2>3, ClientOnlyStep, AnsweredKept
<1>5. ASSUME Close \/ \E k \in Conns : SocketError(k) \/ OnClose(k) PROVE RequestInv'
  <2>1. UNCHANGED <<inbox, running, stream, executed, via>>
    BY <1>5 DEF Close, SocketError, OnClose, daemonVars
  <2>2. st' = Reject(pending, "closed") \/ st' = Reject(pending, "connect_failed")
    BY <1>5 DEF Close, SocketError, OnClose, FailAll
  <2>3. \A d \in Calls : st'[d] \in Early => st[d] \in Early
    BY <2>2, RejectStep DEF Codes
  <2> QED
    BY <2>1, <2>3, ClientOnlyStep, AnsweredKept
<1>6. ASSUME NEW k \in Conns, Connected(k) PROVE RequestInv'
  <2>1. UNCHANGED <<inbox, running, stream, executed, via>>
    BY <1>6 DEF Connected
  <2>2. \A d \in Calls : st'[d] \in Early => st[d] \in Early
    BY <1>6 DEF Connected
  <2> QED
    BY <2>1, <2>2, ClientOnlyStep, AnsweredKept
<1>7. ASSUME NEW k \in Conns, NEW code \in {"not_running", "connect_failed"},
             ConnectError(k, code)
      PROVE  RequestInv'
  <2>1. UNCHANGED <<inbox, running, stream, executed, via>>
    BY <1>7 DEF ConnectError, daemonVars
  <2>2. \A d \in Calls : st'[d] \in Early => st[d] \in Early
    BY <1>7 DEF ConnectError
  <2> QED
    BY <2>1, <2>2, ClientOnlyStep, AnsweredKept
<1>8. ASSUME NEW k \in Conns, OnData(k) PROVE RequestInv'
  <2>1. UNCHANGED <<inbox, running, executed, via>>
    BY <1>8 DEF OnData
  <2>2. \A d \in Calls : st'[d] \in Early => st[d] \in Early
    <3>1. Decode(Head(stream[k]))
      BY <1>8 DEF OnData
    <3> QED
      BY <3>1, DecodeRejects, RejectStep DEF Codes
  <2>3. \A j \in Conns : \A i \in 1..Len(stream'[j]) : Answered(stream'[j][i])
    <3> SUFFICES ASSUME NEW j \in Conns, NEW i \in 1..Len(stream'[j])
                 PROVE  Answered(stream'[j][i])
      OBVIOUS
    <3>1. CASE j # k
      BY <1>8, <1>t, <3>1 DEF OnData, TypeOK, RefInv, RequestInv
    <3>2. CASE j = k
      <4>1. stream'[k] = Tail(stream[k]) /\ stream[k] \in Seq(Units) /\ stream[k] # <<>>
        BY <1>8, <1>t DEF OnData, TypeOK
      <4>2. Len(Tail(stream[k])) = Len(stream[k]) - 1
            /\ Tail(stream[k])[i] = stream[k][i + 1]
        BY <3>2, <4>1, HeadTailProperties
      <4>3. i + 1 \in 1..Len(stream[k])
        BY <3>2, <4>1, <4>2, LenProperties
      <4> QED
        BY <3>2, <4>1, <4>2, <4>3 DEF RefInv, RequestInv
    <3> QED
      BY <3>1, <3>2
  <2> QED
    BY <2>1, <2>2, <2>3, ClientOnlyStep
<1>9. ASSUME NEW k \in Conns, NEW c \in Calls, DaemonExecute(k, c) PROVE RequestInv'
  <2>1. /\ c \in inbox[k] /\ executed[c] = 0 /\ via[c] = k
        /\ st[c] \notin Early
    BY <1>9 DEF DaemonExecute, RefInv, RequestInv
  <2>2. /\ executed' = [executed EXCEPT ![c] = 1]
        /\ inbox' = [inbox EXCEPT ![k] = inbox[k] \ {c}]
        /\ running' = [running EXCEPT ![k] = running[k] \cup {c}]
        /\ UNCHANGED <<st, via, stream>>
    BY <1>9, <2>1 DEF DaemonExecute, clientVars
  <2>3. \A u : Answered(u) => Answered(u)'
    BY <1>t, <2>2 DEF Answered, TypeOK
  <2> QED
    BY <1>t, <2>1, <2>2, <2>3 DEF RefInv, RequestInv, TypeOK
<1>10. ASSUME NEW k \in Conns, NEW s \in Seq(Units), stream' = [stream EXCEPT ![k] = stream[k] \o s],
              \A i \in 1..Len(s) : Answered(s[i])
       PROVE  \A j \in Conns : \A i \in 1..Len(stream'[j]) : Answered(stream'[j][i])
  <2> SUFFICES ASSUME NEW j \in Conns, NEW i \in 1..Len(stream'[j])
               PROVE  Answered(stream'[j][i])
    OBVIOUS
  <2>1. CASE j # k
    BY <1>10, <1>t, <2>1 DEF TypeOK, RefInv, RequestInv
  <2>2. CASE j = k
    <3>1. stream'[j] = stream[k] \o s /\ stream[k] \in Seq(Units)
      BY <1>10, <1>t, <2>2 DEF TypeOK
    <3>2. \/ i \in 1..Len(stream[k]) /\ stream'[j][i] = stream[k][i]
          \/ i - Len(stream[k]) \in 1..Len(s) /\ stream'[j][i] = s[i - Len(stream[k])]
      BY <3>1, ConcatProperties, LenProperties
    <3> QED
      BY <1>10, <3>2 DEF RefInv, RequestInv
  <2> QED
    BY <2>1, <2>2
<1>11. ASSUME NEW k \in Conns, NEW c \in Calls, NEW a \in Answers, DaemonReply(k, c, a)
       PROVE  RequestInv'
  <2> DEFINE s == <<Unit("header"), [tag |-> a, id |-> c]>>
  <2>1. /\ stream' = [stream EXCEPT ![k] = stream[k] \o s]
        /\ running' = [running EXCEPT ![k] = running[k] \ {c}]
        /\ c \in running[k]
        /\ UNCHANGED <<st, via, inbox, executed>>
    BY <1>11 DEF DaemonReply, clientVars
  <2>2. s \in Seq(Units)
    BY DEF Unit, Units, Tags, Answers
  <2>3. \A i \in 1..Len(s) : Answered(s[i])
    <3>1. Len(s) = 2 /\ s[1] = Unit("header") /\ s[2] = [tag |-> a, id |-> c]
      OBVIOUS
    <3>2. Answered(Unit("header")) /\ Answered([tag |-> a, id |-> c])
      BY <2>1 DEF Answered, Unit, Answers, RefInv, RequestInv
    <3> QED
      BY <3>1, <3>2
  <2>4. \A j \in Conns : \A i \in 1..Len(stream'[j]) : Answered(stream'[j][i])
    BY <2>1, <2>2, <2>3, <1>10
  <2> QED
    BY <1>t, <2>1, <2>4 DEF RefInv, RequestInv, TypeOK, Answered
<1>12. ASSUME NEW k \in Conns, DaemonJunk(k) PROVE RequestInv'
  <2>1. UNCHANGED <<st, via, inbox, running, executed>>
    BY <1>12 DEF DaemonJunk, clientVars
  <2>2. PICK s \in {<<Unit("header"), Unit("badjson")>>,
                    <<Unit("header"), Unit("notification")>>, <<Unit("oversize")>>} :
          stream' = [stream EXCEPT ![k] = stream[k] \o s]
    BY <1>12 DEF DaemonJunk
  <2>3. s \in Seq(Units) /\ \A i \in 1..Len(s) : Answered(s[i])
    <3>1. \A t \in {"header", "badjson", "notification", "oversize"} :
            Unit(t) \in Units /\ Answered(Unit(t))
      BY DEF Unit, Units, Tags, Answered, Answers
    <3>2. ASSUME NEW x, NEW y, x \in Units, y \in Units, Answered(x), Answered(y)
          PROVE  /\ <<x, y>> \in Seq(Units)
                 /\ \A i \in 1..Len(<<x, y>>) : Answered(<<x, y>>[i])
                 /\ <<x>> \in Seq(Units)
                 /\ \A i \in 1..Len(<<x>>) : Answered(<<x>>[i])
      BY <3>2
    <3>3. CASE s = <<Unit("header"), Unit("badjson")>>
      BY <3>1, <3>2, <3>3
    <3>4. CASE s = <<Unit("header"), Unit("notification")>>
      BY <3>1, <3>2, <3>4
    <3>5. CASE s = <<Unit("oversize")>>
      BY <3>1, <3>2, <3>5
    <3> QED
      BY <3>3, <3>4, <3>5, Zenon
  <2> QED
    BY <2>1, <2>2, <2>3, <1>10, ClientOnlyStep
<1>13. ASSUME NEW k \in Conns, DaemonGone(k) PROVE RequestInv'
  <2>1. PICK n \in 0..Len(stream[k]) :
          stream' = [stream EXCEPT ![k] = SubSeq(stream[k], 1, n)]
    BY <1>13 DEF DaemonGone
  <2>2. \A j \in Conns : \A i \in 1..Len(stream'[j]) : Answered(stream'[j][i])
    <3> SUFFICES ASSUME NEW j \in Conns, NEW i \in 1..Len(stream'[j])
                 PROVE  Answered(stream'[j][i])
      OBVIOUS
    <3>1. CASE j # k
      BY <2>1, <1>t, <3>1 DEF TypeOK, RefInv, RequestInv
    <3>2. CASE j = k
      <4>1. stream'[j] = SubSeq(stream[k], 1, n) /\ stream[k] \in Seq(Units)
        BY <2>1, <1>t, <3>2 DEF TypeOK
      <4>2. i \in 1..Len(stream[k]) /\ stream'[j][i] = stream[k][i]
        BY <4>1, SubSeqProperties, LenProperties
      <4> QED
        BY <4>2 DEF RefInv, RequestInv
    <3> QED
      BY <3>1, <3>2
  <2>3. /\ inbox' = [inbox EXCEPT ![k] = {}]
        /\ running' = [running EXCEPT ![k] = {}]
        /\ UNCHANGED <<st, via, executed>>
    BY <1>13 DEF DaemonGone, clientVars
  <2> QED
    BY <1>t, <2>2, <2>3 DEF RefInv, RequestInv, TypeOK, Answered
<1>14. ASSUME UNCHANGED vars \/ \E k \in Conns : PeerEnd(k) \/ Ended(k) PROVE RequestInv'
  <2>1. UNCHANGED <<inbox, running, stream, executed, via, st>>
    BY <1>14 DEF vars, PeerEnd, Ended, daemonVars, clientVars
  <2> QED
    BY <2>1, ClientOnlyStep, AnsweredKept
<1> QED
  BY <1>1, <1>2, <1>3, <1>4, <1>5, <1>6, <1>7, <1>8, <1>9, <1>11, <1>12, <1>13, <1>14
     DEF Next, HostStep, EventStep, DaemonStep, Resume
-----------------------------------------------------------------------------
(* The refinement *)

Status == [c \in Calls |-> IF st[c] \in Waiting THEN "open" ELSE st[c]]

\* Rejecting a set of calls is a settling step of the transport.
LEMMA RejectSettles ==
    ASSUME TypeOK, NEW S, NEW code \in Codes, st' = Reject(S, code), UNCHANGED executed,
           \A c \in Calls \cap S : st[c] \in Waiting =>
              /\ code \in {"ok", "rpc"} => executed[c] = 1
              /\ code = "not_running" => executed[c] = 0
    PROVE  T!Next
<1> DEFINE R == {c \in Calls \cap S : st[c] \in Waiting}
<1>1. Status' = [c \in Calls |-> IF c \in R THEN code ELSE Status[c]]
  <2>1. \A c \in Calls : Status'[c] = IF c \in R THEN code ELSE Status[c]
    BY DEF Status, Reject, Waiting, Codes, TypeOK
  <2> QED
    BY <2>1 DEF Status
<1>2. \A c \in R : Status[c] = "open"
  BY DEF Status
<1>3. R \in SUBSET Calls /\ code \in T!Codes
  BY DEF Codes, T!Codes
<1>4. T!Settle(R, code)
  BY <1>1, <1>2 DEF T!Settle, Status
<1> QED
  BY <1>3, <1>4 DEF T!Next

\* A step after which the same calls are open and the others as they were, and
\* in which the daemon runs nothing, is invisible.
LEMMA Invisible ==
    ASSUME UNCHANGED executed,
           \A c \in Calls : st'[c] = st[c] \/ (st[c] \in Waiting /\ st'[c] \in Waiting)
    PROVE  UNCHANGED T!vars
<1>1. \A c \in Calls : Status'[c] = Status[c]
  BY DEF Status
<1> QED
  BY <1>1 DEF Status, T!vars

LEMMA RefinementInit == ASSUME Init PROVE T!Init
BY DEF Init, T!Init, Waiting

LEMMA RefinementStep ==
    ASSUME IpcAssumption, RefInv, [Next]_vars
    PROVE  [T!Next]_(T!vars)
<1>t. TypeOK
  BY DEF RefInv, StrandInv
<1>1. ASSUME NEW c \in Calls, Call(c) PROVE T!Next
  <2>1. /\ st[c] = "idle"
        /\ \E w \in {"awaiting", "resumed"} : st' = [st EXCEPT ![c] = w]
        /\ UNCHANGED executed
    BY <1>1 DEF Call, CallReuse, CallJoin, CallConnect, daemonVars
  <2>2. Status' = [Status EXCEPT ![c] = "open"] /\ Status[c] = "idle"
    BY <1>t, <2>1 DEF Status, Waiting, TypeOK
  <2>3. T!Issue(c)
    BY <2>1, <2>2 DEF T!Issue, Status
  <2> QED
    BY <2>3 DEF T!Next
<1>2. ASSUME NEW c \in Calls, Send(c) PROVE UNCHANGED T!vars
  BY <1>2, <1>t, Invisible DEF Send, Waiting, TypeOK
<1>3. ASSUME NEW c \in Calls, SendOversize(c) \/ SendDead(c) PROVE T!Next
  <2>1. UNCHANGED executed
    BY <1>3 DEF SendOversize, SendDead, daemonVars
  <2>2. st' = Reject({c}, "frame") \/ st' = Reject({c}, "connect_failed")
    BY <1>3, <1>t DEF SendOversize, SendDead, Reject, Waiting, TypeOK
  <2> QED
    BY <1>t, <2>1, <2>2, RejectSettles DEF Codes
<1>4. ASSUME NEW c \in Calls, SendEnding(c) \/ Timeout(c) PROVE T!Next
  <2>1. UNCHANGED executed
    BY <1>4 DEF SendEnding, Timeout, daemonVars
  <2>2. st' = Reject(pending \cup {c}, "connect_failed") \/ st' = Reject({c}, "timeout")
    BY <1>4 DEF SendEnding, Timeout
  <2> QED
    BY <1>t, <2>1, <2>2, RejectSettles DEF Codes
<1>5. ASSUME Close \/ \E k \in Conns : SocketError(k) \/ OnClose(k) PROVE T!Next
  <2>1. UNCHANGED executed
    BY <1>5 DEF Close, SocketError, OnClose, daemonVars
  <2>2. st' = Reject(pending, "closed") \/ st' = Reject(pending, "connect_failed")
    BY <1>5 DEF Close, SocketError, OnClose, FailAll
  <2> QED
    BY <1>t, <2>1, <2>2, RejectSettles DEF Codes
<1>6. ASSUME NEW k \in Conns, Connected(k) PROVE UNCHANGED T!vars
  BY <1>6, Invisible DEF Connected, Waiting
<1>7. ASSUME NEW k \in Conns, NEW code \in {"not_running", "connect_failed"},
             ConnectError(k, code)
      PROVE  T!Next
  <2> DEFINE S == {c \in Calls : st[c] = "awaiting" /\ via[c] = k}
  <2>1. UNCHANGED executed
    BY <1>7 DEF ConnectError, daemonVars
  <2>2. st' = Reject(S, code)
    BY <1>7 DEF ConnectError, Reject, Waiting
  <2>3. \A c \in S : executed[c] = 0
    BY DEF RefInv, RequestInv
  <2>4. code \in Codes /\ code \notin {"ok", "rpc"}
    BY DEF Codes
  <2> HIDE DEF S
  <2> QED
    BY <1>t, <2>1, <2>2, <2>3, <2>4, RejectSettles
<1>8. ASSUME NEW k \in Conns, OnData(k) PROVE T!Next \/ UNCHANGED T!vars
  <2> DEFINE u == Head(stream[k])
  <2>1. UNCHANGED executed /\ Decode(u)
    BY <1>8 DEF OnData
  <2>2. u.tag \in Answers => u.id \in Calls /\ executed[u.id] = 1
    <3>1. stream[k] \in Seq(Units) /\ stream[k] # <<>>
      BY <1>8, <1>t DEF OnData, TypeOK
    <3>2. u = stream[k][1] /\ 1 \in 1..Len(stream[k])
      BY <3>1
    <3> QED
      BY <3>2 DEF RefInv, RequestInv, Answered
  <2> HIDE DEF u
  <2>3. CASE st' = st
    BY <2>1, <2>3, Invisible
  <2>4. CASE st' = Reject(pending, "frame") \/ st' = Reject(pending, "protocol")
             \/ st' = Reject({u.id}, "protocol")
    BY <1>t, <2>1, <2>4, RejectSettles DEF Codes
  <2>5. CASE u.tag \in Answers /\ (st' = Reject({u.id}, "ok") \/ st' = Reject({u.id}, "rpc"))
    BY <1>t, <2>1, <2>2, <2>5, RejectSettles DEF Codes
  <2> QED
    BY <2>1, <2>3, <2>4, <2>5, DecodeRejects
<1>9. ASSUME NEW k \in Conns, NEW c \in Calls, DaemonExecute(k, c) PROVE T!Next
  <2>1. executed[c] = 0 /\ st[c] \notin {"idle", "not_running"}
    BY <1>9 DEF DaemonExecute, RefInv, RequestInv
  <2>2. executed' = [executed EXCEPT ![c] = 1] /\ UNCHANGED st
    BY <1>9, <2>1 DEF DaemonExecute, clientVars
  <2>3. T!Execute(c)
    BY <2>1, <2>2 DEF T!Execute, Waiting
  <2> QED
    BY <2>3 DEF T!Next
<1>10. CASE UNCHANGED <<st, executed>>
  BY <1>10, Invisible
<1> QED
  BY <1>1, <1>2, <1>3, <1>4, <1>5, <1>6, <1>7, <1>8, <1>9, <1>10
     DEF Next, HostStep, EventStep, DaemonStep, Resume, PeerEnd, Ended, DaemonJunk,
         DaemonGone, DaemonReply, vars, clientVars, daemonVars

\* The framed client keeps the transport's promise: a call settles once and with
\* one code, its request runs at most once, an answer is the answer of that run,
\* and 'not_running' means that it never ran and never will.
THEOREM Refinement == Spec => ImplementsTransport
<1>1. Init => RefInv /\ T!Init
  BY IpcAssumption, RequestInit, RefinementInit
<1>2. RefInv /\ [Next]_vars => RefInv'
  BY IpcAssumption, RequestStep
<1>3. RefInv /\ [Next]_vars => [T!Next]_(T!vars)
  BY IpcAssumption, RefinementStep
<1> QED
  BY <1>1, <1>2, <1>3, PTL DEF Spec, ImplementsTransport, T!Spec
=============================================================================
