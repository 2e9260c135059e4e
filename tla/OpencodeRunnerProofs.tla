------------------------- MODULE OpencodeRunnerProofs -------------------------
(***************************************************************************)
(* What the opencode runner guarantees for every set of calls, any number  *)
(* of starts and stops and any length of a reply: no server is orphaned,   *)
(* concurrent callers share one, none waits for a start that has ended,    *)
(* and a transcript is a beginning of the reply.                           *)
(***************************************************************************)
EXTENDS OpencodeRunner, FiniteSetTheorems, TLAPS

-----------------------------------------------------------------------------
(* The server *)

StartStates == {"none", "boot", "ready", "failed"}
ProcStates == {"none", "up", "term", "dead"}

ServerType ==
    /\ server \in 0..MaxStarts /\ starting \in 0..MaxStarts /\ starts \in 0..MaxStarts
    /\ stops \in 0..MaxStops /\ stopped \subseteq 1..starts
    /\ start \in [Starts -> StartStates]
    /\ binds \in [Starts -> 0..BindAttempts]
    /\ proc \in [Starts -> ProcStates]

\* The installed server is the start that this.starting still names; a process that runs
\* and was begun since the last stop() is that start's; starts to come have no process.
ServerInv ==
    /\ ServerType
    /\ server # 0 => server = starting /\ start[server] = "ready"
    /\ \A s \in Starts : s > starts => start[s] = "none" /\ proc[s] = "none"
    /\ \A s \in Starts \ stopped : proc[s] = "up" => s = starting
    /\ NoOrphan

USE DEF serverVars, agentVars, teeVars

\* The constants, one by one.
LEMMA Consts ==
    /\ BindAttempts \in Nat \ {0} /\ Chunks \in Nat \ {0}
    /\ MaxStarts \in Nat /\ MaxStops \in Nat
BY OpencodeRunnerAssumption

\* A start that fails: it was not the server.
LEMMA StartFailsServer ==
    ASSUME ServerInv, NEW s \in Starts, start[s] = "boot", NEW fate \in {"term", "dead"},
           StartFails(s, fate), UNCHANGED <<starts, stops, stopped>>
    PROVE  ServerInv'
<1>1. /\ start' = [start EXCEPT ![s] = "failed"] /\ proc' = [proc EXCEPT ![s] = fate]
      /\ starting' = IF starting = s THEN 0 ELSE starting
      /\ UNCHANGED <<server, binds>>
  BY DEF StartFails
<1>2. s <= starts
  BY DEF ServerInv, ServerType, StartStates, Starts
<1>3. ServerType'
  BY <1>1, Consts DEF ServerInv, ServerType, StartStates, ProcStates
<1>4. \A r \in Starts : /\ start'[r] = IF r = s THEN "failed" ELSE start[r]
                        /\ proc'[r] = IF r = s THEN fate ELSE proc[r]
  BY <1>1 DEF ServerInv, ServerType
<1>5. server # 0 => server \in Starts
  BY Consts DEF ServerInv, ServerType, Starts
<1>6. server # 0 => server # s
  BY DEF ServerInv
<1>7. (server # 0 => server = starting /\ start[server] = "ready")'
  BY <1>1, <1>4, <1>5, <1>6 DEF ServerInv
<1>8. (\A r \in Starts : r > starts => start[r] = "none" /\ proc[r] = "none")'
  BY <1>2, <1>4, Consts DEF ServerInv, ServerType, Starts
<1>9. (\A r \in Starts \ stopped : proc[r] = "up" => r = starting)'
  BY <1>1, <1>4 DEF ServerInv
<1>10. NoOrphan'
  BY <1>1, <1>4 DEF ServerInv, NoOrphan
<1> QED
  BY <1>3, <1>7, <1>8, <1>9, <1>10 DEF ServerInv

\* A start that is ready is installed where it is the one waited for.
LEMMA InstallServer ==
    ASSUME ServerInv, NEW s \in Starts, Booting(s), Install(s),
           UNCHANGED <<starts, stops, stopped>>
    PROVE  ServerInv'
<1>1. CASE starting # s
  BY <1>1, StartFailsServer DEF Install, Booting
<1>2. CASE starting = s
  <2>1. /\ server' = s /\ start' = [start EXCEPT ![s] = "ready"]
        /\ UNCHANGED <<starting, binds, proc>>
    BY <1>2 DEF Install
  <2>2. s <= starts /\ s # 0
    BY Consts DEF Booting, ServerInv, ServerType, Starts
  <2>3. server = 0
    BY <1>2 DEF Booting, ServerInv
  <2>4. ServerType'
    BY <2>1, Consts DEF ServerInv, ServerType, StartStates, Starts
  <2>5. \A r \in Starts : start'[r] = IF r = s THEN "ready" ELSE start[r]
    BY <2>1 DEF ServerInv, ServerType
  <2>6. (\A r \in Starts : r > starts => start[r] = "none" /\ proc[r] = "none")'
    BY <2>1, <2>2, <2>5, Consts DEF ServerInv, ServerType, Starts
  <2>7. NoOrphan'
    BY <2>1, <2>2, <2>3, <2>5, Consts DEF ServerInv, NoOrphan, Starts
  <2> QED
    BY <1>2, <2>1, <2>4, <2>5, <2>6, <2>7 DEF ServerInv
<1> QED
  BY <1>1, <1>2

\* A call that begins a start finds none under way.
LEMMA BeginServer ==
    ASSUME ServerInv, NEW c \in Calls, server = 0, starting = 0, Begin(c)
    PROVE  ServerInv'
<1> DEFINE s == starts + 1
<1>1. /\ starts < MaxStarts /\ starts' = s /\ starting' = s
      /\ start' = [start EXCEPT ![s] = "boot"] /\ binds' = [binds EXCEPT ![s] = 1]
      /\ proc' = [proc EXCEPT ![s] = "up"] /\ UNCHANGED <<server, stops, stopped>>
  BY DEF Begin
<1>2. starts \in Nat /\ s \in Starts /\ s \in 0..MaxStarts /\ 1..starts \subseteq 1..s
  BY <1>1, Consts DEF ServerInv, ServerType, Starts
<1>3. ServerType'
  BY <1>1, <1>2, Consts DEF ServerInv, ServerType, StartStates, ProcStates
<1>4. \A r \in Starts : /\ start'[r] = IF r = s THEN "boot" ELSE start[r]
                        /\ proc'[r] = IF r = s THEN "up" ELSE proc[r]
  BY <1>1 DEF ServerInv, ServerType
<1>5. \A r \in Starts : r \notin stopped /\ proc[r] = "up" => r = 0
  BY DEF ServerInv
<1>6. (\A r \in Starts \ stopped : proc[r] = "up" => r = starting)'
  BY <1>1, <1>4, <1>5 DEF Starts
<1>7. \A r \in Starts : r > s => r > starts /\ r # s
  BY <1>2 DEF Starts
<1>8. (\A r \in Starts : r > starts => start[r] = "none" /\ proc[r] = "none")'
  BY <1>1, <1>4, <1>7 DEF ServerInv
<1>9. NoOrphan'
  BY <1>1, <1>4 DEF ServerInv, NoOrphan
<1> QED
  BY <1>1, <1>3, <1>6, <1>8, <1>9 DEF ServerInv

\* Every step keeps the servers accounted for.
LEMMA ServerStep ==
    ASSUME ServerInv, [Next]_vars
    PROVE  ServerInv'
<1>0. ASSUME UNCHANGED serverVars PROVE ServerInv'
  BY <1>0 DEF ServerInv, ServerType, NoOrphan
<1>1. CASE Stop
  <2>1. /\ starting' = 0 /\ server' = 0 /\ stopped' = 1..starts /\ stops' \in 0..MaxStops
        /\ UNCHANGED <<starts, start, binds>>
    BY <1>1, Consts DEF Stop, ServerInv, ServerType
  <2>2. proc' = [s \in Starts |-> IF s = server /\ proc[s] = "up" THEN "term" ELSE proc[s]]
    BY <1>1 DEF Stop
  <2>3. \A s \in Starts :
          proc'[s] = IF s = server /\ proc[s] = "up" THEN "term" ELSE proc[s]
    BY <2>2
  <2>4. ServerType'
    BY <2>1, <2>2, Consts DEF ServerInv, ServerType, ProcStates
  <2>5. (\A s \in Starts : s > starts => start[s] = "none" /\ proc[s] = "none")'
    BY <2>1, <2>3 DEF ServerInv
  <2>6. \A s \in Starts : s \notin 1..starts => s > starts
    BY Consts DEF ServerInv, ServerType, Starts
  <2>7. (\A s \in Starts \ stopped : proc[s] = "up" => s = starting)'
    BY <2>1, <2>5, <2>6
  <2>8. NoOrphan'
    BY <2>1, <2>3 DEF ServerInv, NoOrphan
  <2> QED
    BY <2>1, <2>4, <2>5, <2>7, <2>8 DEF ServerInv
<1>2. ASSUME NEW c \in Calls, RunPhase(c) PROVE ServerInv'
  BY <1>0, <1>2, BeginServer DEF RunPhase, EnsureServer
<1>3. ASSUME NEW c \in Calls,
             \/ Timeout(c) \/ Create(c) \/ RequestFails(c) \/ PromptDone(c) \/ Subscribe(c)
             \/ TeeNext(c) \/ TeeFails(c) \/ Announce(c) \/ Say(c)
      PROVE  ServerInv'
  BY <1>0, <1>3 DEF Timeout, Create, RequestFails, PromptDone, Subscribe, TeeNext, TeeFails,
                    Announce, Say
<1>4. ASSUME NEW s \in Starts, Banner(s) PROVE ServerInv'
  BY <1>4, InstallServer DEF Banner
<1>5. ASSUME NEW s \in Starts, ExitBeforeReady(s) PROVE ServerInv'
  <2>1. CASE StartFails(s, "dead")
    BY <1>5, <2>1, StartFailsServer DEF ExitBeforeReady, Booting
  <2>2. CASE /\ binds[s] < BindAttempts /\ binds' = [binds EXCEPT ![s] = @ + 1]
             /\ UNCHANGED <<server, starting, start, proc>>
    <3>1. binds[s] + 1 \in 0..BindAttempts
      BY <2>2, Consts DEF ServerInv, ServerType
    <3>2. ServerType'
      BY <1>5, <2>2, <3>1 DEF ExitBeforeReady, ServerInv, ServerType
    <3> QED
      BY <1>5, <2>2, <3>2 DEF ExitBeforeReady, ServerInv, NoOrphan
  <2> QED
    BY <1>5, <2>1, <2>2 DEF ExitBeforeReady
<1>6. ASSUME NEW s \in Starts, BannerTimeout(s) \/ SpawnFails(s) PROVE ServerInv'
  BY <1>6, StartFailsServer DEF BannerTimeout, SpawnFails, Booting
<1>7. ASSUME NEW s \in Starts, ServerDies(s) PROVE ServerInv'
  <2>1. /\ proc' = [proc EXCEPT ![s] = "dead"] /\ proc[s] # "none"
        /\ UNCHANGED <<server, starting, starts, stops, stopped, start, binds>>
    BY <1>7 DEF ServerDies
  <2>2. ServerType'
    BY <2>1 DEF ServerInv, ServerType, ProcStates
  <2>3. \A r \in Starts : proc'[r] = IF r = s THEN "dead" ELSE proc[r]
    BY <2>1 DEF ServerInv, ServerType
  <2> QED
    BY <2>1, <2>2, <2>3 DEF ServerInv, NoOrphan
<1>8. CASE UNCHANGED vars
  BY <1>0, <1>8 DEF vars
<1> QED
  BY <1>1, <1>2, <1>3, <1>4, <1>5, <1>6, <1>7, <1>8 DEF Next

\* The servers are accounted for in every reachable state.
THEOREM ServerInvHolds == Spec => []ServerInv
<1>1. Init => ServerInv
  BY Consts DEF Init, ServerInv, ServerType, StartStates, ProcStates, NoOrphan, Starts
<1>2. ServerInv /\ [Next]_vars => ServerInv'
  BY ServerStep
<1> QED
  BY <1>1, <1>2, PTL DEF Spec

\* A server process nobody has signalled is the one stop() would signal or is being
\* started, however starts, failures, calls and stop() interleave.
THEOREM NoServerOrphaned == Spec => []NoOrphan
<1>1. ServerInv => NoOrphan
  BY DEF ServerInv
<1> QED
  BY <1>1, ServerInvHolds, PTL

\* Concurrent callers share one server: of those begun since the last stop(), at most one
\* runs that has not been signalled.
THEOREM OneServerShared == Spec => []OneServer
<1>1. ServerInv => OneServer
  <2> SUFFICES ASSUME ServerInv PROVE OneServer
    OBVIOUS
  <2>1. {s \in Starts \ stopped : proc[s] = "up"} \subseteq {starting}
    BY DEF ServerInv
  <2>2. IsFiniteSet({starting}) /\ Cardinality({starting}) = 1
    BY FS_Singleton
  <2>3. Cardinality({s \in Starts \ stopped : proc[s] = "up"}) <= 1
    BY <2>1, <2>2, FS_Subset
  <2> QED
    BY <2>3 DEF OneServer
<1> QED
  BY <1>1, ServerInvHolds, PTL

-----------------------------------------------------------------------------
(* The transcript *)

\* The events the server has announced to a call, and the k-th of them: the user's
\* message, the assistant's, the deltas, the whole part.
Announced(c) == CASE told[c] = "nothing" -> 0
                  [] told[c] = "user" -> 1
                  [] told[c] = "message" -> said[c] + 2
                  [] OTHER -> Chunks + 3
Event(k) == IF k <= 1 THEN [type |-> "user", n |-> 0]
            ELSE IF k = 2 THEN [type |-> "message", n |-> 0]
            ELSE IF k <= Chunks + 2 THEN [type |-> "delta", n |-> k - 2]
            ELSE [type |-> "part", n |-> Chunks]

Events == {Event(k) : k \in 1..(Chunks + 3)}

\* Of the announced events, those that are no longer on the bus.
Seen(c) == Announced(c) - Len(bus[c])

\* What the variables of the calls hold.
CallType ==
    /\ pc \in [Calls -> {"idle", "start", "create", "prompt", "done", "failed"}]
    /\ told \in [Calls -> {"nothing", "user", "message", "part"}]
    /\ said \in [Calls -> 0..Chunks]
    /\ tee \in [Calls -> {"off", "on", "over"}] /\ known \in [Calls -> BOOLEAN]
    /\ bus \in [Calls -> Seq(Events)]
    /\ text \in [Calls -> Seq(0..Chunks)] /\ written \in [Calls -> 0..Chunks]

\* The bus holds the last of the announced events, in order.
BusInv(c) ==
    /\ told[c] \in {"nothing", "user"} => said[c] = 0
    /\ told[c] = "part" => said[c] = Chunks
    /\ Len(bus[c]) <= Announced(c)
    /\ \A i \in 1..Len(bus[c]) : bus[c][i] = Event(Seen(c) + i)
    /\ tee[c] # "on" => bus[c] = <<>>

\* The text is the first written[c] pieces of the reply; a call that knows the
\* assistant's message has written every delta it has seen.
TextInv(c) ==
    /\ tee[c] = "off" => ~known[c]
    /\ Len(text[c]) = written[c] /\ \A i \in 1..written[c] : text[c][i] = i
    /\ known[c] /\ tee[c] = "on" =>
         Seen(c) >= 2 /\ written[c] = IF Seen(c) <= Chunks + 2 THEN Seen(c) - 2 ELSE Chunks
    /\ ~known[c] /\ pc[c] # "done" => written[c] = 0
    /\ pc[c] = "done" => written[c] = Chunks

TranscriptInv == CallType /\ \A c \in Calls : BusInv(c) /\ TextInv(c)

\* What the invariant says of a call depends on the call's own variables.
LEMMA CallsApart ==
    ASSUME TranscriptInv, CallType', NEW c \in Calls, (BusInv(c) /\ TextInv(c))',
           \A d \in Calls \ {c} :
             /\ pc'[d] = pc[d] /\ told'[d] = told[d] /\ said'[d] = said[d]
             /\ tee'[d] = tee[d] /\ known'[d] = known[d] /\ bus'[d] = bus[d]
             /\ text'[d] = text[d] /\ written'[d] = written[d]
    PROVE  TranscriptInv'
<1> SUFFICES ASSUME NEW d \in Calls \ {c} PROVE (BusInv(d) /\ TextInv(d))'
  BY DEF TranscriptInv
<1>1. BusInv(d) /\ TextInv(d)
  BY DEF TranscriptInv
<1>2. Seen(d)' = Seen(d) /\ Announced(d)' = Announced(d)
  BY DEF Seen, Announced
<1> QED
  BY <1>1, <1>2 DEF BusInv, TextInv

\* The number of announced events.
LEMMA AnnouncedType ==
    ASSUME CallType, NEW c \in Calls
    PROVE  Announced(c) \in 0..(Chunks + 3)
<1>1. told[c] \in {"nothing", "user", "message", "part"} /\ said[c] \in 0..Chunks
  BY DEF CallType
<1>2. Chunks \in Nat
  BY Consts
<1> QED
  BY <1>1, <1>2 DEF Announced

\* Steps that leave the transcripts alone and end no call with success.
LEMMA TranscriptsUnchanged ==
    ASSUME TranscriptInv, UNCHANGED <<agentVars, teeVars, bus>>,
           pc' \in [Calls -> {"idle", "start", "create", "prompt", "done", "failed"}],
           \A c \in Calls : pc'[c] = "done" <=> pc[c] = "done"
    PROVE  TranscriptInv'
BY DEF TranscriptInv, CallType, BusInv, TextInv, Seen, Announced

\* A step after which the call's event stream is over and its text as it was.
LEMMA StreamOver ==
    ASSUME TranscriptInv, NEW c \in Calls, EventsAbort(c), UNCHANGED <<agentVars, known>>,
           UNCHANGED <<text, written>>, pc[c] # "done",
           pc' = pc \/ pc' = [pc EXCEPT ![c] = "failed"]
    PROVE  TranscriptInv'
<1>1. /\ tee' = [tee EXCEPT ![c] = "over"] /\ bus' = [bus EXCEPT ![c] = <<>>]
  BY DEF EventsAbort
<1>2. CallType'
  BY <1>1 DEF TranscriptInv, CallType
<1>3. /\ tee'[c] = "over" /\ bus'[c] = <<>> /\ pc'[c] # "done"
      /\ \A d \in Calls \ {c} : tee'[d] = tee[d] /\ bus'[d] = bus[d] /\ pc'[d] = pc[d]
  BY <1>1 DEF TranscriptInv, CallType
<1>4. Announced(c)' \in Nat
  BY AnnouncedType DEF TranscriptInv, Announced
<1>5. BusInv(c)'
  BY <1>3, <1>4 DEF TranscriptInv, BusInv
<1>6. TextInv(c)'
  BY <1>3 DEF TranscriptInv, TextInv
<1> QED
  BY <1>2, <1>3, <1>5, <1>6, CallsApart

\* The server announces its next event; a subscriber finds it at the end of its bus.
LEMMA PublishKeeps ==
    ASSUME TranscriptInv, NEW c \in Calls, pc[c] = "prompt", NEW type, NEW n,
           Publish(c, type, n), UNCHANGED <<pc, teeVars>>,
           told' \in [Calls -> {"nothing", "user", "message", "part"}],
           said' \in [Calls -> 0..Chunks],
           \A d \in Calls \ {c} : told'[d] = told[d] /\ said'[d] = said[d],
           told'[c] \in {"nothing", "user"} => said'[c] = 0,
           told'[c] = "part" => said'[c] = Chunks,
           Announced(c)' = Announced(c) + 1,
           Event(Announced(c) + 1) = [type |-> type, n |-> n],
           Announced(c) + 1 \in 1..(Chunks + 3)
    PROVE  TranscriptInv'
<1> DEFINE e == [type |-> type, n |-> n]
<1>0. Announced(c) \in Nat /\ Len(bus[c]) \in Nat /\ Len(bus[c]) <= Announced(c)
  <2>1. Announced(c) \in 0..(Chunks + 3)
    BY AnnouncedType DEF TranscriptInv
  <2>2. bus[c] \in Seq(Events) /\ Len(bus[c]) <= Announced(c)
    BY DEF TranscriptInv, CallType, BusInv
  <2> QED
    BY <2>1, <2>2, Consts
<1>1. e \in Events
  BY DEF Events
<1>2. bus' = [bus EXCEPT ![c] = IF tee[c] = "on" THEN Append(@, e) ELSE @]
  BY DEF Publish
<1> HIDE DEF e
<1>3. /\ bus'[c] = IF tee[c] = "on" THEN Append(bus[c], e) ELSE bus[c]
      /\ \A d \in Calls \ {c} : bus'[d] = bus[d]
  BY <1>2 DEF TranscriptInv, CallType
<1>4. CallType'
  <2>1. bus' \in [Calls -> Seq(Events)]
    BY <1>1, <1>2 DEF TranscriptInv, CallType
  <2> QED
    BY <2>1 DEF TranscriptInv, CallType
<1>5. CASE tee[c] = "on"
  <2>1. bus'[c] = Append(bus[c], e) /\ Len(bus'[c]) = Len(bus[c]) + 1
    BY <1>3, <1>5 DEF TranscriptInv, CallType
  <2>2. Seen(c)' = Seen(c)
    BY <1>0, <2>1 DEF Seen
  <2>3. ASSUME NEW i \in 1..Len(bus'[c]) PROVE bus'[c][i] = Event(Seen(c) + i)
    <3>1. CASE i \in 1..Len(bus[c])
      BY <2>1, <3>1 DEF TranscriptInv, CallType, BusInv
    <3>2. CASE i = Len(bus[c]) + 1
      <4>1. Seen(c) + i = Announced(c) + 1
        BY <1>0, <3>2 DEF Seen
      <4>2. bus'[c][i] = e
        BY <2>1, <3>2 DEF TranscriptInv, CallType
      <4> QED
        BY <4>1, <4>2 DEF e
    <3> QED
      BY <1>0, <2>1, <2>3, <3>1, <3>2
  <2>4. BusInv(c)'
    BY <1>0, <1>5, <2>1, <2>2, <2>3 DEF BusInv
  <2>5. TextInv(c)'
    BY <2>2 DEF TranscriptInv, TextInv
  <2> QED
    BY <1>3, <1>4, <2>4, <2>5, CallsApart
<1>6. CASE tee[c] # "on"
  <2>1. bus'[c] = <<>> /\ Len(bus'[c]) = 0
    BY <1>3, <1>6 DEF TranscriptInv, BusInv
  <2>2. BusInv(c)'
    BY <1>0, <2>1 DEF BusInv
  <2>3. TextInv(c)'
    BY <1>6 DEF TranscriptInv, TextInv
  <2> QED
    BY <1>3, <1>4, <2>2, <2>3, CallsApart
<1> QED
  BY <1>5, <1>6

\* The reply is a sequence.
LEMMA ReplyFacts ==
    /\ Reply \in Seq(0..Chunks) /\ Len(Reply) = Chunks
    /\ \A i \in 1..Chunks : Reply[i] = i
BY Consts DEF Reply

\* A beginning of the reply, and the rest of it.
LEMMA TailCompletes ==
    ASSUME NEW t \in Seq(0..Chunks), NEW w \in 0..Chunks, Len(t) = w,
           \A i \in 1..w : t[i] = i
    PROVE  t \o SubSeq(Reply, w + 1, Chunks) = Reply
<1> DEFINE rest == SubSeq(Reply, w + 1, Chunks)
           q == t \o rest
<1>1. Chunks \in Nat /\ w \in Nat /\ w <= Chunks
  BY Consts
<1>2. rest \in Seq(0..Chunks) /\ Len(rest) = Chunks - w
  BY <1>1, ReplyFacts
<1>3. \A i \in 1..(Chunks - w) : rest[i] = w + i
  <2> SUFFICES ASSUME NEW i \in 1..(Chunks - w) PROVE rest[i] = w + i
    OBVIOUS
  <2>1. rest[i] = Reply[w + 1 + i - 1]
    BY <1>1, ReplyFacts
  <2>2. w + 1 + i - 1 = w + i /\ w + i \in 1..Chunks
    BY <1>1
  <2> QED
    BY <2>1, <2>2, ReplyFacts
<1> HIDE DEF rest
<1>4. q \in Seq(0..Chunks) /\ Len(q) = Chunks
  BY <1>1, <1>2
<1>5. ASSUME NEW i \in 1..Chunks PROVE q[i] = i
  <2>1. CASE i <= w
    BY <1>1, <1>2, <2>1
  <2>2. CASE i > w
    <3>1. q[i] = rest[i - w]
      BY <1>1, <1>2, <2>2
    <3>2. i - w \in 1..(Chunks - w) /\ w + (i - w) = i
      BY <1>1, <2>2
    <3> QED
      BY <1>3, <3>1, <3>2
  <2>3. i <= w \/ i > w
    BY <1>1
  <2> QED
    BY <2>1, <2>2, <2>3
<1> HIDE DEF q
<1>6. q = [i \in 1..Chunks |-> i]
  BY <1>4, <1>5
<1> QED
  BY <1>6 DEF q, rest, Reply

\* Writing the whole part leaves the reply in the transcript.
LEMMA FullTextWhole ==
    ASSUME TranscriptInv, NEW c \in Calls, FullText(c, Chunks)
    PROVE  /\ text' = [text EXCEPT ![c] = Reply] /\ written' = [written EXCEPT ![c] = Chunks]
<1>1. /\ text[c] \in Seq(0..Chunks) /\ written[c] \in 0..Chunks
      /\ Len(text[c]) = written[c] /\ \A i \in 1..written[c] : text[c][i] = i
  BY DEF TranscriptInv, CallType, TextInv
<1>2. text[c] \o SubSeq(Reply, written[c] + 1, Chunks) = Reply
  BY <1>1, TailCompletes
<1>3. (IF Chunks > written[c] THEN Chunks ELSE written[c]) = Chunks
  BY <1>1, Consts
<1> QED
  BY <1>2, <1>3 DEF FullText

\* The tee takes the next event off the bus.
LEMMA TeeKeeps ==
    ASSUME TranscriptInv, NEW c \in Calls, TeeNext(c)
    PROVE  TranscriptInv'
<1> DEFINE e == Head(bus[c])
           k == Seen(c) + 1
<1>0. /\ bus[c] \in Seq(Events) /\ bus[c] # <<>> /\ tee[c] = "on" /\ pc[c] = "prompt"
      /\ Len(bus[c]) <= Announced(c) /\ text[c] \in Seq(0..Chunks) /\ written[c] \in 0..Chunks
  BY DEF TeeNext, TranscriptInv, CallType, BusInv
<1>1. Chunks \in Nat /\ Announced(c) \in 0..(Chunks + 3)
  BY AnnouncedType, Consts DEF TranscriptInv
<1>2. Len(bus[c]) \in Nat \ {0} /\ Seen(c) \in Nat /\ k \in 1..(Chunks + 3)
  <2>1. Len(bus[c]) \in Nat \ {0}
    BY <1>0
  <2> QED
    BY <1>0, <1>1, <2>1 DEF Seen
<1>3. e = Event(k)
  <2>1. e = bus[c][1] /\ 1 \in 1..Len(bus[c])
    BY <1>0, <1>2
  <2> QED
    BY <2>1 DEF TranscriptInv, BusInv
<1>4. /\ bus' = [bus EXCEPT ![c] = Tail(bus[c])]
      /\ UNCHANGED <<pc, told, said, tee>>
  BY DEF TeeNext
<1>5. /\ bus' \in [Calls -> Seq(Events)] /\ bus'[c] = Tail(bus[c])
      /\ \A d \in Calls \ {c} : bus'[d] = bus[d]
  BY <1>0, <1>4 DEF TranscriptInv, CallType
<1>6. /\ Len(bus'[c]) = Len(bus[c]) - 1
      /\ \A i \in 1..Len(bus'[c]) : bus'[c][i] = bus[c][i + 1]
  BY <1>0, <1>2, <1>5
<1>7. Announced(c)' = Announced(c) /\ Seen(c)' = k
  BY <1>1, <1>2, <1>4, <1>6 DEF Announced, Seen
<1>8. \A i \in 1..Len(bus'[c]) : bus'[c][i] = Event(k + i)
  <2> SUFFICES ASSUME NEW i \in 1..Len(bus'[c]) PROVE bus'[c][i] = Event(k + i)
    OBVIOUS
  <2>1. i \in Nat /\ Seen(c) + (i + 1) = k + i
    BY <1>2
  <2>2. i + 1 \in 1..Len(bus[c])
    BY <1>2, <1>6, <2>1
  <2> QED
    BY <1>6, <2>1, <2>2 DEF TranscriptInv, BusInv
<1>9. BusInv(c)'
  BY <1>0, <1>1, <1>2, <1>4, <1>6, <1>7, <1>8 DEF TranscriptInv, BusInv
<1>10. /\ e.type = "message" => k = 2
       /\ e.type = "delta" => k \in 3..(Chunks + 2) /\ e.n = k - 2
       /\ e.type = "part" => k = Chunks + 3 /\ e.n = Chunks
       /\ e.type = "user" => k = 1
  BY <1>1, <1>2, <1>3 DEF Event
<1>t. /\ known[c] \in BOOLEAN /\ TextInv(c)
  BY DEF TranscriptInv, CallType
<1> HIDE DEF e, k
<1>k. k = Seen(c) + 1
  BY DEF k
<1>11. CASE e.type = "message" /\ known' = [known EXCEPT ![c] = TRUE]
            /\ UNCHANGED <<text, written>>
  <2>1. ~known[c]
    BY <1>0, <1>2, <1>10, <1>11, <1>t, <1>k DEF TextInv
  <2>2. written[c] = 0
    BY <1>0, <1>t, <2>1 DEF TextInv
  <2>3. known'[c] /\ known' \in [Calls -> BOOLEAN] /\ \A d \in Calls \ {c} : known'[d] = known[d]
    BY <1>11 DEF TranscriptInv, CallType
  <2>4. TextInv(c)'
    BY <1>0, <1>1, <1>4, <1>7, <1>10, <1>11, <1>t, <2>2, <2>3 DEF TextInv
  <2>5. CallType'
    BY <1>4, <1>5, <1>11, <2>3 DEF TranscriptInv, CallType
  <2> QED
    BY <1>4, <1>5, <1>9, <1>11, <2>3, <2>4, <2>5, CallsApart
<1>12. CASE e.type = "delta" /\ known[c] /\ Delta(c, e.n) /\ UNCHANGED known
  <2>1. k \in 3..(Chunks + 2) /\ e.n = k - 2 /\ written[c] = k - 3
    BY <1>0, <1>1, <1>2, <1>10, <1>12, <1>t, <1>k DEF TextInv
  <2>2. /\ e.n \in 0..Chunks /\ e.n = written[c] + 1 /\ Len(text[c]) = written[c]
        /\ e.n \in Nat /\ k <= Chunks + 2 /\ e.n = k - 2 /\ k >= 2
    BY <1>1, <1>t, <2>1 DEF TextInv
  <2>3. /\ text' = [text EXCEPT ![c] = Append(text[c], e.n)]
        /\ written' = [written EXCEPT ![c] = e.n]
    BY <1>12, <2>2 DEF Delta
  <2>4. /\ text'[c] = Append(text[c], e.n) /\ written'[c] = e.n
        /\ text' \in [Calls -> Seq(0..Chunks)] /\ written' \in [Calls -> 0..Chunks]
        /\ \A d \in Calls \ {c} : text'[d] = text[d] /\ written'[d] = written[d]
    BY <1>0, <2>2, <2>3 DEF TranscriptInv, CallType
  <2>5. Len(text'[c]) = e.n /\ \A i \in 1..e.n : text'[c][i] = i
    <3>1. \A i \in 1..written[c] : text[c][i] = i
      BY <1>t DEF TextInv
    <3> QED
      BY <1>0, <2>2, <2>4, <3>1
  <2>6. TextInv(c)'
    BY <1>0, <1>4, <1>7, <1>12, <1>t, <2>2, <2>4, <2>5 DEF TextInv
  <2>7. CallType'
    BY <1>4, <1>5, <1>12, <2>4 DEF TranscriptInv, CallType
  <2> QED
    BY <1>4, <1>5, <1>9, <1>12, <2>4, <2>6, <2>7, CallsApart
<1>13. CASE e.type = "part" /\ known[c] /\ FullText(c, e.n) /\ UNCHANGED known
  <2>1. k = Chunks + 3 /\ e.n = Chunks
    BY <1>10, <1>13
  <2>2. /\ text' = [text EXCEPT ![c] = Reply] /\ written' = [written EXCEPT ![c] = Chunks]
    BY <1>13, <2>1, FullTextWhole
  <2>3. /\ text'[c] = Reply /\ written'[c] = Chunks
        /\ text' \in [Calls -> Seq(0..Chunks)] /\ written' \in [Calls -> 0..Chunks]
        /\ \A d \in Calls \ {c} : text'[d] = text[d] /\ written'[d] = written[d]
    BY <1>1, <2>2, ReplyFacts DEF TranscriptInv, CallType
  <2>4. ~(k <= Chunks + 2) /\ k >= 2
    BY <1>1, <2>1
  <2>5. TextInv(c)'
    BY <1>0, <1>4, <1>7, <1>13, <1>t, <2>3, <2>4, ReplyFacts DEF TextInv
  <2>6. CallType'
    BY <1>4, <1>5, <1>13, <2>3 DEF TranscriptInv, CallType
  <2> QED
    BY <1>4, <1>5, <1>9, <1>13, <2>3, <2>5, <2>6, CallsApart
<1>14. CASE (e.type = "user" \/ ~known[c]) /\ UNCHANGED <<known, text, written>>
  <2>1. ~known[c]
    BY <1>0, <1>2, <1>10, <1>14, <1>t, <1>k DEF TextInv
  <2>2. TextInv(c)'
    BY <1>0, <1>4, <1>14, <1>t, <2>1 DEF TextInv
  <2>3. CallType'
    BY <1>4, <1>5, <1>14 DEF TranscriptInv, CallType
  <2> QED
    BY <1>4, <1>5, <1>9, <1>14, <2>2, <2>3, CallsApart
<1> QED
  BY <1>11, <1>12, <1>13, <1>14 DEF TeeNext, e

\* The answer to the prompt: whatever the stream brought, the rest of the reply is added.
LEMMA PromptDoneKeeps ==
    ASSUME TranscriptInv, NEW c \in Calls, PromptDone(c)
    PROVE  TranscriptInv'
<1>1. /\ text' = [text EXCEPT ![c] = Reply] /\ written' = [written EXCEPT ![c] = Chunks]
  BY FullTextWhole DEF PromptDone
<1>2. /\ pc' = [pc EXCEPT ![c] = "done"] /\ tee' = [tee EXCEPT ![c] = "over"]
      /\ bus' = [bus EXCEPT ![c] = <<>>] /\ UNCHANGED <<told, said, known>>
  BY DEF PromptDone, EventsAbort
<1>3. CallType'
  BY <1>1, <1>2, ReplyFacts, Consts DEF TranscriptInv, CallType
<1>4. /\ text'[c] = Reply /\ written'[c] = Chunks /\ pc'[c] = "done" /\ tee'[c] = "over"
      /\ bus'[c] = <<>>
      /\ \A d \in Calls \ {c} : /\ text'[d] = text[d] /\ written'[d] = written[d]
                                /\ pc'[d] = pc[d] /\ tee'[d] = tee[d] /\ bus'[d] = bus[d]
  BY <1>1, <1>2 DEF TranscriptInv, CallType
<1>5. Announced(c)' \in Nat
  BY <1>2, AnnouncedType, Consts DEF TranscriptInv, Announced
<1>6. BusInv(c)'
  BY <1>2, <1>4, <1>5 DEF TranscriptInv, BusInv
<1>7. TextInv(c)'
  BY <1>4, ReplyFacts DEF TextInv
<1> QED
  BY <1>2, <1>3, <1>4, <1>6, <1>7, CallsApart

\* The server announces its next event.
LEMMA AnnounceKeeps ==
    ASSUME TranscriptInv, NEW c \in Calls, Announce(c) \/ Say(c)
    PROVE  TranscriptInv'
<1>0. /\ pc[c] = "prompt" /\ UNCHANGED <<pc, teeVars>> /\ Chunks \in Nat \ {0}
      /\ said[c] \in 0..Chunks /\ CallType
      /\ told[c] \in {"nothing", "user"} => said[c] = 0
  BY Consts DEF Announce, Say, Working, TranscriptInv, CallType, BusInv
<1>1. CASE told[c] = "nothing" /\ told' = [told EXCEPT ![c] = "user"]
           /\ Publish(c, "user", 0) /\ UNCHANGED said
  <2>1. /\ told' \in [Calls -> {"nothing", "user", "message", "part"}]
        /\ said' \in [Calls -> 0..Chunks] /\ told'[c] = "user"
        /\ \A d \in Calls \ {c} : told'[d] = told[d] /\ said'[d] = said[d]
    BY <1>0, <1>1 DEF CallType
  <2>2. Announced(c) = 0 /\ Announced(c)' = 1
    BY <1>1, <2>1 DEF Announced
  <2>3. Event(1) = [type |-> "user", n |-> 0] /\ 1 \in 1..(Chunks + 3)
    BY <1>0 DEF Event
  <2> QED
    BY <1>0, <1>1, <2>1, <2>2, <2>3, PublishKeeps
<1>2. CASE told[c] = "user" /\ told' = [told EXCEPT ![c] = "message"]
           /\ Publish(c, "message", 0) /\ UNCHANGED said
  <2>1. /\ told' \in [Calls -> {"nothing", "user", "message", "part"}]
        /\ said' \in [Calls -> 0..Chunks] /\ told'[c] = "message" /\ said'[c] = 0
        /\ \A d \in Calls \ {c} : told'[d] = told[d] /\ said'[d] = said[d]
    BY <1>0, <1>2 DEF CallType
  <2>2. Announced(c) = 1 /\ Announced(c)' = 2
    BY <1>2, <2>1 DEF Announced
  <2>3. Event(2) = [type |-> "message", n |-> 0] /\ 2 \in 1..(Chunks + 3)
    BY <1>0 DEF Event
  <2> QED
    BY <1>0, <1>2, <2>1, <2>2, <2>3, PublishKeeps
<1>3. CASE told[c] = "message" /\ said[c] = Chunks /\ told' = [told EXCEPT ![c] = "part"]
           /\ Publish(c, "part", Chunks) /\ UNCHANGED said
  <2>1. /\ told' \in [Calls -> {"nothing", "user", "message", "part"}]
        /\ said' \in [Calls -> 0..Chunks] /\ told'[c] = "part" /\ said'[c] = Chunks
        /\ \A d \in Calls \ {c} : told'[d] = told[d] /\ said'[d] = said[d]
    BY <1>0, <1>3 DEF CallType
  <2>2. Announced(c) = Chunks + 2 /\ Announced(c)' = Chunks + 3
    BY <1>3, <2>1 DEF Announced
  <2>3. /\ Event(Chunks + 3) = [type |-> "part", n |-> Chunks]
        /\ Chunks + 3 \in 1..(Chunks + 3) /\ Chunks + 2 + 1 = Chunks + 3
    BY <1>0 DEF Event
  <2> QED
    BY <1>0, <1>3, <2>1, <2>2, <2>3, PublishKeeps
<1>4. CASE Say(c)
  <2>0. /\ told[c] = "message" /\ said[c] < Chunks /\ UNCHANGED told
        /\ said' = [said EXCEPT ![c] = said[c] + 1] /\ Publish(c, "delta", said[c] + 1)
    BY <1>4 DEF Say
  <2>1. /\ told' \in [Calls -> {"nothing", "user", "message", "part"}]
        /\ said' \in [Calls -> 0..Chunks] /\ told'[c] = "message" /\ said'[c] = said[c] + 1
        /\ \A d \in Calls \ {c} : told'[d] = told[d] /\ said'[d] = said[d]
    BY <1>0, <2>0 DEF CallType
  <2>2. Announced(c) = said[c] + 2 /\ Announced(c)' = said[c] + 3
    BY <1>0, <2>0, <2>1 DEF Announced
  <2>3. /\ Event(said[c] + 3) = [type |-> "delta", n |-> said[c] + 1]
        /\ said[c] + 3 \in 1..(Chunks + 3) /\ said[c] + 2 + 1 = said[c] + 3
    BY <1>0, <2>0 DEF Event
  <2> QED
    BY <1>0, <2>0, <2>1, <2>2, <2>3, PublishKeeps
<1> QED
  BY <1>1, <1>2, <1>3, <1>4 DEF Announce

\* Every step of the runner, of its server and of the event stream keeps the transcripts.
LEMMA TranscriptStep ==
    ASSUME TranscriptInv, [Next]_vars
    PROVE  TranscriptInv'
<1> DEFINE PCs == {"idle", "start", "create", "prompt", "done", "failed"}
<1>0. pc \in [Calls -> PCs]
  BY DEF TranscriptInv, CallType
<1>1. CASE Stop \/ UNCHANGED vars
  BY <1>0, <1>1, TranscriptsUnchanged DEF Stop, vars
<1>2. ASSUME NEW c \in Calls, RunPhase(c) PROVE TranscriptInv'
  <2>1. /\ pc[c] = "idle" /\ \E to \in {"start", "create"} : pc' = [pc EXCEPT ![c] = to]
        /\ UNCHANGED <<agentVars, teeVars, bus>>
    BY <1>2 DEF RunPhase, EnsureServer, Begin
  <2>2. pc' \in [Calls -> PCs] /\ \A d \in Calls : pc'[d] = "done" <=> pc[d] = "done"
    BY <1>0, <2>1
  <2> QED
    BY <2>1, <2>2, TranscriptsUnchanged
<1>3. ASSUME NEW c \in Calls, Create(c) PROVE TranscriptInv'
  <2>1. /\ pc[c] = "create" /\ pc' = [pc EXCEPT ![c] = "prompt"]
        /\ UNCHANGED <<agentVars, teeVars, bus>>
    BY <1>3 DEF Create
  <2>2. pc' \in [Calls -> PCs] /\ \A d \in Calls : pc'[d] = "done" <=> pc[d] = "done"
    BY <1>0, <2>1
  <2> QED
    BY <2>1, <2>2, TranscriptsUnchanged
<1>4. ASSUME NEW c \in Calls, Timeout(c) PROVE TranscriptInv'
  <2>1. CASE pc[c] = "start"
    <3>1. pc' = pc /\ UNCHANGED <<agentVars, teeVars, bus>>
      BY <1>0, <1>4, <2>1 DEF Timeout
    <3> QED
      BY <1>0, <3>1, TranscriptsUnchanged
  <2>2. CASE pc[c] # "start"
    BY <1>4, <2>2, StreamOver DEF Timeout
  <2> QED
    BY <2>1, <2>2
<1>5. ASSUME NEW c \in Calls, RequestFails(c) \/ TeeFails(c) PROVE TranscriptInv'
  BY <1>5, StreamOver DEF RequestFails, TeeFails
<1>6. ASSUME NEW c \in Calls, PromptDone(c) PROVE TranscriptInv'
  BY <1>6, PromptDoneKeeps
<1>7. ASSUME NEW c \in Calls, Subscribe(c) PROVE TranscriptInv'
  <2>1. /\ tee[c] = "off" /\ tee' = [tee EXCEPT ![c] = "on"] /\ pc[c] = "prompt"
        /\ UNCHANGED <<pc, told, said, bus, known, text, written>>
    BY <1>7 DEF Subscribe
  <2>2. CallType' /\ \A d \in Calls \ {c} : tee'[d] = tee[d]
    BY <2>1 DEF TranscriptInv, CallType
  <2>3. BusInv(c) /\ TextInv(c) /\ ~known[c]
    BY <2>1 DEF TranscriptInv, TextInv
  <2>4. BusInv(c)'
    BY <2>1, <2>3 DEF BusInv, Seen, Announced
  <2>5. TextInv(c)'
    BY <2>1, <2>3 DEF TextInv
  <2> QED
    BY <2>1, <2>2, <2>4, <2>5, CallsApart
<1>8. ASSUME NEW c \in Calls, TeeNext(c) PROVE TranscriptInv'
  BY <1>8, TeeKeeps
<1>9. ASSUME NEW c \in Calls, Announce(c) \/ Say(c) PROVE TranscriptInv'
  BY <1>9, AnnounceKeeps
<1>10. ASSUME NEW s \in Starts,
              \/ Banner(s) \/ ExitBeforeReady(s) \/ BannerTimeout(s) \/ SpawnFails(s)
              \/ ServerDies(s)
       PROVE  TranscriptInv'
  <2>1. UNCHANGED <<agentVars, teeVars, bus>>
    BY <1>10 DEF Banner, ExitBeforeReady, BannerTimeout, SpawnFails, ServerDies
  <2>2. pc' = pc \/ Wake(s, "create") \/ Wake(s, "failed")
    BY <1>10 DEF Banner, ExitBeforeReady, BannerTimeout, SpawnFails, ServerDies, Install,
                 StartFails
  <2>3. pc' \in [Calls -> PCs] /\ \A c \in Calls : pc'[c] = "done" <=> pc[c] = "done"
    BY <1>0, <2>2 DEF Wake
  <2> QED
    BY <2>1, <2>3, TranscriptsUnchanged
<1> QED
  BY <1>1, <1>2, <1>3, <1>4, <1>5, <1>6, <1>7, <1>8, <1>9, <1>10 DEF Next

\* What the calls have gathered, and what is on its way to them, in every reachable state.
THEOREM TranscriptInvHolds == Spec => []TranscriptInv
<1>1. Init => TranscriptInv
  <2> SUFFICES ASSUME Init PROVE TranscriptInv
    OBVIOUS
  <2>1. CallType
    BY Consts DEF Init, CallType
  <2>2. ASSUME NEW c \in Calls PROVE BusInv(c) /\ TextInv(c)
    BY <2>2 DEF Init, BusInv, TextInv, Announced, Seen
  <2> QED
    BY <2>1, <2>2 DEF TranscriptInv
<1>2. TranscriptInv /\ [Next]_vars => TranscriptInv'
  BY TranscriptStep
<1> QED
  BY <1>1, <1>2, PTL DEF Spec

\* Deltas, updates and the final parts may all replay the same text: what a call has
\* gathered is at every moment a beginning of the reply, and an answered call has all of
\* it, wherever in the stream it subscribed and wherever the stream broke off.
THEOREM TranscriptIsFaithful == Spec => []TranscriptFaithful
<1>1. TranscriptInv => TranscriptFaithful
  <2> SUFFICES ASSUME TranscriptInv PROVE TranscriptFaithful
    OBVIOUS
  <2>1. ASSUME NEW c \in Calls
        PROVE  /\ text[c] \in Seq(0..Chunks) /\ Len(text[c]) = written[c]
               /\ written[c] \in 0..Chunks /\ \A i \in 1..written[c] : text[c][i] = i
               /\ pc[c] = "done" => written[c] = Chunks
    BY <2>1 DEF TranscriptInv, CallType, TextInv
  <2>2. ASSUME NEW c \in Calls, pc[c] = "done" PROVE text[c] = Reply
    <3>1. /\ text[c] \in Seq(0..Chunks) /\ Len(text[c]) = Chunks
          /\ \A i \in 1..Chunks : text[c][i] = i
      BY <2>1, <2>2
    <3> QED
      BY <3>1 DEF Reply
  <2>3. ASSUME NEW c \in Calls, NEW i \in DOMAIN text[c]
        PROVE  text[c][i] = i /\ i <= Chunks
    BY <2>1, <2>3, Consts
  <2> QED
    BY <2>2, <2>3 DEF TranscriptFaithful, AnswerWhole
<1> QED
  BY <1>1, TranscriptInvHolds, PTL

-----------------------------------------------------------------------------
(* The callers *)

\* A start that is still booting has its process; the start that this.starting names
\* with no server installed is booting, and so is every start a call awaits.
CallerInv ==
    /\ on \in [Calls -> 0..MaxStarts] /\ aborted \in [Calls -> BOOLEAN] /\ lost \in 0..MaxLost
    /\ \A s \in Starts : start[s] = "boot" => proc[s] = "up"
    /\ server = 0 /\ starting # 0 => start[starting] = "boot"
    /\ \A c \in Calls : pc[c] = "start" => on[c] # 0 /\ start[on[c]] = "boot"

\* What a call waits for is a start whose banner, exit or timeout is still to come.
AwaitsLiveStart == \A c \in Calls : pc[c] = "start" => on[c] \in Starts /\ Booting(on[c])

\* Steps of a call that has its server, or of its tee.
LEMMA CallersAlone ==
    ASSUME CallerInv, UNCHANGED <<server, starting, start, proc, on, lost>>,
           aborted' \in [Calls -> BOOLEAN],
           \A d \in Calls : pc'[d] = "start" => pc[d] = "start"
    PROVE  CallerInv'
BY DEF CallerInv

\* A start that ends takes its waiters with it.
LEMMA EndsWaits ==
    ASSUME ServerInv, CallerInv, CallType, NEW s \in Starts, start[s] = "boot",
           UNCHANGED <<starts, on, aborted, lost>>,
           \/ \E fate \in {"term", "dead"} : StartFails(s, fate)
           \/ Install(s)
    PROVE  CallerInv'
<1>1. PICK st \in {"failed", "ready"}, next \in {"failed", "create"} :
         /\ start' = [start EXCEPT ![s] = st] /\ Wake(s, next)
         /\ st = "ready" => server' = s /\ starting' = starting
         /\ st = "failed" => server' = server /\ starting' = IF starting = s THEN 0 ELSE starting
  BY DEF StartFails, Install
<1>2. \A r \in Starts : r # s => proc'[r] = proc[r]
  BY DEF StartFails, Install, ServerInv, ServerType
<1>3. \A r \in Starts : start'[r] = IF r = s THEN st ELSE start[r]
  BY <1>1 DEF ServerInv, ServerType
<1>4. \A c \in Calls : pc'[c] = "start" => pc[c] = "start" /\ on[c] # s
  BY <1>1 DEF Wake
<1>5. starting \in 0..MaxStarts /\ on \in [Calls -> 0..MaxStarts] /\ MaxStarts \in Nat
  BY Consts DEF ServerInv, ServerType, CallerInv
<1>6. server' = 0 /\ starting' # 0 => start'[starting'] = "boot"
  <2>1. CASE st = "ready" BY <2>1, <1>1, Consts DEF Starts
  <2>2. CASE st = "failed"
    BY <2>2, <1>1, <1>3, <1>5 DEF CallerInv, Starts
  <2> QED BY <2>1, <2>2
<1>7. \A c \in Calls : pc'[c] = "start" => on'[c] # 0 /\ start'[on'[c]] = "boot"
  BY <1>3, <1>4, <1>5 DEF CallerInv, Starts
<1> QED BY <1>1, <1>2, <1>3, <1>6, <1>7 DEF CallerInv

\* A call joins the server, the start under way, or a start of its own.
LEMMA EnsureWaits ==
    ASSUME ServerInv, CallerInv, CallType, NEW c \in Calls, RunPhase(c)
    PROVE  CallerInv'
<1>1. /\ starting \in 0..MaxStarts /\ server \in 0..MaxStarts /\ starts \in 0..MaxStarts
      /\ on \in [Calls -> 0..MaxStarts] /\ MaxStarts \in Nat
      /\ DOMAIN start = Starts /\ DOMAIN proc = Starts /\ DOMAIN pc = Calls
  BY Consts DEF ServerInv, ServerType, CallerInv, CallType
<1>2. UNCHANGED <<aborted, lost>>
  BY DEF RunPhase
<1>3. CASE server # 0
  BY <1>1, <1>2, <1>3 DEF RunPhase, EnsureServer, CallerInv
<1>4. CASE server = 0 /\ starting # 0
  BY <1>1, <1>2, <1>4 DEF RunPhase, EnsureServer, CallerInv
<1>5. CASE server = 0 /\ starting = 0
  <2> DEFINE n == starts + 1
  <2>1. /\ n \in Starts /\ starting' = n /\ server' = server
        /\ start' = [start EXCEPT ![n] = "boot"] /\ proc' = [proc EXCEPT ![n] = "up"]
        /\ pc' = [pc EXCEPT ![c] = "start"] /\ on' = [on EXCEPT ![c] = n]
    BY <1>1, <1>5 DEF RunPhase, EnsureServer, Begin, Starts
  <2> HIDE DEF n
  <2>2. n # 0 /\ n \in 0..MaxStarts BY <2>1, <1>1 DEF Starts
  <2> QED BY <1>1, <1>2, <2>1, <2>2 DEF CallerInv, Starts
<1> QED BY <1>3, <1>4, <1>5

LEMMA CallerStep ==
    ASSUME ServerInv, CallerInv, CallType, [Next]_vars
    PROVE  CallerInv'
<1>1. CASE Stop
  <2>1. /\ starting' = 0 /\ server' = 0
        /\ \A s \in Starts : proc'[s] = IF s = server /\ proc[s] = "up" THEN "term" ELSE proc[s]
        /\ UNCHANGED <<start, pc, on, aborted, lost>>
    BY <1>1 DEF Stop
  <2>2. \A s \in Starts : start[s] = "boot" => s # server
    BY Consts DEF ServerInv, Starts
  <2> QED BY <2>1, <2>2 DEF CallerInv
<1>2. ASSUME NEW c \in Calls, RunPhase(c) PROVE CallerInv'
  BY <1>2, EnsureWaits
<1>3. ASSUME NEW c \in Calls,
             \/ Timeout(c) \/ Create(c) \/ RequestFails(c) \/ PromptDone(c) \/ Subscribe(c)
             \/ TeeNext(c) \/ TeeFails(c) \/ Announce(c) \/ Say(c)
      PROVE  CallerInv'
  <2>1. /\ UNCHANGED <<server, starting, start, proc, on, lost>>
        /\ aborted' \in [Calls -> BOOLEAN]
    <3>1. CASE Timeout(c) BY <3>1 DEF Timeout, CallerInv
    <3>2. CASE ~Timeout(c)
      BY <1>3, <3>2 DEF Create, RequestFails, PromptDone, Subscribe, TeeNext, TeeFails,
                        Announce, Say, CallerInv
    <3> QED BY <3>1, <3>2
  <2>2. \A d \in Calls : pc'[d] = "start" => pc[d] = "start"
    BY <1>3 DEF CallType, Timeout, Create, RequestFails, PromptDone, Subscribe, TeeNext,
                TeeFails, Announce, Say
  <2> QED BY <2>1, <2>2, CallersAlone
<1>4. ASSUME NEW s \in Starts,
             Banner(s) \/ ExitBeforeReady(s) \/ BannerTimeout(s) \/ SpawnFails(s)
      PROVE  CallerInv'
  <2>1. CASE \/ Install(s) \/ \E fate \in {"term", "dead"} : StartFails(s, fate)
    BY <1>4, <2>1, EndsWaits
       DEF Banner, ExitBeforeReady, BannerTimeout, SpawnFails, Booting
  <2>2. CASE UNCHANGED <<server, starting, start, proc, pc>>
    BY <1>4, <2>2 DEF CallerInv, Banner, ExitBeforeReady, BannerTimeout, SpawnFails
  <2> QED BY <1>4, <2>1, <2>2 DEF Banner, ExitBeforeReady, BannerTimeout, SpawnFails
<1>5. ASSUME NEW s \in Starts, ServerDies(s) PROVE CallerInv'
  <2>1. /\ start[s] # "boot" /\ \A r \in Starts : r # s => proc'[r] = proc[r]
        /\ UNCHANGED <<server, starting, start, pc, on, aborted, lost>>
    BY <1>5 DEF ServerDies, CallerInv, ServerInv, ServerType
  <2> QED BY <2>1 DEF CallerInv
<1>6. CASE UNCHANGED vars
  BY <1>6 DEF vars, CallerInv
<1> QED BY <1>1, <1>2, <1>3, <1>4, <1>5, <1>6 DEF Next

LEMMA CallerInvHolds == Spec => []CallerInv
<1>1. Init => CallerInv
  BY OpencodeRunnerAssumption DEF Init, CallerInv
<1>2. TranscriptInv => CallType
  BY DEF TranscriptInv
<1>3. ServerInv /\ CallType /\ CallerInv /\ [Next]_vars => CallerInv'
  BY CallerStep
<1> QED
  BY <1>1, <1>2, <1>3, ServerInvHolds, TranscriptInvHolds, PTL DEF Spec

\* ensureServer: no caller is left waiting for a start that has ended, however starts,
\* their failures and stop() overlap; the start it awaits has a process and a timer.
THEOREM NoWaitForEnded == Spec => []AwaitsLiveStart
<1>1. ServerInv /\ CallerInv => AwaitsLiveStart
  BY Consts DEF ServerInv, ServerType, CallerInv, AwaitsLiveStart, Booting, Starts
<1> QED
  BY <1>1, ServerInvHolds, CallerInvHolds, PTL

\* The runner's, the server's and the transcript's variables keep their types.
THEOREM RunnerTypes == Spec => []TypeOK
<1>1. ServerInv /\ CallerInv /\ TranscriptInv => TypeOK
  <2> SUFFICES ASSUME ServerInv, CallerInv, TranscriptInv PROVE TypeOK
    OBVIOUS
  <2>1. ASSUME NEW c \in Calls, NEW i \in DOMAIN bus[c]
        PROVE  bus[c][i].type \in {"user", "message", "delta", "part"}
    <3>1. bus[c][i] \in Events BY DEF TranscriptInv, CallType
    <3>2. PICK k \in 1..(Chunks + 3) : bus[c][i] = Event(k) BY <3>1 DEF Events
    <3> QED BY <3>2 DEF Event
  <2>2. stopped \subseteq Starts
    BY Consts DEF ServerInv, ServerType, Starts
  <2> QED
    BY <2>1, <2>2 DEF TypeOK, ServerInv, ServerType, StartStates, ProcStates, CallerInv,
                      TranscriptInv, CallType
<1> QED
  BY <1>1, ServerInvHolds, CallerInvHolds, TranscriptInvHolds, PTL
=============================================================================
