---------------------------- MODULE MxClientProofs ----------------------------
(***************************************************************************)
(* What the unified client guarantees for every number of requests,        *)
(* attempts and close() calls, and for every retry policy.                 *)
(***************************************************************************)
EXTENDS MxClient, TLAPS

Live == {"only", "sticky", "ipc", "cli"}
Stages == {"idle"} \cup Live \cup Codes
Children == {"none", "running", "killed", "exited", "failed"}
Requests == [stage : Stages, which : {"ipc", "cli"}, object : Objects,
             tries : 0..MaxAttempts, n : {0} \cup Tries, backoff : BOOLEAN]

\* The codes that say the request never left.
NotSent == {"not_running", "connect_failed", "invalid_args"}

-----------------------------------------------------------------------------
(* The inductive invariant *)

\* One attempt: what its subprocess and its code say of each other and of the run.
AttemptOK(a) ==
    /\ status[a] = "idle" => executed[a] = 0 /\ child[a] = "none"
    /\ child[a] = "running" => status[a] = "open"
    /\ child[a] = "killed" => status[a] \in {"open", "timeout"}
    /\ child[a] = "exited" => status[a] \in {"timeout", "ok", "rpc", "protocol"}
    /\ child[a] = "failed" => executed[a] = 0 /\ status[a] \in NotSent
    /\ status[a] \in {"ok", "rpc"} /\ child[a] = "none" => executed[a] = 1
    /\ a \in overflow => child[a] # "none" /\ status[a] \notin {"ok", "rpc"}
    /\ status[a] = "invalid_args" => child[a] = "failed"
    /\ status[a] = "not_running" => executed[a] = 0

\* How many attempts the series before this one may have used.
Before(stage) == IF stage = "cli" THEN 2 * MaxAttempts
                 ELSE IF stage = "ipc" THEN MaxAttempts ELSE 0

\* The continuation of a request: where its series of tries stands.
SeriesOK(q) ==
    /\ q.stage = "idle" => q.n = 0
    /\ q.stage \in Live => /\ 1 <= q.tries /\ q.tries <= q.n
                           /\ q.n <= q.tries + Before(q.stage)
    /\ q.backoff => q.stage \in Live /\ q.tries < MaxAttempts
    /\ q.n = 0 => q.stage \in {"idle", "invalid_args"}

\* The attempts of a request: the ones to come are idle, the ones before the current
\* one have settled, and a request that is over has the code of its last attempt.
AttemptsOf(r) ==
    /\ \A i \in Tries : /\ i > req[r].n => status[<<r, i>>] = "idle"
                        /\ i = req[r].n => status[<<r, i>>] # "idle"
                        /\ i < req[r].n => status[<<r, i>>] \in Codes
    /\ req[r].n > 0 => (child[Current(r)] = "none" <=> req[r].which = "ipc")
    /\ req[r].n > 0 /\ Done(r) => Code(r) = req[r].stage
    /\ req[r].backoff => Code(r) \in Codes \cap Retryable

ClientInv == /\ TypeOK
             /\ \A a \in Attempts : AttemptOK(a)
             /\ \A r \in Reqs : SeriesOK(req[r]) /\ AttemptsOf(r)

\* An IPC attempt that never ran.
Unsent(a) == executed[a] = 0 /\ child[a] = "none" /\ status[a] # "idle"

\* Nothing that failed to connect has run, every attempt but the last was one the
\* client makes again, and an open IPC call has run only over a connection that is
\* still up.
SentOnce(r) ==
    /\ \A i \in Tries : <<r, i>> \in unsent => Unsent(<<r, i>>)
    /\ \A i \in Tries : i < req[r].n => status[<<r, i>>] \in Retryable \cup FailoverCodes
    /\ req[r].n > 0 /\ Code(r) = "open" /\ req[r].which = "ipc" /\ executed[Current(r)] = 1
         => req[r].object \in conn

SentInv == \A r \in Reqs : SentOnce(r)

\* r awaits an answer of its object, or will call it again.
Attached(r) == /\ req[r].which = "ipc" /\ req[r].n > 0 /\ ~Done(r)
               /\ Code(r) = "open" \/ req[r].backoff \/ (Settled(r) /\ Retries(r))

HeldInv == /\ CloseReleases
           /\ \A r \in Reqs : /\ req[r].object <= closes
                              /\ req[r].object < closes /\ Attached(r) => req[r].object \in late

-----------------------------------------------------------------------------
(* The steps, by what they do to requests and attempts *)

\* The attempt of a settled request is one of its tries, and so is the next one while
\* its series is not used up.
LEMMA NextTry ==
    ASSUME TypeOK, NEW r \in Reqs, SeriesOK(req[r])
    PROVE  /\ req[r] \in Requests
           /\ req[r].n > 0 => req[r].n \in Tries
           /\ req[r].stage = "idle" => 1 \in Tries /\ 1 \in 0..MaxAttempts
           /\ req[r].stage \in {"sticky", "ipc"} => req[r].n + 1 \in Tries
           /\ req[r].backoff => req[r].n > 0 /\ req[r].n + 1 \in Tries
<1>1. req[r] \in Requests
  BY DEF TypeOK, Requests, Stages, Live
<1>2. req[r].n \in {0} \cup (1..(3 * MaxAttempts)) /\ req[r].tries \in 0..MaxAttempts
  BY <1>1 DEF Requests, Tries
<1>3. req[r].stage \in Live => /\ 1 <= req[r].tries /\ req[r].tries <= req[r].n
                               /\ req[r].n <= req[r].tries + Before(req[r].stage)
  BY DEF SeriesOK
<1>4. req[r].stage \in {"sticky", "ipc"} => req[r].n + 1 \in Tries
  BY <1>2, <1>3, MxAssumption DEF Live, Before, Tries
<1>5. req[r].backoff => req[r].stage \in Live /\ req[r].tries < MaxAttempts
  BY DEF SeriesOK
<1>6. req[r].backoff => req[r].n > 0 /\ req[r].n + 1 \in Tries
  BY <1>2, <1>3, <1>5, MxAssumption DEF Live, Before, Tries
<1>7. 1 \in Tries /\ 1 \in 0..MaxAttempts
  BY MxAssumption DEF Tries
<1> QED
  BY <1>1, <1>2, <1>4, <1>6, <1>7 DEF Tries

\* transport.call() opens the attempt after the current one, or the CLI refuses it;
\* no other attempt changes.
LEMMA LaunchEffect ==
    ASSUME TypeOK, NEW r \in Reqs, NEW w \in {"ipc", "cli"}, req[r].n + 1 \in Tries,
           AttemptOK(<<r, req[r].n + 1>>), Launch(r, w)
    PROVE  LET a == <<r, req[r].n + 1>> IN
           /\ a \in Attempts /\ status[a] = "idle"
           /\ status' \in [Attempts -> {"idle", "open"} \cup Codes]
           /\ child' \in [Attempts -> Children]
           /\ UNCHANGED <<executed, overflow>>
           /\ executed[a] = 0
           /\ \A b \in Attempts \ {a} : status'[b] = status[b] /\ child'[b] = child[b]
           /\ \/ w = "ipc" /\ status'[a] = "open" /\ child'[a] = "none"
              \/ w = "cli" /\ status'[a] = "open" /\ child'[a] = "running"
              \/ w = "cli" /\ status'[a] = "invalid_args" /\ child'[a] = "failed"
<1> DEFINE a == <<r, req[r].n + 1>>
<1>1. a \in Attempts
  BY DEF Attempts
<1>2. /\ status \in [Attempts -> {"idle", "open"} \cup Codes]
      /\ child \in [Attempts -> Children]
  BY DEF TypeOK, Children
<1>3. "invalid_args" \in Codes
  BY DEF Codes
<1> HIDE DEF a
<1>4. CASE w = "ipc" /\ Ipc!Issue(a) /\ UNCHANGED <<child, overflow>>
  <2>1. status[a] = "idle" /\ status' = [status EXCEPT ![a] = "open"] /\ executed' = executed
    BY <1>4 DEF Ipc!Issue
  <2>2. executed[a] = 0 /\ child[a] = "none"
    BY <2>1 DEF AttemptOK, a
  <2> QED
    BY <1>1, <1>2, <1>4, <2>1, <2>2 DEF a
<1>5. CASE w = "cli" /\ Cli!Spawn(a)
  <2>1. /\ status[a] = "idle" /\ status' = [status EXCEPT ![a] = "open"]
        /\ child' = [child EXCEPT ![a] = "running"] /\ UNCHANGED <<executed, overflow>>
    BY <1>5 DEF Cli!Spawn
  <2>2. executed[a] = 0 /\ "running" \in Children
    BY <2>1 DEF AttemptOK, a, Children
  <2> QED
    BY <1>1, <1>2, <1>5, <2>1, <2>2 DEF a
<1>6. CASE w = "cli" /\ Cli!Refuse(a)
  <2>1. /\ status[a] = "idle" /\ status' = [status EXCEPT ![a] = "invalid_args"]
        /\ child' = [child EXCEPT ![a] = "failed"] /\ UNCHANGED <<executed, overflow>>
    BY <1>6 DEF Cli!Refuse
  <2>2. executed[a] = 0 /\ "failed" \in Children
    BY <2>1 DEF AttemptOK, a, Children
  <2> QED
    BY <1>1, <1>2, <1>3, <1>6, <2>1, <2>2 DEF a
<1> QED
  BY <1>4, <1>5, <1>6 DEF Launch, a

\* The current attempt of r is over, and r is about to make another one.
Ready(r) == req[r].n > 0 => Code(r) \in Codes

\* Step of a request that launches its next attempt and continues as q.
Launches(r, q) ==
    /\ Launch(r, q.which)
    /\ req' = [req EXCEPT ![r] = q]
    /\ q \in Requests /\ q.n = req[r].n + 1 /\ q.stage \in Live /\ ~q.backoff
    /\ SeriesOK(q)
    /\ req[r].n + 1 \in Tries

\* The unified client's own variables and the environment keep their types.
RestOK == /\ preference' \in {"auto", "ipc", "cli"} /\ active' \in {"none", "ipc", "cli"}
          /\ conn' \subseteq Objects /\ late' \subseteq Objects
          /\ unsent' \subseteq Attempts /\ closes' \in 0..MaxClose

\* Launching an attempt keeps the invariant.
LEMMA LaunchKeeps ==
    ASSUME ClientInv, NEW r \in Reqs, NEW q, Launches(r, q), Ready(r), RestOK
    PROVE  ClientInv'
<1>a. PICK a : a = <<r, req[r].n + 1>>
  OBVIOUS
<1>0. TypeOK /\ q.which \in {"ipc", "cli"} /\ req[r] \in Requests /\ AttemptOK(a)
  BY <1>a, NextTry DEF ClientInv, Launches, Requests, Attempts
<1>1. /\ a \in Attempts /\ status[a] = "idle"
      /\ status' \in [Attempts -> {"idle", "open"} \cup Codes]
      /\ child' \in [Attempts -> Children]
      /\ UNCHANGED <<executed, overflow>>
      /\ executed[a] = 0
      /\ \A b \in Attempts \ {a} : status'[b] = status[b] /\ child'[b] = child[b]
      /\ \/ q.which = "ipc" /\ status'[a] = "open" /\ child'[a] = "none"
         \/ q.which = "cli" /\ status'[a] = "open" /\ child'[a] = "running"
         \/ q.which = "cli" /\ status'[a] = "invalid_args" /\ child'[a] = "failed"
  BY <1>0, <1>a, LaunchEffect DEF Launches
<1>2. req \in [Reqs -> Requests]
  BY <1>0 DEF TypeOK, Requests, Stages, Live
<1>3. req' \in [Reqs -> Requests] /\ req'[r] = q /\ \A p \in Reqs \ {r} : req'[p] = req[p]
  BY <1>2 DEF Launches
<1>4. TypeOK'
  BY <1>0, <1>1, <1>3 DEF TypeOK, RestOK, Requests, Stages, Live, Children
<1>5. \A b \in Attempts : AttemptOK(b)'
  <2>1. AttemptOK(a)'
    BY <1>0, <1>1 DEF AttemptOK, NotSent
  <2>2. ASSUME NEW b \in Attempts \ {a} PROVE AttemptOK(b)'
    BY <1>1, <2>2 DEF AttemptOK, ClientInv
  <2> QED
    BY <2>1, <2>2
<1>6. \A p \in Reqs : SeriesOK(req[p])'
  BY <1>3 DEF ClientInv, Launches, SeriesOK
<1>7. ASSUME NEW p \in Reqs PROVE AttemptsOf(p)'
  <2>1. CASE p # r
    <3>1. \A i \in Tries : <<p, i>> \in Attempts \ {a}
      BY <2>1, <1>a DEF Attempts
    <3>2. req'[p] = req[p] /\ (req[p].n > 0 => req[p].n \in Tries)
      BY <1>0, <1>3, <2>1, NextTry DEF ClientInv
    <3>3. \A i \in Tries : status'[<<p, i>>] = status[<<p, i>>] /\ child'[<<p, i>>] = child[<<p, i>>]
      BY <1>1, <3>1
    <3>4. req[p].backoff => req[p].n > 0
      BY <1>0, NextTry DEF ClientInv
    <3> QED
      BY <3>2, <3>3, <3>4 DEF ClientInv, AttemptsOf, Current, Code, Done
  <2>2. CASE p = r
    <3>1. q.n = req[r].n + 1 /\ q.stage \in Live /\ ~q.backoff /\ q.n \in Tries /\ req[r].n \in Nat
      BY <1>0, MxAssumption DEF Launches, Requests, Tries
    <3>2. \A i \in Tries \ {q.n} : <<r, i>> \in Attempts \ {a}
      BY <3>1, <1>a DEF Attempts
    <3>3. ASSUME NEW i \in Tries
          PROVE  /\ i > q.n => status'[<<r, i>>] = "idle"
                 /\ i = q.n => status'[<<r, i>>] # "idle"
                 /\ i < q.n => status'[<<r, i>>] \in Codes
      <4>1. i \in Nat
        BY MxAssumption DEF Tries
      <4>2. CASE i > q.n
        <5>1. i > req[r].n /\ <<r, i>> \in Attempts \ {a}
          BY <3>1, <3>2, <4>1, <4>2
        <5> QED
          BY <1>1, <3>1, <4>1, <4>2, <5>1 DEF ClientInv, AttemptsOf
      <4>3. CASE i = q.n
        BY <1>1, <3>1, <4>1, <4>3, <1>a
      <4>4. CASE i < q.n
        <5>1. status'[<<r, i>>] = status[<<r, i>>]
          BY <1>1, <3>2, <4>1, <4>4, <3>1
        <5>2. i < req[r].n \/ i = req[r].n
          BY <3>1, <4>1, <4>4
        <5>3. CASE i < req[r].n
          BY <4>1, <4>4, <5>1, <5>3, <3>1 DEF ClientInv, AttemptsOf
        <5>4. CASE i = req[r].n
          <6>1. req[r].n > 0
            BY <5>4, MxAssumption DEF Tries
          <6> QED
            BY <4>1, <4>4, <5>1, <5>4, <3>1, <6>1 DEF Ready, Code, Current
        <5> QED
          BY <5>2, <5>3, <5>4
      <4> QED
        BY <4>1, <4>2, <4>3, <4>4, <3>1
    <3>4. child'[<<r, q.n>>] = "none" <=> q.which = "ipc"
      BY <1>1, <3>1, <1>a
    <3>5. q.stage \notin Codes
      BY <3>1 DEF Live, Codes, Ipc!Codes
    <3> QED
      BY <2>2, <1>3, <3>1, <3>3, <3>4, <3>5 DEF AttemptsOf, Current, Code, Done
  <2> QED
    BY <2>1, <2>2
<1> QED
  BY <1>4, <1>5, <1>6, <1>7 DEF ClientInv

\* Step of a request that leaves its attempts alone: it ends, or goes to sleep.
Continues(r, q) ==
    /\ req' = [req EXCEPT ![r] = q]
    /\ UNCHANGED callVars
    /\ q \in Requests /\ q.n = req[r].n /\ q.which = req[r].which
    /\ SeriesOK(q)
    /\ q.n > 0 /\ q.stage \in Codes => Code(r) = q.stage
    /\ q.backoff => Code(r) \in Codes \cap Retryable

\* So does ending or sleeping.
LEMMA ContinueKeeps ==
    ASSUME ClientInv, NEW r \in Reqs, NEW q, Continues(r, q), RestOK
    PROVE  ClientInv'
<1>0. req \in [Reqs -> Requests] /\ UNCHANGED <<status, executed, child, overflow>>
  BY DEF ClientInv, TypeOK, Requests, Stages, Live, Continues, callVars
<1>1. req' \in [Reqs -> Requests] /\ req'[r] = q /\ \A p \in Reqs \ {r} : req'[p] = req[p]
  BY <1>0 DEF Continues
<1>2. TypeOK'
  BY <1>0, <1>1 DEF ClientInv, TypeOK, RestOK, Requests, Stages, Live
<1>3. \A b \in Attempts : AttemptOK(b)'
  BY <1>0 DEF ClientInv, AttemptOK
<1>4. \A p \in Reqs : SeriesOK(req[p])'
  BY <1>1 DEF ClientInv, Continues, SeriesOK
<1>5. \A p \in Reqs \ {r} : AttemptsOf(p)'
  BY <1>0, <1>1 DEF ClientInv, AttemptsOf, Current, Code, Done
<1>6. AttemptsOf(r)'
  <2>1. AttemptsOf(r)
    BY DEF ClientInv
  <2> QED
    BY <1>0, <1>1, <2>1 DEF AttemptsOf, Current, Code, Done, Continues
<1> QED
  BY <1>2, <1>3, <1>4, <1>5, <1>6 DEF ClientInv

\* Step of the attempts: each stays as it is or settles, and none changes transport.
Progress == \A b \in Attempts :
    /\ status'[b] = status[b] \/ (status[b] = "open" /\ status'[b] \in Codes)
    /\ child'[b] = "none" <=> child[b] = "none"
    /\ AttemptOK(b)'

\* So does any progress of the attempts.
LEMMA ProgressKeeps ==
    ASSUME ClientInv, UNCHANGED req, TypeOK', Progress
    PROVE  ClientInv'
<1>1. \A b \in Attempts : AttemptOK(b)'
  BY DEF Progress
<1>2. \A p \in Reqs : SeriesOK(req[p])'
  BY DEF ClientInv, SeriesOK
<1>3. ASSUME NEW p \in Reqs PROVE AttemptsOf(p)'
  <2>1. \A i \in Tries : <<p, i>> \in Attempts
    BY DEF Attempts
  <2>2. /\ req[p].n > 0 => req[p].n \in Tries
        /\ req[p].backoff => req[p].n > 0
    BY NextTry DEF ClientInv
  <2>3. "idle" \notin Codes /\ "open" \notin Codes
    BY DEF Codes, Ipc!Codes
  <2>4. AttemptsOf(p)
    BY DEF ClientInv
  <2>5. \A i \in Tries :
          /\ status'[<<p, i>>] = status[<<p, i>>] \/ (status[<<p, i>>] = "open" /\ status'[<<p, i>>] \in Codes)
          /\ child'[<<p, i>>] = "none" <=> child[<<p, i>>] = "none"
    BY <2>1 DEF Progress
  <2>6. \A i \in Tries : /\ i > req[p].n => status'[<<p, i>>] = "idle"
                         /\ i = req[p].n => status'[<<p, i>>] # "idle"
                         /\ i < req[p].n => status'[<<p, i>>] \in Codes
    BY <2>3, <2>4, <2>5 DEF AttemptsOf
  <2>7. req[p].n > 0 => (child'[<<p, req[p].n>>] = "none" <=> req[p].which = "ipc")
    BY <2>2, <2>4, <2>5 DEF AttemptsOf, Current
  <2>8. req[p].n > 0 /\ Code(p) \in Codes => status'[<<p, req[p].n>>] = Code(p)
    BY <2>2, <2>3, <2>5 DEF Code, Current
  <2>9. req[p].n > 0 /\ req[p].stage \in Codes => status'[<<p, req[p].n>>] = req[p].stage
    BY <2>4, <2>8 DEF AttemptsOf, Done
  <2>10. req[p].backoff => status'[<<p, req[p].n>>] \in Codes \cap Retryable
    BY <2>2, <2>4, <2>8 DEF AttemptsOf
  <2> QED
    BY <2>6, <2>7, <2>9, <2>10 DEF AttemptsOf, Current, Code, Done
<1> QED
  BY <1>1, <1>2, <1>3 DEF ClientInv

\* One event settles calls with a code of the taxonomy.
LEMMA SettleEffect ==
    ASSUME ClientInv, NEW S \in SUBSET Attempts, NEW code \in Ipc!Codes,
           Ipc!Settle(S, code), UNCHANGED <<child, overflow>>,
           \A a \in S : child[a] = "none"
    PROVE  /\ status' \in [Attempts -> {"idle", "open"} \cup Codes]
           /\ UNCHANGED executed
           /\ Progress
<1>0. status \in [Attempts -> {"idle", "open"} \cup Codes] /\ code \in Codes /\ code # "invalid_args"
  BY DEF ClientInv, TypeOK, Codes, Ipc!Codes
<1>1. /\ \A c \in S : /\ status[c] = "open"
                      /\ code \in {"ok", "rpc"} => executed[c] = 1
                      /\ code = "not_running" => executed[c] = 0
      /\ status' = [c \in Attempts |-> IF c \in S THEN code ELSE status[c]]
      /\ UNCHANGED executed
  BY DEF Ipc!Settle
<1>2. status' \in [Attempts -> {"idle", "open"} \cup Codes]
  BY <1>0, <1>1
<1>3. ASSUME NEW b \in Attempts
      PROVE  /\ status'[b] = status[b] \/ (status[b] = "open" /\ status'[b] \in Codes)
             /\ child'[b] = "none" <=> child[b] = "none"
             /\ AttemptOK(b)'
  <2>1. AttemptOK(b)
    BY DEF ClientInv
  <2>2. CASE b \in S
    <3>1. status'[b] = code /\ status[b] = "open" /\ child[b] = "none"
      BY <1>1, <2>2
    <3>2. code # "idle"
      BY DEF Ipc!Codes
    <3> QED
      BY <1>0, <1>1, <2>1, <2>2, <3>1, <3>2 DEF AttemptOK
  <2>3. CASE b \notin S
    BY <1>1, <2>1, <2>3 DEF AttemptOK
  <2> QED
    BY <2>2, <2>3
<1> QED
  BY <1>1, <1>2, <1>3 DEF Progress

\* The events of a subprocess, and late ones among them, keep the code its call
\* settled with first.
LEMMA ChildEffect ==
    ASSUME ClientInv, NEW a \in Attempts, Cli!ChildStep(a)
    PROVE  /\ status' \in [Attempts -> {"idle", "open"} \cup Codes]
           /\ executed' \in [Attempts -> {0, 1}]
           /\ child' \in [Attempts -> Children]
           /\ overflow' \subseteq Attempts
           /\ \A b \in Attempts \ {a} : /\ status'[b] = status[b] /\ child'[b] = child[b]
                                        /\ executed'[b] = executed[b]
           /\ Progress
<1>0. /\ status \in [Attempts -> {"idle", "open"} \cup Codes]
      /\ executed \in [Attempts -> {0, 1}]
      /\ child \in [Attempts -> Children]
      /\ overflow \subseteq Attempts
      /\ {"ok", "rpc", "protocol", "timeout", "not_running", "connect_failed"} \subseteq Codes
  BY DEF ClientInv, TypeOK, Codes, Ipc!Codes, Children
<1>1. AttemptOK(a)
  BY DEF ClientInv
<1>2. ASSUME NEW s \in {"idle", "open"} \cup Codes, NEW e \in {0, 1}, NEW c \in Children,
             status' = [status EXCEPT ![a] = s], executed' = [executed EXCEPT ![a] = e],
             child' = [child EXCEPT ![a] = c], overflow' \subseteq Attempts,
             s = status[a] \/ (status[a] = "open" /\ s \in Codes),
             c = "none" <=> child[a] = "none",
             s = "idle" => e = 0 /\ c = "none",
             c = "running" => s = "open",
             c = "killed" => s \in {"open", "timeout"},
             c = "exited" => s \in {"timeout", "ok", "rpc", "protocol"},
             c = "failed" => e = 0 /\ s \in NotSent,
             s \in {"ok", "rpc"} => c # "none",
             \A b \in Attempts \ {a} : b \in overflow' <=> b \in overflow,
             a \in overflow' => c # "none" /\ s \notin {"ok", "rpc"},
             s = "invalid_args" => c = "failed",
             s = "not_running" => e = 0
      PROVE  /\ status' \in [Attempts -> {"idle", "open"} \cup Codes]
             /\ executed' \in [Attempts -> {0, 1}]
             /\ child' \in [Attempts -> Children]
             /\ overflow' \subseteq Attempts
             /\ \A b \in Attempts \ {a} : /\ status'[b] = status[b] /\ child'[b] = child[b]
                                          /\ executed'[b] = executed[b]
             /\ Progress
  <2>1. status'[a] = s /\ executed'[a] = e /\ child'[a] = c
    BY <1>0, <1>2
  <2>2. \A b \in Attempts \ {a} : /\ status'[b] = status[b] /\ child'[b] = child[b]
                                  /\ executed'[b] = executed[b]
    BY <1>0, <1>2
  <2>3. AttemptOK(a)'
    BY <1>2, <2>1 DEF AttemptOK
  <2>4. ASSUME NEW b \in Attempts \ {a} PROVE AttemptOK(b)'
    BY <1>2, <2>2 DEF ClientInv, AttemptOK
  <2>5. Progress
    BY <1>2, <2>1, <2>2, <2>3, <2>4 DEF Progress
  <2> QED
    BY <1>0, <1>2, <2>2, <2>5
<1>3. /\ status = [status EXCEPT ![a] = status[a]] /\ executed = [executed EXCEPT ![a] = executed[a]]
      /\ child = [child EXCEPT ![a] = child[a]]
  BY <1>0
<1>4. /\ status[a] \in {"idle", "open"} \cup Codes
      /\ executed[a] \in {0, 1} /\ child[a] \in Children
  BY <1>0
<1>5. CASE Cli!Execute(a)
  <2>1. /\ executed' = [executed EXCEPT ![a] = 1] /\ UNCHANGED <<status, child, overflow>>
        /\ child[a] \in {"running", "killed"}
    BY <1>5 DEF Cli!Execute
  <2>2. /\ status[a] \in {"open", "timeout"}
        /\ child[a] = "running" => status[a] = "open"
        /\ child[a] \notin {"none", "exited", "failed"}
    BY <1>1, <2>1 DEF AttemptOK
  <2>3. status' = [status EXCEPT ![a] = status[a]] /\ child' = [child EXCEPT ![a] = child[a]]
    BY <1>3, <2>1
  <2>4. overflow' \subseteq Attempts
    BY <1>0, <2>1
  <2> QED
    BY <1>2, <1>4, <2>1, <2>2, <2>3, <2>4
<1>6. CASE Cli!Overflow(a)
  <2>1. /\ child' = [child EXCEPT ![a] = "killed"] /\ UNCHANGED <<status, executed>>
        /\ child[a] = "running" /\ overflow' \subseteq Attempts
        /\ \A b \in Attempts \ {a} : b \in overflow' <=> b \in overflow
    BY <1>0, <1>6 DEF Cli!Overflow
  <2>2. status[a] = "open" /\ "killed" \in Children
    BY <1>1, <2>1 DEF AttemptOK, Children
  <2> QED
    BY <1>2, <1>3, <1>4, <2>1, <2>2
<1>7. CASE Cli!Timeout(a)
  <2>1. /\ child' = [child EXCEPT ![a] = "killed"] /\ UNCHANGED <<executed, overflow>>
        /\ child[a] \in {"running", "killed"} /\ status[a] = "open"
        /\ status' = [status EXCEPT ![a] = "timeout"]
    BY <1>7 DEF Cli!Timeout, Cli!Settled
  <2>2. "timeout" \in Codes /\ "killed" \in Children
    BY <1>0 DEF Children
  <2> QED
    BY <1>0, <1>2, <1>3, <1>4, <2>1, <2>2
<1>8. CASE Cli!Exit(a)
  <2>1. PICK code \in Cli!ExitCodes(a) : status' = Cli!Settled(a, code)
    BY <1>8 DEF Cli!Exit
  <2>2. /\ child' = [child EXCEPT ![a] = "exited"] /\ UNCHANGED <<executed, overflow>>
        /\ child[a] \in {"running", "killed"}
    BY <1>8 DEF Cli!Exit
  <2>3. /\ code \in {"ok", "rpc", "protocol"} /\ code \in Codes /\ "exited" \in Children
        /\ a \in overflow => code = "protocol"
    BY <1>0, <1>4 DEF Cli!ExitCodes, Children
  <2>4. CASE status[a] = "open"
    <3>1. status' = [status EXCEPT ![a] = code]
      BY <2>1, <2>4 DEF Cli!Settled
    <3> QED
      BY <1>0, <1>2, <1>3, <1>4, <2>2, <2>3, <2>4, <3>1
  <2>5. CASE status[a] # "open"
    <3>1. status' = status
      BY <2>1, <2>5 DEF Cli!Settled
    <3>2. status[a] = "timeout"
      BY <1>1, <2>2, <2>5 DEF AttemptOK
    <3> QED
      BY <1>0, <1>2, <1>3, <1>4, <2>2, <2>3, <2>5, <3>1, <3>2
  <2> QED
    BY <2>4, <2>5
<1>9. ASSUME NEW code \in {"not_running", "connect_failed"}, Cli!SpawnError(a, code)
      PROVE  /\ status' \in [Attempts -> {"idle", "open"} \cup Codes]
             /\ executed' \in [Attempts -> {0, 1}]
             /\ child' \in [Attempts -> Children]
             /\ overflow' \subseteq Attempts
             /\ \A b \in Attempts \ {a} : /\ status'[b] = status[b] /\ child'[b] = child[b]
                                          /\ executed'[b] = executed[b]
             /\ Progress
  <2>1. /\ child' = [child EXCEPT ![a] = "failed"] /\ UNCHANGED <<executed, overflow>>
        /\ child[a] = "running" /\ executed[a] = 0 /\ status' = Cli!Settled(a, code)
    BY <1>9 DEF Cli!SpawnError
  <2>2. status[a] = "open" /\ "failed" \in Children /\ code \in Codes /\ code \in NotSent
    BY <1>0, <1>1, <2>1 DEF AttemptOK, Children, NotSent
  <2>3. status' = [status EXCEPT ![a] = code]
    BY <2>1, <2>2 DEF Cli!Settled
  <2>4. executed' = [executed EXCEPT ![a] = 0] /\ overflow' \subseteq Attempts
    BY <1>0, <1>3, <2>1
  <2>5. code \notin {"idle", "ok", "rpc", "invalid_args"}
    BY <1>9
  <2> QED
    BY <1>2, <2>1, <2>2, <2>3, <2>4, <2>5
<1> QED
  BY <1>5, <1>6, <1>7, <1>8, <1>9 DEF Cli!ChildStep

-----------------------------------------------------------------------------
(* Type correctness and the state of every attempt, whatever the retry policy *)

\* Every request names an IPC client object that was built.
LEMMA ObjectsKnown == ClientInv => closes \in Objects /\ \A r \in Reqs : req[r].object \in Objects
  BY DEF ClientInv, TypeOK, Objects

\* A first series, or a next one, starts with one try.
LEMMA BeginLaunches ==
    ASSUME ClientInv, NEW r \in Reqs, NEW stage \in Live, NEW w \in {"ipc", "cli"},
           Begin(r, stage, w), req[r].n <= Before(stage),
           req[r].stage \in {"idle", "sticky", "ipc"}
    PROVE  \E q : Launches(r, q) /\ q.which = w /\ q.object = closes /\ q.stage = stage
<1> DEFINE q == [stage |-> stage, which |-> w, object |-> closes,
                 tries |-> 1, n |-> req[r].n + 1, backoff |-> FALSE]
<1>1. SeriesOK(req[r]) /\ TypeOK
  BY DEF ClientInv
<1>2. req[r] \in Requests /\ req[r].n + 1 \in Tries /\ 1 \in 0..MaxAttempts
  <2>1. 1 \in Tries /\ 1 \in 0..MaxAttempts
    BY MxAssumption DEF Tries
  <2>2. req[r].stage = "idle" => req[r].n = 0
    BY <1>1 DEF SeriesOK
  <2> QED
    BY <1>1, <2>1, <2>2, NextTry
<1>3. q \in Requests
  BY <1>2, ObjectsKnown DEF Requests, Stages
<1>4. req[r].n \in Nat
  BY <1>2, MxAssumption DEF Requests, Tries
<1>5. SeriesOK(q)
  <2>1. Before(stage) \in Nat
    BY MxAssumption DEF Before
  <2> QED
    BY <1>4, <2>1 DEF SeriesOK, Live
<1>6. Launches(r, q)
  <2> HIDE DEF q
  <2>1. q.which = w /\ q.n = req[r].n + 1 /\ q.stage = stage /\ ~q.backoff
    BY DEF q
  <2>2. req' = [req EXCEPT ![r] = q]
    BY DEF Begin, q
  <2> QED
    BY <1>2, <1>3, <1>5, <2>1, <2>2 DEF Begin, Launches
<1> QED
  BY <1>6

\* Every step of the host's requests.
ReqStep(r) == \/ Call(r) \/ Answered(r) \/ RetryLater(r) \/ Retry(r)
              \/ Reselect(r) \/ Failover(r) \/ Throw(r)

\* Each of them launches an attempt of a request that is ready for it, or continues
\* without one.
LEMMA ReqStepShape ==
    ASSUME ClientInv, NEW r \in Reqs, ReqStep(r)
    PROVE  /\ RestOK /\ UNCHANGED <<conn, unsent, late, closes>>
           /\ \/ \E q : /\ Launches(r, q) /\ Ready(r)
                        /\ req[r].n > 0 => Code(r) \in Retryable \cup FailoverCodes
                        /\ \/ q.object = closes
                           \/ req[r].backoff /\ q.object = req[r].object /\ q.which = req[r].which
              \/ \E q : /\ Continues(r, q) /\ q.object = req[r].object
                        /\ q.backoff => Settled(r) /\ Retries(r) /\ q.stage = req[r].stage
                        /\ q.backoff \/ q.stage \in Codes
<1>t. TypeOK /\ SeriesOK(req[r]) /\ AttemptsOf(r) /\ req[r] \in Requests
  BY NextTry DEF ClientInv
<1>b. /\ Before("only") = 0 /\ Before("sticky") = 0
      /\ Before("ipc") = MaxAttempts /\ Before("cli") = 2 * MaxAttempts
  BY DEF Before
<1>n. /\ req[r].n \in Nat /\ req[r].tries \in 0..MaxAttempts
      /\ req[r].stage = "sticky" => req[r].n <= MaxAttempts
      /\ req[r].stage = "ipc" => req[r].n <= 2 * MaxAttempts
  <2>1. req[r].n \in Nat /\ req[r].tries \in 0..MaxAttempts
    BY <1>t, MxAssumption DEF Requests, Tries
  <2> QED
    BY <1>t, <1>b, <2>1, MxAssumption DEF SeriesOK, Live
<1>f. ASSUME NEW code \in Codes, Finish(r, code), req[r].n > 0 => Code(r) = code, ~req[r].backoff,
             req[r].n = 0 => code = "invalid_args"
      PROVE  \E q : /\ Continues(r, q) /\ q.object = req[r].object
                    /\ q.backoff => Settled(r) /\ Retries(r) /\ q.stage = req[r].stage
                    /\ q.backoff \/ q.stage \in Codes
  <2> DEFINE q == [req[r] EXCEPT !.stage = code]
  <2>1. q \in Requests /\ q.n = req[r].n /\ q.which = req[r].which /\ q.stage = code
        /\ q.object = req[r].object /\ ~q.backoff
    BY <1>t, <1>f DEF Requests, Stages
  <2>2. code \notin Live \cup {"idle"}
    BY DEF Codes, Ipc!Codes, Live
  <2>3. req' = [req EXCEPT ![r] = q] /\ UNCHANGED callVars
    BY <1>f, <1>t DEF Finish, TypeOK
  <2> HIDE DEF q
  <2>4. SeriesOK(q)
    BY <1>f, <2>1, <2>2 DEF SeriesOK
  <2>5. Continues(r, q)
    BY <1>f, <2>1, <2>3, <2>4 DEF Continues
  <2> QED
    BY <2>1, <2>5
<1>r. ASSUME UNCHANGED <<preference, ipcVars, closes>>, active' \in {"none", "ipc", "cli"}
      PROVE  RestOK /\ UNCHANGED <<conn, unsent, late, closes>>
  BY <1>t, <1>r DEF RestOK, TypeOK, ipcVars
<1>1. CASE Call(r)
  <2>1. req[r].stage = "idle" /\ req[r].n = 0 /\ ~req[r].backoff
    BY <1>1, <1>t DEF Call, SeriesOK, Live
  <2>2. RestOK /\ UNCHANGED <<conn, unsent, late, closes>>
    BY <1>1, <1>r, <1>t DEF Call, TypeOK
  <2>3. CASE Finish(r, "invalid_args")
    BY <2>1, <2>2, <2>3, <1>f DEF Codes
  <2>4. ASSUME NEW stage \in Live, NEW w \in {"ipc", "cli"}, Begin(r, stage, w)
        PROVE  \E q : Launches(r, q) /\ Ready(r) /\ q.object = closes
    <3>1. 0 <= Before(stage)
      BY <1>b, MxAssumption DEF Live
    <3> QED
      BY <2>1, <2>4, <3>1, BeginLaunches DEF Ready
  <2>5. \/ Finish(r, "invalid_args")
        \/ \E stage \in Live, w \in {"ipc", "cli"} : Begin(r, stage, w)
    BY <1>1, <1>t DEF Call, Select, TypeOK, Live
  <2> QED
    BY <2>1, <2>2, <2>3, <2>4, <2>5
<1>2. CASE Answered(r)
  <2>1. Settled(r) /\ Code(r) = "ok" /\ "ok" \in Codes /\ ~req[r].backoff
    BY <1>2 DEF Answered, Settled
  <2>2. req[r].n > 0
    BY <2>1, <1>t, <1>n DEF Settled, SeriesOK, Done, Codes
  <2> QED
    BY <1>2, <1>f, <1>r, <1>t, <2>1, <2>2 DEF Answered, Requests
<1>3. CASE Throw(r)
  <2>1. Settled(r) /\ Code(r) \in Codes /\ ~req[r].backoff
    BY <1>3 DEF Throw, Failed, Settled
  <2>2. req[r].n > 0
    BY <2>1, <1>t, <1>n DEF Settled, SeriesOK, Done, Codes
  <2> QED
    BY <1>3, <1>f, <1>r, <1>t, <2>1, <2>2 DEF Throw, TypeOK
<1>4. CASE RetryLater(r)
  <2> DEFINE q == [req[r] EXCEPT !.backoff = TRUE]
  <2>1. Settled(r) /\ Retries(r) /\ Code(r) \in Codes \cap Retryable /\ ~Done(r)
    BY <1>4 DEF RetryLater, Settled, Retries
  <2>2. q \in Requests /\ q.n = req[r].n /\ q.which = req[r].which /\ q.stage = req[r].stage
        /\ q.object = req[r].object /\ q.backoff /\ q.tries = req[r].tries
    BY <1>t DEF Requests
  <2>3. req' = [req EXCEPT ![r] = q] /\ UNCHANGED callVars
    BY <1>4, <1>t DEF RetryLater, TypeOK
  <2> HIDE DEF q
  <2>4. q.stage \in Live /\ q.stage \notin Codes /\ q.tries < MaxAttempts
    BY <1>t, <2>1, <2>2 DEF Requests, Stages, Done, Settled, Retries
  <2>5. SeriesOK(q)
    BY <1>t, <2>2, <2>4 DEF SeriesOK
  <2>6. Continues(r, q)
    BY <2>1, <2>2, <2>3, <2>4, <2>5 DEF Continues
  <2>7. RestOK /\ UNCHANGED <<conn, unsent, late, closes>>
    BY <1>4, <1>r, <1>t DEF RetryLater, TypeOK
  <2> QED
    BY <2>1, <2>2, <2>6, <2>7
<1>5. CASE Retry(r)
  <2> DEFINE q == [req[r] EXCEPT !.n = req[r].n + 1, !.tries = req[r].tries + 1, !.backoff = FALSE]
  <2>1. req[r].backoff /\ Launch(r, req[r].which)
    BY <1>5 DEF Retry
  <2>2. /\ req[r].stage \in Live /\ req[r].tries < MaxAttempts /\ req[r].n + 1 \in Tries
        /\ Code(r) \in Codes \cap Retryable
    BY <1>t, <2>1, NextTry DEF SeriesOK, AttemptsOf
  <2>3. req[r].tries + 1 \in 0..MaxAttempts
    BY <1>n, <2>2, MxAssumption
  <2>4. q \in Requests /\ q.n = req[r].n + 1 /\ q.which = req[r].which /\ q.stage = req[r].stage
        /\ q.object = req[r].object /\ ~q.backoff /\ q.tries = req[r].tries + 1
    BY <1>t, <2>2, <2>3 DEF Requests
  <2>5. req' = [req EXCEPT ![r] = q]
    BY <1>5, <1>t DEF Retry, TypeOK
  <2> HIDE DEF q
  <2>6. SeriesOK(q)
    <3>1. Before(req[r].stage) \in Nat
      BY MxAssumption DEF Before
    <3>2. 1 <= req[r].tries /\ req[r].tries <= req[r].n /\ req[r].n <= req[r].tries + Before(req[r].stage)
      BY <1>t, <2>2 DEF SeriesOK
    <3>3. q.stage \in Live /\ q.stage # "idle"
      BY <2>2, <2>4 DEF Live
    <3> QED
      BY <1>n, <2>2, <2>4, <3>1, <3>2, <3>3, MxAssumption DEF SeriesOK
  <2>7. Launches(r, q)
    BY <2>1, <2>2, <2>4, <2>5, <2>6 DEF Launches
  <2>8. RestOK /\ UNCHANGED <<conn, unsent, late, closes>>
    BY <1>5, <1>r, <1>t DEF Retry, TypeOK
  <2> QED
    BY <2>1, <2>2, <2>4, <2>7, <2>8 DEF Ready
<1>6. CASE Reselect(r)
  <2>1. /\ req[r].stage = "sticky" /\ req[r].n <= MaxAttempts
        /\ Code(r) \in Codes /\ Code(r) \in FailoverCodes
    BY <1>6, <1>n DEF Reselect, Failed, Settled
  <2>2. \E stage \in {"ipc", "cli"}, w \in {"ipc", "cli"} : Begin(r, stage, w)
    BY <1>6 DEF Reselect, Select
  <2>3. \A stage \in {"ipc", "cli"} : req[r].n <= Before(stage)
    BY <1>n, <1>b, <2>1, MxAssumption
  <2>4. \E q : Launches(r, q) /\ q.object = closes
    BY <2>1, <2>2, <2>3, BeginLaunches DEF Live
  <2>5. RestOK /\ UNCHANGED <<conn, unsent, late, closes>>
    BY <1>6, <1>r DEF Reselect
  <2> QED
    BY <2>1, <2>4, <2>5 DEF Ready
<1>7. CASE Failover(r)
  <2>1. /\ req[r].stage = "ipc" /\ req[r].n <= 2 * MaxAttempts
        /\ Code(r) \in Codes /\ Code(r) \in FailoverCodes
    BY <1>7, <1>n DEF Failover, Failed, Settled
  <2>2. \E q : Launches(r, q) /\ q.object = closes
    BY <1>7, <1>b, <2>1, BeginLaunches DEF Failover, Live
  <2>3. RestOK /\ UNCHANGED <<conn, unsent, late, closes>>
    BY <1>7, <1>r, <1>t DEF Failover, TypeOK
  <2> QED
    BY <2>1, <2>2, <2>3 DEF Ready
<1> QED
  BY <1>1, <1>2, <1>3, <1>4, <1>5, <1>6, <1>7 DEF ReqStep

\* The calls that close() or a lost connection settles are current, open and over IPC.
LEMMA PendingCalls ==
    ASSUME ClientInv, NEW g
    PROVE  /\ {Current(r) : r \in Pending(g)} \in SUBSET Attempts
           /\ \A a \in {Current(r) : r \in Pending(g)} : child[a] = "none"
<1> SUFFICES ASSUME NEW r \in Pending(g)
             PROVE  Current(r) \in Attempts /\ child[Current(r)] = "none"
  OBVIOUS
<1>1. r \in Reqs /\ req[r].which = "ipc" /\ req[r].n > 0
  BY DEF Pending
<1>2. req[r].n \in Tries
  BY <1>1, NextTry DEF ClientInv
<1> QED
  BY <1>1, <1>2 DEF Current, Attempts, ClientInv, AttemptsOf

\* An open IPC call is the current attempt of its request.
LEMMA OpenIsCurrent ==
    ASSUME ClientInv, NEW r \in Reqs, NEW i \in Tries, status[<<r, i>>] = "open",
           child[<<r, i>>] = "none"
    PROVE  <<r, i>> = Current(r) /\ req[r].n > 0 /\ req[r].which = "ipc"
<1>1. "open" \notin Codes
  BY DEF Codes, Ipc!Codes
<1>2. req[r].n \in Nat /\ i \in Nat \ {0}
  BY NextTry, MxAssumption DEF ClientInv, Requests, Tries
<1>3. i = req[r].n
  BY <1>1, <1>2 DEF ClientInv, AttemptsOf
<1> QED
  BY <1>2, <1>3 DEF ClientInv, AttemptsOf, Current

\* What the daemon's run of an IPC call changes.
LEMMA RunEffect ==
    ASSUME ClientInv, NEW a \in Attempts, Ipc!Execute(a), child[a] = "none",
           UNCHANGED <<child, overflow>>
    PROVE  /\ executed' \in [Attempts -> {0, 1}] /\ UNCHANGED status
           /\ \A b \in Attempts \ {a} : executed'[b] = executed[b]
           /\ Progress
<1>1. /\ executed \in [Attempts -> {0, 1}] /\ AttemptOK(a)
      /\ status[a] \notin {"idle", "not_running"} /\ executed' = [executed EXCEPT ![a] = 1]
      /\ UNCHANGED status
  BY DEF ClientInv, TypeOK, Ipc!Execute
<1>2. \A b \in Attempts \ {a} : executed'[b] = executed[b]
  BY <1>1
<1>3. executed'[a] = 1
  BY <1>1
<1>4. AttemptOK(a)'
  BY <1>1, <1>3 DEF AttemptOK
<1>5. \A b \in Attempts \ {a} : AttemptOK(b)'
  BY <1>1, <1>2 DEF AttemptOK, ClientInv
<1> QED
  BY <1>1, <1>2, <1>4, <1>5 DEF Progress

\* Every step that is not a request's own.
EnvStep == \/ Close
           \/ \E g \in Objects : Connect(g) \/ Disconnect(g)
           \/ \E r \in Reqs, i \in Tries : IpcStep(r, i) \/ CliStep(<<r, i>>)

\* Leaving every attempt alone is progress.
LEMMA Unmoved ==
    ASSUME ClientInv, UNCHANGED callVars
    PROVE  Progress
  BY DEF ClientInv, callVars, Progress, AttemptOK

\* The continuation of a request is its own; the rest of the world only moves attempts.
LEMMA EnvStepShape ==
    ASSUME ClientInv, EnvStep
    PROVE  UNCHANGED req /\ TypeOK' /\ Progress
<1>0. TypeOK
  BY DEF ClientInv
<1>1. CASE Close
  <2> DEFINE S == {Current(r) : r \in Pending(closes)}
  <2>1. S \in SUBSET Attempts /\ (\A a \in S : child[a] = "none") /\ "closed" \in Ipc!Codes
    BY PendingCalls DEF Ipc!Codes
  <2>2. Ipc!Settle(S, "closed") /\ UNCHANGED <<child, overflow>>
    BY <1>1 DEF Close
  <2> HIDE DEF S
  <2>3. /\ status' \in [Attempts -> {"idle", "open"} \cup Codes] /\ UNCHANGED executed
        /\ Progress
    BY <2>1, <2>2, SettleEffect
  <2>4. closes' \in 0..MaxClose /\ conn' \subseteq Objects /\ late' \subseteq Objects
    BY <1>0, <1>1, MxAssumption DEF TypeOK, Close, Objects
  <2> QED
    BY <1>0, <1>1, <2>3, <2>4 DEF TypeOK, Close
<1>2. ASSUME NEW g \in Objects, Connect(g) PROVE UNCHANGED req /\ TypeOK' /\ Progress
  BY <1>0, <1>2, Unmoved DEF Connect, TypeOK, clientVars, callVars
<1>3. ASSUME NEW g \in Objects, Disconnect(g) PROVE UNCHANGED req /\ TypeOK' /\ Progress
  <2> DEFINE S == {Current(r) : r \in Pending(g)}
  <2>1. PICK code \in {"closed", "connect_failed"} : Ipc!Settle(S, code)
    BY <1>3 DEF Disconnect
  <2>2. S \in SUBSET Attempts /\ (\A a \in S : child[a] = "none") /\ code \in Ipc!Codes
    BY PendingCalls DEF Ipc!Codes
  <2> HIDE DEF S
  <2>3. UNCHANGED <<child, overflow>>
    BY <1>3 DEF Disconnect
  <2>4. /\ status' \in [Attempts -> {"idle", "open"} \cup Codes] /\ UNCHANGED executed
        /\ Progress
    BY <2>1, <2>2, <2>3, SettleEffect
  <2> QED
    BY <1>0, <1>3, <2>4 DEF TypeOK, Disconnect, clientVars
<1>4. ASSUME NEW r \in Reqs, NEW i \in Tries, IpcStep(r, i)
      PROVE  UNCHANGED req /\ TypeOK' /\ Progress
  <2>1. PICK a : a = <<r, i>>
    OBVIOUS
  <2>2. /\ a \in Attempts /\ child[a] = "none" /\ UNCHANGED <<child, overflow>>
        /\ Runs(r, a) \/ Settles(r, a)
        /\ UNCHANGED <<clientVars, conn, late, closes>>
    BY <1>4, <2>1 DEF IpcStep, Attempts
  <2>3. CASE Runs(r, a)
    <3>1. executed' \in [Attempts -> {0, 1}] /\ UNCHANGED <<status, unsent>> /\ Progress
      BY <2>2, <2>3, RunEffect DEF Runs
    <3> QED
      BY <1>0, <2>2, <3>1 DEF TypeOK, clientVars, ipcVars
  <2>4. CASE Settles(r, a)
    <3>1. PICK code \in Ipc!Codes :
             /\ Ipc!Settle({a}, code)
             /\ unsent' = IF code = "connect_failed" THEN unsent \cup {a} ELSE unsent
      BY <2>4 DEF Settles
    <3>2. /\ status' \in [Attempts -> {"idle", "open"} \cup Codes] /\ UNCHANGED executed
          /\ Progress
      BY <2>2, <3>1, SettleEffect
    <3>3. unsent' \subseteq Attempts
      BY <1>0, <2>2, <3>1 DEF TypeOK
    <3> QED
      BY <1>0, <2>2, <3>2, <3>3 DEF TypeOK, clientVars
  <2> QED
    BY <2>2, <2>3, <2>4
<1>5. ASSUME NEW r \in Reqs, NEW i \in Tries, CliStep(<<r, i>>)
      PROVE  UNCHANGED req /\ TypeOK' /\ Progress
  <2>1. <<r, i>> \in Attempts
    BY DEF Attempts
  <2>2. /\ status' \in [Attempts -> {"idle", "open"} \cup Codes]
        /\ executed' \in [Attempts -> {0, 1}]
        /\ child' \in [Attempts -> Children]
        /\ overflow' \subseteq Attempts
        /\ Progress
    BY <1>5, <2>1, ChildEffect DEF CliStep
  <2> QED
    BY <1>0, <1>5, <2>2 DEF CliStep, TypeOK, Children, clientVars, ipcVars
<1> QED
  BY <1>1, <1>2, <1>3, <1>4, <1>5 DEF EnvStep

\* A step is a request's or the rest of the world's.
LEMMA NextSteps == Next <=> (\E r \in Reqs : ReqStep(r)) \/ EnvStep
  BY DEF Next, ReqStep, EnvStep

\* The invariant holds before the first call, and every step keeps it.
LEMMA ClientStart == Init => ClientInv
<1> SUFFICES ASSUME Init PROVE ClientInv
  OBVIOUS
<1>1. NoReq \in Requests /\ SeriesOK(NoReq) /\ NoReq.n = 0 /\ ~NoReq.backoff
  BY MxAssumption DEF NoReq, Requests, Stages, Objects, SeriesOK, Live
<1>2. /\ req \in [Reqs -> Requests] /\ \A r \in Reqs : req[r] = NoReq
      /\ status = [a \in Attempts |-> "idle"] /\ executed = [a \in Attempts |-> 0]
      /\ child = [a \in Attempts |-> "none"] /\ overflow = {}
  BY <1>1 DEF Init, Cli!Init
<1>3. TypeOK
  BY <1>2, MxAssumption DEF TypeOK, Init, Requests, Stages, Live
<1>4. \A a \in Attempts : AttemptOK(a)
  BY <1>2 DEF AttemptOK
<1>5. ASSUME NEW r \in Reqs PROVE AttemptsOf(r)
  <2>1. \A i \in Tries : i \in Nat \ {0} /\ <<r, i>> \in Attempts
    BY MxAssumption DEF Tries, Attempts
  <2> QED
    BY <1>1, <1>2, <2>1 DEF AttemptsOf
<1> QED
  BY <1>1, <1>2, <1>3, <1>4, <1>5 DEF ClientInv

LEMMA ClientStep == ClientInv /\ [Next]_vars => ClientInv'
<1> SUFFICES ASSUME ClientInv, [Next]_vars PROVE ClientInv'
  OBVIOUS
<1>1. ASSUME NEW r \in Reqs, ReqStep(r) PROVE ClientInv'
  BY <1>1, ReqStepShape, LaunchKeeps, ContinueKeeps
<1>2. CASE EnvStep
  BY <1>2, EnvStepShape, ProgressKeeps
<1>3. CASE UNCHANGED vars
  <2>1. UNCHANGED callVars /\ UNCHANGED req
    BY <1>3 DEF vars, callVars
  <2>2. TypeOK'
    BY <1>3 DEF ClientInv, TypeOK, vars
  <2> QED
    BY <2>1, <2>2, Unmoved, ProgressKeeps
<1> QED
  BY <1>1, <1>2, <1>3, NextSteps

\* The invariant about attempts and series holds for every retry policy.
THEOREM ClientInvHolds == Spec => []ClientInv
<1> QED
  BY ClientStart, ClientStep, PTL DEF Spec

\* Types, and with them the bound on a request's attempts: sticky, IPC and CLI series
\* together never make more than three times maxAttempts calls.
THEOREM MxTypeCorrect == Spec => []TypeOK
<1>1. ClientInv => TypeOK
  BY DEF ClientInv
<1> QED
  BY <1>1, ClientInvHolds, PTL

-----------------------------------------------------------------------------
(* What runs twice, and what the host is told *)

\* The next attempt follows an attempt whose code the client repeats or fails over on.
LEMMA LaunchSends ==
    ASSUME ClientInv, SentInv, NEW r \in Reqs, NEW q, Launches(r, q),
           req[r].n > 0 => Code(r) \in Retryable \cup FailoverCodes, UNCHANGED <<conn, unsent>>
    PROVE  SentInv'
<1>a. PICK a : a = <<r, req[r].n + 1>>
  OBVIOUS
<1>0. TypeOK /\ q.which \in {"ipc", "cli"} /\ req[r] \in Requests /\ AttemptOK(a) /\ q.n = req[r].n + 1
  BY <1>a, NextTry DEF ClientInv, Launches, Requests, Attempts
<1>1. /\ UNCHANGED executed /\ executed[a] = 0 /\ status[a] = "idle"
      /\ \A b \in Attempts \ {a} : status'[b] = status[b] /\ child'[b] = child[b]
      /\ status'[a] \in {"open", "invalid_args"}
  BY <1>0, <1>a, LaunchEffect DEF Launches
<1>2. req'[r] = q /\ \A p \in Reqs \ {r} : req'[p] = req[p]
  BY <1>0 DEF Launches, TypeOK
<1>3. ASSUME NEW p \in Reqs \ {r} PROVE SentOnce(p)'
  <2>1. \A i \in Tries : <<p, i>> \in Attempts \ {a}
    BY <1>a DEF Attempts
  <2>2. req[p].n > 0 => req[p].n \in Tries
    BY <1>0, NextTry DEF ClientInv
  <2>3. SentOnce(p)
    BY DEF SentInv
  <2> QED
    BY <1>1, <1>2, <2>1, <2>2, <2>3 DEF SentOnce, Unsent, Code, Current
<1>4. SentOnce(r)'
  <2>1. /\ \A i \in Tries : i \in Nat /\ <<r, i>> \in Attempts
        /\ req[r].n \in Nat /\ (req[r].n > 0 => req[r].n \in Tries)
    BY <1>0, MxAssumption, NextTry DEF Tries, Attempts, Requests, ClientInv
  <2>2. SentOnce(r)
    BY DEF SentInv
  <2>3. \A i \in Tries : <<r, i>> \in unsent' => Unsent(<<r, i>>)'
    BY <1>1, <2>1, <2>2 DEF SentOnce, Unsent
  <2>4. ASSUME NEW i \in Tries, i < q.n PROVE status'[<<r, i>>] \in Retryable \cup FailoverCodes
    <3>n. i \in Nat /\ req[r].n \in Nat /\ i < req[r].n + 1
      BY <1>0, <2>1, <2>4
    <3>0. i # req[r].n + 1 /\ (i < req[r].n \/ i = req[r].n)
      BY <3>n
    <3>1. <<r, i>> # a /\ (i < req[r].n \/ i = req[r].n)
      BY <1>a, <3>0
    <3>2. status'[<<r, i>>] = status[<<r, i>>]
      BY <1>1, <2>1, <3>1
    <3>3. CASE i < req[r].n
      BY <2>2, <3>2, <3>3 DEF SentOnce
    <3>4. CASE i = req[r].n
      <4>1. i > 0
        BY MxAssumption DEF Tries
      <4> QED
        BY <3>2, <3>4, <4>1 DEF Code, Current
    <3> QED
      BY <3>1, <3>3, <3>4
  <2>5. executed'[<<r, q.n>>] = 0
    BY <1>0, <1>1, <1>a
  <2> QED
    BY <1>2, <2>3, <2>4, <2>5 DEF SentOnce, Current
<1> QED
  BY <1>3, <1>4 DEF SentInv

\* A request that ends or goes to sleep sends nothing.
LEMMA ContinueSends ==
    ASSUME ClientInv, SentInv, NEW r \in Reqs, NEW q, Continues(r, q),
           q.object = req[r].object, UNCHANGED <<conn, unsent>>
    PROVE  SentInv'
<1>1. /\ UNCHANGED <<status, executed, child>> /\ q.n = req[r].n /\ q.which = req[r].which
      /\ req'[r] = q /\ \A p \in Reqs \ {r} : req'[p] = req[p]
  BY DEF ClientInv, TypeOK, Continues, callVars
<1>2. \A p \in Reqs : /\ req'[p].n = req[p].n /\ req'[p].which = req[p].which
                      /\ req'[p].object = req[p].object
  BY <1>1
<1> QED
  BY <1>1, <1>2 DEF SentInv, SentOnce, Unsent, Code, Current

\* Attempts that move keep the invariant, if none that failed to connect has run and no
\* open call that ran loses its connection.
LEMMA ProgressSends ==
    ASSUME ClientInv, SentInv, UNCHANGED req, Progress,
           \A b \in Attempts : b \in unsent' => Unsent(b)',
           \A r \in Reqs : req[r].n > 0 /\ status'[Current(r)] = "open" /\ req[r].which = "ipc"
                             /\ executed'[Current(r)] = 1 => req[r].object \in conn'
    PROVE  SentInv'
<1> SUFFICES ASSUME NEW r \in Reqs PROVE SentOnce(r)'
  BY DEF SentInv
<1>1. \A i \in Tries : <<r, i>> \in Attempts
  BY DEF Attempts
<1>2. ASSUME NEW i \in Tries, i < req[r].n
      PROVE  status'[<<r, i>>] \in Retryable \cup FailoverCodes
  <2>1. status[<<r, i>>] \in Codes /\ "open" \notin Codes
    BY <1>2 DEF ClientInv, AttemptsOf, Codes, Ipc!Codes
  <2>2. status'[<<r, i>>] = status[<<r, i>>]
    BY <1>1, <2>1 DEF Progress
  <2> QED
    BY <1>2, <2>2 DEF SentInv, SentOnce
<1> QED
  BY <1>1, <1>2 DEF SentOnce, Code, Current

\* Settling the calls of one connection, when it goes, with whichever code.
LEMMA GroupSends ==
    ASSUME ClientInv, SentInv, UNCHANGED <<req, unsent>>, Progress, NEW g \in Objects,
           NEW code \in Ipc!Codes,
           Ipc!Settle({Current(r) : r \in Pending(g)}, code), conn' = conn \ {g}
    PROVE  SentInv'
<1> DEFINE S == {Current(r) : r \in Pending(g)}
<1>1. status' = [c \in Attempts |-> IF c \in S THEN code ELSE status[c]] /\ UNCHANGED executed
  BY DEF Ipc!Settle
<1>2. S \in SUBSET Attempts /\ code # "open" /\ code # "idle"
  BY PendingCalls DEF Ipc!Codes
<1>3. \A b \in Attempts : b \in unsent' => Unsent(b)'
  BY <1>1, <1>2 DEF SentInv, SentOnce, Unsent, Attempts, Progress
<1>4. ASSUME NEW r \in Reqs, req[r].n > 0, status'[Current(r)] = "open", req[r].which = "ipc",
             executed'[Current(r)] = 1
      PROVE  req[r].object \in conn'
  <2>1. Current(r) \in Attempts
    BY <1>4, NextTry DEF ClientInv, Current, Attempts
  <2>2. Current(r) \notin S /\ status[Current(r)] = "open"
    BY <1>1, <1>2, <1>4, <2>1
  <2>3. req[r].object \in conn
    BY <1>1, <1>4, <2>2 DEF SentInv, SentOnce, Code
  <2>4. r \notin Pending(g)
    BY <2>2
  <2> QED
    BY <1>4, <2>2, <2>3, <2>4 DEF Pending, Code
<1> QED
  BY <1>3, <1>4, ProgressSends

\* Lost connections, late runs and late settlements, over either transport.
LEMMA EnvSends ==
    ASSUME ClientInv, SentInv, EnvStep
    PROVE  SentInv'
<1>0. UNCHANGED req /\ Progress
  BY EnvStepShape
<1>1. CASE Close
  <2>1. closes \in Objects /\ "closed" \in Ipc!Codes
    BY ObjectsKnown DEF Ipc!Codes
  <2> QED
    BY <1>0, <1>1, <2>1, GroupSends DEF Close
<1>2. ASSUME NEW g \in Objects, Connect(g) PROVE SentInv'
  BY <1>2 DEF Connect, clientVars, callVars, SentInv, SentOnce, Unsent, Code, Current
<1>3. ASSUME NEW g \in Objects, Disconnect(g) PROVE SentInv'
  <2>1. PICK code \in {"closed", "connect_failed"} :
           Ipc!Settle({Current(r) : r \in Pending(g)}, code)
    BY <1>3 DEF Disconnect
  <2>2. conn' = conn \ {g} /\ UNCHANGED unsent /\ code \in Ipc!Codes
    BY <1>3 DEF Disconnect, Ipc!Codes
  <2> QED
    BY <1>0, <2>1, <2>2, GroupSends
<1>4. ASSUME NEW r \in Reqs, NEW i \in Tries, IpcStep(r, i) PROVE SentInv'
  <2>1. PICK a : a = <<r, i>>
    OBVIOUS
  <2>2. /\ a \in Attempts /\ child[a] = "none" /\ UNCHANGED <<child, overflow>>
        /\ Runs(r, a) \/ Settles(r, a)
        /\ UNCHANGED conn
    BY <1>4, <2>1 DEF IpcStep, Attempts
  <2>3. \A b \in Attempts : b \in unsent => Unsent(b)
    BY DEF SentInv, SentOnce, Attempts
  <2>c. \A p \in Reqs : req[p].n > 0 => Current(p) \in Attempts
    BY NextTry DEF ClientInv, Current, Attempts
  <2>4. CASE Runs(r, a)
    <3>1. /\ UNCHANGED <<status, unsent>> /\ a \notin unsent
          /\ \A b \in Attempts \ {a} : executed'[b] = executed[b]
      BY <2>2, <2>4, RunEffect DEF Runs
    <3>3. \A b \in Attempts : b \in unsent' => Unsent(b)'
      BY <2>2, <2>3, <3>1 DEF Unsent
    <3>4. ASSUME NEW p \in Reqs, req[p].n > 0, status'[Current(p)] = "open", req[p].which = "ipc",
                 executed'[Current(p)] = 1
          PROVE  req[p].object \in conn'
      <4>1. CASE Current(p) = a
        <5>1. p = r
          BY <4>1, <2>1 DEF Current
        <5> QED
          BY <2>2, <2>4, <3>1, <3>4, <4>1, <5>1 DEF Runs, Pending
      <4>2. CASE Current(p) # a
        BY <2>2, <2>c, <3>1, <3>4, <4>2 DEF SentInv, SentOnce, Code
      <4> QED
        BY <4>1, <4>2
    <3> QED
      BY <1>0, <3>3, <3>4, ProgressSends
  <2>5. CASE Settles(r, a)
    <3>1. PICK code \in Ipc!Codes \ {"closed"} :
             /\ Ipc!Settle({a}, code)
             /\ code \in {"connect_failed", "not_running"} => req[r].object \notin conn
             /\ unsent' = IF code = "connect_failed" THEN unsent \cup {a} ELSE unsent
      BY <2>5 DEF Settles
    <3>2. /\ status[a] = "open"
          /\ status' = [c \in Attempts |-> IF c = a THEN code ELSE status[c]]
          /\ UNCHANGED executed
      BY <3>1 DEF Ipc!Settle
    <3>3. a = Current(r) /\ req[r].n > 0 /\ req[r].which = "ipc"
      BY <2>1, <2>2, <3>2, OpenIsCurrent
    <3>4. code = "connect_failed" => executed[a] = 0
      <4>1. executed[a] \in {0, 1}
        BY <2>2 DEF ClientInv, TypeOK
      <4> QED
        BY <3>1, <3>2, <3>3, <4>1 DEF SentInv, SentOnce, Code
    <3>5. code # "open"
      BY DEF Ipc!Codes
    <3>6. \A b \in Attempts : b \in unsent' => Unsent(b)'
      <4>1. code # "idle"
        BY DEF Ipc!Codes
      <4> QED
        BY <2>2, <2>3, <3>1, <3>2, <3>4, <4>1 DEF Unsent
    <3>7. ASSUME NEW p \in Reqs, req[p].n > 0, status'[Current(p)] = "open", req[p].which = "ipc",
                 executed'[Current(p)] = 1
          PROVE  req[p].object \in conn'
      BY <2>2, <2>c, <3>2, <3>5, <3>7 DEF SentInv, SentOnce, Code
    <3> QED
      BY <1>0, <3>6, <3>7, ProgressSends
  <2> QED
    BY <2>2, <2>4, <2>5
<1>5. ASSUME NEW r \in Reqs, NEW i \in Tries, CliStep(<<r, i>>) PROVE SentInv'
  <2>1. PICK a : a = <<r, i>>
    OBVIOUS
  <2>2. a \in Attempts /\ Cli!ChildStep(a) /\ UNCHANGED <<conn, unsent>>
    BY <1>5, <2>1 DEF CliStep, Attempts, ipcVars
  <2>3. child[a] # "none"
    BY <2>2 DEF Cli!ChildStep, Cli!Execute, Cli!Overflow, Cli!Timeout, Cli!Exit, Cli!SpawnError
  <2>4. \A b \in Attempts \ {a} : /\ status'[b] = status[b] /\ executed'[b] = executed[b]
                                  /\ child'[b] = child[b]
    BY <2>2, ChildEffect
  <2>5. a \notin unsent
    BY <2>1, <2>3 DEF SentInv, SentOnce, Unsent
  <2>8. \A b \in Attempts : b \in unsent' => Unsent(b)'
    BY <2>2, <2>4, <2>5 DEF SentInv, SentOnce, Unsent, Attempts
  <2>9. ASSUME NEW p \in Reqs, req[p].n > 0, status'[Current(p)] = "open", req[p].which = "ipc",
               executed'[Current(p)] = 1
        PROVE  req[p].object \in conn'
    <3>1. Current(p) \in Attempts /\ child[Current(p)] = "none"
      BY <2>9, NextTry DEF ClientInv, AttemptsOf, Current, Attempts
    <3> QED
      BY <2>2, <2>3, <2>4, <2>9, <3>1 DEF SentInv, SentOnce, Code
  <2> QED
    BY <1>0, <2>8, <2>9, ProgressSends
<1> QED
  BY <1>1, <1>2, <1>3, <1>4, <1>5 DEF EnvStep

LEMMA SentStep == ClientInv /\ SentInv /\ [Next]_vars => SentInv'
<1> SUFFICES ASSUME ClientInv, SentInv, [Next]_vars PROVE SentInv'
  OBVIOUS
<1>1. ASSUME NEW r \in Reqs, ReqStep(r) PROVE SentInv'
  BY <1>1, ReqStepShape, LaunchSends, ContinueSends
<1>2. CASE EnvStep
  BY <1>2, EnvSends
<1>3. CASE UNCHANGED vars
  BY <1>3 DEF vars, SentInv, SentOnce, Unsent, Code, Current
<1> QED
  BY <1>1, <1>2, <1>3, NextSteps

LEMMA SentStart == Init => SentInv
<1> SUFFICES ASSUME Init, NEW r \in Reqs PROVE SentOnce(r)
  BY DEF SentInv
<1>1. req[r] = NoReq /\ NoReq.n = 0 /\ unsent = {}
  BY DEF Init, NoReq
<1>2. \A i \in Tries : ~(i < 0)
  BY MxAssumption DEF Tries
<1> QED
  BY <1>1, <1>2 DEF SentOnce

\* What failed to connect never runs, and what client.ts makes again it makes again
\* because of a code it repeats or fails over on.
THEOREM SentInvHolds == Spec => []SentInv
<1> QED
  BY SentStart, SentStep, ClientInvHolds, PTL DEF Spec

\* An attempt that ran and was followed by another one was made again by the policy.
LEMMA RanIsResent ==
    ASSUME ClientInv, SentInv, NEW r \in Reqs, NEW i \in Tries, Ran(r, i)
    PROVE  i = req[r].n \/ Resent(r, i)
<1>0. i \in Nat /\ req[r].n \in Nat /\ <<r, i>> \in Attempts
  BY NextTry, MxAssumption DEF ClientInv, Requests, Tries, Attempts
<1>1. AttemptOK(<<r, i>>) /\ executed[<<r, i>>] = 1
  BY <1>0 DEF ClientInv, Ran
<1>2. CASE i > req[r].n
  <2>1. status[<<r, i>>] = "idle"
    BY <1>2 DEF ClientInv, AttemptsOf
  <2> QED
    BY <1>1, <2>1 DEF AttemptOK
<1>3. CASE i < req[r].n
  <2>1. /\ status[<<r, i>>] \in Retryable \cup FailoverCodes
        /\ <<r, i>> \notin unsent
    BY <1>1, <1>3 DEF SentInv, SentOnce, Unsent
  <2>2. status[<<r, i>>] # "not_running" /\ child[<<r, i>>] # "failed"
    BY <1>1 DEF AttemptOK
  <2> QED
    BY <1>3, <2>1, <2>2 DEF Resent, FailoverCodes
<1> QED
  BY <1>0, <1>2, <1>3

\* However requests, retries, failover, close(), lost connections and late runs
\* interleave, and whatever the retry policy: the daemon runs a request a second time
\* only after an attempt that was written and ended with a code the policy repeats.
THEOREM OnlyRetriesRunAgain == Spec => []SecondRunIsRetry
<1>1. ClientInv /\ SentInv => SecondRunIsRetry
  <2> SUFFICES ASSUME ClientInv, SentInv, NEW r \in Reqs, NEW i \in Tries, NEW j \in Tries,
                      i < j, Ran(r, i), Ran(r, j)
               PROVE  Resent(r, i)
    BY DEF SecondRunIsRetry
  <2>1. i = req[r].n \/ Resent(r, i)
    BY RanIsResent
  <2>2. j = req[r].n \/ Resent(r, j)
    BY RanIsResent
  <2>3. j <= req[r].n /\ i \in Nat /\ j \in Nat /\ req[r].n \in Nat
    BY <2>2, NextTry, MxAssumption DEF Resent, ClientInv, Requests, Tries
  <2> QED
    BY <2>1, <2>3
<1> QED
  BY <1>1, SentInvHolds, ClientInvHolds, PTL

\* "Retrying a call that might already have executed is a correctness bug" (retry.ts:4):
\* a policy that repeats nothing but 'not_running' is free of it, because 'not_running' is
\* the one code after which the request never runs, on either transport.
THEOREM RunsOnceUnderStrictPolicy ==
    ASSUME Retryable \subseteq {"not_running"}
    PROVE  Spec => []AtMostOnce
<1>1. ClientInv /\ SentInv => AtMostOnce
  <2> SUFFICES ASSUME ClientInv, SentInv, NEW r \in Reqs, NEW i \in Tries, NEW j \in Tries,
                      Ran(r, i), Ran(r, j)
               PROVE  i = j
    BY DEF AtMostOnce
  <2>1. ASSUME NEW k \in Tries, Ran(r, k) PROVE k = req[r].n
    <3>1. AttemptOK(<<r, k>>) /\ executed[<<r, k>>] = 1
      BY <2>1 DEF ClientInv, Ran, Attempts
    <3>2. status[<<r, k>>] # "not_running"
      BY <3>1 DEF AttemptOK
    <3>3. ~Resent(r, k)
      BY <3>2, Zenon DEF Resent
    <3> QED
      BY <2>1, <3>3, RanIsResent
  <2> QED
    BY <2>1
<1> QED
  BY <1>1, SentInvHolds, ClientInvHolds, PTL

\* A request that is over has the code of its last attempt, and that code is true.
LEMMA LastIsTrue == ClientInv /\ SentInv => HonestOutcome
<1> SUFFICES ASSUME ClientInv, SentInv, NEW r \in Reqs
             PROVE  /\ req[r].stage \in {"ok", "rpc"} =>
                         IF req[r].which = "ipc" THEN Ran(r, req[r].n)
                         ELSE Current(r) \notin overflow
                    /\ req[r].stage \in {"not_running", "invalid_args"} =>
                         \A i \in Tries : Ran(r, i) => Resent(r, i)
  BY DEF HonestOutcome
<1>0. req[r].n \in Nat /\ (req[r].n > 0 => req[r].n \in Tries /\ Current(r) \in Attempts)
  BY NextTry, MxAssumption DEF ClientInv, Requests, Tries, Current, Attempts
<1>1. ASSUME req[r].stage \in {"ok", "rpc"}
      PROVE  IF req[r].which = "ipc" THEN Ran(r, req[r].n) ELSE Current(r) \notin overflow
  <2>1. req[r].n > 0
    BY <1>0, <1>1 DEF ClientInv, SeriesOK
  <2>2. Code(r) = req[r].stage
    BY <1>1, <2>1 DEF ClientInv, AttemptsOf, Done, Codes, Ipc!Codes
  <2>3. /\ child[Current(r)] = "none" => executed[Current(r)] = 1
        /\ Current(r) \notin overflow
    BY <1>0, <1>1, <2>1, <2>2 DEF ClientInv, AttemptOK, Code
  <2>4. child[Current(r)] = "none" <=> req[r].which = "ipc"
    BY <2>1 DEF ClientInv, AttemptsOf
  <2> QED
    BY <2>3, <2>4 DEF Ran, Current
<1>2. ASSUME req[r].stage \in {"not_running", "invalid_args"}, NEW i \in Tries, Ran(r, i)
      PROVE  Resent(r, i)
  <2>0. i > 0 /\ <<r, i>> \in Attempts
    BY MxAssumption DEF Tries, Attempts
  <2>1. CASE i = req[r].n
    <3>1. Code(r) = req[r].stage
      BY <1>2, <2>0, <2>1 DEF ClientInv, AttemptsOf, Done, Codes, Ipc!Codes
    <3>2. AttemptOK(Current(r)) /\ executed[Current(r)] = 1
      BY <1>2, <2>0, <2>1 DEF ClientInv, Ran, Current
    <3> QED
      BY <1>2, <3>1, <3>2 DEF AttemptOK, Code
  <2> QED
    BY <1>2, <2>1, RanIsResent
<1> QED
  BY <1>1, <1>2

\* What the host is told of a request is true of all its attempts together, over both
\* transports and for every retry policy: an answer over IPC comes from a run, an answer
\* over the CLI from an output that was not cut, and 'not_running' or 'invalid_args'
\* means that nothing ran but attempts the policy repeated.
THEOREM OutcomeIsHonest == Spec => []HonestOutcome
<1> QED
  BY LastIsTrue, SentInvHolds, ClientInvHolds, PTL

-----------------------------------------------------------------------------
(* close() leaves no connection behind *)

\* A request that is attached after a step that moves attempts was attached before.
LEMMA StaysAttached ==
    ASSUME ClientInv, UNCHANGED req, Progress, NEW r \in Reqs, Attached(r)'
    PROVE  Attached(r)
<1>1. req[r].which = "ipc" /\ req[r].n > 0 /\ ~Done(r)
  BY DEF Attached, Done
<1>2. Current(r) \in Attempts
  BY <1>1, NextTry DEF ClientInv, Current, Attempts
<1>3. status'[Current(r)] = Code(r) \/ Code(r) = "open"
  BY <1>2 DEF Progress, Code
<1>4. CASE Code(r) = "open"
  BY <1>1, <1>4 DEF Attached
<1>5. CASE status'[Current(r)] = Code(r)
  BY <1>1, <1>5 DEF Attached, Settled, Retries, Done, Code, Current
<1> QED
  BY <1>3, <1>4, <1>5

\* close(), connections and attempts: what holds a dropped object held it at the close().
LEMMA EnvHolds ==
    ASSUME ClientInv, HeldInv, "closed" \notin Retryable, EnvStep
    PROVE  HeldInv'
<1>0. UNCHANGED req /\ Progress
  BY EnvStepShape
<1>t. closes \in Nat /\ \A r \in Reqs : req[r].object \in Nat
  BY ObjectsKnown, MxAssumption DEF Objects
<1>1. CASE Close
  <2>1. /\ closes' = closes + 1 /\ conn' = conn \ {closes} /\ late \subseteq late'
        /\ (\E r \in Reqs : Holds(r, closes)) => closes \in late'
    BY <1>1 DEF Close
  <2>2. CloseReleases'
    BY <2>1 DEF HeldInv, CloseReleases
  <2>3. ASSUME NEW r \in Reqs, Attached(r)' PROVE req[r].object \in late'
    <3>1. Attached(r) /\ req[r].object <= closes
      BY <1>0, <2>3, StaysAttached DEF HeldInv
    <3>2. CASE req[r].object < closes
      BY <2>1, <3>1, <3>2 DEF HeldInv
    <3>3. CASE req[r].object = closes
      <4>1. req[r].which = "ipc" /\ req[r].n > 0 /\ ~Done(r) /\ Current(r) \in Attempts
        BY <3>1, NextTry DEF Attached, ClientInv, Current, Attempts
      <4>2. status'[Current(r)] = IF Current(r) \in {Current(p) : p \in Pending(closes)}
                                    THEN "closed" ELSE status[Current(r)]
        BY <1>1, <4>1 DEF Close, Ipc!Settle
      <4>3. Holds(r, closes)
        <5>1. CASE Code(r) = "open" /\ closes \notin conn
          BY <3>3, <4>1, <5>1 DEF Holds
        <5>2. CASE Code(r) = "open" /\ closes \in conn
          <6>1. status'[Current(r)] = "closed"
            BY <3>3, <4>1, <4>2, <5>2 DEF Pending
          <6>2. req[r].backoff
            BY <1>0, <2>3, <6>1 DEF Attached, Retries, Code, Current
          <6> QED
            BY <3>3, <4>1, <6>2 DEF Holds
        <5>3. CASE Code(r) # "open"
          BY <3>1, <3>3, <4>1, <5>3 DEF Attached, Holds
        <5> QED
          BY <5>1, <5>2, <5>3
      <4> QED
        BY <2>1, <3>3, <4>3
    <3> QED
      BY <1>t, <3>1, <3>2, <3>3
  <2>4. \A r \in Reqs : req[r].object <= closes'
    BY <1>t, <2>1 DEF HeldInv
  <2> QED
    BY <1>0, <2>2, <2>3, <2>4 DEF HeldInv
<1>2. ASSUME UNCHANGED <<late, closes>>, CloseReleases' PROVE HeldInv'
  BY <1>0, <1>2, StaysAttached DEF HeldInv
<1>3. ASSUME UNCHANGED <<late, closes>>, conn' \subseteq conn PROVE HeldInv'
  BY <1>2, <1>3 DEF HeldInv, CloseReleases
<1>4. ASSUME NEW g \in Objects, Connect(g) PROVE HeldInv'
  <2>1. PICK r \in Reqs : Holds(r, g) /\ Code(r) = "open"
    BY <1>4 DEF Connect
  <2>2. req[r].object = g /\ Attached(r)
    BY <2>1 DEF Holds, Attached
  <2>3. g = closes \/ g \in late
    BY <1>t, <2>2 DEF HeldInv
  <2>4. UNCHANGED <<late, closes>> /\ conn' = conn \cup {g}
    BY <1>4 DEF Connect
  <2> QED
    BY <1>2, <2>3, <2>4 DEF HeldInv, CloseReleases
<1>5. ASSUME NEW g \in Objects, Disconnect(g) PROVE HeldInv'
  BY <1>3, <1>5 DEF Disconnect
<1>6. ASSUME NEW r \in Reqs, NEW i \in Tries, IpcStep(r, i) \/ CliStep(<<r, i>>) PROVE HeldInv'
  BY <1>3, <1>6 DEF IpcStep, CliStep, ipcVars
<1> QED
  BY <1>1, <1>4, <1>5, <1>6 DEF EnvStep

\* A series is begun on the object of the moment, and goes on with the one it has.
LEMMA ReqHolds ==
    ASSUME ClientInv, HeldInv, NEW r \in Reqs, ReqStep(r)
    PROVE  HeldInv'
<1>0. UNCHANGED <<conn, unsent, late, closes>>
  BY ReqStepShape
<1>t. closes \in Nat /\ \A p \in Reqs : req[p].object \in Nat
  BY ObjectsKnown, MxAssumption DEF Objects
<1>c. CloseReleases'
  BY <1>0 DEF HeldInv, CloseReleases
<1>1. ASSUME NEW q, Launches(r, q), q.object = closes \/
               (req[r].backoff /\ q.object = req[r].object /\ q.which = req[r].which)
      PROVE  HeldInv'
  <2>1. req'[r] = q /\ \A p \in Reqs \ {r} : req'[p] = req[p]
    BY <1>1 DEF Launches, ClientInv, TypeOK
  <2>2. ASSUME NEW p \in Reqs \ {r}, Attached(p)' PROVE Attached(p)
    <3>1. req[p].n > 0 /\ req'[p] = req[p]
      BY <2>1, <2>2 DEF Attached
    <3>2. Current(p) \in Attempts /\ Current(p) # <<r, req[r].n + 1>>
      BY <3>1, NextTry DEF ClientInv, Current, Attempts
    <3>3. status'[Current(p)] = status[Current(p)]
      <4>1. /\ TypeOK /\ q.which \in {"ipc", "cli"} /\ req[r].n + 1 \in Tries
            /\ AttemptOK(<<r, req[r].n + 1>>) /\ Launch(r, q.which)
        BY <1>1 DEF ClientInv, Launches, Requests, Attempts
      <4> QED
        BY <3>2, <4>1, LaunchEffect
    <3> QED
      BY <2>2, <3>1, <3>3 DEF Attached, Settled, Retries, Done, Code, Current
  <2>3. q.object <= closes /\ (q.object < closes /\ q.which = "ipc" => q.object \in late)
    <3>1. CASE q.object = closes
      BY <1>t, <3>1
    <3>2. CASE req[r].backoff /\ q.object = req[r].object /\ q.which = req[r].which
      <4>1. req[r].n > 0 /\ req[r].stage \in Live
        BY <3>2, NextTry DEF ClientInv, SeriesOK
      <4>2. ~Done(r)
        BY <4>1 DEF Done, Live, Codes, Ipc!Codes
      <4>3. q.which = "ipc" => Attached(r)
        BY <3>2, <4>1, <4>2 DEF Attached
      <4> QED
        BY <3>2, <4>3 DEF HeldInv
    <3> QED
      BY <1>1, <3>1, <3>2
  <2> QED
    BY <1>0, <1>c, <2>1, <2>2, <2>3 DEF HeldInv, Attached
<1>2. ASSUME NEW q, Continues(r, q), q.object = req[r].object,
             q.backoff => Settled(r) /\ Retries(r) /\ q.stage = req[r].stage,
             q.backoff \/ q.stage \in Codes
      PROVE  HeldInv'
  <2>1. /\ req'[r] = q /\ (\A p \in Reqs \ {r} : req'[p] = req[p]) /\ UNCHANGED status
        /\ q.n = req[r].n /\ q.which = req[r].which
    BY <1>2 DEF Continues, ClientInv, TypeOK, callVars
  <2>2. \A p \in Reqs \ {r} : Attached(p)' => Attached(p)
    BY <2>1 DEF Attached, Settled, Retries, Done, Code, Current
  <2>3. Attached(r)' => Attached(r)
    <3>1. CASE q.stage \in Codes
      BY <2>1, <3>1 DEF Attached, Done
    <3>2. CASE q.backoff
      BY <1>2, <2>1, <3>2 DEF Attached, Settled
    <3> QED
      BY <1>2, <3>1, <3>2
  <2>4. \A p \in Reqs : req'[p].object = req[p].object
    BY <1>2, <2>1
  <2> QED
    BY <1>0, <1>c, <2>2, <2>3, <2>4 DEF HeldInv
<1> QED
  BY <1>1, <1>2, ReqStepShape

\* close() leaves no connection behind: an object it dropped is connected only if some
\* request was, at that close(), awaiting its connection or about to try it again.  It
\* needs 'closed' not to be retried: a request whose call close() rejected would otherwise
\* reconnect the dropped object.
THEOREM NothingLeftOpen ==
    ASSUME "closed" \notin Retryable
    PROVE  Spec => []CloseReleases
<1>1. Init => HeldInv
  <2> SUFFICES ASSUME Init PROVE HeldInv
    OBVIOUS
  <2>1. conn = {} /\ closes = 0 /\ \A r \in Reqs : req[r].object = 0
    BY DEF Init, NoReq
  <2> QED
    BY <2>1 DEF HeldInv, CloseReleases
<1>2. ClientInv /\ HeldInv /\ [Next]_vars => HeldInv'
  <2> SUFFICES ASSUME ClientInv, HeldInv, [Next]_vars PROVE HeldInv'
    OBVIOUS
  <2>1. CASE UNCHANGED vars
    BY <2>1 DEF vars, HeldInv, CloseReleases, Attached, Settled, Retries, Done, Code, Current
  <2> QED
    BY <2>1, EnvHolds, ReqHolds, NextSteps
<1>3. HeldInv => CloseReleases
  BY DEF HeldInv
<1> QED
  BY <1>1, <1>2, <1>3, ClientInvHolds, PTL DEF Spec
=============================================================================
