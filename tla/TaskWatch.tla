------------------------------ MODULE TaskWatch ------------------------------
(***************************************************************************)
(* packages/toolbelt/src/task-watch.ts with resume.ts and plan-snapshot.ts:*)
(* a runtime that dies and resumes from the durable task records, and the  *)
(* watcher that keeps it in sync with them.                                *)
(*                                                                         *)
(* The host runs the documented loop: resumeSession, watchTasks with the   *)
(* plan's cursor, `for await` over the deltas, persisting cursors as it    *)
(* goes.  A revision or cursor that is absent is 0; revisions start at 1.  *)
(***************************************************************************)
EXTENDS Naturals, Sequences, SequencesExt

CONSTANTS
    Tasks,
    States,         \* the task states told apart
    RevModes,       \* how the daemon numbers revisions: "global", "record", "none"
    Backends,       \* the methods a watcher may be configured with: "watch", "list"
    MaxRev,         \* bound: changes of the task records
    MaxFaults,      \* bound: failed reads
    MaxCrash        \* bound: deaths of the runtime

ASSUME WatchAssumption ==
    /\ RevModes \subseteq {"global", "record", "none"}
    /\ Backends \subseteq {"watch", "list"}
    /\ "absent" \notin States       \* the state of a record that does not exist
    /\ MaxRev \in Nat /\ MaxFaults \in Nat /\ MaxCrash \in Nat

VARIABLES
    revMode, task, changes,         \* the daemon: per task its state and revision
    backend,                        \* #watchMethod ("watch") or the poll ("list")
    proc, recovered, known,         \* the host: running?, plan read?, what it knows
    desc,                           \* the cursor in the persisted descriptor
    cursor, initialRev, seen,       \* #cursor, #initialRev, #seen
    buffer, consumer, stopped,      \* #buffer, the iterating consumer, #stopped
    flight,                         \* #inFlight and the read under way
    faults, crashes

daemonVars == <<revMode, task, changes, backend>>
hostVars == <<proc, recovered, known, desc>>
watchVars == <<cursor, initialRev, seen, buffer, consumer, stopped, flight>>
vars == <<revMode, task, changes, backend, proc, recovered, known, desc, cursor, initialRev,
          seen, buffer, consumer, stopped, flight, faults, crashes>>

Absent == [state |-> "absent", rev |-> 0]
Rows == {t \in Tasks : task[t].state # "absent"}

\* advanceCursor: the highest revision seen, never lower than before.
AdvanceCursor(prev, rows) ==
    LET all == {prev} \cup {rows[t].rev : t \in DOMAIN rows}
    IN CHOOSE m \in all : \A n \in all : n <= m

Init ==
    /\ revMode \in RevModes /\ backend \in Backends
    /\ task = [t \in Tasks |-> Absent]
    /\ changes = 0
    /\ proc = "down" /\ recovered = FALSE
    /\ known = [t \in Tasks |-> Absent]
    /\ desc = 0
    /\ cursor = 0 /\ initialRev = 0
    /\ seen = [t \in Tasks |-> Absent]
    /\ buffer = <<>> /\ consumer = "ready" /\ stopped = FALSE
    /\ flight = [at |-> "none"]
    /\ faults = 0 /\ crashes = 0

-----------------------------------------------------------------------------
(* The durable records (external: the daemon and the other agents) *)

\* A record is created or changes its state, and gets its next revision.
Change(t, s) ==
    /\ changes < MaxRev /\ task[t].state # s
    /\ changes' = changes + 1
    /\ task' = [task EXCEPT ![t] =
                  [state |-> s, rev |-> CASE revMode = "global" -> changes + 1
                                          [] revMode = "record" -> @.rev + 1
                                          [] OTHER -> 0]]
    /\ UNCHANGED <<revMode, backend, hostVars, watchVars, faults, crashes>>

-----------------------------------------------------------------------------
(* The runtime *)

\* new TaskWatcherImpl(session, { cursor }).
StartWatch(c) ==
    /\ cursor' = c /\ initialRev' = c
    /\ seen' = [t \in Tasks |-> Absent]
    /\ buffer' = <<>> /\ consumer' = "ready" /\ stopped' = FALSE
    /\ flight' = [at |-> "none"]

\* resumeSession reads the whole plan, and the host watches from its cursor.
Resume ==
    /\ proc = "down"
    /\ proc' = "up" /\ recovered' = TRUE
    /\ known' = task
    /\ StartWatch(AdvanceCursor(desc, [t \in Rows |-> task[t]]))
    /\ UNCHANGED <<daemonVars, desc, faults, crashes>>

\* The read of the plan faults: faultSnapshot, no task and the old cursor.
ResumeFault ==
    /\ proc = "down" /\ faults < MaxFaults
    /\ faults' = faults + 1
    /\ proc' = "up" /\ recovered' = FALSE
    /\ known' = [t \in Tasks |-> Absent]
    /\ StartWatch(desc)
    /\ UNCHANGED <<daemonVars, desc, crashes>>

Crash ==
    /\ proc = "up" /\ crashes < MaxCrash
    /\ crashes' = crashes + 1
    /\ proc' = "down" /\ recovered' = FALSE
    /\ known' = [t \in Tasks |-> Absent]
    /\ StartWatch(0)
    /\ UNCHANGED <<daemonVars, desc, faults>>

\* describe(watcher.cursor), written by the host at any time.
Persist ==
    /\ proc = "up"
    /\ desc' = cursor
    /\ UNCHANGED <<daemonVars, proc, recovered, known, watchVars, faults, crashes>>

-----------------------------------------------------------------------------
(* The consumer: one pass of `for await` calls next() *)

Consume ==
    /\ proc = "up" /\ consumer = "ready" /\ buffer # <<>>
    /\ buffer' = Tail(buffer)
    /\ known' = [known EXCEPT ![Head(buffer).task] = Head(buffer).row]
    /\ desc' \in {desc, Head(buffer).cursor}
    /\ UNCHANGED <<daemonVars, proc, recovered, cursor, initialRev, seen, consumer,
                   stopped, flight, faults, crashes>>

\* Faulty variant: next() parks without looking at #stopped.
NextParksAlways ==
    /\ proc = "up" /\ consumer = "ready" /\ buffer = <<>>
    /\ consumer' = "parked"
    /\ UNCHANGED <<daemonVars, hostVars, cursor, initialRev, seen, buffer, stopped,
                   flight, faults, crashes>>

NextEmpty ==
    /\ proc = "up" /\ consumer = "ready" /\ buffer = <<>>
    /\ consumer' = IF stopped THEN "ended" ELSE "parked"
    /\ UNCHANGED <<daemonVars, hostVars, cursor, initialRev, seen, buffer, stopped,
                   flight, faults, crashes>>

\* stop(): no more ticks, and a parked consumer is released.
Stop ==
    /\ proc = "up" /\ ~stopped
    /\ stopped' = TRUE
    /\ consumer' = IF consumer = "parked" THEN "ended" ELSE consumer
    /\ UNCHANGED <<daemonVars, hostVars, cursor, initialRev, seen, buffer, flight,
                   faults, crashes>>

-----------------------------------------------------------------------------
(* The watcher *)

\* #onTick and #fetchRows up to the call of the backend.
Tick ==
    /\ proc = "up" /\ ~stopped /\ flight.at = "none"
    /\ flight' = [at |-> backend]
    /\ UNCHANGED <<daemonVars, hostVars, cursor, initialRev, seen, buffer, consumer,
                   stopped, faults, crashes>>

\* The daemon answers with the records, or with those beyond the cursor; the
\* answer travels while the records may change again.
Answer ==
    /\ flight.at \in {"watch", "list"}
    /\ LET S == IF flight.at = "list" THEN Rows
                ELSE {t \in Rows : task[t].rev = 0 \/ task[t].rev > cursor}
       IN flight' = [at |-> "answered", rows |-> [t \in S |-> task[t]]]
    /\ UNCHANGED <<daemonVars, hostVars, cursor, initialRev, seen, buffer, consumer,
                   stopped, faults, crashes>>

\* A gap in the stream falls back to task.list; a failed task.list ends the tick.
ReadFault ==
    /\ flight.at \in {"watch", "list"} /\ faults < MaxFaults
    /\ faults' = faults + 1
    /\ flight' = [at |-> IF flight.at = "watch" THEN "list" ELSE "none"]
    /\ UNCHANGED <<daemonVars, hostVars, cursor, initialRev, seen, buffer, consumer,
                   stopped, crashes>>

\* Faulty variant: a first sighting is always news.
SuppressedNever(t, row) == FALSE

\* A first sighting at or below the cursor the watcher started from.
Suppressed(t, row) ==
    seen[t] = Absent /\ row.rev # 0 /\ initialRev # 0 /\ row.rev <= initialRev

\* Faulty variant: a batch is emitted only to a consumer that waits for it.
EmitToWaiter(emitted, c) ==
    /\ buffer' = IF consumer = "parked"
                   THEN buffer \o [i \in DOMAIN emitted |->
                          [task |-> emitted[i], row |-> flight.rows[emitted[i]], cursor |-> c]]
                   ELSE buffer
    /\ consumer' = "ready"

\* #emit for each delta in turn: hand it to the parked consumer, else queue it.
\* (A consumer parks only on an empty buffer, so what it is handed comes first.)
Emit(emitted, c) ==
    /\ buffer' = buffer \o [i \in DOMAIN emitted |->
                   [task |-> emitted[i], row |-> flight.rows[emitted[i]], cursor |-> c]]
    /\ consumer' = IF emitted # <<>> /\ consumer = "parked" THEN "ready" ELSE consumer

\* #poll after the read: nothing once stopped; else skip unchanged signatures,
\* remember the others, emit those not suppressed with the cursor of the batch.
Deliver ==
    /\ flight.at = "answered"
    /\ flight' = [at |-> "none"]
    /\ \/ /\ stopped
          /\ UNCHANGED <<cursor, seen, buffer, consumer>>
       \/ /\ ~stopped
          /\ LET rows == flight.rows
                 changed == {t \in DOMAIN rows : seen[t] # rows[t]}
                 fresh == {t \in changed : ~Suppressed(t, rows[t])}
                 next == AdvanceCursor(cursor, rows)
             IN /\ seen' = [t \in Tasks |-> IF t \in changed THEN rows[t] ELSE seen[t]]
                /\ Emit(SetToSeq(fresh), next)
                /\ cursor' = next
    /\ UNCHANGED <<daemonVars, hostVars, initialRev, stopped, faults, crashes>>

-----------------------------------------------------------------------------
Next == \/ \E t \in Tasks, s \in States : Change(t, s)
        \/ Resume \/ ResumeFault \/ Crash \/ Persist
        \/ Consume \/ NextEmpty \/ Stop
        \/ Tick \/ Answer \/ ReadFault \/ Deliver

Spec == Init /\ [][Next]_vars

\* The interval timer keeps firing, reads settle (MxClient's timeout) and the
\* consumer keeps iterating; faults and crashes are bounded.
Fairness == /\ WF_vars(Resume \/ ResumeFault)
            /\ WF_vars(Consume) /\ WF_vars(NextEmpty)
            /\ WF_vars(Tick) /\ WF_vars(Answer \/ ReadFault) /\ WF_vars(Deliver)

FairSpec == Spec /\ Fairness

-----------------------------------------------------------------------------
(* Properties *)

Record == [state : States, rev : 0..MaxRev] \cup {Absent}

TypeOK ==
    /\ revMode \in RevModes /\ backend \in Backends
    /\ task \in [Tasks -> Record]
    /\ changes \in 0..MaxRev
    /\ proc \in {"down", "up"} /\ recovered \in BOOLEAN
    /\ known \in [Tasks -> Record]
    /\ desc \in 0..MaxRev
    /\ cursor \in 0..MaxRev /\ initialRev \in 0..MaxRev
    /\ seen \in [Tasks -> Record]
    /\ buffer \in Seq([task : Tasks, row : Record, cursor : 0..MaxRev])
    /\ consumer \in {"ready", "parked", "ended"}
    /\ stopped \in BOOLEAN
    /\ flight.at \in {"none", "watch", "list", "answered"}
    /\ faults \in 0..MaxFaults /\ crashes \in 0..MaxCrash

\* What the host knows of t once it has read what is queued for it.
Due(t) == {i \in DOMAIN buffer : buffer[i].task = t}
Informed(t) == IF Due(t) = {} THEN known[t]
               ELSE buffer[CHOOSE i \in Due(t) : \A j \in Due(t) : j <= i].row

\* The cursor of the watcher does not tell what the host has: its plan could not be read,
\* or the daemon numbers every record by itself.
Blind == ~recovered \/ revMode = "record"

\* "no lost update" (task-watch.ts:21): a record the watcher has marked as seen is one the
\* host has read in its plan, has been handed, or will be handed.  Where the cursor does
\* not tell, this is so of the revisions beyond the one the watcher began with.
NoLostUpdate ==
    proc = "up" =>
      \A t \in Tasks : seen[t] # Absent =>
        \/ Informed(t).state = seen[t].state
        \/ Blind /\ seen[t].rev \in 1..initialRev

\* "only new deltas surface" (task-watch.ts:15): with revisions, a resumed host
\* is never handed a record that it already has from its plan or an earlier delta.
OnlyNewDeltas ==
    [][proc = "up" /\ recovered /\ revMode # "none" /\ Len(buffer') > Len(buffer) =>
         \A i \in (Len(buffer) + 1)..Len(buffer') :
           buffer'[i].row.rev > Informed(buffer'[i].task).rev]_vars

\* Stopping never leaves the consumer waiting for a delta that cannot come.
NoParkAfterStop == stopped => consumer # "parked"

\* The revisions a watcher may never bring: task.watch is asked for what is beyond the
\* present cursor, task.list for everything.
Behind == 1..(IF backend = "watch" /\ revMode = "record" THEN cursor ELSE initialRev)

InSync == \A t \in Tasks : known[t].state = task[t].state \/ (Blind /\ task[t].rev \in Behind)

\* A runtime that goes on watching ends up knowing the records as they are, through faults,
\* restarts and changes between two reads; where the cursor does not tell what it has, all
\* those whose revision is beyond it.
Converges == <>[](proc = "up" /\ ~stopped) => <>[]InSync
=============================================================================
