----------------------------- MODULE HostProofs -----------------------------
(***************************************************************************)
(* What a host runs around the verbs: the watcher that keeps it in sync    *)
(* with the task records (TaskWatch), the path of a tool call through the  *)
(* approval hook and the audit tap, and the session that keeps the host's  *)
(* agent listed (Binding).  Watcher and adapter share no state: Spec is    *)
(* the watcher's specification, BindingSpec the adapter's.                 *)
(***************************************************************************)
EXTENDS TaskWatch, Binding, SequenceTheorems, FiniteSetTheorems, TLAPS

-----------------------------------------------------------------------------
(* The watcher: the inductive invariant *)

\* A record of at most n changes.
RecordUpTo(n) == [state : States, rev : 0..n] \cup {Absent}

\* A queued delta.
DeltaUpTo(n) == [task : Tasks, row : RecordUpTo(n), cursor : 0..n]

\* An answer on its way holds records that exist.
FlightOK ==
    \/ flight \in [at : {"none", "watch", "list"}]
    \/ /\ flight = [at |-> "answered", rows |-> flight.rows]
       /\ DOMAIN flight.rows \subseteq Tasks /\ IsFiniteSet(DOMAIN flight.rows)
       /\ flight.rows \in [DOMAIN flight.rows -> RecordUpTo(changes)]
       /\ \A t \in DOMAIN flight.rows : flight.rows[t] # Absent

\* Types, every revision and every cursor being at most the number of changes.
WatchTypes ==
    /\ revMode \in RevModes /\ backend \in Backends
    /\ changes \in 0..MaxRev
    /\ task \in [Tasks -> RecordUpTo(changes)] /\ IsFiniteSet(Rows)
    /\ proc \in {"down", "up"} /\ recovered \in BOOLEAN
    /\ known \in [Tasks -> RecordUpTo(changes)]
    /\ desc \in 0..changes
    /\ cursor \in 0..changes /\ initialRev \in 0..changes
    /\ seen \in [Tasks -> RecordUpTo(changes)]
    /\ buffer \in Seq(DeltaUpTo(changes))
    /\ consumer \in {"ready", "parked", "ended"}
    /\ stopped \in BOOLEAN
    /\ FlightOK
    /\ faults \in 0..MaxFaults /\ crashes \in 0..MaxCrash

\* The rows of an answer on its way.
OnItsWay == IF flight.at = "answered" THEN DOMAIN flight.rows ELSE {}

\* a is the record b, or an earlier version of it.
Older(a, b) == a = b \/ a.rev < b.rev

\* A record that exists has a revision when the daemon numbers them, and else none.
Numbered ==
    /\ revMode # "none" => \A t \in Tasks : task[t] = Absent \/ task[t].rev > 0
    /\ revMode # "none" => \A t \in OnItsWay : flight.rows[t].rev > 0
    /\ revMode = "none" => \A t \in Tasks : task[t].rev = 0
    /\ revMode = "none" => \A t \in OnItsWay : flight.rows[t].rev = 0

\* What the host is informed of, what the watcher has seen, the answer on its way
\* and the daemon's record are versions of one record, each no newer than the next.
Ordered ==
    proc = "up" /\ recovered /\ revMode # "none" =>
      /\ \A t \in Tasks : Older(Informed(t), task[t]) /\ Older(seen[t], task[t])
      /\ \A t \in OnItsWay : /\ Older(Informed(t), flight.rows[t])
                             /\ Older(seen[t], flight.rows[t])
                             /\ Older(flight.rows[t], task[t])
      /\ \A t \in Tasks : seen[t] # Absent => Older(Informed(t), seen[t])
      /\ \A t \in Tasks : seen[t] = Absent => known[t].rev <= initialRev

\* What was never seen was never queued.
Unseen == \A t \in Tasks : seen[t] = Absent => Due(t) = {}

\* What was seen and is not known was suppressed.  With one numbering of all the records,
\* or none, a first sighting that is suppressed is the record the host read in its plan.
Exact ==
    /\ proc = "up" => \A t \in Tasks : seen[t] # Absent =>
                         Informed(t) = seen[t] \/ seen[t].rev \in 1..initialRev
    /\ proc = "up" /\ recovered /\ revMode # "record" =>
         /\ \A t \in Tasks : seen[t] # Absent => Informed(t) = seen[t]
         /\ revMode = "global" =>
              /\ \A t \in Tasks : seen[t] = Absent =>
                   task[t] = known[t] \/ task[t].rev > initialRev
              /\ \A t \in OnItsWay : seen[t] = Absent =>
                   flight.rows[t] = known[t] \/ flight.rows[t].rev > initialRev

WatchInv == WatchTypes /\ Numbered /\ Unseen /\ Ordered /\ Exact /\ NoParkAfterStop

-----------------------------------------------------------------------------
(* The operators *)

\* A set of naturals that is bounded and not empty has a greatest element.
LEMMA HasGreatest ==
    ASSUME NEW n \in Nat, NEW S, S \subseteq 0..n, S # {}
    PROVE  \E m \in S : \A k \in S : k <= m
<1> DEFINE R == OpToRel(<, Nat)
           T == {n - k : k \in S}
<1>1. T \subseteq Nat /\ T # {}
  <2>1. PICK k \in S : TRUE OBVIOUS
  <2>2. n - k \in T BY <2>1
  <2> QED BY <2>2
<1>2. \A a, b \in Nat : a < b => <<a, b>> \in R
  BY DEF OpToRel
<1>3. IsWellFoundedOn(R, Nat)
  BY NatLessThanWellFounded
<1> HIDE DEF R, T
<1>4. PICK x \in T : \A y \in T : ~(<<y, x>> \in R)
  BY <1>1, <1>3, WFMin
<1>5. PICK m \in S : x = n - m
  BY DEF T
<1>6. ASSUME NEW k \in S PROVE k <= m
  <2>1. n - k \in T BY DEF T
  <2>2. ~(n - k < n - m) BY <2>1, <1>1, <1>2, <1>4, <1>5
  <2> QED BY <2>2
<1> QED BY <1>6

\* The cursor moves up to the highest revision of the rows, and never down.
LEMMA CursorMovesUp ==
    ASSUME NEW n \in Nat, NEW prev \in 0..n, NEW rs,
           \A t \in DOMAIN rs : rs[t].rev \in 0..n
    PROVE  /\ AdvanceCursor(prev, rs) \in 0..n
           /\ prev <= AdvanceCursor(prev, rs)
           /\ \A t \in DOMAIN rs : rs[t].rev <= AdvanceCursor(prev, rs)
<1> DEFINE all == {prev} \cup {rs[t].rev : t \in DOMAIN rs}
<1>1. \E m \in all : \A k \in all : k <= m
  <2>1. all \subseteq 0..n /\ all # {} OBVIOUS
  <2> HIDE DEF all
  <2> QED BY <2>1, HasGreatest
<1>2. AdvanceCursor(prev, rs) = CHOOSE m \in all : \A k \in all : k <= m
  BY DEF AdvanceCursor
<1>3. AdvanceCursor(prev, rs) \in all /\ \A k \in all : k <= AdvanceCursor(prev, rs)
  BY <1>1, <1>2
<1> QED BY <1>3

\* SetToSeq lists every element of a finite set once.
LEMMA ListsAll ==
    ASSUME NEW S, IsFiniteSet(S)
    PROVE  /\ Cardinality(S) \in Nat
           /\ SetToSeq(S) \in [1..Cardinality(S) -> S]
           /\ \A x \in S : \E i \in 1..Cardinality(S) : SetToSeq(S)[i] = x
           /\ \A i, j \in 1..Cardinality(S) : SetToSeq(S)[i] = SetToSeq(S)[j] => i = j
<1> DEFINE n == Cardinality(S)
           q == SetToSeq(S)
<1>1. n \in Nat /\ \E f \in [1..n -> S] : IsInjective(f)
  BY FS_CardinalityType DEF ExistsBijection, Bijection, Injection
<1>2. q \in [1..n -> S] /\ IsInjective(q)
  BY <1>1 DEF SetToSeq
<1>3. q \in Injection(1..n, S)
  BY <1>2 DEF Injection
<1>4. IsFiniteSet(1..n) /\ Cardinality(1..n) = n
  BY <1>1, FS_Interval
<1>5. q \in Surjection(1..n, S)
  <2> HIDE DEF q
  <2> QED BY <1>3, <1>4, FS_Injection
<1> QED BY <1>1, <1>2, <1>5 DEF Surjection, IsInjective

\* Due and Informed of a queue and what the host knows, whatever the state.
DueIn(b, t) == {i \in DOMAIN b : b[i].task = t}
InformedBy(b, k, t) ==
    IF DueIn(b, t) = {} THEN k[t]
    ELSE b[CHOOSE i \in DueIn(b, t) : \A j \in DueIn(b, t) : j <= i].row

LEMMA OfTheState ==
    /\ \A t : Due(t) = DueIn(buffer, t) /\ Informed(t) = InformedBy(buffer, known, t)
    /\ \A t : Due(t)' = DueIn(buffer', t) /\ Informed(t)' = InformedBy(buffer', known', t)
BY DEF Due, DueIn, Informed, InformedBy

\* The last delta queued for a task is what the host ends up with.
LEMMA LastCounts ==
    ASSUME NEW D, NEW b \in Seq(D), NEW k, NEW t, NEW i \in DueIn(b, t),
           \A j \in DueIn(b, t) : j <= i
    PROVE  InformedBy(b, k, t) = b[i].row
<1> DEFINE m == CHOOSE x \in DueIn(b, t) : \A j \in DueIn(b, t) : j <= x
<1>1. m \in DueIn(b, t) /\ \A j \in DueIn(b, t) : j <= m
  OBVIOUS
<1>2. DueIn(b, t) \subseteq Nat
  BY DEF DueIn
<1>3. m = i
  <2> HIDE DEF m
  <2> QED BY <1>1, <1>2
<1>4. InformedBy(b, k, t) = b[m].row
  BY DEF InformedBy
<1> HIDE DEF m
<1> QED BY <1>3, <1>4

\* What is due has a last delta.
LEMMA HasLast ==
    ASSUME NEW D, NEW b \in Seq(D), NEW t, DueIn(b, t) # {}
    PROVE  \E i \in DueIn(b, t) : \A j \in DueIn(b, t) : j <= i
<1>1. Len(b) \in Nat /\ DueIn(b, t) \subseteq 0..Len(b)
  BY DEF DueIn
<1> QED BY <1>1, HasGreatest

\* A batch that is queued leaves the tasks it does not name alone ...
LEMMA QueueOthers ==
    ASSUME NEW D, NEW b \in Seq(D), NEW e \in Seq(D), NEW k, NEW t,
           \A i \in 1..Len(e) : e[i].task # t
    PROVE  DueIn(b \o e, t) = DueIn(b, t) /\ InformedBy(b \o e, k, t) = InformedBy(b, k, t)
<1>1. /\ b \o e \in Seq(D) /\ Len(b \o e) = Len(b) + Len(e)
      /\ \A i \in 1..(Len(b) + Len(e)) :
            (b \o e)[i] = IF i <= Len(b) THEN b[i] ELSE e[i - Len(b)]
  BY ConcatProperties
<1>2. DueIn(b \o e, t) = DueIn(b, t)
  <2>1. \A i : i \in DueIn(b \o e, t) => i \in DueIn(b, t)
    BY <1>1 DEF DueIn
  <2>2. \A i : i \in DueIn(b, t) => i \in DueIn(b \o e, t)
    BY <1>1 DEF DueIn
  <2> QED BY <2>1, <2>2
<1>3. CASE DueIn(b, t) = {}
  BY <1>2, <1>3 DEF InformedBy
<1>4. CASE DueIn(b, t) # {}
  <2>1. PICK i \in DueIn(b, t) : \A j \in DueIn(b, t) : j <= i
    BY <1>4, HasLast
  <2>2. InformedBy(b, k, t) = b[i].row
    BY <2>1, LastCounts
  <2>3. InformedBy(b \o e, k, t) = (b \o e)[i].row
    <3> DEFINE be == b \o e
    <3>1. be \in Seq(D) /\ i \in DueIn(be, t) /\ \A j \in DueIn(be, t) : j <= i
      BY <2>1, <1>1, <1>2
    <3> HIDE DEF be
    <3>2. InformedBy(be, k, t) = be[i].row BY <3>1, LastCounts
    <3> QED BY <3>2 DEF be
  <2>4. (b \o e)[i] = b[i]
    BY <1>1 DEF DueIn
  <2> QED BY <1>2, <2>2, <2>3, <2>4
<1> QED BY <1>3, <1>4

\* ... and is the last word on a task it names.
NamedAt(e, t, i) ==
    i \in 1..Len(e) /\ e[i].task = t /\ \A j \in 1..Len(e) : e[j].task = t => j = i

LEMMA QueueNamed ==
    ASSUME NEW D, NEW b \in Seq(D), NEW e \in Seq(D), NEW k, NEW t, NEW i, NamedAt(e, t, i)
    PROVE  InformedBy(b \o e, k, t) = e[i].row
<1> USE DEF NamedAt
<1>1. /\ b \o e \in Seq(D) /\ Len(b \o e) = Len(b) + Len(e)
      /\ \A j \in 1..(Len(b) + Len(e)) :
            (b \o e)[j] = IF j <= Len(b) THEN b[j] ELSE e[j - Len(b)]
  BY ConcatProperties
<1>2. Len(b) + i \in DueIn(b \o e, t)
  BY <1>1 DEF DueIn
<1>3. \A j \in DueIn(b \o e, t) : j <= Len(b) + i
  BY <1>1 DEF DueIn
<1>4. InformedBy(b \o e, k, t) = (b \o e)[Len(b) + i].row
  <2> DEFINE be == b \o e
             x == Len(b) + i
  <2>1. be \in Seq(D) /\ x \in DueIn(be, t) /\ \A j \in DueIn(be, t) : j <= x
    BY <1>1, <1>2, <1>3
  <2> HIDE DEF be, x
  <2>2. InformedBy(be, k, t) = be[x].row BY <2>1, LastCounts
  <2> QED BY <2>2 DEF be, x
<1>5. (b \o e)[Len(b) + i] = e[i]
  BY <1>1
<1> QED BY <1>4, <1>5

\* Handing over the head of the queue informs the host of nothing it was not due.
LEMMA TakeHead ==
    ASSUME NEW D, NEW b \in Seq(D), b # <<>>, NEW X, NEW k \in [Tasks -> X],
           Head(b).task \in Tasks, NEW t \in Tasks
    PROVE  /\ InformedBy(Tail(b), [k EXCEPT ![Head(b).task] = Head(b).row], t)
                = InformedBy(b, k, t)
           /\ DueIn(b, t) = {} => DueIn(Tail(b), t) = {} /\ Head(b).task # t
<1> DEFINE c == Tail(b)
           k2 == [k EXCEPT ![Head(b).task] = Head(b).row]
<1>1. /\ c \in Seq(D) /\ Len(c) = Len(b) - 1 /\ Head(b) = b[1]
      /\ \A i \in 1..Len(c) : c[i] = b[i + 1]
      /\ Len(b) \in Nat \ {0}
  BY HeadTailProperties
<1>2. k2[t] = IF b[1].task = t THEN b[1].row ELSE k[t]
  BY <1>1
<1> HIDE DEF c, k2
<1>3. \A i : i \in DueIn(c, t) <=> i \in 1..Len(c) /\ i + 1 \in DueIn(b, t)
  BY <1>1 DEF DueIn
<1>4. 1 \in DueIn(b, t) <=> b[1].task = t
  BY <1>1 DEF DueIn
<1>5. CASE DueIn(b, t) = {}
  <2>1. DueIn(c, t) = {} /\ b[1].task # t BY <1>5, <1>3, <1>4
  <2> QED BY <2>1, <1>1, <1>2, <1>5 DEF InformedBy, c, k2
<1>6. CASE DueIn(b, t) # {}
  <2>1. PICK m \in DueIn(b, t) : \A j \in DueIn(b, t) : j <= m
    BY <1>6, HasLast
  <2>2. m \in 1..Len(b) /\ DueIn(c, t) \subseteq 1..Len(c)
    BY <1>1 DEF DueIn
  <2>3. InformedBy(b, k, t) = b[m].row
    BY <2>1, LastCounts
  <2>4. CASE m = 1
    <3>1. DueIn(c, t) = {} BY <2>4, <2>1, <2>2, <1>3
    <3>2. b[1].task = t BY <2>4, <1>4
    <3> QED BY <3>1, <3>2, <2>3, <2>4, <1>2, <1>6 DEF InformedBy, c, k2
  <2>5. CASE m # 1
    <3>1. m - 1 \in DueIn(c, t) BY <2>5, <2>2, <1>1, <1>3
    <3>2. \A j \in DueIn(c, t) : j <= m - 1 BY <2>1, <2>2, <1>3
    <3>3. InformedBy(c, k2, t) = c[m - 1].row BY <3>1, <3>2, <1>1, LastCounts
    <3>4. c[m - 1] = b[m] BY <2>5, <2>2, <1>1
    <3> QED BY <3>3, <3>4, <2>3, <1>6 DEF c, k2
  <2> QED BY <2>4, <2>5
<1> QED BY <1>5, <1>6

-----------------------------------------------------------------------------
(* The watcher: types *)

\* The rows of an answer that changed, and those of them that are queued.
Changed == {t \in DOMAIN flight.rows : seen[t] # flight.rows[t]}
Fresh == {t \in Changed : ~Suppressed(t, flight.rows[t])}

LEMMA MoreChanges ==
    ASSUME NEW n \in Nat, NEW m \in Nat, n <= m
    PROVE  /\ RecordUpTo(n) \subseteq RecordUpTo(m)
           /\ Seq(DeltaUpTo(n)) \subseteq Seq(DeltaUpTo(m))
<1>1. RecordUpTo(n) \subseteq RecordUpTo(m)
  BY DEF RecordUpTo
<1>2. DeltaUpTo(n) \subseteq DeltaUpTo(m)
  BY <1>1 DEF DeltaUpTo
<1> HIDE DEF DeltaUpTo
<1>3. Seq(DeltaUpTo(n)) \subseteq Seq(DeltaUpTo(m))
  BY <1>2
<1> QED BY <1>1, <1>3

LEMMA RevsUpTo ==
    ASSUME NEW n \in Nat, NEW r \in RecordUpTo(n)
    PROVE  r.rev \in 0..n
BY DEF RecordUpTo, Absent

LEMMA AbsentIsRecord == \A n \in Nat : Absent \in RecordUpTo(n)
BY DEF RecordUpTo

\* What a delivered batch does to the queue and to what the host is informed of.
LEMMA DeliverQueues ==
    ASSUME WatchTypes, Deliver, ~stopped
    PROVE  /\ flight.at = "answered" /\ Fresh \subseteq Changed /\ Changed \subseteq Tasks
           /\ seen' = [t \in Tasks |-> IF t \in Changed THEN flight.rows[t] ELSE seen[t]]
           /\ cursor' \in 0..changes
           /\ buffer' \in Seq(DeltaUpTo(changes))
           /\ \A t \in Fresh : Informed(t)' = flight.rows[t]
           /\ \A t \in Tasks \ Fresh : Informed(t)' = Informed(t) /\ Due(t)' = Due(t)
           /\ Len(buffer) <= Len(buffer')
           /\ \A i \in (Len(buffer) + 1)..Len(buffer') :
                buffer'[i].task \in Fresh /\ buffer'[i].row = flight.rows[buffer'[i].task]
<1> DEFINE rs == flight.rows
           q == SetToSeq(Fresh)
           n == Cardinality(Fresh)
           c == AdvanceCursor(cursor, rs)
           e == [i \in DOMAIN q |-> [task |-> q[i], row |-> rs[q[i]], cursor |-> c]]
<1>1. /\ flight.at = "answered" /\ DOMAIN rs \subseteq Tasks /\ IsFiniteSet(DOMAIN rs)
      /\ rs \in [DOMAIN rs -> RecordUpTo(changes)]
      /\ changes \in Nat /\ cursor \in 0..changes
      /\ buffer \in Seq(DeltaUpTo(changes))
  BY WatchAssumption DEF Deliver, WatchTypes, FlightOK
<1>2. Fresh \subseteq Changed /\ Changed \subseteq DOMAIN rs
  BY DEF Fresh, Changed
<1>3. /\ seen' = [t \in Tasks |-> IF t \in Changed THEN rs[t] ELSE seen[t]]
      /\ buffer' = buffer \o e
      /\ cursor' = c
      /\ known' = known
  BY DEF Deliver, Emit, Changed, Fresh, hostVars
<1>4. c \in 0..changes
  BY <1>1, RevsUpTo, CursorMovesUp
<1>5. IsFiniteSet(Fresh)
  BY <1>1, <1>2, FS_Subset
<1>6. /\ n \in Nat /\ q \in [1..n -> Fresh]
      /\ \A x \in Fresh : \E i \in 1..n : q[i] = x
      /\ \A i, j \in 1..n : q[i] = q[j] => i = j
  BY <1>5, ListsAll
<1> HIDE DEF q, n, c
<1>7. /\ DOMAIN e = 1..n
      /\ \A i \in 1..n : /\ e[i].task = q[i] /\ e[i].row = rs[q[i]]
                         /\ e[i] \in DeltaUpTo(changes)
  BY <1>1, <1>2, <1>4, <1>6 DEF DeltaUpTo
<1>8. e \in Seq(DeltaUpTo(changes)) /\ Len(e) = n
  <2>1. e \in [1..n -> DeltaUpTo(changes)]
    BY <1>7
  <2> HIDE DEF e
  <2> QED BY <2>1, <1>6
<1> HIDE DEF e
<1>9. /\ buffer \o e \in Seq(DeltaUpTo(changes)) /\ Len(buffer \o e) = Len(buffer) + n
      /\ \A i \in 1..(Len(buffer) + n) :
            (buffer \o e)[i] = IF i <= Len(buffer) THEN buffer[i] ELSE e[i - Len(buffer)]
  BY <1>1, <1>8, ConcatProperties
<1>10. ASSUME NEW t \in Fresh PROVE Informed(t)' = rs[t]
  <2>1. PICK i \in 1..n : q[i] = t BY <1>6
  <2>2. e[i].task = t /\ e[i].row = rs[t] BY <2>1, <1>7
  <2>3. NamedAt(e, t, i)
    BY <2>1, <2>2, <1>6, <1>7, <1>8 DEF NamedAt
  <2>4. InformedBy(buffer \o e, known, t) = e[i].row
    BY <1>1, <1>8, <2>3, QueueNamed
  <2> QED BY <2>2, <2>4, <1>3, OfTheState
<1>11. ASSUME NEW t \in Tasks \ Fresh PROVE Informed(t)' = Informed(t) /\ Due(t)' = Due(t)
  <2>1. \A i \in 1..Len(e) : e[i].task # t BY <1>6, <1>7, <1>8
  <2>2. /\ DueIn(buffer \o e, t) = DueIn(buffer, t)
        /\ InformedBy(buffer \o e, known, t) = InformedBy(buffer, known, t)
    BY <1>1, <1>8, <2>1, QueueOthers
  <2> QED BY <2>2, <1>3, OfTheState
<1>12. ASSUME NEW i \in (Len(buffer) + 1)..Len(buffer')
       PROVE  buffer'[i].task \in Fresh /\ buffer'[i].row = rs[buffer'[i].task]
  <2>0. Len(buffer) \in Nat BY <1>1
  <2>1. i - Len(buffer) \in 1..n /\ buffer'[i] = e[i - Len(buffer)]
    BY <2>0, <1>3, <1>6, <1>9
  <2> QED BY <2>1, <1>6, <1>7
<1>13. Len(buffer) <= Len(buffer')
  <2>0. Len(buffer) \in Nat BY <1>1
  <2> QED BY <2>0, <1>3, <1>6, <1>9
<1> QED BY <1>1, <1>2, <1>3, <1>4, <1>9, <1>10, <1>11, <1>12, <1>13

LEMMA WatchTypesInit == Init => WatchTypes
<1> SUFFICES ASSUME Init PROVE WatchTypes OBVIOUS
<1>1. Rows = {} BY DEF Init, Rows, Absent
<1>2. IsFiniteSet(Rows) BY <1>1, FS_EmptySet
<1>3. Absent \in RecordUpTo(0) BY AbsentIsRecord
<1>4. FlightOK BY DEF Init, FlightOK
<1>5. buffer \in Seq(DeltaUpTo(0)) BY DEF Init
<1>6. changes = 0 /\ 0 \in 0..MaxRev /\ 0 \in 0..MaxFaults /\ 0 \in 0..MaxCrash
  BY WatchAssumption DEF Init
<1>7. /\ task \in [Tasks -> RecordUpTo(0)] /\ known \in [Tasks -> RecordUpTo(0)]
      /\ seen \in [Tasks -> RecordUpTo(0)]
  BY <1>3 DEF Init
<1>8. desc \in 0..changes /\ cursor \in 0..changes /\ initialRev \in 0..changes
  BY DEF Init
<1>9. recovered \in BOOLEAN /\ stopped \in BOOLEAN
  BY Zenon DEF Init
<1> QED BY <1>2, <1>4, <1>5, <1>6, <1>7, <1>8, <1>9 DEF Init, WatchTypes

\* The watcher's fields as the constructor leaves them.
LEMMA StartTypes ==
    ASSUME NEW n \in Nat, NEW c \in 0..n, StartWatch(c), changes' = n
    PROVE  /\ cursor' \in 0..n /\ initialRev' \in 0..n
           /\ seen' \in [Tasks -> RecordUpTo(n)]
           /\ buffer' \in Seq(DeltaUpTo(n))
           /\ consumer' \in {"ready", "parked", "ended"}
           /\ stopped' \in BOOLEAN
           /\ FlightOK'
<1>1. FlightOK' BY DEF StartWatch, FlightOK
<1>2. buffer' \in Seq(DeltaUpTo(n)) BY DEF StartWatch
<1> QED BY <1>1, <1>2, AbsentIsRecord DEF StartWatch

LEMMA ChangeTypes ==
    ASSUME WatchTypes, NEW t \in Tasks, NEW s \in States, Change(t, s)
    PROVE  WatchTypes'
<1>1. /\ changes \in Nat /\ changes' = changes + 1 /\ changes' \in 0..MaxRev
      /\ changes <= changes'
  BY WatchAssumption DEF WatchTypes, Change
<1>2. /\ RecordUpTo(changes) \subseteq RecordUpTo(changes')
      /\ Seq(DeltaUpTo(changes)) \subseteq Seq(DeltaUpTo(changes'))
  BY <1>1, MoreChanges
<1>3. PICK r \in 0..changes' : task' = [task EXCEPT ![t] = [state |-> s, rev |-> r]]
  <2>1. PICK r : r = CASE revMode = "global" -> changes + 1
                       [] revMode = "record" -> task[t].rev + 1
                       [] OTHER -> 0
    OBVIOUS
  <2>2. task' = [task EXCEPT ![t] = [state |-> s, rev |-> r]]
    BY <2>1 DEF Change
  <2>3. task[t].rev \in 0..changes BY <1>1, RevsUpTo DEF WatchTypes
  <2>4. r \in 0..changes' BY <2>1, <2>3, <1>1
  <2> QED BY <2>2, <2>4
<1>4. task' \in [Tasks -> RecordUpTo(changes')]
  BY <1>2, <1>3 DEF WatchTypes, RecordUpTo
<1>5. IsFiniteSet(Rows')
  <2>1. Rows' \subseteq Rows \cup {t}
    BY <1>3 DEF WatchTypes, Rows
  <2>2. IsFiniteSet(Rows \cup {t})
    BY FS_AddElement DEF WatchTypes
  <2> QED BY <2>1, <2>2, FS_Subset
<1>6. /\ known \in [Tasks -> RecordUpTo(changes')]
      /\ seen \in [Tasks -> RecordUpTo(changes')]
      /\ buffer \in Seq(DeltaUpTo(changes'))
      /\ desc \in 0..changes' /\ cursor \in 0..changes' /\ initialRev \in 0..changes'
  BY <1>1, <1>2 DEF WatchTypes
<1>7. FlightOK'
  BY <1>2 DEF WatchTypes, FlightOK, Change, watchVars
<1> QED BY <1>1, <1>4, <1>5, <1>6, <1>7 DEF WatchTypes, Change, hostVars, watchVars

\* A step that leaves the daemon alone leaves its types alone.
LEMMA DaemonAlone ==
    ASSUME WatchTypes, UNCHANGED daemonVars
    PROVE  /\ revMode' \in RevModes /\ backend' \in Backends
           /\ changes' \in 0..MaxRev /\ changes' = changes /\ changes \in Nat
           /\ task' \in [Tasks -> RecordUpTo(changes')] /\ IsFiniteSet(Rows')
<1>1. Rows' = Rows BY DEF Rows, daemonVars
<1> QED BY <1>1, WatchAssumption DEF WatchTypes, daemonVars

LEMMA RuntimeTypes ==
    ASSUME WatchTypes, Resume \/ ResumeFault \/ Crash \/ Persist
    PROVE  WatchTypes'
<1>0. UNCHANGED daemonVars
  BY DEF Resume, ResumeFault, Crash, Persist
<1> USE <1>0, DaemonAlone
<1>1. CASE Resume
  <2> DEFINE c == AdvanceCursor(desc, [t \in Rows |-> task[t]])
  <2>1. c \in 0..changes
    <3> DEFINE rs == [t \in Rows |-> task[t]]
    <3>1. \A t \in DOMAIN rs : rs[t].rev \in 0..changes
      BY RevsUpTo DEF WatchTypes, Rows
    <3>2. desc \in 0..changes BY DEF WatchTypes
    <3> HIDE DEF rs
    <3>3. AdvanceCursor(desc, rs) \in 0..changes BY <3>1, <3>2, CursorMovesUp
    <3> QED BY <3>3 DEF rs
  <2>2. StartWatch(c) BY <1>1 DEF Resume
  <2> HIDE DEF c
  <2>3. /\ cursor' \in 0..changes /\ initialRev' \in 0..changes
        /\ seen' \in [Tasks -> RecordUpTo(changes)] /\ buffer' \in Seq(DeltaUpTo(changes))
        /\ consumer' \in {"ready", "parked", "ended"} /\ stopped' \in BOOLEAN /\ FlightOK'
    BY <2>1, <2>2, StartTypes
  <2>4. recovered' \in BOOLEAN BY <1>1 DEF Resume
  <2> QED BY <1>1, <2>3, <2>4 DEF WatchTypes, Resume
<1>2. CASE ResumeFault
  <2>1. desc \in 0..changes /\ StartWatch(desc) BY <1>2 DEF WatchTypes, ResumeFault
  <2>2. /\ cursor' \in 0..changes /\ initialRev' \in 0..changes
        /\ seen' \in [Tasks -> RecordUpTo(changes)] /\ buffer' \in Seq(DeltaUpTo(changes))
        /\ consumer' \in {"ready", "parked", "ended"} /\ stopped' \in BOOLEAN /\ FlightOK'
    BY <2>1, StartTypes
  <2>3. known' \in [Tasks -> RecordUpTo(changes)] BY <1>2, AbsentIsRecord DEF ResumeFault
  <2>4. recovered' \in BOOLEAN BY <1>2 DEF ResumeFault
  <2>5. faults' \in 0..MaxFaults BY <1>2, WatchAssumption DEF ResumeFault, WatchTypes
  <2> QED BY <1>2, <2>2, <2>3, <2>4, <2>5 DEF WatchTypes, ResumeFault
<1>3. CASE Crash
  <2>1. 0 \in 0..changes /\ StartWatch(0) BY <1>3 DEF Crash
  <2>2. /\ cursor' \in 0..changes /\ initialRev' \in 0..changes
        /\ seen' \in [Tasks -> RecordUpTo(changes)] /\ buffer' \in Seq(DeltaUpTo(changes))
        /\ consumer' \in {"ready", "parked", "ended"} /\ stopped' \in BOOLEAN /\ FlightOK'
    BY <2>1, StartTypes
  <2>3. known' \in [Tasks -> RecordUpTo(changes)] BY <1>3, AbsentIsRecord DEF Crash
  <2>4. recovered' \in BOOLEAN BY <1>3 DEF Crash
  <2>5. crashes' \in 0..MaxCrash BY <1>3, WatchAssumption DEF Crash, WatchTypes
  <2> QED BY <1>3, <2>2, <2>3, <2>4, <2>5 DEF WatchTypes, Crash
<1>4. CASE Persist
  <2>1. FlightOK' BY <1>4 DEF WatchTypes, FlightOK, Persist, watchVars
  <2> QED BY <1>4, <2>1 DEF WatchTypes, Persist, watchVars
<1> QED BY <1>1, <1>2, <1>3, <1>4

LEMMA ConsumerTypes ==
    ASSUME WatchTypes, Consume \/ NextEmpty \/ Stop
    PROVE  WatchTypes'
<1>0. UNCHANGED daemonVars
  BY DEF Consume, NextEmpty, Stop
<1>1. FlightOK'
  BY <1>0, DaemonAlone DEF WatchTypes, FlightOK, Consume, NextEmpty, Stop
<1>2. CASE Consume
  <2>1. /\ Head(buffer) \in DeltaUpTo(changes)
        /\ buffer' \in Seq(DeltaUpTo(changes))
    BY <1>2, HeadTailProperties DEF WatchTypes, Consume
  <2>2. known' \in [Tasks -> RecordUpTo(changes)] /\ desc' \in 0..changes
    BY <1>2, <2>1 DEF WatchTypes, Consume, DeltaUpTo
  <2> QED BY <1>0, <1>1, <1>2, <2>1, <2>2, DaemonAlone DEF WatchTypes, Consume
<1>3. CASE NextEmpty
  <2>1. consumer' \in {"ready", "parked", "ended"} BY <1>3 DEF NextEmpty
  <2> QED BY <1>0, <1>1, <1>3, <2>1, DaemonAlone DEF WatchTypes, NextEmpty, hostVars
<1>4. CASE Stop
  <2>1. consumer' \in {"ready", "parked", "ended"} BY <1>4 DEF Stop, WatchTypes
  <2>2. stopped' \in BOOLEAN BY <1>4 DEF Stop
  <2> QED BY <1>0, <1>1, <1>4, <2>1, <2>2, DaemonAlone DEF WatchTypes, Stop, hostVars
<1> QED BY <1>2, <1>3, <1>4

LEMMA WatcherTypes ==
    ASSUME WatchTypes, Tick \/ Answer \/ ReadFault \/ Deliver
    PROVE  WatchTypes'
<1>0. UNCHANGED daemonVars
  BY DEF Tick, Answer, ReadFault, Deliver
<1>1. CASE Tick
  <2>1. FlightOK' BY <1>1, WatchAssumption DEF Tick, FlightOK, WatchTypes
  <2> QED BY <1>0, <1>1, <2>1, DaemonAlone DEF WatchTypes, Tick, hostVars
<1>2. CASE Answer
  <2>1. PICK S : /\ S \subseteq Rows
                 /\ flight' = [at |-> "answered", rows |-> [t \in S |-> task[t]]]
    BY <1>2 DEF Answer
  <2>2. IsFiniteSet(S) /\ S \subseteq Tasks
    BY <2>1, FS_Subset DEF WatchTypes, Rows
  <2>3. \A t \in S : task[t] \in RecordUpTo(changes) /\ task[t] # Absent
    BY <2>1 DEF WatchTypes, Rows, Absent
  <2>4. FlightOK' BY <2>1, <2>2, <2>3, <1>0, DaemonAlone DEF FlightOK
  <2> QED BY <1>0, <1>2, <2>4, DaemonAlone DEF WatchTypes, Answer, hostVars
<1>3. CASE ReadFault
  <2>1. FlightOK' BY <1>3 DEF ReadFault, FlightOK
  <2>2. faults' \in 0..MaxFaults BY <1>3, WatchAssumption DEF ReadFault, WatchTypes
  <2> QED BY <1>0, <1>3, <2>1, <2>2, DaemonAlone DEF WatchTypes, ReadFault, hostVars
<1>4. CASE Deliver
  <2>1. FlightOK' BY <1>4 DEF Deliver, FlightOK
  <2>2. CASE stopped
    BY <1>0, <1>4, <2>1, <2>2, DaemonAlone DEF WatchTypes, Deliver, hostVars
  <2>3. CASE ~stopped
    <3>1. /\ cursor' \in 0..changes /\ buffer' \in Seq(DeltaUpTo(changes))
          /\ seen' = [t \in Tasks |-> IF t \in Changed THEN flight.rows[t] ELSE seen[t]]
      BY <1>4, <2>3, DeliverQueues
    <3>2. \A t \in Changed : flight.rows[t] \in RecordUpTo(changes)
      BY <1>4 DEF WatchTypes, FlightOK, Changed, Deliver
    <3>3. seen' \in [Tasks -> RecordUpTo(changes)]
      BY <3>1, <3>2 DEF WatchTypes
    <3>4. consumer' \in {"ready", "parked", "ended"}
      BY <1>4, <2>3 DEF WatchTypes, Deliver, Emit
    <3> QED BY <1>0, <1>4, <2>1, <3>1, <3>3, <3>4, DaemonAlone DEF WatchTypes, Deliver, hostVars
  <2> QED BY <2>2, <2>3
<1> QED BY <1>1, <1>2, <1>3, <1>4

LEMMA WatchTypesStep == WatchTypes /\ [Next]_vars => WatchTypes'
<1> SUFFICES ASSUME WatchTypes, [Next]_vars PROVE WatchTypes'
  OBVIOUS
<1>1. CASE UNCHANGED vars
  <2>1. FlightOK' BY <1>1 DEF WatchTypes, FlightOK, vars
  <2>2. UNCHANGED daemonVars BY <1>1 DEF vars, daemonVars
  <2> QED BY <1>1, <2>1, <2>2, DaemonAlone DEF WatchTypes, vars
<1> QED BY <1>1, ChangeTypes, RuntimeTypes, ConsumerTypes, WatcherTypes DEF Next

-----------------------------------------------------------------------------
(* The watcher: versions *)

\* What the host is informed of is a record.
LEMMA InformedIsRecord ==
    ASSUME WatchTypes, NEW t \in Tasks
    PROVE  Informed(t) \in RecordUpTo(changes) /\ (Due(t) = {} => Informed(t) = known[t])
<1>1. buffer \in Seq(DeltaUpTo(changes)) /\ known[t] \in RecordUpTo(changes)
  BY DEF WatchTypes
<1>2. CASE DueIn(buffer, t) = {}
  BY <1>1, <1>2, OfTheState DEF InformedBy
<1>3. CASE DueIn(buffer, t) # {}
  <2>1. PICK i \in DueIn(buffer, t) : \A j \in DueIn(buffer, t) : j <= i
    BY <1>1, <1>3, HasLast
  <2>2. Informed(t) = buffer[i].row
    BY <1>1, <2>1, LastCounts, OfTheState
  <2>3. buffer[i] \in DeltaUpTo(changes)
    BY <1>1 DEF DueIn
  <2> QED BY <1>3, <2>2, <2>3, OfTheState DEF DeltaUpTo
<1> QED BY <1>2, <1>3

\* All the revisions that are compared are naturals.
LEMMA RevsAreNat ==
    ASSUME WatchTypes
    PROVE  /\ changes \in Nat /\ initialRev \in Nat /\ initialRev <= changes
           /\ \A t \in Tasks : /\ task[t].rev \in Nat /\ task[t].rev <= changes
                               /\ seen[t].rev \in Nat /\ known[t].rev \in Nat
                               /\ Informed(t).rev \in Nat
           /\ \A t \in OnItsWay : t \in Tasks /\ flight.rows[t].rev \in Nat
<1>1. changes \in Nat /\ initialRev \in Nat /\ initialRev <= changes
  BY WatchAssumption DEF WatchTypes
<1>2. \A r \in RecordUpTo(changes) : r.rev \in Nat /\ r.rev <= changes
  BY <1>1, RevsUpTo
<1>3. \A t \in Tasks : /\ task[t] \in RecordUpTo(changes) /\ seen[t] \in RecordUpTo(changes)
                       /\ known[t] \in RecordUpTo(changes)
                       /\ Informed(t) \in RecordUpTo(changes)
  BY InformedIsRecord DEF WatchTypes
<1>4. \A t \in OnItsWay : t \in Tasks /\ flight.rows[t] \in RecordUpTo(changes)
  BY DEF WatchTypes, FlightOK, OnItsWay
<1> QED BY <1>1, <1>2, <1>3, <1>4

LEMMA VersionsInit == Init => Numbered /\ Unseen /\ Ordered /\ Exact /\ NoParkAfterStop
<1> SUFFICES ASSUME Init PROVE Numbered /\ Unseen /\ Ordered /\ Exact /\ NoParkAfterStop
  OBVIOUS
<1>1. OnItsWay = {} BY DEF Init, OnItsWay
<1>2. Numbered BY <1>1 DEF Init, Numbered, Absent
<1>3. Unseen BY DEF Init, Unseen, Due
<1>4. Ordered /\ Exact BY DEF Init, Ordered, Exact
<1>5. NoParkAfterStop BY DEF Init, NoParkAfterStop
<1> QED BY <1>2, <1>3, <1>4, <1>5

\* Steps that neither change a record nor queue, hand over or see one: they leave
\* the answer on its way alone, or drop it.
LEMMA QuietStep ==
    ASSUME Numbered, Unseen, Ordered, Exact,
           UNCHANGED <<revMode, task, proc, recovered, known, initialRev, seen, buffer>>,
           flight' = flight \/ flight'.at \in {"none", "watch", "list"}
    PROVE  Numbered' /\ Unseen' /\ Ordered' /\ Exact'
<1>1. \A t : Informed(t)' = Informed(t) /\ Due(t)' = Due(t)
  BY OfTheState
<1>2. OnItsWay' \subseteq OnItsWay /\ \A t \in OnItsWay' : flight'.rows[t] = flight.rows[t]
  BY DEF OnItsWay
<1>3. Numbered' BY <1>2 DEF Numbered
<1>4. Unseen' BY <1>1 DEF Unseen
<1>5. Ordered' BY <1>1, <1>2 DEF Ordered, Older
<1>6. Exact' BY <1>1, <1>2 DEF Exact
<1> QED BY <1>3, <1>4, <1>5, <1>6

\* A record gets a revision above its own, and with one numbering above them all.
LEMMA ChangeVersions ==
    ASSUME WatchInv, NEW u \in Tasks, NEW s \in States, Change(u, s)
    PROVE  Numbered' /\ Unseen' /\ Ordered' /\ Exact'
<1>1. /\ \A t : Informed(t)' = Informed(t) /\ Due(t)' = Due(t)
      /\ OnItsWay' = OnItsWay /\ flight' = flight
      /\ UNCHANGED <<revMode, proc, recovered, known, initialRev, seen, buffer>>
  BY OfTheState DEF Change, hostVars, watchVars, OnItsWay
<1>2. /\ task' = [task EXCEPT ![u] = task'[u]] /\ DOMAIN task = Tasks
      /\ revMode # "none" => task'[u].rev > task[u].rev /\ task'[u].rev > 0
      /\ revMode = "global" => task'[u].rev > initialRev
      /\ revMode = "none" => task'[u].rev = 0
      /\ task'[u].rev \in Nat
  <2>1. PICK r : r = CASE revMode = "global" -> changes + 1
                       [] revMode = "record" -> task[u].rev + 1
                       [] OTHER -> 0
    OBVIOUS
  <2>2. task' = [task EXCEPT ![u] = [state |-> s, rev |-> r]]
    BY <2>1 DEF Change
  <2>3. task'[u].rev = r /\ task' = [task EXCEPT ![u] = task'[u]] /\ DOMAIN task = Tasks
    BY <2>2 DEF WatchInv, WatchTypes
  <2>4. revMode \in {"global", "record", "none"}
    BY WatchAssumption DEF WatchInv, WatchTypes
  <2> QED BY <2>1, <2>3, <2>4, RevsAreNat DEF WatchInv
<1>3. \A t \in Tasks : t # u => task'[t] = task[t]
  BY <1>2
<1>4. ASSUME revMode # "none", NEW x, NEW t \in Tasks, x.rev \in Nat, Older(x, task[t])
      PROVE  Older(x, task'[t])
  BY <1>2, <1>3, <1>4, RevsAreNat DEF WatchInv, Older
<1>5. Numbered' BY <1>1, <1>2, <1>3 DEF WatchInv, Numbered
<1>6. Unseen' BY <1>1 DEF WatchInv, Unseen
<1>7. Ordered' BY <1>1, <1>4, RevsAreNat DEF WatchInv, Ordered
<1>8. Exact' BY <1>1, <1>2, <1>3 DEF WatchInv, Exact
<1> QED BY <1>5, <1>6, <1>7, <1>8

\* The plan that resumeSession reads is what the host is informed of.
LEMMA ResumeVersions ==
    ASSUME WatchInv, Resume
    PROVE  Numbered' /\ Unseen' /\ Ordered' /\ Exact'
<1> DEFINE rs == [t \in Rows |-> task[t]]
<1>1. /\ known' = task /\ buffer' = <<>> /\ seen' = [t \in Tasks |-> Absent]
      /\ initialRev' = AdvanceCursor(desc, rs) /\ flight' = [at |-> "none"]
      /\ UNCHANGED <<revMode, task>>
  BY DEF Resume, StartWatch, daemonVars
<1>2. OnItsWay' = {} BY <1>1 DEF OnItsWay
<1>3. \A t : Due(t)' = {} /\ Informed(t)' = task[t]
  <2>1. \A t : DueIn(<<>>, t) = {} BY DEF DueIn
  <2> QED BY <1>1, <2>1, OfTheState DEF InformedBy
<1>4. ASSUME NEW t \in Tasks PROVE task[t].rev <= initialRev'
  <2>1. changes \in Nat /\ desc \in 0..changes /\ task[t] \in RecordUpTo(changes)
    BY WatchAssumption DEF WatchInv, WatchTypes
  <2>2. \A x \in DOMAIN rs : rs[x].rev \in 0..changes
    BY <2>1, RevsUpTo DEF WatchInv, WatchTypes, Rows
  <2>3. CASE t \in Rows
    <3>1. t \in DOMAIN rs /\ rs[t] = task[t] BY <2>3
    <3> HIDE DEF rs
    <3> QED BY <1>1, <2>1, <2>2, <3>1, CursorMovesUp
  <2>4. CASE t \notin Rows
    <3>1. task[t] = Absent
      BY <2>1, <2>4, WatchAssumption DEF Rows, RecordUpTo
    <3> HIDE DEF rs
    <3>2. AdvanceCursor(desc, rs) \in 0..changes BY <2>1, <2>2, CursorMovesUp
    <3> QED BY <1>1, <3>1, <3>2 DEF Absent
  <2> QED BY <2>3, <2>4
<1>5. Numbered' BY <1>1, <1>2 DEF WatchInv, Numbered
<1>6. Unseen' BY <1>3 DEF Unseen
<1>7. Ordered'
  <2>1. \A t \in Tasks : revMode # "none" => Older(Absent, task[t])
    BY DEF WatchInv, Numbered, Older, Absent
  <2> QED BY <1>1, <1>2, <1>3, <1>4, <2>1 DEF Ordered, Older
<1>8. Exact' BY <1>1, <1>2 DEF Exact
<1> QED BY <1>5, <1>6, <1>7, <1>8

\* A runtime that died, or whose plan could not be read, has recovered nothing.
LEMMA ResetVersions ==
    ASSUME WatchInv, ResumeFault \/ Crash
    PROVE  Numbered' /\ Unseen' /\ Ordered' /\ Exact'
<1>1. /\ recovered' = FALSE /\ buffer' = <<>> /\ flight' = [at |-> "none"]
      /\ seen' = [t \in Tasks |-> Absent] /\ UNCHANGED <<revMode, task>>
  BY DEF ResumeFault, Crash, StartWatch, daemonVars
<1>2. OnItsWay' = {} BY <1>1 DEF OnItsWay
<1>3. Numbered' BY <1>1, <1>2 DEF WatchInv, Numbered
<1>4. Unseen' BY <1>1 DEF Unseen, Due
<1> QED BY <1>1, <1>3, <1>4 DEF Ordered, Exact

\* The host takes what it was due.
LEMMA ConsumeVersions ==
    ASSUME WatchInv, Consume
    PROVE  Numbered' /\ Unseen' /\ Ordered' /\ Exact'
<1>1. /\ buffer' = Tail(buffer) /\ buffer # <<>>
      /\ known' = [known EXCEPT ![Head(buffer).task] = Head(buffer).row]
      /\ UNCHANGED <<revMode, task, proc, recovered, initialRev, seen, flight>>
  BY DEF Consume, daemonVars
<1>2. /\ buffer \in Seq(DeltaUpTo(changes)) /\ Head(buffer).task \in Tasks
      /\ known \in [Tasks -> RecordUpTo(changes)]
  <2>1. buffer \in Seq(DeltaUpTo(changes)) /\ known \in [Tasks -> RecordUpTo(changes)]
    BY DEF WatchInv, WatchTypes
  <2>2. Head(buffer) \in DeltaUpTo(changes) BY <1>1, <2>1, HeadTailProperties
  <2> QED BY <2>1, <2>2 DEF DeltaUpTo
<1>3. \A t \in Tasks : /\ Informed(t)' = Informed(t)
                       /\ Due(t) = {} => Due(t)' = {} /\ Head(buffer).task # t
  <2> SUFFICES ASSUME NEW t \in Tasks
               PROVE  /\ InformedBy(buffer', known', t) = InformedBy(buffer, known, t)
                      /\ DueIn(buffer, t) = {} =>
                           DueIn(buffer', t) = {} /\ Head(buffer).task # t
    BY OfTheState
  <2>1. /\ InformedBy(Tail(buffer), [known EXCEPT ![Head(buffer).task] = Head(buffer).row], t)
             = InformedBy(buffer, known, t)
        /\ DueIn(buffer, t) = {} => DueIn(Tail(buffer), t) = {} /\ Head(buffer).task # t
    BY <1>1, <1>2, TakeHead, Zenon
  <2> QED BY <1>1, <2>1
<1>4. \A t \in Tasks : Due(t) = {} => known'[t] = known[t]
  BY <1>1, <1>2, <1>3
<1>5. /\ OnItsWay' = OnItsWay /\ OnItsWay \subseteq Tasks
      /\ \A t \in Tasks : seen[t] = Absent => Due(t) = {}
  BY <1>1, RevsAreNat DEF WatchInv, OnItsWay, Unseen
<1>6. Numbered' BY <1>1, <1>5 DEF WatchInv, Numbered
<1>7. Unseen' BY <1>1, <1>3, <1>5 DEF Unseen
<1>8. Ordered' BY <1>1, <1>3, <1>4, <1>5 DEF WatchInv, Ordered, Older
<1>9. Exact' BY <1>1, <1>3, <1>4, <1>5 DEF WatchInv, Exact
<1> QED BY <1>6, <1>7, <1>8, <1>9

\* An answer is the records as they are when it is given.
LEMMA AnswerVersions ==
    ASSUME WatchInv, Answer
    PROVE  Numbered' /\ Unseen' /\ Ordered' /\ Exact'
<1>1. /\ \A t : Informed(t)' = Informed(t) /\ Due(t)' = Due(t)
      /\ UNCHANGED <<revMode, task, proc, recovered, known, initialRev, seen, buffer>>
  BY OfTheState DEF Answer, hostVars, daemonVars
<1>2. PICK S : /\ S \subseteq Rows
               /\ flight' = [at |-> "answered", rows |-> [t \in S |-> task[t]]]
  BY DEF Answer
<1>3. /\ OnItsWay' \subseteq Tasks
      /\ \A t \in OnItsWay' : flight'.rows[t] = task[t] /\ task[t] # Absent
  BY <1>2 DEF OnItsWay, Rows, Absent
<1>4. Numbered' BY <1>1, <1>3 DEF WatchInv, Numbered
<1>5. Unseen' BY <1>1 DEF WatchInv, Unseen
<1>6. Ordered' BY <1>1, <1>3 DEF WatchInv, Ordered, Older
<1>7. Exact' BY <1>1, <1>3 DEF WatchInv, Exact
<1> QED BY <1>4, <1>5, <1>6, <1>7

\* The watcher sees the rows of the answer: those it queues are the host's last
\* word, and those it suppresses are in the plan.
LEMMA DeliverVersions ==
    ASSUME WatchInv, Deliver, ~stopped
    PROVE  Numbered' /\ Unseen' /\ Ordered' /\ Exact'
<1>1. /\ flight.at = "answered" /\ Fresh \subseteq Changed /\ Changed \subseteq Tasks
      /\ seen' = [t \in Tasks |-> IF t \in Changed THEN flight.rows[t] ELSE seen[t]]
      /\ \A t \in Fresh : Informed(t)' = flight.rows[t]
      /\ \A t \in Tasks \ Fresh : Informed(t)' = Informed(t) /\ Due(t)' = Due(t)
  BY DeliverQueues DEF WatchInv
<1>2. /\ UNCHANGED <<revMode, task, proc, recovered, known, initialRev>>
      /\ OnItsWay' = {}
  BY DEF Deliver, hostVars, daemonVars, OnItsWay
<1>3. /\ Changed \subseteq OnItsWay
      /\ \A t \in Changed : flight.rows[t] # Absent
  BY <1>1 DEF WatchInv, WatchTypes, FlightOK, Changed, OnItsWay
<1>4. \A t \in Tasks : IF t \in Changed THEN seen'[t] = flight.rows[t] ELSE seen'[t] = seen[t]
  BY <1>1
<1>5. \A t \in Changed \ Fresh : /\ seen[t] = Absent /\ flight.rows[t].rev # 0
                                 /\ flight.rows[t].rev <= initialRev
  BY DEF Fresh, Suppressed
<1>6. Numbered' BY <1>2 DEF WatchInv, Numbered
<1>7. Unseen' BY <1>1, <1>3, <1>4 DEF WatchInv, Unseen
<1>8. Ordered'
  <2> SUFFICES ASSUME proc = "up", recovered, revMode # "none", NEW t \in Tasks
               PROVE  /\ Older(Informed(t)', task[t]) /\ Older(seen'[t], task[t])
                      /\ seen'[t] # Absent => Older(Informed(t)', seen'[t])
                      /\ seen'[t] = Absent => known[t].rev <= initialRev
    BY <1>2 DEF Ordered
  <2>1. CASE t \in Fresh
    <3>1. Informed(t)' = flight.rows[t] /\ seen'[t] = flight.rows[t] /\ t \in OnItsWay
      BY <2>1, <1>1, <1>3, <1>4
    <3> QED BY <2>1, <3>1, <1>1, <1>3 DEF WatchInv, Ordered, Older
  <2>2. CASE t \in Changed \ Fresh
    <3>1. Informed(t)' = Informed(t) /\ seen'[t] = flight.rows[t] /\ t \in OnItsWay
      BY <2>2, <1>1, <1>3, <1>4
    <3> QED BY <2>2, <3>1, <1>3 DEF WatchInv, Ordered
  <2>3. CASE t \notin Changed
    <3>1. Informed(t)' = Informed(t) /\ seen'[t] = seen[t] BY <2>3, <1>1, <1>4
    <3> QED BY <3>1 DEF WatchInv, Ordered
  <2> QED BY <2>1, <2>2, <2>3
<1>9. Exact'
  <2>0. ASSUME proc = "up", NEW t \in Tasks, seen'[t] # Absent
        PROVE  Informed(t)' = seen'[t] \/ seen'[t].rev \in 1..initialRev
    <3>1. CASE t \in Fresh BY <3>1, <1>1, <1>3, <1>4
    <3>2. CASE t \in Changed \ Fresh
      <4>1. seen'[t] = flight.rows[t] /\ t \in OnItsWay BY <3>2, <1>3, <1>4
      <4> QED BY <3>2, <4>1, <1>5, RevsAreNat DEF WatchInv
    <3>3. CASE t \notin Changed
      <4>1. Informed(t)' = Informed(t) /\ seen'[t] = seen[t] BY <3>3, <1>1, <1>4
      <4> QED BY <2>0, <4>1 DEF WatchInv, Exact
    <3> QED BY <3>1, <3>2, <3>3
  <2> SUFFICES ASSUME proc = "up", recovered, revMode # "record", NEW t \in Tasks
               PROVE  /\ seen'[t] # Absent => Informed(t)' = seen'[t]
                      /\ revMode = "global" /\ seen'[t] = Absent =>
                           task[t] = known[t] \/ task[t].rev > initialRev
    BY <1>2, <2>0 DEF Exact
  <2>1. CASE t \in Fresh BY <2>1, <1>1, <1>3, <1>4
  <2>2. CASE t \in Changed \ Fresh
    <3>1. Informed(t)' = Informed(t) /\ seen'[t] = flight.rows[t] /\ t \in OnItsWay
      BY <2>2, <1>1, <1>3, <1>4
    <3>2. revMode = "global"
      BY <2>2, <3>1, <1>5, WatchAssumption DEF WatchInv, WatchTypes, Numbered
    <3>3. flight.rows[t] = known[t]
      <4>1. flight.rows[t] = known[t] \/ flight.rows[t].rev > initialRev
        BY <2>2, <3>1, <3>2, <1>5 DEF WatchInv, Exact
      <4> QED BY <2>2, <3>1, <4>1, <1>5, RevsAreNat DEF WatchInv
    <3>4. Informed(t) = known[t]
      BY <2>2, <1>5, InformedIsRecord DEF WatchInv, Unseen
    <3> QED BY <2>2, <3>1, <3>3, <3>4, <1>3
  <2>3. CASE t \notin Changed
    <3>1. Informed(t)' = Informed(t) /\ seen'[t] = seen[t] BY <2>3, <1>1, <1>4
    <3> QED BY <3>1 DEF WatchInv, Exact
  <2> QED BY <2>1, <2>2, <2>3
<1> QED BY <1>6, <1>7, <1>8, <1>9

\* stop() releases the parked consumer, and none parks after it.
LEMMA ParkStep == WatchTypes /\ NoParkAfterStop /\ [Next]_vars => NoParkAfterStop'
<1> SUFFICES ASSUME WatchTypes, NoParkAfterStop, [Next]_vars PROVE NoParkAfterStop'
  OBVIOUS
<1> USE DEF NoParkAfterStop
<1>1. ASSUME NEW t \in Tasks, NEW s \in States, Change(t, s) PROVE NoParkAfterStop'
  BY <1>1 DEF Change, watchVars
<1>2. CASE Resume \/ ResumeFault \/ Crash BY <1>2 DEF Resume, ResumeFault, Crash, StartWatch
<1>3. CASE Persist \/ Consume BY <1>3 DEF Persist, Consume, watchVars
<1>4. CASE NextEmpty \/ Stop BY <1>4 DEF NextEmpty, Stop
<1>5. CASE Tick \/ Answer \/ ReadFault BY <1>5 DEF Tick, Answer, ReadFault
<1>6. CASE Deliver BY <1>6 DEF Deliver, Emit
<1>7. CASE UNCHANGED vars BY <1>7 DEF vars
<1> QED BY <1>1, <1>2, <1>3, <1>4, <1>5, <1>6, <1>7 DEF Next

LEMMA WatchStep == WatchInv /\ [Next]_vars => WatchInv'
<1> SUFFICES ASSUME WatchInv, [Next]_vars PROVE WatchInv'
  OBVIOUS
<1>1. WatchTypes' /\ NoParkAfterStop' BY WatchTypesStep, ParkStep DEF WatchInv
<1>2. Numbered' /\ Unseen' /\ Ordered' /\ Exact'
  <2>1. CASE \/ Persist \/ NextEmpty \/ Stop \/ Tick \/ ReadFault \/ (Deliver /\ stopped)
             \/ UNCHANGED vars
    <3>1. /\ UNCHANGED <<revMode, task, proc, recovered, known, initialRev, seen, buffer>>
          /\ flight' = flight \/ flight'.at \in {"none", "watch", "list"}
      <4>1. CASE Persist BY <4>1 DEF Persist, daemonVars, watchVars
      <4>2. CASE NextEmpty \/ Stop BY <4>2 DEF NextEmpty, Stop, daemonVars, hostVars
      <4>3. CASE Tick
        BY <4>3, WatchAssumption DEF Tick, daemonVars, hostVars, WatchInv, WatchTypes
      <4>4. CASE ReadFault BY <4>4 DEF ReadFault, daemonVars, hostVars
      <4>5. CASE Deliver /\ stopped BY <4>5 DEF Deliver, daemonVars, hostVars
      <4>6. CASE UNCHANGED vars BY <4>6 DEF vars
      <4> QED BY <2>1, <4>1, <4>2, <4>3, <4>4, <4>5, <4>6
    <3> QED BY <3>1, QuietStep DEF WatchInv
  <2> QED BY <2>1, ChangeVersions, ResumeVersions, ResetVersions, ConsumeVersions,
             AnswerVersions, DeliverVersions DEF Next
<1> QED BY <1>1, <1>2 DEF WatchInv

LEMMA WatchInductive == Spec => []WatchInv
<1>1. Init => WatchInv BY WatchTypesInit, VersionsInit DEF WatchInv
<1> QED BY <1>1, WatchStep, PTL DEF Spec

-----------------------------------------------------------------------------
(* The watcher: theorems *)

(* task-watch.ts, resume.ts, plan-snapshot.ts: the fields of the watcher,  *)
(* of the host and of the records keep their types; no revision and no     *)
(* cursor runs ahead of the changes.                                       *)
THEOREM WatchTypesHold == Spec => []TypeOK
<1>1. WatchInv => TypeOK
  <2> SUFFICES ASSUME WatchInv PROVE TypeOK OBVIOUS
  <2>1. changes \in Nat /\ MaxRev \in Nat /\ changes <= MaxRev
    BY WatchAssumption DEF WatchInv, WatchTypes
  <2>2. RecordUpTo(changes) \subseteq Record /\ DeltaUpTo(changes) \subseteq
            [task : Tasks, row : Record, cursor : 0..MaxRev]
    BY <2>1 DEF RecordUpTo, DeltaUpTo, Record
  <2>3. buffer \in Seq([task : Tasks, row : Record, cursor : 0..MaxRev])
    <3> DEFINE D == [task : Tasks, row : Record, cursor : 0..MaxRev]
    <3>1. DeltaUpTo(changes) \subseteq D BY <2>2
    <3> HIDE DEF D
    <3>2. buffer \in Seq(D) BY <3>1 DEF WatchInv, WatchTypes
    <3> QED BY <3>2 DEF D
  <2>4. flight.at \in {"none", "watch", "list", "answered"}
    BY DEF WatchInv, WatchTypes, FlightOK
  <2> QED BY <2>1, <2>2, <2>3, <2>4 DEF WatchInv, WatchTypes, TypeOK
<1> QED BY <1>1, WatchInductive, PTL

(* "no lost update" (task-watch.ts), however the daemon numbers its        *)
(* records and whether the plan could be read: what the watcher has marked *)
(* as seen is what the host has, or is queued as its last word; where the  *)
(* plan was not read, or each record has numbers of its own, this is so of *)
(* the revisions beyond the one the watcher began with.                    *)
THEOREM NoUpdateIsLost == Spec => []NoLostUpdate
<1>1. WatchInv => NoLostUpdate
  BY DEF WatchInv, Exact, NoLostUpdate, Blind
<1> QED BY <1>1, WatchInductive, PTL

(* "only new deltas surface" (task-watch.ts): however the daemon numbers   *)
(* them, a numbered record is queued only when it is newer than what the   *)
(* host has or is about to get.                                            *)
THEOREM OnlyNewSurface == Spec => OnlyNewDeltas
<1> DEFINE A == proc = "up" /\ recovered /\ revMode # "none" /\ Len(buffer') > Len(buffer) =>
                  \A i \in (Len(buffer) + 1)..Len(buffer') :
                    buffer'[i].row.rev > Informed(buffer'[i].task).rev
<1>1. ASSUME WatchInv, [Next]_vars PROVE [A]_vars
  <2> SUFFICES ASSUME proc = "up", recovered, revMode # "none", Len(buffer') > Len(buffer),
                      NEW i \in (Len(buffer) + 1)..Len(buffer')
               PROVE  buffer'[i].row.rev > Informed(buffer'[i].task).rev
    OBVIOUS
  <2>0. buffer \in Seq(DeltaUpTo(changes)) /\ Len(buffer) \in Nat
    BY <1>1 DEF WatchInv, WatchTypes
  <2>1. Deliver /\ ~stopped
    <3>1. buffer' # buffer BY <2>0
    <3>2. ~(Resume \/ ResumeFault \/ Crash)
      <4>1. CASE Resume \/ ResumeFault \/ Crash
        <5>1. buffer' = <<>> BY <4>1 DEF Resume, ResumeFault, Crash, StartWatch
        <5> QED BY <5>1, <2>0
      <4> QED BY <4>1
    <3>3. ~Consume
      <4>1. CASE Consume
        <5>1. Len(buffer') = Len(buffer) - 1
          BY <4>1, <2>0, HeadTailProperties DEF Consume
        <5> QED BY <5>1, <2>0
      <4> QED BY <4>1
    <3>4. ~\E t \in Tasks, s \in States : Change(t, s)
      BY <3>1 DEF Change, watchVars
    <3>5. ~(Persist \/ NextEmpty \/ Stop \/ Tick \/ Answer \/ ReadFault \/ UNCHANGED vars)
      BY <3>1 DEF Persist, NextEmpty, Stop, Tick, Answer, ReadFault, vars, watchVars
    <3>6. ~(Deliver /\ stopped) BY <3>1 DEF Deliver
    <3> QED BY <1>1, <3>2, <3>3, <3>4, <3>5, <3>6 DEF Next
  <2>2. PICK t \in Fresh : buffer'[i].task = t /\ buffer'[i].row = flight.rows[t]
    BY <1>1, <2>1, DeliverQueues DEF WatchInv
  <2>3. /\ t \in Tasks /\ t \in OnItsWay /\ flight.rows[t] # seen[t]
        /\ seen[t] = Absent =>
             \/ flight.rows[t].rev = 0 \/ initialRev = 0 \/ ~(flight.rows[t].rev <= initialRev)
    BY <1>1, <2>1, DeliverQueues DEF WatchInv, Fresh, Changed, Suppressed, OnItsWay
  <2>4. /\ Informed(t).rev \in Nat /\ seen[t].rev \in Nat /\ flight.rows[t].rev \in Nat
        /\ initialRev \in Nat /\ known[t].rev \in Nat /\ flight.rows[t].rev > 0
    BY <1>1, <2>3, RevsAreNat DEF WatchInv, Numbered
  <2>5. CASE seen[t] = Absent
    <3>1. Informed(t) = known[t] /\ known[t].rev <= initialRev
      BY <1>1, <2>3, <2>5, InformedIsRecord DEF WatchInv, Unseen, Ordered
    <3> QED BY <2>2, <2>3, <2>4, <2>5, <3>1
  <2>6. CASE seen[t] # Absent
    <3>1. Older(Informed(t), seen[t]) /\ Older(seen[t], flight.rows[t])
      BY <1>1, <2>3, <2>6 DEF WatchInv, Ordered
    <3> QED BY <2>2, <2>3, <2>4, <3>1 DEF Older
  <2> QED BY <2>5, <2>6
<1> QED BY <1>1, WatchInductive, PTL DEF Spec, OnlyNewDeltas

(* stop(): a stopped watcher has no consumer parked in next().             *)
THEOREM StopReleases == Spec => []NoParkAfterStop
<1>1. WatchInv => NoParkAfterStop BY DEF WatchInv
<1> QED BY <1>1, WatchInductive, PTL

-----------------------------------------------------------------------------
(* The adapter: the approval hook and the audit tap *)

Stages == {"idle", "prompt", "allowed", "refused"} \cup Dispatched

CallTypes ==
    /\ stage \in [Calls -> Stages]
    /\ operator \in [Calls -> {"none", "asked", "allow", "deny", "late"}]
    /\ aborted \in [Calls -> BOOLEAN]
    /\ status \in [Calls -> Statuses \cup {"none"}]
    /\ rows \in [Calls -> SUBSET (Statuses \cup {"none"})]
    /\ lost \in [Calls -> BOOLEAN]

\* The operator's word is there as soon as the call is allowed, and stays.
GateInv ==
    \A c \in Calls :
        host = "claude" /\ request[c] = "prompted"
          => (stage[c] \in {"allowed"} \cup Dispatched => operator[c] = "allow")

\* Nothing is recorded before the tap.
RowInv ==
    \A c \in Calls :
        /\ stage[c] \notin {"returned", "dropped"} => rows[c] = {}
        /\ stage[c] = "returned" => rows[c] = {status[c]} \/ (lost[c] /\ rows[c] = {})

AdapterInv == CallTypes /\ GateInv /\ RowInv

\* Steps of the session, of its owner and of the process leave the calls alone.
LEMMA CallsAlone ==
    ASSUME AdapterInv, UNCHANGED <<host, request, callVars>>
    PROVE  AdapterInv'
BY DEF AdapterInv, CallTypes, GateInv, RowInv, callVars

LEMMA AdapterInit == BindingInit => AdapterInv
BY DEF BindingInit, AdapterInv, CallTypes, GateInv, RowInv, Stages, Dispatched,
       Statuses, Terminal

\* The hook: what it allows has the operator's word, and no abort, late answer or
\* failing prompt lets a call through.
LEMMA HookPreserves ==
    ASSUME AdapterInv, NEW c \in Calls,
           \/ CanUseTool(c) \/ PromptFails(c) \/ Abort(c)
           \/ \E d \in {"allow", "deny"} : Decide(c, d)
    PROVE  AdapterInv'
<1> USE DEF Stages, Dispatched, Fixed, Move
<1>1. CASE CanUseTool(c)
  <2>1. CallTypes' BY <1>1 DEF AdapterInv, CallTypes, CanUseTool
  <2>2. GateInv' BY <1>1 DEF AdapterInv, CallTypes, GateInv, CanUseTool
  <2>3. RowInv' BY <1>1 DEF AdapterInv, CallTypes, RowInv, CanUseTool
  <2> QED BY <2>1, <2>2, <2>3 DEF AdapterInv
<1>2. CASE PromptFails(c)
  <2>1. CallTypes' BY <1>2 DEF AdapterInv, CallTypes, PromptFails
  <2>2. GateInv' BY <1>2 DEF AdapterInv, CallTypes, GateInv, PromptFails
  <2>3. RowInv' BY <1>2 DEF AdapterInv, CallTypes, RowInv, PromptFails
  <2> QED BY <2>1, <2>2, <2>3 DEF AdapterInv
<1>3. CASE Abort(c)
  <2>1. CallTypes' BY <1>3 DEF AdapterInv, CallTypes, Abort
  <2>2. GateInv' BY <1>3 DEF AdapterInv, CallTypes, GateInv, Abort
  <2>3. RowInv' BY <1>3 DEF AdapterInv, CallTypes, RowInv, Abort
  <2> QED BY <2>1, <2>2, <2>3 DEF AdapterInv
<1>4. ASSUME NEW d \in {"allow", "deny"}, Decide(c, d)
      PROVE  AdapterInv'
  <2>1. CallTypes' BY <1>4 DEF AdapterInv, CallTypes, Decide
  <2>2. GateInv' BY <1>4 DEF AdapterInv, CallTypes, GateInv, Decide
  <2>3. RowInv' BY <1>4 DEF AdapterInv, CallTypes, RowInv, Decide
  <2> QED BY <2>1, <2>2, <2>3 DEF AdapterInv
<1> QED BY <1>1, <1>2, <1>3, <1>4

\* The handler: dispatch, verb and poll loop record nothing.
LEMMA HandlerPreserves ==
    ASSUME AdapterInv, NEW c \in Calls,
           \/ Dispatch(c)
           \/ \E s \in Statuses : HandlerReturns(c, s) \/ Resolved(c, s)
    PROVE  AdapterInv'
<1> USE DEF Stages, Dispatched, Fixed, Move
<1>1. CASE Dispatch(c)
  <2>1. CallTypes'
    BY <1>1 DEF AdapterInv, CallTypes, Dispatch, Statuses, Terminal
  <2>2. GateInv' BY <1>1 DEF AdapterInv, CallTypes, GateInv, Dispatch
  <2>3. RowInv' BY <1>1 DEF AdapterInv, CallTypes, RowInv, Dispatch
  <2> QED BY <2>1, <2>2, <2>3 DEF AdapterInv
<1>2. ASSUME NEW s \in Statuses, HandlerReturns(c, s) \/ Resolved(c, s)
      PROVE  AdapterInv'
  <2>1. CallTypes' BY <1>2 DEF AdapterInv, CallTypes, HandlerReturns, Resolved
  <2>2. GateInv'
    BY <1>2 DEF AdapterInv, CallTypes, GateInv, HandlerReturns, Resolved
  <2>3. RowInv'
    BY <1>2 DEF AdapterInv, CallTypes, RowInv, HandlerReturns, Resolved
  <2> QED BY <2>1, <2>2, <2>3 DEF AdapterInv
<1> QED BY <1>1, <1>2

\* The tap: the row it writes is the first, and of the status that is returned.
LEMMA TapPreserves ==
    ASSUME AdapterInv, NEW c \in Calls, Tap(c) \/ TapFails(c)
    PROVE  AdapterInv'
<1> USE DEF Stages, Dispatched, Fixed, Move, Respond,
            Insert, Row
<1>1. CallTypes'
  <2>1. CASE Tap(c) BY <2>1 DEF AdapterInv, CallTypes, Tap
  <2>2. CASE TapFails(c) BY <2>2 DEF AdapterInv, CallTypes, TapFails
  <2> QED BY <2>1, <2>2
<1>2. GateInv' BY DEF AdapterInv, CallTypes, GateInv, Tap, TapFails
<1>3. RowInv'
  <2>1. CASE Tap(c) BY <2>1 DEF AdapterInv, CallTypes, RowInv, Tap
  <2>2. CASE TapFails(c) BY <2>2 DEF AdapterInv, CallTypes, RowInv, TapFails
  <2> QED BY <2>1, <2>2
<1> QED BY <1>1, <1>2, <1>3 DEF AdapterInv

LEMMA AdapterStep == AdapterInv /\ [BindingNext]_bindingVars => AdapterInv'
<1> SUFFICES ASSUME AdapterInv, [BindingNext]_bindingVars PROVE AdapterInv'
  OBVIOUS
<1>1. ASSUME NEW c \in Calls, CallStep(c) PROVE AdapterInv'
  BY <1>1, HookPreserves, HandlerPreserves, TapPreserves DEF CallStep
<1>2. CASE /\ SessionStep
           /\ UNCHANGED <<host, process, blocking, request, callVars>>
  BY <1>2, CallsAlone
<1>3. CASE \/ CloseContext \/ Shutdown \/ ShutdownCloses
           \/ Exit \/ Kill
  BY <1>3, CallsAlone DEF CloseContext, Shutdown, ShutdownCloses,
                          Exit, Kill, Halt
<1>4. CASE UNCHANGED bindingVars
  BY <1>4, CallsAlone DEF bindingVars
<1> QED BY <1>1, <1>2, <1>3, <1>4 DEF BindingNext

LEMMA AdapterInductive == BindingSpec => []AdapterInv
BY AdapterInit, AdapterStep, PTL DEF BindingSpec

(* canUseTool: the Claude shim calls a prompted verb only on the word the  *)
(* operator gave while the prompt was open.                                *)
THEOREM GateIsKept == BindingSpec => []GateHolds
<1>1. AdapterInv => GateHolds
  BY DEF AdapterInv, GateInv, GateHolds, Dispatched
<1> QED BY <1>1, AdapterInductive, PTL

(* withAudit: a returned envelope has its one row, with the status the     *)
(* model got, unless the sink threw; a refused call has none.              *)
THEOREM TrailIsTrue == BindingSpec => []OneRowPerResult
<1>1. AdapterInv => OneRowPerResult BY DEF AdapterInv, RowInv, OneRowPerResult
<1> QED BY <1>1, AdapterInductive, PTL

-----------------------------------------------------------------------------
(* The host's session *)

SessionTypes ==
    /\ options \in [reregister : BOOLEAN, deregister : BOOLEAN]
    /\ phase \in {"idle", "opening", "active", "closing", "closed", "failed", "dead"}
    /\ timer \in BOOLEAN /\ inFlight \in BOOLEAN
    /\ current \in [Kinds -> {"none", "sent", "done"}]
    /\ late \in [Kinds -> Nat]
    /\ listed \in {"absent", "active", "stale"}

\* What ties the session's requests to its phase: the schedule runs in an open
\* session only, and each request is awaited by the step that sent it.
Awaited ==
    /\ timer <=> phase = "active"
    /\ inFlight <=> current["beat"] # "none"
    /\ inFlight => phase \in {"active", "closing", "closed"}
    /\ current["register"] # "none" <=> phase = "opening"
    /\ current["deregister"] # "none" => phase = "closing"

SessionInv == SessionTypes /\ Awaited

\* close() was called, openSession threw, or the process is gone.
Over == phase \in {"closing", "closed", "failed", "dead"}

\* The requests of one kind that the daemon may still carry out.
Outstanding(k) == late[k] + IF current[k] = "sent" THEN 1 ELSE 0

\* What a session that is over allows: it stays over, its schedule is off, no
\* request is added, and an agent listed as active again has used one up.
Drains ==
    Over =>
      /\ Over' /\ ~timer'
      /\ \A k \in Kinds : Outstanding(k)' <= Outstanding(k)
      /\ listed # "active" /\ listed' = "active"
           => \E k \in {"register", "beat"} : Outstanding(k)' < Outstanding(k)

LEMMA SessionStarts == BindingInit => SessionInv
<1> SUFFICES ASSUME BindingInit PROVE SessionInv
  OBVIOUS
<1>1. SessionTypes BY DEF BindingInit, SessionInit, SessionTypes, Kinds
<1>2. Awaited BY DEF BindingInit, SessionInit, Awaited, Kinds
<1> QED BY <1>1, <1>2 DEF SessionInv

\* openSession: its request is awaited until it is answered or fails.
LEMMA OpenSteps ==
    ASSUME SessionInv, OpenSession \/ Registered \/ OpenFails
    PROVE  SessionInv' /\ Drains
<1> USE DEF Kinds, SessionInv, SessionTypes, Awaited, Over
<1>1. CASE OpenSession
  BY <1>1 DEF OpenSession, Sends, Drains
<1>2. CASE Registered
  BY <1>2 DEF Registered, Answered, Drains
<1>3. CASE OpenFails
  BY <1>3 DEF OpenFails, Fails, Drains
<1> QED BY <1>1, <1>2, <1>3

\* The heartbeat: a tick starts in an open session only, and ends at any time.
LEMMA BeatSteps ==
    ASSUME SessionInv, HeartbeatTick \/ TickOk \/ TickFails
    PROVE  SessionInv' /\ Drains
<1> USE DEF Kinds, SessionInv, SessionTypes, Awaited, Over
<1>1. CASE HeartbeatTick
  BY <1>1 DEF HeartbeatTick, Sends, Drains
<1>2. CASE TickOk
  <2>1. SessionInv' BY <1>2 DEF TickOk, Answered
  <2>2. Drains BY <1>2 DEF TickOk, Answered, Drains, Outstanding
  <2> QED BY <2>1, <2>2
<1>3. CASE TickFails
  <2>1. SessionInv'
    <3>1. SessionTypes'
      <4>1. late' \in [Kinds -> Nat] BY <1>3 DEF TickFails, Fails
      <4>2. current' \in [Kinds -> {"none", "sent", "done"}]
        BY <1>3 DEF TickFails, Fails
      <4> QED BY <1>3, <4>1, <4>2 DEF TickFails
    <3>2. Awaited' BY <1>3 DEF TickFails, Fails
    <3> QED BY <3>1, <3>2
  <2>2. Drains BY <1>3 DEF TickFails, Fails, Drains, Outstanding
  <2> QED BY <2>1, <2>2
<1> QED BY <1>1, <1>2, <1>3

\* close(): what its callers give up on is not sent again.
LEMMA CloseSteps ==
    ASSUME SessionInv, Close \/ Deregistered \/ CloseClient
    PROVE  SessionInv' /\ Drains
<1> USE DEF Kinds, SessionInv, SessionTypes, Awaited, Over
<1>1. CASE Close
  BY <1>1 DEF Close, Sends, Drains
<1>2. CASE Deregistered
  <2>1. SessionInv' BY <1>2 DEF Deregistered, Answered, Fails
  <2>2. Drains
    BY <1>2 DEF Deregistered, Answered, Fails, Drains, Outstanding
  <2> QED BY <2>1, <2>2
<1>3. CASE CloseClient
  <2>1. SessionInv'
    <3>1. SessionTypes'
      <4>1. late' \in [Kinds -> Nat] BY <1>3 DEF CloseClient
      <4>2. current' \in [Kinds -> {"none", "sent", "done"}]
        BY <1>3 DEF CloseClient
      <4>3. inFlight' \in BOOLEAN BY <1>3 DEF CloseClient
      <4> QED BY <1>3, <4>1, <4>2, <4>3 DEF CloseClient
    <3>2. Awaited' BY <1>3 DEF CloseClient
    <3> QED BY <3>1, <3>2
  <2>2. Drains BY <1>3 DEF CloseClient, Drains, Outstanding
  <2> QED BY <2>1, <2>2
<1> QED BY <1>1, <1>2, <1>3

\* The daemon: each request it carries out is one less.
LEMMA DaemonSteps ==
    ASSUME SessionInv,
           \/ Decay
           \/ \E k \in Kinds : DaemonExecute(k) \/ DaemonExecuteLate(k)
    PROVE  SessionInv' /\ Drains
<1> USE DEF Kinds, SessionInv, SessionTypes, Awaited, Over
<1>1. CASE Decay
  BY <1>1 DEF Decay, Drains, Outstanding
<1>2. ASSUME NEW k \in Kinds, DaemonExecute(k)
      PROVE  SessionInv' /\ Drains
  <2>1. SessionInv' BY <1>2 DEF DaemonExecute, Effect
  <2>2. Drains BY <1>2 DEF DaemonExecute, Effect, Drains, Outstanding
  <2> QED BY <2>1, <2>2
<1>3. ASSUME NEW k \in Kinds, DaemonExecuteLate(k)
      PROVE  SessionInv' /\ Drains
  <2>1. SessionInv' BY <1>3 DEF DaemonExecuteLate, Effect
  <2>2. Drains BY <1>3 DEF DaemonExecuteLate, Effect, Drains, Outstanding
  <2> QED BY <2>1, <2>2
<1> QED BY <1>1, <1>2, <1>3

\* The death of the process leaves what it sent to the daemon.
LEMMA EndStep ==
    ASSUME SessionInv, ProcessEnds
    PROVE  SessionInv' /\ Drains
<1> USE DEF Kinds, SessionInv, SessionTypes, Awaited, Over
<1>1. SessionInv'
  <2>1. SessionTypes'
    <3>1. late' \in [Kinds -> Nat] BY DEF ProcessEnds
    <3> QED BY <3>1 DEF ProcessEnds
  <2>2. Awaited' BY DEF ProcessEnds
  <2> QED BY <2>1, <2>2
<1>2. Drains BY DEF ProcessEnds, Drains, Outstanding
<1> QED BY <1>1, <1>2

\* Every other step leaves the session alone.
LEMMA SessionAlone ==
    ASSUME SessionInv, UNCHANGED sessionVars
    PROVE  SessionInv' /\ Drains
<1> USE DEF Kinds, SessionInv, SessionTypes, Awaited, Over, sessionVars
<1>1. SessionInv' OBVIOUS
<1>2. Drains BY DEF Drains, Outstanding
<1> QED BY <1>1, <1>2

LEMMA SessionSteps ==
    SessionInv /\ [BindingNext]_bindingVars => SessionInv' /\ Drains
<1> SUFFICES ASSUME SessionInv, [BindingNext]_bindingVars PROVE SessionInv' /\ Drains
  OBVIOUS
<1>1. CASE SessionStep
  BY <1>1, OpenSteps, BeatSteps, CloseSteps, DaemonSteps DEF SessionStep
<1>2. ASSUME NEW c \in Calls, CallStep(c) PROVE SessionInv' /\ Drains
  <2>1. UNCHANGED sessionVars
    BY <1>2 DEF CallStep, CanUseTool, PromptFails, Abort,
                Decide, Dispatch, HandlerReturns, Resolved,
                Tap, TapFails, Fixed
  <2> QED BY <2>1, SessionAlone
<1>3. CASE CloseContext \/ ShutdownCloses
  BY <1>3, CloseSteps DEF CloseContext, ShutdownCloses
<1>4. CASE Shutdown
  BY <1>4, SessionAlone DEF Shutdown
<1>5. CASE Exit \/ Kill
  BY <1>5, EndStep DEF Exit, Kill, Halt
<1>6. CASE UNCHANGED bindingVars
  BY <1>6, SessionAlone DEF bindingVars
<1> QED BY <1>1, <1>2, <1>3, <1>4, <1>5, <1>6 DEF BindingNext

(* MxSession: the heartbeat runs exactly while the session is open, a tick *)
(* is awaited for as long as it is in flight, and openSession and close    *)
(* await their own requests.                                               *)
THEOREM SessionIsKept == BindingSpec => []SessionInv
BY SessionStarts, SessionSteps, PTL DEF BindingSpec

(* close() and the end of the process: from then on nothing is sent, and   *)
(* an agent comes back into the list only at the cost of one of the        *)
(* requests sent before, of which there are finitely many.  This is the    *)
(* measure behind GoneAfterClose, whose liveness is left to TLC.           *)
THEOREM ClosedSessionDrains == BindingSpec => [][Drains]_bindingVars
<1>1. SessionInv /\ [BindingNext]_bindingVars => [Drains]_bindingVars
  BY SessionSteps
<1> QED BY <1>1, SessionIsKept, PTL DEF BindingSpec
=============================================================================
