---------------------------- MODULE ClusterBus ----------------------------
(***************************************************************************)
(* The event bus on the project's database (DatabaseBus and BusRunner of   *)
(* crates/verdin-api/src/cluster.rs).                                      *)
(*                                                                         *)
(* Each instance queues what it announces; one task inserts the queued     *)
(* events as rows of vd_cluster_events, one after the other; another reads *)
(* the rows after the last one it saw.  Ids are handed out when a row is   *)
(* inserted and seen when it commits, so Insert and Commit are two steps   *)
(* and other instances' rows commit in between; a failed insert leaves its *)
(* id unused.  A reader therefore keeps the rows it read past a gap, and   *)
(* gives a missing row up after a grace period.                            *)
(*                                                                         *)
(* An event is its sender and its number there: what it carries changes    *)
(* nothing here.  Time is reduced to whether the grace period of a gap is  *)
(* over.  A row may be over its retention (10 min) at any moment.  The     *)
(* channel between the reading and the applying task keeps the order and   *)
(* loses nothing, so what is read counts as applied (`heard`).             *)
(***************************************************************************)
EXTENDS Integers, FiniteSets, FiniteSetsExt, Sequences, SequencesExt

CONSTANTS
    Instances,
    QUEUE,        \* events that wait to be sent
    BATCH,        \* rows read at once
    MaxEvents,    \* bounds: events announced,
    MaxFailures,  \*   failed inserts, reads and restarts,
    MaxPrunes     \*   rows deleted for their age

ASSUME BusAssumption ==
    /\ IsFiniteSet(Instances)
    /\ {MaxEvents, MaxFailures, MaxPrunes} \subseteq Nat
    /\ {QUEUE, BATCH} \subseteq Nat \ {0}

VARIABLES
    said,       \* per instance: how many events it announced
    queue,      \* per instance: numbers of the events waiting to be sent
    inserting,  \* per instance: {} or {the row whose INSERT has not committed}
    lastId,     \* the last id handed out
    table,      \* the committed rows of vd_cluster_events
    reader,     \* per instance: the Reader
    batch,      \* per instance: events one call of `read` has collected so far
    heard,      \* per instance: the events applied since it started
    start,      \* per instance: the last id when its reader started
    missed,     \* per instance: ids given up on, and events a failed read lost
    spent       \* how much of each bound is used

vars == <<said, queue, inserting, lastId, table, reader, batch, heard, start, missed, spent>>
senderVars == <<said, queue, inserting, lastId>>
readerVars == <<reader, batch, heard, start, missed>>

Row    == [id: Nat \ {0}, from: Instances, n: Nat \ {0}]
Reader == [cursor: Nat, seen: SUBSET Nat, gap: {"none", "waiting", "over"}]
Feed   == INSTANCE EventFeed

Ids(rows)  == {r.id : r \in rows}
EventOf(r) == [from |-> r.from, n |-> r.n]

NewReader(cursor) == [cursor |-> cursor, seen |-> {}, gap |-> "none"]

Init ==
    /\ said = [i \in Instances |-> 0]
    /\ queue = [i \in Instances |-> <<>>]
    /\ inserting = [i \in Instances |-> {}]
    /\ lastId = 0 /\ table = {}
    /\ reader = [i \in Instances |-> NewReader(0)]
    /\ batch = [i \in Instances |-> <<>>]
    /\ heard = batch
    /\ start = [i \in Instances |-> 0]
    /\ missed = [i \in Instances |-> [given |-> {}, failed |-> {}]]
    /\ spent = [what \in {"failures", "prunes"} |-> 0]

Spend(what, max) ==
    /\ spent[what] < max
    /\ spent' = [spent EXCEPT ![what] = @ + 1]

-----------------------------------------------------------------------------
(* Sending. *)

\* EventBus::publish never waits: an event that finds the queue full is dropped.
Publish(i) ==
    /\ FoldFunction(+, 0, said) < MaxEvents
    /\ said' = [said EXCEPT ![i] = @ + 1]
    /\ queue' = IF Len(queue[i]) < QUEUE
                THEN [queue EXCEPT ![i] = Append(@, said[i] + 1)] ELSE queue
    /\ UNCHANGED <<inserting, lastId, table, readerVars, spent>>

Insert(i) ==
    /\ inserting[i] = {} /\ queue[i] # <<>>
    /\ lastId' = lastId + 1
    /\ inserting' = [inserting EXCEPT
                       ![i] = {[id |-> lastId + 1, from |-> i, n |-> Head(queue[i])]}]
    /\ queue' = [queue EXCEPT ![i] = Tail(@)]
    /\ UNCHANGED <<said, table, readerVars, spent>>

Commit(i) ==
    /\ inserting[i] # {}
    /\ table' = table \cup inserting[i]
    /\ inserting' = [inserting EXCEPT ![i] = {}]
    /\ UNCHANGED <<said, queue, lastId, readerVars, spent>>

\* The event is dropped, its id stays unused.
InsertFails(i) ==
    /\ inserting[i] # {}
    /\ inserting' = [inserting EXCEPT ![i] = {}]
    /\ Spend("failures", MaxFailures)
    /\ UNCHANGED <<said, queue, lastId, table, readerVars>>

-----------------------------------------------------------------------------
(* Reading. *)

\* Mutant of Fetched: without the ORDER BY, any BATCH rows may come.
FetchedUnordered(i) ==
    LET after == {r \in table : r.id > reader[i].cursor} IN
    {r \in after : Cardinality({s \in after : s.id > r.id}) < BATCH}

\* SELECT ... WHERE id > cursor ORDER BY id LIMIT BATCH
Fetched(i) ==
    LET after == {r \in table : r.id > reader[i].cursor} IN
    {r \in after : Cardinality({s \in after : s.id < r.id}) < BATCH}

\* Mutant of Accepted: the rows read past a gap are read again.
AcceptedAgain(R, rows) == {r \in rows : r.id > R.cursor}

\* Reader::accept: the rows that are new to this reader.
Accepted(R, rows) == {r \in rows : r.id > R.cursor /\ r.id \notin R.seen}

\* Mutant of Unbroken: the cursor is the last id read.
UnbrokenLast(S, c) == Max({c} \cup S)

\* Mutant of Jump: a gap is waited for as long as it takes.
JumpNever(R) == R.cursor

\* Reader::advance: the cursor follows the ids read without a gap, and moves over a
\* gap once its grace period is over; the next gap has a grace period of its own.
Unbroken(S, c) == Max({k \in {c} \cup S : (c + 1)..k \subseteq S})
Jump(R) ==
    IF R.gap = "over" /\ R.seen # {} /\ R.cursor + 1 \notin R.seen
    THEN Min(R.seen) - 1 ELSE R.cursor

Advance(R) ==
    LET cursor == Unbroken(R.seen, Jump(R))
        seen   == {k \in R.seen : k > cursor} IN
    [cursor |-> cursor, seen |-> seen,
     gap |-> IF seen = {} THEN "none"
             ELSE IF cursor # R.cursor \/ R.gap = "none" THEN "waiting" ELSE R.gap]
GivenUp(R) == ((R.cursor + 1)..Jump(R)) \ R.seen

\* BusRunner leaves out an instance's own events; the others come in the order of their ids.
Others(i, rows) ==
    LET foreign == {r \in rows : r.from # i} IN
    {q \in [1..Cardinality(foreign) -> foreign] :
        \A k, l \in DOMAIN q : k < l => q[k].id < q[l].id}
Events(q) == [k \in DOMAIN q |-> EventOf(q[k])]

\* One turn of the loop of `read`.  It goes on after a full batch that moved the
\* cursor; otherwise what it collected is handed to the consumers.
Read(i) ==
    \E rows \in {Fetched(i)}, R \in {reader[i]} :
    \E new \in {Accepted(R, rows)} :
    \E S \in {[R EXCEPT !.seen = @ \cup Ids(new)]} :
    \E q \in Others(i, new) : \E all \in {batch[i] \o Events(q)} :
        /\ reader' = [reader EXCEPT ![i] = Advance(S)]
        /\ missed' = [missed EXCEPT ![i].given = @ \cup GivenUp(S)]
        /\ IF Cardinality(rows) = BATCH /\ reader'[i].cursor # R.cursor
           THEN batch' = [batch EXCEPT ![i] = all] /\ UNCHANGED heard
           ELSE /\ batch' = [batch EXCEPT ![i] = <<>>]
                /\ heard' = [heard EXCEPT ![i] = @ \o all]
        /\ UNCHANGED <<senderVars, table, start, spent>>

\* A later SELECT of the call fails: `?` returns the error, without the rows that
\* the reader already counts as seen.
ReadFails(i) ==
    /\ batch' = [batch EXCEPT ![i] = <<>>]
    /\ missed' = [missed EXCEPT ![i].failed = @ \cup ToSet(batch[i])]
    /\ Spend("failures", MaxFailures)
    /\ UNCHANGED <<senderVars, table, reader, heard, start>>

\* GAP_GRACE has passed since the gap was first seen.
GraceEnds(i) ==
    /\ reader[i].gap = "waiting"
    /\ reader' = [reader EXCEPT ![i].gap = "over"]
    /\ UNCHANGED <<senderVars, table, batch, heard, start, missed, spent>>

\* An instance deletes a row that is over its retention.
Prune ==
    /\ \E r \in table : table' = table \ {r}
    /\ Spend("prunes", MaxPrunes)
    /\ UNCHANGED <<senderVars, readerVars>>

\* The queue, the reader and what it had read are lost; the insert in progress may
\* have committed.  The new reader starts after the last row it finds.
Restart(i) ==
    /\ \E kept \in SUBSET inserting[i] :
           LET first == IF table \cup kept = {} THEN 0 ELSE Max(Ids(table \cup kept)) IN
           /\ table' = table \cup kept
           /\ reader' = [reader EXCEPT ![i] = NewReader(first)]
           /\ start' = [start EXCEPT ![i] = first]
    /\ queue' = [queue EXCEPT ![i] = <<>>]
    /\ inserting' = [inserting EXCEPT ![i] = {}]
    /\ batch' = [batch EXCEPT ![i] = <<>>]
    /\ heard' = [heard EXCEPT ![i] = <<>>]
    /\ missed' = [missed EXCEPT ![i] = [given |-> {}, failed |-> {}]]
    /\ Spend("failures", MaxFailures)
    /\ UNCHANGED <<said, lastId>>

Next ==
    \/ \E i \in Instances :
           \/ Publish(i) \/ Insert(i) \/ Commit(i) \/ InsertFails(i)
           \/ Read(i) \/ ReadFails(i) \/ GraceEnds(i) \/ Restart(i)
    \/ Prune

\* The sending task takes the next event as soon as the last one is in, a statement
\* ends, a reader is woken or polls, and time passes.
Fairness ==
    \A i \in Instances :
        /\ WF_vars(Insert(i)) /\ WF_vars(Commit(i))
        /\ WF_vars(Read(i)) /\ WF_vars(GraceEnds(i))

Spec == Init /\ [][Next]_vars /\ Fairness
-----------------------------------------------------------------------------
\* The variables have their types; an instance inserts one row at a time.
TypeOK ==
    /\ said \in [Instances -> Nat]
    /\ queue \in [Instances -> Seq(Nat)]
    /\ inserting \in [Instances -> SUBSET Row]
    /\ \A i \in Instances :
        /\ Len(queue[i]) <= QUEUE
        /\ \A r, s \in inserting[i] : r = s
    /\ lastId \in Nat
    /\ table \subseteq Row
    /\ reader \in [Instances -> Reader]
    /\ {batch, heard} \subseteq [Instances -> Seq(Feed!Event)]
    /\ start \in [Instances -> Nat]
    /\ missed \in [Instances -> [given: SUBSET Nat, failed: SUBSET Feed!Event]]
    /\ spent \in [{"failures", "prunes"} -> Nat]

Reached(i) == {r \in table : r.from # i /\ r.id > start[i]
                             /\ (r.id <= reader[i].cursor \/ r.id \in reader[i].seen)}
Taken(i)   == ToSet(heard[i]) \cup ToSet(batch[i])

\* A row another instance wrote is never passed over in silence: once the reader counts
\* it as seen it was handed on, unless it came after its gap was given up or the call
\* that read it failed.
Accounted ==
    \A i \in Instances : \A r \in Reached(i) :
        \/ EventOf(r) \in Taken(i)
        \/ r.id \in missed[i].given
        \/ EventOf(r) \in missed[i].failed

\* What a reader gives up on was not in the table: a row that can be read is never
\* taken for a gap, whatever the size of a batch and however many rows wait.
GivesUpGapsOnly ==
    [][\A i \in Instances :
           (missed'[i].given \ missed[i].given) \cap Ids(table) = {}]_vars

\* The bus does what its consumers rely on.
ImplementsFeed == Feed!Spec

\* "If the connection drops, the instance reconnects and reads the table to catch up":
\* what it did not hear is what it gave up on.
CatchesUp ==
    \A i \in Instances : \A r \in Reached(i) :
        EventOf(r) \in Taken(i) \/ r.id \in missed[i].given

\* Once the instances are silent every reader has caught up: an id that never comes, or
\* a batch full of rows already seen, does not hold the rows behind it back for ever.
CaughtUp ==
    \A i \in Instances :
        /\ batch[i] = <<>>
        /\ \A r \in table : r.from # i /\ r.id > start[i] => r \in Reached(i)
EverythingIsRead == <>[]CaughtUp
=============================================================================
