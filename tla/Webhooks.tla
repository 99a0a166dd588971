------------------------------ MODULE Webhooks ------------------------------
(***************************************************************************)
(* The webhook delivery queue (crates/verdin-api/src/webhooks.rs and       *)
(* webhooks_admin.rs) with several instances on one database.              *)
(*                                                                         *)
(* Every statement the code sends outside a transaction is an action of    *)
(* its own, so the other instances run between the SELECT of the due       *)
(* deliveries, the claim of each, the HTTP request and the UPDATE that     *)
(* records its result.  Each instance has a worker (deliver_due), an event *)
(* being queued (enqueue), an admin request (redeliver, trigger), and its  *)
(* own cache of the webhooks table.                                        *)
(*                                                                         *)
(* A webhook is "absent", "off", or "on"; "on" stands for enabled and      *)
(* subscribed to the events raised here.  Payloads, headers and signatures *)
(* carry no behaviour.  Time is reduced to what the code compares: whether *)
(* a pending delivery is due, whether a `sending` one is over a minute     *)
(* old, whether a finished one is past the retention.  A request ends      *)
(* within its timeout (10 s), so a live worker records within the minute:  *)
(* only a row whose sender is gone is over a minute old.                   *)
(***************************************************************************)
EXTENDS Integers, FiniteSets, Sequences

CONSTANTS
    Instances,
    Hooks,        \* webhook ids
    Retries,      \* Len(retry_delays)
    BATCH,        \* deliveries a worker reads at a time
    MaxEvents,    \* bounds: events raised and tests sent,
    MaxManual,    \*   deliveries sent again from the log,
    MaxChanges,   \*   changes of webhooks and of the feature switch,
    MaxFailures   \*   crashes and database errors

ASSUME ConstantsAssumption ==
    /\ {Retries, MaxEvents, MaxManual, MaxChanges, MaxFailures} \subseteq Nat
    /\ BATCH \in Nat \ {0}
    /\ IsFiniteSet(Instances)
    /\ Hooks \subseteq Nat

VARIABLES
    hooks,       \* vd_webhooks
    deliveries,  \* vd_webhook_deliveries, by id
    cache,       \* per instance: {} or {the hooks it read}
    loading,     \* per instance: {} or {hooks read but not yet cached}
    enabled,     \* per instance: the webhooks feature switch
    emitter,     \* per instance: hooks the event being queued still goes to
    worker,      \* per instance: deliveries read, and the one being sent
    admin,       \* per instance: the redelivery or test being sent
    sends,       \* requests made per delivery; its indices are the ids used
    spent        \* how much of each bound is used

vars == <<hooks, deliveries, cache, loading, enabled, emitter, worker, admin, sends, spent>>

HookStates == {"absent", "off", "on"}
HookTable  == [Hooks -> HookStates]
Statuses   == {"pending", "sending", "succeeded", "failed"}
Finished   == {"succeeded", "failed"}
Delivery   == [hook: Hooks, status: Statuses, due: BOOLEAN, attempts: Nat]
Ids        == DOMAIN sends           \* ids are never used twice
NoJob      == {}
\* A row of the batch, and a claimed delivery: `view` is what the instance took
\* the webhook to be, "absent" or "off" when nothing was sent.
Queued     == [id: Nat, hook: Hooks, attempts: Nat]
Job        == [row: Queued, sent: BOOLEAN, ok: BOOLEAN, view: HookStates]
Resent     == [id: Nat, attempts: Nat, claims: BOOLEAN, ok: BOOLEAN]
Idle       == [todo |-> {}, job |-> NoJob]

Init ==
    /\ hooks \in [Hooks -> {"absent", "on"}]
    /\ deliveries = <<>> /\ sends = <<>>
    /\ cache = [i \in Instances |-> {}] /\ loading = cache
    /\ enabled = [i \in Instances |-> TRUE]
    /\ emitter = [i \in Instances |-> {}]
    /\ worker = [i \in Instances |-> Idle]
    /\ admin = [i \in Instances |-> NoJob]
    /\ spent = [events |-> 0, manual |-> 0, changes |-> 0, failures |-> 0]

Spend(what, max) ==
    /\ spent[what] < max
    /\ spent' = [spent EXCEPT ![what] = @ + 1]

Rows       == DOMAIN deliveries
Status(d)  == deliveries[d].status
Only(set)  == CHOOSE x \in set : TRUE
Known(i)   == Only(cache[i])         \* what instance i takes the webhooks to be
NextId     == Len(sends) + 1
Due        == {d \in Rows : Status(d) = "pending" /\ deliveries[d].due}
Jobs(i)    == worker[i].job
Works(i, d) == \E job \in Jobs(i) : job.row.id = d
Tests(i, d) == \E job \in admin[i] : job.id = d /\ job.claims
Held(d)    == \E i \in Instances : Works(i, d) \/ Tests(i, d)
\* Mutants: maintain gives nothing back, or forgets `status = 'sending'`.
NothingInterrupted == {}
NotPending  == {d \in Rows : Status(d) # "pending" /\ ~Held(d)}
Interrupted == {d \in Rows : Status(d) = "sending" /\ ~Held(d)}
WithRow(d, row) == [e \in Rows \cup {d} |-> IF e = d THEN row ELSE deliveries[e]]

-----------------------------------------------------------------------------
(* The cache of the webhooks table.  The fill reads the table and stores   *)
(* what it read afterwards, without a version or a lock over both.          *)

Load(i) ==
    /\ cache[i] = {} /\ loading[i] = {}
    /\ loading' = [loading EXCEPT ![i] = {hooks}]
    /\ UNCHANGED <<hooks, deliveries, cache, enabled, emitter, worker, admin, sends, spent>>

Loaded(i) ==
    /\ loading[i] # {}
    /\ cache' = [cache EXCEPT ![i] = loading[i]]
    /\ loading' = [loading EXCEPT ![i] = {}]
    /\ UNCHANGED <<hooks, deliveries, enabled, emitter, worker, admin, sends, spent>>

\* invalidate: only the instance that served the request forgets its cache.
Invalidate(i) == cache' = [cache EXCEPT ![i] = {}]

\* create and update
SaveHook(i, h, state) ==
    /\ state \in {"off", "on"}
    /\ Spend("changes", MaxChanges)
    /\ hooks' = [hooks EXCEPT ![h] = state]
    /\ Invalidate(i)
    /\ UNCHANGED <<deliveries, loading, enabled, emitter, worker, admin, sends>>

\* remove: the webhook and its log, in one transaction
RemoveHook(i, h) ==
    /\ hooks[h] # "absent"
    /\ Spend("changes", MaxChanges)
    /\ hooks' = [hooks EXCEPT ![h] = "absent"]
    /\ deliveries' = [d \in {e \in Rows : deliveries[e].hook # h} |-> deliveries[d]]
    /\ Invalidate(i)
    /\ UNCHANGED <<loading, enabled, emitter, worker, admin, sends>>

\* The feature switch, which every instance reads again on its own.
SetEnabled(i) ==
    /\ Spend("changes", MaxChanges)
    /\ enabled' = [enabled EXCEPT ![i] = ~@]
    /\ UNCHANGED <<hooks, deliveries, cache, loading, emitter, worker, admin, sends>>

-----------------------------------------------------------------------------
(* Queueing an event: one insert per webhook that wants it.                *)

Wanting(i) == {h \in Hooks : Known(i)[h] = "on"}

Enqueue(i) ==
    /\ enabled[i] /\ cache[i] # {} /\ emitter[i] = {}
    /\ Wanting(i) # {}
    /\ Spend("events", MaxEvents)
    /\ emitter' = [emitter EXCEPT ![i] = Wanting(i)]
    /\ UNCHANGED <<hooks, deliveries, cache, loading, enabled, worker, admin, sends>>

\* webhook_id references vd_webhooks: the insert fails for a webhook another
\* instance removed, and the webhooks after it get nothing.
InsertDelivery(i) ==
    /\ \E h \in emitter[i] :
          /\ \A g \in emitter[i] : h <= g
          /\ IF hooks[h] = "absent"
             THEN /\ emitter' = [emitter EXCEPT ![i] = {}]
                  /\ UNCHANGED <<deliveries, sends>>
             ELSE /\ emitter' = [emitter EXCEPT ![i] = @ \ {h}]
                  /\ deliveries' = WithRow(NextId, [hook |-> h, status |-> "pending",
                                                    due |-> TRUE, attempts |-> 0])
                  /\ sends' = Append(sends, 0)
    /\ UNCHANGED <<hooks, cache, loading, enabled, worker, admin, spent>>

-----------------------------------------------------------------------------
(* The worker.                                                             *)

\* The batch is read with the attempts each delivery has at that moment.
ReadDue(i) ==
    /\ enabled[i] /\ worker[i] = Idle
    /\ Due # {}
    /\ \E batch \in SUBSET Due :
          /\ Cardinality(batch) = (IF Cardinality(Due) > BATCH THEN BATCH ELSE Cardinality(Due))
          /\ worker' = [worker EXCEPT ![i].todo =
                            {[id |-> d, hook |-> deliveries[d].hook,
                              attempts |-> deliveries[d].attempts] : d \in batch}]
    /\ UNCHANGED <<hooks, deliveries, cache, loading, enabled, emitter, admin, sends, spent>>

\* Mutant: the claim forgets `AND status = 'pending'`.
ClaimableAny(d) == d \in Rows
Claimable(d)    == d \in Rows /\ Status(d) = "pending"

Claim(i) ==
    /\ Jobs(i) = NoJob
    /\ \E next \in worker[i].todo :
          /\ worker' = [worker EXCEPT
                ![i].todo = @ \ {next},
                ![i].job = IF Claimable(next.id)
                           THEN {[row |-> next, sent |-> FALSE, ok |-> FALSE, view |-> "on"]}
                           ELSE NoJob]
          /\ deliveries' = IF Claimable(next.id)
                           THEN [deliveries EXCEPT ![next.id].status = "sending"]
                           ELSE deliveries
    /\ UNCHANGED <<hooks, cache, loading, enabled, emitter, admin, sends, spent>>

\* send, or no request when the webhook is off or gone as this instance knows it
Send(i) ==
    /\ cache[i] # {}
    /\ \E job \in Jobs(i), ok \in BOOLEAN :
          LET view == Known(i)[job.row.hook]
          IN /\ ~job.sent
             /\ ok => view = "on"
             /\ worker' = [worker EXCEPT ![i].job =
                               {[job EXCEPT !.sent = TRUE, !.ok = ok, !.view = view]}]
             /\ sends' = IF view = "on" THEN [sends EXCEPT ![job.row.id] = @ + 1] ELSE sends
    /\ UNCHANGED <<hooks, deliveries, cache, loading, enabled, emitter, admin, spent>>

\* The UPDATE of record names the row by its id alone.
Recorded(d, attempts, ok, retry) ==
    IF d \notin Rows THEN deliveries
    ELSE [deliveries EXCEPT ![d] =
            [@ EXCEPT !.attempts = attempts,
                      !.due = FALSE,
                      !.status = IF ok THEN "succeeded"
                                 ELSE IF retry THEN "pending" ELSE "failed"]]

\* retry_delays.get(attempts - 1), for a webhook that is enabled
Attempt(job) == job.row.attempts + 1
\* Mutant: retry_delays.get(attempts)
RetryLess(job) == ~job.ok /\ job.view = "on" /\ Attempt(job) < Retries
Retry(job)   == ~job.ok /\ job.view = "on" /\ Attempt(job) <= Retries

Record(i) ==
    /\ \E job \in Jobs(i) :
          /\ job.sent
          /\ deliveries' = Recorded(job.row.id, Attempt(job), job.ok, Retry(job))
    /\ worker' = [worker EXCEPT ![i].job = NoJob]
    /\ UNCHANGED <<hooks, cache, loading, enabled, emitter, admin, sends, spent>>

\* The delay of a retry has passed.
Wait(d) ==
    /\ d \in Rows /\ Status(d) = "pending" /\ ~deliveries[d].due
    /\ deliveries' = [deliveries EXCEPT ![d].due = TRUE]
    /\ UNCHANGED <<hooks, cache, loading, enabled, emitter, worker, admin, sends, spent>>

\* maintain: `old` is past the retention, `stuck` was claimed over a minute ago
Maintain(old, stuck) ==
    /\ old \subseteq {d \in Rows : Status(d) \in Finished}
    /\ stuck \subseteq Interrupted
    /\ old \cup stuck # {}
    /\ deliveries' = [d \in Rows \ old |->
                        IF d \in stuck
                        THEN [deliveries[d] EXCEPT !.status = "pending", !.due = TRUE]
                        ELSE deliveries[d]]
    /\ UNCHANGED <<hooks, cache, loading, enabled, emitter, worker, admin, sends, spent>>

\* The process stops, or a statement fails: deliver_due returns with `?`.
AbandonBatch(i) ==
    /\ worker[i] # Idle
    /\ Spend("failures", MaxFailures)
    /\ worker' = [worker EXCEPT ![i] = Idle]
    /\ UNCHANGED <<hooks, deliveries, cache, loading, enabled, emitter, admin, sends>>

Crash(i) ==
    /\ Spend("failures", MaxFailures)
    /\ worker' = [worker EXCEPT ![i] = Idle]
    /\ emitter' = [emitter EXCEPT ![i] = {}]
    /\ admin' = [admin EXCEPT ![i] = NoJob]
    /\ cache' = [cache EXCEPT ![i] = {}]
    /\ loading' = [loading EXCEPT ![i] = {}]
    /\ UNCHANGED <<hooks, deliveries, enabled, sends>>

-----------------------------------------------------------------------------
(* The admin panel: sending a logged delivery again, and a test event.     *)

\* redeliver: reads a row that is not `sending`, sends without claiming it
Redeliver(i, d) ==
    /\ cache[i] # {} /\ admin[i] = NoJob
    /\ d \in Rows /\ Status(d) # "sending"
    /\ Known(i)[deliveries[d].hook] # "absent"
    /\ Spend("manual", MaxManual)
    /\ \E ok \in BOOLEAN :
          admin' = [admin EXCEPT ![i] = {[id |-> d, attempts |-> deliveries[d].attempts + 1,
                                          claims |-> FALSE, ok |-> ok]}]
    /\ sends' = [sends EXCEPT ![d] = @ + 1]
    /\ UNCHANGED <<hooks, deliveries, cache, loading, enabled, emitter, worker>>

\* trigger: the row is inserted as `sending`, even for a disabled webhook
Trigger(i, h) ==
    /\ cache[i] # {} /\ admin[i] = NoJob
    /\ Known(i)[h] # "absent" /\ hooks[h] # "absent"
    /\ Spend("events", MaxEvents)
    /\ deliveries' = WithRow(NextId, [hook |-> h, status |-> "sending",
                                      due |-> TRUE, attempts |-> 0])
    /\ \E ok \in BOOLEAN :
          admin' = [admin EXCEPT ![i] = {[id |-> NextId, attempts |-> 1,
                                          claims |-> TRUE, ok |-> ok]}]
    /\ sends' = Append(sends, 1)
    /\ UNCHANGED <<hooks, cache, loading, enabled, emitter, worker>>

RecordManual(i) ==
    /\ \E job \in admin[i] :
          deliveries' = Recorded(job.id, job.attempts, job.ok, FALSE)
    /\ admin' = [admin EXCEPT ![i] = NoJob]
    /\ UNCHANGED <<hooks, cache, loading, enabled, emitter, worker, sends, spent>>

-----------------------------------------------------------------------------
WorkerStep(i) == ReadDue(i) \/ Claim(i) \/ Send(i) \/ Record(i)
CacheStep(i)  == Load(i) \/ Loaded(i)

Next ==
    \/ \E i \in Instances :
          \/ Load(i) \/ Loaded(i) \/ Enqueue(i) \/ InsertDelivery(i)
          \/ ReadDue(i) \/ Claim(i) \/ Send(i) \/ Record(i)
          \/ RecordManual(i) \/ AbandonBatch(i) \/ Crash(i) \/ SetEnabled(i)
          \/ \E h \in Hooks : RemoveHook(i, h) \/ Trigger(i, h)
          \/ \E h \in Hooks, state \in {"off", "on"} : SaveHook(i, h, state)
          \/ \E d \in Rows : Redeliver(i, d)
    \/ \E d \in Rows : Wait(d)
    \/ \E old, stuck \in SUBSET Rows : Maintain(old, stuck)

\* The worker's loop and the requests it awaits go on; time passes; maintain
\* runs again (hourly) and gives back what was interrupted by then.
Fairness ==
    /\ \A i \in Instances : WF_vars(WorkerStep(i)) /\ WF_vars(CacheStep(i)) /\
                            WF_vars(InsertDelivery(i)) /\ WF_vars(RecordManual(i))
    /\ \A d \in 1 .. MaxEvents * Cardinality(Hooks) : WF_vars(Wait(d))
    /\ WF_vars(Maintain({}, Interrupted))

Spec     == Init /\ [][Next]_vars
FairSpec == Spec /\ Fairness

-----------------------------------------------------------------------------
(* Properties.                                                             *)

\* The tables and processes keep their types, and webhook_id its foreign key.
TypeOK ==
    /\ hooks \in HookTable
    /\ sends \in Seq(Nat) /\ Rows \subseteq Ids
    /\ \A d \in Rows : deliveries[d] \in Delivery /\ hooks[deliveries[d].hook] # "absent"
    /\ cache \in [Instances -> SUBSET HookTable]
    /\ loading \in [Instances -> SUBSET HookTable]
    /\ \A i \in Instances : Cardinality(cache[i]) <= 1 /\ Cardinality(loading[i]) <= 1
    /\ enabled \in [Instances -> BOOLEAN]
    /\ emitter \in [Instances -> SUBSET Hooks]
    /\ worker \in [Instances -> [todo: SUBSET Queued, job: SUBSET Job]]
    /\ \A i \in Instances : Cardinality(Jobs(i)) <= 1 /\ Cardinality(admin[i]) <= 1
    /\ admin \in [Instances -> SUBSET Resent]
    /\ spent \in [{"events", "manual", "changes", "failures"} -> Nat]

\* "Each delivery is claimed by one of them": no two instances hold a claim on
\* the same delivery, whatever they read before, and a held delivery is never
\* back in the queue.  (deliver_due's claim, trigger, maintain's minute)
OneSender ==
    \A i, j \in Instances, d \in Rows :
        /\ Works(i, d) => Status(d) # "pending" /\ ~Tests(j, d)
        /\ i # j => ~(Works(i, d) /\ Works(j, d)) /\ ~(Tests(i, d) /\ Tests(j, d))

\* A delivery the worker gives up on, while its webhook is on, has been tried
\* as often as the retries allow.  (deliver_due's retry_delays.get)
GivesUpAfterEveryRetry ==
    [][\A i \in Instances, d \in Rows :
          Record(i) /\ Works(i, d) /\ d \in Rows' /\ deliveries'[d].status = "failed"
          => \/ sends[d] > Retries
             \/ \E job \in Jobs(i) : job.view # "on"]_vars

\* A delivery that is finished leaves the queue for good, unless an admin sends
\* it again.  system.rs: "`succeeded` and `failed` are final".
FinishedStaysFinished ==
    [][spent.manual = 0 =>
         \A d \in Rows \cap Rows' : Status(d) \in Finished => deliveries'[d] = deliveries[d]]_vars

\* Every queued delivery is finished or removed in the end, whatever instance
\* crashes with a claim, as long as one instance has the feature on.
Waiting(d) == d \in Rows /\ Status(d) \notin Finished
EveryDeliveryEnds ==
    \A d \in 1 .. MaxEvents * Cardinality(Hooks) :
        Waiting(d) ~> (~Waiting(d) \/ \A i \in Instances : ~enabled[i])
=============================================================================
