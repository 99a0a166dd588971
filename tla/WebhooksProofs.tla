--------------------------- MODULE WebhooksProofs ---------------------------
(***************************************************************************)
(* Theorems about Webhooks, for every number of instances, webhooks and    *)
(* deliveries, and any bound on events, changes and failures.              *)
(*                                                                         *)
(* That a delivery has one sender needs more than itself: a claim is only  *)
(* taken on a pending delivery, so whatever is held must not be pending    *)
(* (InHand); a new id must be nobody's (Issued).  That retries are used up *)
(* needs the attempts a row, a batch and a sender remember to be requests  *)
(* that were made (Counted).                                               *)
(***************************************************************************)
EXTENDS Webhooks, FiniteSetTheorems, TLAPS

AtMostOne(S) == \A a, b \in S : a = b
Worker == [todo: SUBSET Queued, job: SUBSET Job]
Counts == [{"events", "manual", "changes", "failures"} -> Nat]

\* Works and Tests, for a state of the workers W and of the admin requests A.
Sends(W, i, d) == \E job \in W[i].job : job.row.id = d
Checks(A, i, d) == \E job \in A[i] : job.id = d /\ job.claims

\* A delivery is held once.
Exclusive(W, A) ==
    \A i, j \in Instances : \A d \in Nat :
        /\ ~(Sends(W, i, d) /\ Checks(A, j, d))
        /\ i # j => ~(Sends(W, i, d) /\ Sends(W, j, d)) /\ ~(Checks(A, i, d) /\ Checks(A, j, d))

\* What is held is not in the queue D, and as long as no admin has sent a delivery
\* again (`manual` of them did), it is still being sent.
InHand(W, A, D, manual) ==
    /\ \A i \in Instances : \A d \in DOMAIN D :
         Sends(W, i, d) \/ Checks(A, i, d) =>
           D[d].status # "pending" /\ (manual = 0 => D[d].status = "sending")
    /\ manual = 0 => \A i \in Instances : \A job \in A[i] : job.claims

\* Only ids that were given out are known to anyone.
Issued(W, A, S) ==
    \A i \in Instances :
        /\ \A row \in W[i].todo : row.id \in DOMAIN S
        /\ \A job \in W[i].job : job.row.id \in DOMAIN S
        /\ \A job \in A[i] : job.id \in DOMAIN S

\* An attempt is a request that was made.
Counted(W, D, S) ==
    /\ \A d \in DOMAIN D : D[d].status \notin Finished => D[d].attempts <= S[d]
    /\ \A i \in Instances :
         /\ \A row \in W[i].todo : row.attempts <= S[row.id]
         /\ \A job \in W[i].job :
              /\ job.row.attempts <= S[job.row.id]
              /\ job.sent /\ job.view = "on" => job.row.attempts < S[job.row.id]

Tables(H, D, S) ==
    /\ H \in HookTable
    /\ S \in Seq(Nat)
    /\ DOMAIN D \subseteq DOMAIN S
    /\ \A d \in DOMAIN D : D[d] \in Delivery /\ H[D[d].hook] # "absent"

Caches(C, L) ==
    /\ C \in [Instances -> SUBSET HookTable] /\ L \in [Instances -> SUBSET HookTable]
    /\ \A i \in Instances : AtMostOne(C[i]) /\ AtMostOne(L[i])

Hands(W, A) ==
    /\ W \in [Instances -> Worker]
    /\ A \in [Instances -> SUBSET Resent]
    /\ \A i \in Instances : AtMostOne(W[i].job) /\ AtMostOne(A[i])

Inv ==
    /\ Tables(hooks, deliveries, sends)
    /\ Caches(cache, loading)
    /\ enabled \in [Instances -> BOOLEAN]
    /\ emitter \in [Instances -> SUBSET Hooks]
    /\ spent \in Counts
    /\ Hands(worker, admin)
    /\ Exclusive(worker, admin)
    /\ InHand(worker, admin, deliveries, spent.manual)
    /\ Issued(worker, admin, sends)
    /\ Counted(worker, deliveries, sends)

-----------------------------------------------------------------------------
LEMMA InitInv == Init => Inv
  <1> SUFFICES ASSUME Init PROVE Inv
    OBVIOUS
  <1>1. /\ \A i \in Instances : /\ worker[i].todo = {} /\ worker[i].job = {}
                                /\ admin[i] = {} /\ cache[i] = {} /\ loading[i] = {}
        /\ worker \in [Instances -> Worker]
    BY DEF Init, Idle, NoJob, Worker
  <1>2. DOMAIN deliveries = {} /\ sends \in Seq(Nat) /\ DOMAIN sends = {}
    BY DEF Init
  <1>3. Tables(hooks, deliveries, sends)
    BY <1>2 DEF Init, Tables, HookTable, HookStates
  <1>4. Caches(cache, loading) /\ Hands(worker, admin)
    BY <1>1 DEF Init, Caches, Hands, AtMostOne, NoJob
  <1>5. /\ enabled \in [Instances -> BOOLEAN] /\ emitter \in [Instances -> SUBSET Hooks]
        /\ spent \in Counts
    BY DEF Init, Counts
  <1>6. /\ Exclusive(worker, admin) /\ InHand(worker, admin, deliveries, spent.manual)
        /\ Issued(worker, admin, sends) /\ Counted(worker, deliveries, sends)
    BY <1>1, <1>2 DEF Exclusive, InHand, Issued, Counted, Sends, Checks
  <1> QED BY <1>3, <1>4, <1>5, <1>6 DEF Inv

LEMMA SpendTypes ==
    ASSUME spent \in Counts, NEW what \in {"events", "manual", "changes", "failures"},
           NEW max, Spend(what, max)
    PROVE  /\ spent' \in Counts
           /\ what # "manual" => spent'.manual = spent.manual
           /\ what = "manual" => spent'.manual # 0
  BY DEF Spend, Counts

\* Steps that leave the queue and those who hold something alone.
LEMMA QuietKeeps ==
    ASSUME Inv, UNCHANGED <<deliveries, worker, admin, sends>>,
           Tables(hooks', deliveries, sends), Caches(cache', loading'),
           enabled' \in [Instances -> BOOLEAN], emitter' \in [Instances -> SUBSET Hooks],
           spent' \in Counts, spent'.manual = spent.manual
    PROVE  Inv'
  BY DEF Inv

LEMMA CacheKeeps ==
    ASSUME Inv, NEW i \in Instances,
           Load(i) \/ Loaded(i) \/ SetEnabled(i) \/ Enqueue(i)
    PROVE  Inv'
  <1>1. CASE Load(i)
    <2>1. Caches(cache', loading')
      BY <1>1 DEF Load, Inv, Caches, AtMostOne, Tables
    <2> QED BY <1>1, <2>1, QuietKeeps DEF Load, Inv
  <1>2. CASE Loaded(i)
    <2>1. Caches(cache', loading')
      BY <1>2 DEF Loaded, Inv, Caches, AtMostOne
    <2> QED BY <1>2, <2>1, QuietKeeps DEF Loaded, Inv
  <1>3. CASE SetEnabled(i)
    <2>1. enabled' \in [Instances -> BOOLEAN] /\ spent' \in Counts /\ spent'.manual = spent.manual
      BY <1>3, SpendTypes DEF SetEnabled, Inv
    <2> QED BY <1>3, <2>1, QuietKeeps DEF SetEnabled, Inv
  <1>4. CASE Enqueue(i)
    <2>1. emitter' \in [Instances -> SUBSET Hooks] /\ spent' \in Counts /\ spent'.manual = spent.manual
      BY <1>4, SpendTypes DEF Enqueue, Inv, Wanting
    <2> QED BY <1>4, <2>1, QuietKeeps DEF Enqueue, Inv
  <1> QED BY <1>1, <1>2, <1>3, <1>4

LEMMA SaveHookKeeps ==
    ASSUME Inv, NEW i \in Instances, NEW h \in Hooks, NEW state, SaveHook(i, h, state)
    PROVE  Inv'
  <1>1. /\ spent' \in Counts /\ spent'.manual = spent.manual
        /\ Caches(cache', loading')
    BY SpendTypes DEF SaveHook, Inv, Invalidate, Caches, AtMostOne
  <1>2. Tables(hooks', deliveries, sends)
    BY DEF SaveHook, Inv, Tables, HookTable, HookStates, Delivery
  <1> QED BY <1>1, <1>2, QuietKeeps DEF SaveHook, Inv

LEMMA RemoveHookKeeps ==
    ASSUME Inv, NEW i \in Instances, NEW h \in Hooks, RemoveHook(i, h)
    PROVE  Inv'
  <1>1. /\ spent' \in Counts /\ spent'.manual = spent.manual
        /\ Caches(cache', loading')
    BY SpendTypes DEF RemoveHook, Inv, Invalidate, Caches, AtMostOne
  <1>2. /\ DOMAIN deliveries' = {e \in DOMAIN deliveries : deliveries[e].hook # h}
        /\ \A d \in DOMAIN deliveries' : deliveries'[d] = deliveries[d]
    BY DEF RemoveHook, Rows
  <1>3. Tables(hooks', deliveries', sends)
    BY <1>2 DEF RemoveHook, Inv, Tables, HookTable, HookStates, Delivery
  <1>4. /\ InHand(worker, admin, deliveries', spent'.manual)
        /\ Counted(worker, deliveries', sends)
    BY <1>1, <1>2 DEF Inv, InHand, Counted
  <1> QED BY <1>1, <1>3, <1>4 DEF RemoveHook, Inv

-----------------------------------------------------------------------------
\* A new row has an id nobody knows.
LEMMA NewRow ==
    ASSUME Inv, NEW row \in Delivery, NEW n \in Nat, hooks[row.hook] # "absent",
           row.attempts = 0, deliveries' = WithRow(NextId, row), sends' = Append(sends, n)
    PROVE  /\ NextId \in Nat \ DOMAIN sends
           /\ DOMAIN sends' = DOMAIN sends \cup {NextId} /\ sends'[NextId] = n
           /\ \A d \in DOMAIN sends : sends'[d] = sends[d]
           /\ DOMAIN deliveries' = DOMAIN deliveries \cup {NextId}
           /\ deliveries'[NextId] = row
           /\ \A d \in DOMAIN deliveries : deliveries'[d] = deliveries[d] /\ d # NextId
           /\ Tables(hooks, deliveries', sends')
           /\ Counted(worker, deliveries', sends')
           /\ Issued(worker, admin, sends')
           /\ \A i \in Instances : ~Sends(worker, i, NextId) /\ ~Checks(admin, i, NextId)
  <1>1. /\ sends \in Seq(Nat) /\ Len(sends) \in Nat /\ DOMAIN sends = 1 .. Len(sends)
        /\ DOMAIN deliveries \subseteq DOMAIN sends
    BY DEF Inv, Tables
  <1>2. NextId \in Nat /\ NextId \notin DOMAIN sends
    BY <1>1 DEF NextId
  <1>3. /\ DOMAIN sends' = DOMAIN sends \cup {NextId} /\ sends'[NextId] = n
        /\ \A d \in DOMAIN sends : sends'[d] = sends[d]
        /\ sends' \in Seq(Nat)
    BY <1>1 DEF NextId
  <1>4. /\ DOMAIN deliveries' = DOMAIN deliveries \cup {NextId}
        /\ deliveries'[NextId] = row
        /\ \A d \in DOMAIN deliveries : deliveries'[d] = deliveries[d] /\ d # NextId
    BY <1>1, <1>2 DEF WithRow, Rows
  <1>5. Tables(hooks, deliveries', sends')
    BY <1>1, <1>3, <1>4 DEF Inv, Tables
  <1>6. Counted(worker, deliveries', sends')
    BY <1>1, <1>3, <1>4 DEF Inv, Counted, Issued
  <1>7. Issued(worker, admin, sends')
    BY <1>3 DEF Inv, Issued
  <1>8. \A i \in Instances : ~Sends(worker, i, NextId) /\ ~Checks(admin, i, NextId)
    BY <1>2 DEF Inv, Issued, Sends, Checks
  <1> QED BY <1>2, <1>3, <1>4, <1>5, <1>6, <1>7, <1>8

LEMMA InsertDeliveryKeeps ==
    ASSUME Inv, NEW i \in Instances, InsertDelivery(i)
    PROVE  Inv'
  <1>h. PICK h \in emitter[i] :
            IF hooks[h] = "absent"
            THEN /\ emitter' = [emitter EXCEPT ![i] = {}]
                 /\ UNCHANGED <<deliveries, sends>>
            ELSE /\ emitter' = [emitter EXCEPT ![i] = @ \ {h}]
                 /\ deliveries' = WithRow(NextId, [hook |-> h, status |-> "pending",
                                                   due |-> TRUE, attempts |-> 0])
                 /\ sends' = Append(sends, 0)
    BY DEF InsertDelivery
  <1>1. UNCHANGED <<hooks, cache, loading, enabled, worker, admin, spent>>
    BY DEF InsertDelivery
  <1>2. h \in Hooks /\ emitter' \in [Instances -> SUBSET Hooks]
    BY <1>h DEF Inv
  <1>3. CASE hooks[h] = "absent"
    BY <1>h, <1>1, <1>2, <1>3 DEF Inv
  <1>4. CASE hooks[h] # "absent"
    <2> DEFINE row == [hook |-> h, status |-> "pending", due |-> TRUE, attempts |-> 0]
    <2>1. /\ row \in Delivery /\ row.hook = h /\ row.attempts = 0 /\ row.status = "pending"
          /\ deliveries' = WithRow(NextId, row) /\ sends' = Append(sends, 0)
      BY <1>h, <1>2, <1>4 DEF Delivery, Statuses
    <2> HIDE DEF row
    <2>2. /\ Tables(hooks, deliveries', sends') /\ Counted(worker, deliveries', sends')
          /\ Issued(worker, admin, sends')
          /\ DOMAIN deliveries' = DOMAIN deliveries \cup {NextId}
          /\ \A d \in DOMAIN deliveries : deliveries'[d] = deliveries[d] /\ d # NextId
          /\ \A j \in Instances : ~Sends(worker, j, NextId) /\ ~Checks(admin, j, NextId)
      BY <1>4, <2>1, NewRow
    <2>3. InHand(worker, admin, deliveries', spent.manual)
      BY <2>2 DEF Inv, InHand
    <2> QED BY <1>1, <1>2, <2>2, <2>3 DEF Inv
  <1> QED BY <1>3, <1>4

LEMMA TriggerKeeps ==
    ASSUME Inv, NEW i \in Instances, NEW h \in Hooks, Trigger(i, h)
    PROVE  Inv'
  <1> DEFINE row == [hook |-> h, status |-> "sending", due |-> TRUE, attempts |-> 0]
  <1>1. /\ row \in Delivery /\ row.hook = h /\ row.attempts = 0 /\ row.status = "sending"
        /\ deliveries' = WithRow(NextId, row) /\ sends' = Append(sends, 1)
        /\ hooks[h] # "absent" /\ admin[i] = {}
        /\ UNCHANGED <<hooks, cache, loading, enabled, emitter, worker>>
        /\ spent' \in Counts /\ spent'.manual = spent.manual
    BY SpendTypes DEF Trigger, Delivery, Statuses, NoJob, Inv
  <1> HIDE DEF row
  <1>2. /\ Tables(hooks, deliveries', sends') /\ Counted(worker, deliveries', sends')
        /\ Issued(worker, admin, sends')
        /\ NextId \in Nat /\ NextId \in DOMAIN sends'
        /\ DOMAIN deliveries' = DOMAIN deliveries \cup {NextId} /\ deliveries'[NextId] = row
        /\ \A d \in DOMAIN deliveries : deliveries'[d] = deliveries[d] /\ d # NextId
        /\ \A j \in Instances : ~Sends(worker, j, NextId) /\ ~Checks(admin, j, NextId)
    BY <1>1, NewRow
  <1>3. PICK ok \in BOOLEAN :
            admin' = [admin EXCEPT ![i] = {[id |-> NextId, attempts |-> 1,
                                            claims |-> TRUE, ok |-> ok]}]
    BY DEF Trigger
  <1> DEFINE job == [id |-> NextId, attempts |-> 1, claims |-> TRUE, ok |-> ok]
  <1>4. job \in Resent /\ job.id = NextId /\ job.claims /\ admin' = [admin EXCEPT ![i] = {job}]
    BY <1>2, <1>3 DEF Resent
  <1> HIDE DEF job
  <1>5. /\ admin' \in [Instances -> SUBSET Resent] /\ admin'[i] = {job}
        /\ \A j \in Instances : j # i => admin'[j] = admin[j]
    BY <1>4 DEF Inv, Hands
  <1>6. /\ Checks(admin', i, NextId)
        /\ \A j \in Instances : \A d : Checks(admin', j, d) <=>
              (IF j = i THEN d = NextId ELSE Checks(admin, j, d))
    BY <1>4, <1>5 DEF Checks
  <1>7. Hands(worker, admin')
    BY <1>5 DEF Inv, Hands, AtMostOne
  <1>8. Exclusive(worker, admin')
    BY <1>2, <1>6 DEF Inv, Exclusive
  <1>9. InHand(worker, admin', deliveries', spent.manual)
    <2>1. \A j \in Instances : \A d \in DOMAIN deliveries' :
            Sends(worker, j, d) \/ Checks(admin', j, d) =>
              /\ deliveries'[d].status # "pending"
              /\ spent.manual = 0 => deliveries'[d].status = "sending"
      BY <1>1, <1>2, <1>6 DEF Inv, InHand
    <2>2. spent.manual = 0 => \A j \in Instances : \A a \in admin'[j] : a.claims
      BY <1>4, <1>5 DEF Inv, InHand
    <2> QED BY <2>1, <2>2 DEF InHand
  <1>10. Issued(worker, admin', sends')
    BY <1>2, <1>4, <1>5 DEF Issued
  <1> QED BY <1>1, <1>2, <1>7, <1>8, <1>9, <1>10 DEF Inv

-----------------------------------------------------------------------------
\* One worker moves on: how its state is read afterwards.
LEMMA WorkerMoves ==
    ASSUME Inv, NEW i \in Instances, NEW todo \in SUBSET Queued, NEW job \in SUBSET Job,
           AtMostOne(job),
           \/ worker' = [worker EXCEPT ![i].todo = todo] /\ job = worker[i].job
           \/ worker' = [worker EXCEPT ![i].job = job] /\ todo = worker[i].todo
           \/ worker' = [worker EXCEPT ![i].todo = todo, ![i].job = job]
           \/ worker' = [worker EXCEPT ![i] = [todo |-> todo, job |-> job]]
    PROVE  /\ Hands(worker', admin)
           /\ worker'[i].todo = todo /\ worker'[i].job = job
           /\ \A j \in Instances : j # i => worker'[j] = worker[j]
  <1>1. worker \in [Instances -> Worker] /\ worker[i] \in Worker
    BY DEF Inv, Hands
  <1>2. /\ DOMAIN worker' = Instances
        /\ worker'[i] \in Worker /\ worker'[i].todo = todo /\ worker'[i].job = job
        /\ \A j \in Instances : j # i => worker'[j] = worker[j]
    BY <1>1 DEF Worker
  <1>3. worker' \in [Instances -> Worker]
    <2>1. \A j \in Instances : worker'[j] \in Worker
      BY <1>1, <1>2
    <2>2. worker' = [j \in Instances |-> worker'[j]]
      BY <1>1, <1>2
    <2> QED BY <2>1, <2>2
  <1> QED BY <1>2, <1>3 DEF Inv, Hands

LEMMA WorkerHas ==
    ASSUME Inv, NEW i \in Instances
    PROVE  /\ worker[i].todo \in SUBSET Queued /\ worker[i].job \in SUBSET Job
           /\ AtMostOne(worker[i].job)
  BY DEF Inv, Hands, Worker

LEMMA ReadDueKeeps ==
    ASSUME Inv, NEW i \in Instances, ReadDue(i)
    PROVE  Inv'
  <1>b. PICK batch \in SUBSET Due :
            worker' = [worker EXCEPT ![i].todo =
                          {[id |-> d, hook |-> deliveries[d].hook,
                            attempts |-> deliveries[d].attempts] : d \in batch}]
    BY DEF ReadDue
  <1> DEFINE Queue(d) == [id |-> d, hook |-> deliveries[d].hook,
                          attempts |-> deliveries[d].attempts]
             todo == {Queue(d) : d \in batch}
  <1>1. /\ worker[i].job = {} /\ worker[i] = Idle
        /\ UNCHANGED <<hooks, deliveries, cache, loading, enabled, emitter, admin, sends, spent>>
    BY DEF ReadDue, Idle, NoJob
  <1>2. \A row \in todo : \E d \in DOMAIN deliveries :
          /\ deliveries[d].status = "pending" /\ deliveries[d] \in Delivery
          /\ d \in DOMAIN sends /\ d \in Nat
          /\ row.id = d /\ row.hook = deliveries[d].hook /\ row.attempts = deliveries[d].attempts
          /\ row = [id |-> d, hook |-> deliveries[d].hook, attempts |-> deliveries[d].attempts]
    BY DEF Due, Rows, Status, Inv, Tables
  <1>3. worker' = [worker EXCEPT ![i].todo = todo]
    BY <1>b
  <1> HIDE DEF todo
  <1>4. \A row \in todo : row \in Queued /\ row.id \in DOMAIN sends /\ row.attempts <= sends[row.id]
    <2> TAKE row \in todo
    <2>d. PICK d \in DOMAIN deliveries :
            /\ deliveries[d].status = "pending" /\ deliveries[d] \in Delivery
            /\ d \in DOMAIN sends /\ d \in Nat
            /\ row.id = d /\ row.hook = deliveries[d].hook /\ row.attempts = deliveries[d].attempts
            /\ row = [id |-> d, hook |-> deliveries[d].hook, attempts |-> deliveries[d].attempts]
      BY <1>2
    <2>1. row \in Queued
      BY <2>d DEF Delivery, Queued
    <2>2. row.attempts <= sends[row.id]
      BY <2>d DEF Inv, Counted, Finished
    <2> QED BY <2>d, <2>1, <2>2
  <1>5. todo \in SUBSET Queued
    BY <1>4
  <1>6. /\ Hands(worker', admin)
        /\ worker'[i].todo = todo /\ worker'[i].job = worker[i].job
        /\ \A j \in Instances : j # i => worker'[j] = worker[j]
    BY <1>3, <1>5, WorkerHas, WorkerMoves
  <1>7. \A j \in Instances : worker'[j].job = worker[j].job
    BY <1>6
  <1>8. \A j \in Instances : \A d : Sends(worker', j, d) <=> Sends(worker, j, d)
    BY <1>7 DEF Sends
  <1>9. Issued(worker', admin, sends) /\ Counted(worker', deliveries, sends)
    BY <1>4, <1>6, <1>7 DEF Inv, Issued, Counted
  <1>10. Exclusive(worker', admin) /\ InHand(worker', admin, deliveries, spent.manual)
    BY <1>8 DEF Inv, Exclusive, InHand
  <1> QED BY <1>1, <1>6, <1>9, <1>10 DEF Inv

LEMMA ClaimKeeps ==
    ASSUME Inv, NEW i \in Instances, Claim(i)
    PROVE  Inv'
  <1>n. PICK next \in worker[i].todo :
          /\ worker' = [worker EXCEPT
                ![i].todo = @ \ {next},
                ![i].job = IF Claimable(next.id)
                           THEN {[row |-> next, sent |-> FALSE, ok |-> FALSE, view |-> "on"]}
                           ELSE NoJob]
          /\ deliveries' = IF Claimable(next.id)
                           THEN [deliveries EXCEPT ![next.id].status = "sending"]
                           ELSE deliveries
    BY DEF Claim
  <1> DEFINE todo == worker[i].todo \ {next}
             d0 == next.id
  <1>1. /\ worker[i].job = {} /\ next \in Queued /\ todo \in SUBSET Queued
        /\ d0 \in Nat /\ d0 \in DOMAIN sends /\ next.attempts <= sends[d0]
        /\ UNCHANGED <<hooks, cache, loading, enabled, emitter, admin, sends, spent>>
    BY WorkerHas DEF Claim, Jobs, NoJob, Inv, Issued, Counted, Queued
  <1>2. CASE ~Claimable(d0)
    <2>1. worker' = [worker EXCEPT ![i].todo = todo, ![i].job = {}] /\ deliveries' = deliveries
      BY <1>n, <1>2 DEF NoJob
    <2>2. /\ Hands(worker', admin)
          /\ worker'[i].todo = todo /\ worker'[i].job = {}
          /\ \A j \in Instances : j # i => worker'[j] = worker[j]
      BY <1>1, <2>1, WorkerMoves DEF AtMostOne
    <2>3. \A j \in Instances : \A d : Sends(worker', j, d) <=> Sends(worker, j, d)
      BY <1>1, <2>2 DEF Sends
    <2>4. Exclusive(worker', admin) /\ InHand(worker', admin, deliveries, spent.manual)
      BY <2>3 DEF Inv, Exclusive, InHand
    <2>5. Issued(worker', admin, sends) /\ Counted(worker', deliveries, sends)
      BY <2>2 DEF Inv, Issued, Counted
    <2> QED BY <1>1, <2>1, <2>2, <2>4, <2>5 DEF Inv
  <1>3. CASE Claimable(d0)
    <2> DEFINE job == [row |-> next, sent |-> FALSE, ok |-> FALSE, view |-> "on"]
    <2>1. /\ worker' = [worker EXCEPT ![i].todo = todo, ![i].job = {job}]
          /\ deliveries' = [deliveries EXCEPT ![d0].status = "sending"]
      BY <1>n, <1>3
    <2>2. job \in Job /\ job.row = next /\ ~job.sent
      BY <1>1 DEF Job, HookStates
    <2> HIDE DEF job, todo
    <2>3. /\ Hands(worker', admin)
          /\ worker'[i].todo = todo /\ worker'[i].job = {job}
          /\ \A j \in Instances : j # i => worker'[j] = worker[j]
      <3>1. {job} \in SUBSET Job /\ AtMostOne({job})
        BY <2>2 DEF AtMostOne
      <3> QED BY <1>1, <2>1, <3>1, WorkerMoves
    <2>4. \A j \in Instances : \A d : Sends(worker', j, d) <=>
            (IF j = i THEN d = d0 ELSE Sends(worker, j, d))
      BY <2>2, <2>3 DEF Sends
    <2>5. /\ d0 \in DOMAIN deliveries /\ deliveries[d0].status = "pending"
          /\ \A j \in Instances : ~Sends(worker, j, d0) /\ ~Checks(admin, j, d0)
      BY <1>3 DEF Claimable, Rows, Status, Inv, InHand
    <2>6. /\ DOMAIN deliveries' = DOMAIN deliveries
          /\ \A d \in DOMAIN deliveries : d # d0 => deliveries'[d] = deliveries[d]
          /\ deliveries'[d0] \in Delivery /\ deliveries'[d0].status = "sending"
          /\ deliveries'[d0].hook = deliveries[d0].hook
          /\ deliveries'[d0].attempts = deliveries[d0].attempts
      <3>1. deliveries[d0] \in Delivery
        BY <2>5 DEF Inv, Tables
      <3> QED BY <2>1, <2>5, <3>1 DEF Delivery, Statuses
    <2>7. Tables(hooks, deliveries', sends)
      BY <2>5, <2>6 DEF Inv, Tables
    <2>8. Exclusive(worker', admin)
      BY <2>4, <2>5 DEF Inv, Exclusive
    <2>9. InHand(worker', admin, deliveries', spent.manual)
      BY <2>4, <2>5, <2>6 DEF Inv, InHand
    <2>10. Issued(worker', admin, sends)
      BY <1>1, <2>2, <2>3 DEF Inv, Issued, todo
    <2>11. Counted(worker', deliveries', sends)
      <3>1. \A d \in DOMAIN deliveries' :
              deliveries'[d].status \notin Finished => deliveries'[d].attempts <= sends[d]
        BY <2>5, <2>6 DEF Inv, Counted, Finished
      <3>2. \A j \in Instances :
              /\ \A row \in worker'[j].todo : row.attempts <= sends[row.id]
              /\ \A a \in worker'[j].job :
                   /\ a.row.attempts <= sends[a.row.id]
                   /\ a.sent /\ a.view = "on" => a.row.attempts < sends[a.row.id]
        BY <1>1, <2>2, <2>3 DEF Inv, Counted, todo
      <3> QED BY <3>1, <3>2 DEF Counted
    <2> QED BY <1>1, <2>3, <2>7, <2>8, <2>9, <2>10, <2>11 DEF Inv
  <1> QED BY <1>2, <1>3

\* More requests were made.
LEMMA MoreSends ==
    ASSUME Inv, DOMAIN sends' = DOMAIN sends,
           \A d \in DOMAIN sends :
             sends'[d] \in Nat /\ sends[d] \in Nat /\ sends[d] <= sends'[d]
    PROVE  Counted(worker, deliveries, sends')
  <1>1. \A d \in DOMAIN deliveries :
          deliveries[d].status \notin Finished => deliveries[d].attempts <= sends'[d]
    BY DEF Inv, Counted, Tables, Delivery
  <1>2. ASSUME NEW j \in Instances, NEW row \in worker[j].todo
        PROVE  row.attempts <= sends'[row.id]
    <2>1. row.attempts \in Nat /\ row.id \in DOMAIN sends /\ row.attempts <= sends[row.id]
      BY WorkerHas DEF Inv, Counted, Issued, Queued
    <2> QED BY <2>1
  <1>3. ASSUME NEW j \in Instances, NEW a \in worker[j].job
        PROVE  /\ a.row.attempts <= sends'[a.row.id]
               /\ a.sent /\ a.view = "on" => a.row.attempts < sends'[a.row.id]
    <2>1. a \in Job
      BY WorkerHas
    <2>2. /\ a.row.attempts \in Nat /\ a.row.id \in DOMAIN sends
          /\ a.row.attempts <= sends[a.row.id]
          /\ a.sent /\ a.view = "on" => a.row.attempts < sends[a.row.id]
      BY <2>1 DEF Inv, Counted, Issued, Job, Queued
    <2> QED BY <2>2
  <1> QED BY <1>1, <1>2, <1>3 DEF Counted

LEMMA SendKeeps ==
    ASSUME Inv, NEW i \in Instances, Send(i)
    PROVE  Inv'
  <1>j. PICK job \in worker[i].job, ok \in BOOLEAN :
          LET view == Known(i)[job.row.hook]
          IN /\ ~job.sent
             /\ ok => view = "on"
             /\ worker' = [worker EXCEPT ![i].job =
                               {[job EXCEPT !.sent = TRUE, !.ok = ok, !.view = view]}]
             /\ sends' = IF view = "on" THEN [sends EXCEPT ![job.row.id] = @ + 1] ELSE sends
    BY DEF Send, Jobs
  <1> DEFINE view == Known(i)[job.row.hook]
             next == [job EXCEPT !.sent = TRUE, !.ok = ok, !.view = view]
             d0 == job.row.id
  <1>1. /\ worker' = [worker EXCEPT ![i].job = {next}]
        /\ sends' = IF view = "on" THEN [sends EXCEPT ![d0] = @ + 1] ELSE sends
        /\ UNCHANGED <<hooks, deliveries, cache, loading, enabled, emitter, admin, spent>>
    BY <1>j DEF Send
  <1>2. /\ job \in Job /\ job.row \in Queued /\ d0 \in Nat /\ d0 \in DOMAIN sends
        /\ job.row.attempts \in Nat /\ job.row.attempts <= sends[d0]
        /\ worker[i].job = {job}
    BY WorkerHas DEF Inv, Issued, Counted, Job, Queued, AtMostOne
  <1>3. view \in HookStates
    <2>1. Known(i) \in HookTable
      BY DEF Send, Known, Only, Inv, Caches
    <2> QED BY <1>2, <2>1 DEF HookTable, Queued
  <1>4. next \in Job /\ next.row = job.row /\ next.sent /\ next.view = view
    BY <1>2, <1>3 DEF Job
  <1> HIDE DEF view, next
  <1>5. /\ Hands(worker', admin)
        /\ worker'[i].todo = worker[i].todo /\ worker'[i].job = {next}
        /\ \A j \in Instances : j # i => worker'[j] = worker[j]
    <2>1. {next} \in SUBSET Job /\ AtMostOne({next})
      BY <1>4 DEF AtMostOne
    <2> QED BY <1>1, <2>1, WorkerHas, WorkerMoves
  <1>6. \A j \in Instances : \A d : Sends(worker', j, d) <=> Sends(worker, j, d)
    BY <1>2, <1>4, <1>5 DEF Sends
  <1>7. Exclusive(worker', admin) /\ InHand(worker', admin, deliveries, spent.manual)
    BY <1>6 DEF Inv, Exclusive, InHand
  <1>8. /\ sends' \in Seq(Nat) /\ DOMAIN sends' = DOMAIN sends
        /\ \A d \in DOMAIN sends : sends'[d] \in Nat /\ sends[d] \in Nat /\ sends[d] <= sends'[d]
        /\ view = "on" => sends[d0] < sends'[d0]
    <2>1. sends \in [1 .. Len(sends) -> Nat] /\ Len(sends) \in Nat
      BY DEF Inv, Tables
    <2>2. sends' \in [1 .. Len(sends) -> Nat]
      BY <1>1, <1>2, <2>1
    <2>3. sends' \in Seq(Nat) /\ DOMAIN sends' = DOMAIN sends
      BY <2>1, <2>2
    <2>4. \A d \in DOMAIN sends : sends'[d] \in Nat /\ sends[d] \in Nat /\ sends[d] <= sends'[d]
      BY <1>1, <1>2, <2>1
    <2>5. view = "on" => sends[d0] < sends'[d0]
      BY <1>1, <1>2, <2>1
    <2> QED BY <2>3, <2>4, <2>5
  <1>9. Tables(hooks, deliveries, sends') /\ Issued(worker', admin, sends')
    BY <1>2, <1>4, <1>5, <1>8 DEF Inv, Tables, Issued
  <1>10. Counted(worker', deliveries, sends')
    <2>1. Counted(worker, deliveries, sends')
      BY <1>8, MoreSends
    <2>2. job.row.attempts <= sends'[d0] /\ (view = "on" => job.row.attempts < sends'[d0])
      BY <1>2, <1>8
    <2> QED BY <1>4, <1>5, <2>1, <2>2 DEF Counted
  <1> QED BY <1>1, <1>5, <1>7, <1>9, <1>10 DEF Inv

-----------------------------------------------------------------------------
\* What record writes.
LEMMA RecordedRow ==
    ASSUME Inv, NEW d0, NEW attempts \in Nat, NEW ok \in BOOLEAN, NEW retry \in BOOLEAN,
           deliveries' = Recorded(d0, attempts, ok, retry)
    PROVE  /\ DOMAIN deliveries' = DOMAIN deliveries
           /\ \A d \in DOMAIN deliveries : d # d0 => deliveries'[d] = deliveries[d]
           /\ d0 \in DOMAIN deliveries =>
                /\ deliveries'[d0].attempts = attempts
                /\ deliveries'[d0].status = IF ok THEN "succeeded"
                                            ELSE IF retry THEN "pending" ELSE "failed"
           /\ Tables(hooks, deliveries', sends)
  <1>1. CASE d0 \notin DOMAIN deliveries
    BY <1>1 DEF Recorded, Rows, Inv
  <1>2. CASE d0 \in DOMAIN deliveries
    <2> DEFINE row == [deliveries[d0] EXCEPT !.attempts = attempts, !.due = FALSE,
                         !.status = IF ok THEN "succeeded"
                                    ELSE IF retry THEN "pending" ELSE "failed"]
    <2>1. deliveries[d0] \in Delivery /\ hooks[deliveries[d0].hook] # "absent"
      BY <1>2 DEF Inv, Tables
    <2>2. /\ row \in Delivery /\ row.hook = deliveries[d0].hook /\ row.attempts = attempts
          /\ row.status = IF ok THEN "succeeded" ELSE IF retry THEN "pending" ELSE "failed"
      BY <2>1 DEF Delivery, Statuses
    <2>3. deliveries' = [deliveries EXCEPT ![d0] = row]
      BY <1>2 DEF Recorded, Rows
    <2> HIDE DEF row
    <2>4. /\ DOMAIN deliveries' = DOMAIN deliveries /\ deliveries'[d0] = row
          /\ \A d \in DOMAIN deliveries : d # d0 => deliveries'[d] = deliveries[d]
      BY <1>2, <2>3
    <2>5. Tables(hooks, deliveries', sends)
      BY <2>1, <2>2, <2>4 DEF Inv, Tables
    <2> QED BY <2>2, <2>4, <2>5
  <1> QED BY <1>1, <1>2

LEMMA RecordKeeps ==
    ASSUME Inv, NEW i \in Instances, Record(i)
    PROVE  Inv'
  <1>j. PICK job \in worker[i].job :
          /\ job.sent
          /\ deliveries' = Recorded(job.row.id, Attempt(job), job.ok, Retry(job))
    BY DEF Record, Jobs
  <1> DEFINE d0 == job.row.id
  <1>1. /\ worker' = [worker EXCEPT ![i].job = {}]
        /\ UNCHANGED <<hooks, cache, loading, enabled, emitter, admin, sends, spent>>
    BY DEF Record, NoJob
  <1>2. /\ job \in Job /\ job.row \in Queued /\ d0 \in Nat /\ d0 \in DOMAIN sends
        /\ job.row.attempts \in Nat /\ job.ok \in BOOLEAN
        /\ Retry(job) \in BOOLEAN /\ Attempt(job) = job.row.attempts + 1
        /\ Sends(worker, i, d0)
    BY WorkerHas DEF Inv, Issued, Job, Queued, Retry, Attempt, Sends
  <1>3. sends[d0] \in Nat /\ (Retry(job) => Attempt(job) <= sends[d0])
    BY <1>j, <1>2 DEF Inv, Counted, Retry, Tables
  <1>4. /\ Hands(worker', admin)
        /\ worker'[i].todo = worker[i].todo /\ worker'[i].job = {}
        /\ \A j \in Instances : j # i => worker'[j] = worker[j]
    <2>1. {} \in SUBSET Job /\ AtMostOne({})
      BY DEF AtMostOne
    <2> QED BY <1>1, <2>1, WorkerHas, WorkerMoves
  <1>5. \A j \in Instances : \A d : Sends(worker', j, d) <=> j # i /\ Sends(worker, j, d)
    BY <1>4 DEF Sends
  <1>6. /\ DOMAIN deliveries' = DOMAIN deliveries
        /\ \A d \in DOMAIN deliveries : d # d0 => deliveries'[d] = deliveries[d]
        /\ d0 \in DOMAIN deliveries =>
             /\ deliveries'[d0].attempts = Attempt(job)
             /\ deliveries'[d0].status = IF job.ok THEN "succeeded"
                                         ELSE IF Retry(job) THEN "pending" ELSE "failed"
        /\ Tables(hooks, deliveries', sends)
    <2>1. deliveries' = Recorded(d0, Attempt(job), job.ok, Retry(job)) /\ Attempt(job) \in Nat
      BY <1>j, <1>2
    <2> QED BY <1>2, <2>1, RecordedRow
  <1>7. Exclusive(worker', admin)
    BY <1>5 DEF Inv, Exclusive
  <1>8. \A j \in Instances : ~Sends(worker', j, d0) /\ ~Checks(admin, j, d0)
    BY <1>2, <1>5 DEF Inv, Exclusive
  <1>9. InHand(worker', admin, deliveries', spent.manual)
    BY <1>5, <1>6, <1>8 DEF Inv, InHand
  <1>10. Issued(worker', admin, sends)
    BY <1>4 DEF Inv, Issued
  <1>11. Counted(worker', deliveries', sends)
    <2>1. ASSUME NEW d \in DOMAIN deliveries', deliveries'[d].status \notin Finished
          PROVE  deliveries'[d].attempts <= sends[d]
      <3>1. CASE d = d0
        BY <1>2, <1>3, <1>6, <2>1, <3>1 DEF Finished
      <3>2. CASE d # d0
        BY <1>6, <2>1, <3>2 DEF Inv, Counted
      <3> QED BY <3>1, <3>2
    <2> QED BY <1>4, <2>1 DEF Inv, Counted
  <1> QED BY <1>1, <1>4, <1>6, <1>7, <1>9, <1>10, <1>11 DEF Inv

LEMMA RecordManualKeeps ==
    ASSUME Inv, NEW i \in Instances, RecordManual(i)
    PROVE  Inv'
  <1>j. PICK job \in admin[i] : deliveries' = Recorded(job.id, job.attempts, job.ok, FALSE)
    BY DEF RecordManual
  <1>1. /\ admin' = [admin EXCEPT ![i] = {}]
        /\ UNCHANGED <<hooks, cache, loading, enabled, emitter, worker, sends, spent>>
    BY DEF RecordManual, NoJob
  <1>2. job \in Resent /\ job.id \in Nat /\ job.attempts \in Nat /\ job.ok \in BOOLEAN
    BY DEF Inv, Hands, Resent
  <1>3. /\ DOMAIN deliveries' = DOMAIN deliveries
        /\ \A d \in DOMAIN deliveries : d # job.id => deliveries'[d] = deliveries[d]
        /\ job.id \in DOMAIN deliveries => deliveries'[job.id].status \in Finished
        /\ Tables(hooks, deliveries', sends)
    BY <1>j, <1>2, RecordedRow DEF Finished
  <1>4. /\ admin' \in [Instances -> SUBSET Resent] /\ admin'[i] = {}
        /\ \A j \in Instances : j # i => admin'[j] = admin[j]
    BY <1>1 DEF Inv, Hands
  <1>5. \A j \in Instances : \A d : Checks(admin', j, d) <=> j # i /\ Checks(admin, j, d)
    BY <1>4 DEF Checks
  <1>6. Hands(worker, admin')
    BY <1>4 DEF Inv, Hands, AtMostOne
  <1>7. Exclusive(worker, admin') /\ Issued(worker, admin', sends)
    BY <1>4, <1>5 DEF Inv, Exclusive, Issued
  <1>8. Counted(worker, deliveries', sends)
    BY <1>3 DEF Inv, Counted
  <1>9. InHand(worker, admin', deliveries', spent.manual)
    <2>1. ASSUME NEW j \in Instances, NEW d \in DOMAIN deliveries',
                 Sends(worker, j, d) \/ Checks(admin', j, d)
          PROVE  /\ deliveries'[d].status # "pending"
                 /\ spent.manual = 0 => deliveries'[d].status = "sending"
      <3>1. CASE d # job.id
        BY <1>3, <1>5, <2>1, <3>1 DEF Inv, InHand
      <3>2. CASE d = job.id
        <4>1. deliveries'[d].status # "pending"
          BY <1>3, <3>2 DEF Finished
        <4>2. ASSUME spent.manual = 0 PROVE FALSE
          <5>1. Checks(admin, i, d)
            BY <3>2, <4>2 DEF Inv, InHand, Checks
          <5> QED BY <1>2, <1>5, <2>1, <3>2, <5>1 DEF Inv, Exclusive
        <4> QED BY <4>1, <4>2
      <3> QED BY <3>1, <3>2
    <2>2. spent.manual = 0 => \A j \in Instances : \A a \in admin'[j] : a.claims
      BY <1>4 DEF Inv, InHand
    <2> QED BY <2>1, <2>2 DEF InHand
  <1> QED BY <1>1, <1>3, <1>6, <1>7, <1>8, <1>9 DEF Inv

LEMMA RedeliverKeeps ==
    ASSUME Inv, NEW i \in Instances, NEW d0 \in Rows, Redeliver(i, d0)
    PROVE  Inv'
  <1>k. PICK ok \in BOOLEAN :
          admin' = [admin EXCEPT ![i] = {[id |-> d0, attempts |-> deliveries[d0].attempts + 1,
                                          claims |-> FALSE, ok |-> ok]}]
    BY DEF Redeliver
  <1> DEFINE job == [id |-> d0, attempts |-> deliveries[d0].attempts + 1,
                     claims |-> FALSE, ok |-> ok]
  <1>1. /\ admin' = [admin EXCEPT ![i] = {job}] /\ sends' = [sends EXCEPT ![d0] = @ + 1]
        /\ UNCHANGED <<hooks, deliveries, cache, loading, enabled, emitter, worker>>
        /\ admin[i] = {}
    BY <1>k DEF Redeliver, NoJob
  <1>2. spent' \in Counts /\ spent'.manual # 0
    BY SpendTypes DEF Redeliver, Inv
  <1>3. /\ d0 \in DOMAIN deliveries /\ d0 \in DOMAIN sends /\ d0 \in Nat
        /\ deliveries[d0].attempts \in Nat
    BY DEF Rows, Inv, Tables, Delivery
  <1>4. job \in Resent /\ job.id = d0 /\ ~job.claims
    BY <1>3 DEF Resent
  <1> HIDE DEF job
  <1>5. /\ admin' \in [Instances -> SUBSET Resent] /\ admin'[i] = {job}
        /\ \A j \in Instances : j # i => admin'[j] = admin[j]
    BY <1>1, <1>4 DEF Inv, Hands
  <1>6. \A j \in Instances : \A d : Checks(admin', j, d) => Checks(admin, j, d)
    BY <1>4, <1>5 DEF Checks
  <1>7. Hands(worker, admin')
    BY <1>5 DEF Inv, Hands, AtMostOne
  <1>8. Exclusive(worker, admin') /\ InHand(worker, admin', deliveries, spent'.manual)
    BY <1>2, <1>6 DEF Inv, Exclusive, InHand
  <1>9. /\ sends' \in Seq(Nat) /\ DOMAIN sends' = DOMAIN sends
        /\ \A d \in DOMAIN sends : sends'[d] \in Nat /\ sends[d] \in Nat /\ sends[d] <= sends'[d]
    <2>1. sends \in [1 .. Len(sends) -> Nat] /\ Len(sends) \in Nat
      BY DEF Inv, Tables
    <2>2. sends' \in [1 .. Len(sends) -> Nat]
      BY <1>1, <1>3, <2>1
    <2>3. sends' \in Seq(Nat) /\ DOMAIN sends' = DOMAIN sends
      BY <2>1, <2>2
    <2>4. \A d \in DOMAIN sends : sends'[d] \in Nat /\ sends[d] \in Nat /\ sends[d] <= sends'[d]
      BY <1>1, <1>3, <2>1
    <2> QED BY <2>3, <2>4
  <1>10. Tables(hooks, deliveries, sends')
    BY <1>9 DEF Inv, Tables
  <1>11. Issued(worker, admin', sends')
    BY <1>3, <1>4, <1>5, <1>9 DEF Inv, Issued
  <1>12. Counted(worker, deliveries, sends')
    BY <1>9, MoreSends
  <1> QED BY <1>1, <1>2, <1>7, <1>8, <1>10, <1>11, <1>12 DEF Inv

\* deliver_due that returns early, and a process that stops, forget what they held.
LEMMA ForgetKeeps ==
    ASSUME Inv, NEW i \in Instances, AbandonBatch(i) \/ Crash(i)
    PROVE  Inv'
  <1>1. /\ worker' = [worker EXCEPT ![i] = [todo |-> {}, job |-> {}]]
        /\ admin' \in {admin, [admin EXCEPT ![i] = {}]}
        /\ UNCHANGED <<hooks, deliveries, enabled, sends>>
        /\ cache' \in {cache, [cache EXCEPT ![i] = {}]}
        /\ loading' \in {loading, [loading EXCEPT ![i] = {}]}
        /\ emitter' \in {emitter, [emitter EXCEPT ![i] = {}]}
        /\ spent' \in Counts /\ spent'.manual = spent.manual
    BY SpendTypes DEF AbandonBatch, Crash, Idle, NoJob, Inv
  <1>2. Caches(cache', loading') /\ emitter' \in [Instances -> SUBSET Hooks]
    BY <1>1 DEF Inv, Caches, AtMostOne
  <1>3. /\ Hands(worker', admin)
        /\ worker'[i].todo = {} /\ worker'[i].job = {}
        /\ \A j \in Instances : j # i => worker'[j] = worker[j]
    <2>1. {} \in SUBSET Job /\ {} \in SUBSET Queued /\ AtMostOne({})
      BY DEF AtMostOne
    <2> QED BY <1>1, <2>1, WorkerMoves
  <1>4. /\ admin' \in [Instances -> SUBSET Resent]
        /\ \A j \in Instances : admin'[j] \in {{}, admin[j]}
    BY <1>1 DEF Inv, Hands
  <1>5. Hands(worker', admin')
    BY <1>3, <1>4 DEF Hands, AtMostOne
  <1>6. \A j \in Instances : \A d : /\ Sends(worker', j, d) => Sends(worker, j, d)
                                    /\ Checks(admin', j, d) => Checks(admin, j, d)
    BY <1>3, <1>4 DEF Sends, Checks
  <1>7. Exclusive(worker', admin')
    BY <1>6 DEF Inv, Exclusive
  <1>8. InHand(worker', admin', deliveries, spent.manual)
    BY <1>4, <1>6 DEF Inv, InHand
  <1>9. Issued(worker', admin', sends) /\ Counted(worker', deliveries, sends)
    BY <1>3, <1>4 DEF Inv, Issued, Counted
  <1> QED BY <1>1, <1>2, <1>5, <1>7, <1>8, <1>9 DEF Inv

\* A retry that falls due; the clean-up of maintain.
LEMMA QueueKeeps ==
    ASSUME Inv, NEW old, NEW stuck, NEW d0,
           Wait(d0) \/ Maintain(old, stuck)
    PROVE  Inv'
  <1>1. CASE Wait(d0)
    <2> DEFINE row == [deliveries[d0] EXCEPT !.due = TRUE]
    <2>1. d0 \in DOMAIN deliveries /\ deliveries[d0] \in Delivery
      BY <1>1 DEF Wait, Rows, Inv, Tables
    <2>2. /\ row \in Delivery /\ row.hook = deliveries[d0].hook
          /\ row.status = deliveries[d0].status /\ row.attempts = deliveries[d0].attempts
      BY <2>1 DEF Delivery
    <2>3. /\ deliveries' = [deliveries EXCEPT ![d0] = row]
          /\ UNCHANGED <<hooks, cache, loading, enabled, emitter, worker, admin, sends, spent>>
      BY <1>1 DEF Wait
    <2> HIDE DEF row
    <2>4. /\ DOMAIN deliveries' = DOMAIN deliveries
          /\ \A d \in DOMAIN deliveries :
               /\ deliveries'[d] \in Delivery /\ deliveries'[d].hook = deliveries[d].hook
               /\ deliveries'[d].status = deliveries[d].status
               /\ deliveries'[d].attempts = deliveries[d].attempts
      BY <2>1, <2>2, <2>3 DEF Inv, Tables
    <2>5. /\ Tables(hooks, deliveries', sends) /\ Counted(worker, deliveries', sends)
          /\ InHand(worker, admin, deliveries', spent.manual)
      BY <2>4 DEF Inv, Tables, Counted, InHand
    <2> QED BY <2>3, <2>5 DEF Inv
  <1>2. CASE Maintain(old, stuck)
    <2> DEFINE Back(d) == [deliveries[d] EXCEPT !.status = "pending", !.due = TRUE]
    <2>1. \A d \in DOMAIN deliveries :
            /\ Back(d) \in Delivery /\ Back(d).hook = deliveries[d].hook
            /\ Back(d).status = "pending" /\ Back(d).attempts = deliveries[d].attempts
      <3> TAKE d \in DOMAIN deliveries
      <3>1. deliveries[d] \in Delivery
        BY DEF Inv, Tables
      <3> QED BY <3>1 DEF Delivery, Statuses
    <2>2. /\ deliveries' = [d \in DOMAIN deliveries \ old |->
                              IF d \in stuck THEN Back(d) ELSE deliveries[d]]
          /\ UNCHANGED <<hooks, cache, loading, enabled, emitter, worker, admin, sends, spent>>
      BY <1>2 DEF Maintain, Rows
    <2>3. \A d \in stuck : /\ d \in DOMAIN deliveries /\ deliveries[d].status = "sending"
                           /\ \A i \in Instances : ~Sends(worker, i, d) /\ ~Checks(admin, i, d)
      BY <1>2 DEF Maintain, Interrupted, Rows, Status, Held, Works, Tests, Jobs, Sends, Checks
    <2> HIDE DEF Back
    <2>4. /\ DOMAIN deliveries' \subseteq DOMAIN deliveries
          /\ \A d \in DOMAIN deliveries' :
               deliveries'[d] = IF d \in stuck THEN Back(d) ELSE deliveries[d]
      BY <2>2
    <2>5. Tables(hooks, deliveries', sends)
      BY <2>1, <2>4 DEF Inv, Tables
    <2>6. Counted(worker, deliveries', sends)
      BY <2>1, <2>3, <2>4 DEF Inv, Counted, Finished
    <2>7. InHand(worker, admin, deliveries', spent.manual)
      BY <2>3, <2>4 DEF Inv, InHand
    <2> QED BY <2>2, <2>5, <2>6, <2>7 DEF Inv
  <1> QED BY <1>1, <1>2

-----------------------------------------------------------------------------
LEMMA Consecution == Inv /\ [Next]_vars => Inv'
  <1> SUFFICES ASSUME Inv, [Next]_vars PROVE Inv'
    OBVIOUS
  <1>1. CASE UNCHANGED vars
    BY <1>1 DEF vars, Inv
  <1>2. ASSUME NEW i \in Instances,
               Load(i) \/ Loaded(i) \/ SetEnabled(i) \/ Enqueue(i) \/ InsertDelivery(i)
        PROVE  Inv'
    BY <1>2, CacheKeeps, InsertDeliveryKeeps
  <1>3. ASSUME NEW i \in Instances,
               ReadDue(i) \/ Claim(i) \/ Send(i) \/ Record(i) \/ RecordManual(i)
        PROVE  Inv'
    BY <1>3, ReadDueKeeps, ClaimKeeps, SendKeeps, RecordKeeps, RecordManualKeeps
  <1>4. ASSUME NEW i \in Instances, AbandonBatch(i) \/ Crash(i) PROVE Inv'
    BY <1>4, ForgetKeeps
  <1>5. ASSUME NEW i \in Instances, NEW h \in Hooks, RemoveHook(i, h) \/ Trigger(i, h)
        PROVE  Inv'
    BY <1>5, RemoveHookKeeps, TriggerKeeps
  <1>6. ASSUME NEW i \in Instances, NEW h \in Hooks, NEW state \in {"off", "on"},
               SaveHook(i, h, state)
        PROVE  Inv'
    BY <1>6, SaveHookKeeps
  <1>7. ASSUME NEW i \in Instances, NEW d \in Rows, Redeliver(i, d) PROVE Inv'
    BY <1>7, RedeliverKeeps
  <1>8. ASSUME NEW d \in Rows, Wait(d) PROVE Inv'
    BY <1>8, QueueKeeps
  <1>9. ASSUME NEW old \in SUBSET Rows, NEW stuck \in SUBSET Rows, Maintain(old, stuck)
        PROVE  Inv'
    BY <1>9, QueueKeeps
  <1> QED BY <1>1, <1>2, <1>3, <1>4, <1>5, <1>6, <1>7, <1>8, <1>9 DEF Next

THEOREM Invariance == Spec => []Inv
  BY InitInv, Consecution, PTL DEF Spec

-----------------------------------------------------------------------------
LEMMA AtMostOneCounts == ASSUME NEW S, AtMostOne(S) PROVE Cardinality(S) <= 1
  <1>1. CASE S = {}
    <2>1. Cardinality(S) = 0
      BY <1>1, FS_EmptySet
    <2> QED BY <2>1
  <1>2. ASSUME NEW x \in S PROVE Cardinality(S) <= 1
    <2>1. S = {x}
      BY <1>2 DEF AtMostOne
    <2>2. Cardinality(S) = 1
      BY <2>1, FS_Singleton
    <2> QED BY <2>2
  <1> QED BY <1>1, <1>2

\* The tables and processes keep their types, a delivery in the log belongs to a webhook
\* that exists, and nobody holds more than one.
THEOREM TypeCorrect == Spec => []TypeOK
  <1>1. Inv => TypeOK
    BY AtMostOneCounts
    DEF Inv, Tables, Caches, Hands, Counts, Worker, TypeOK, Rows, Ids, Jobs
  <1> QED BY <1>1, Invariance, PTL

\* However many instances read the same deliveries, each is held by one of them at a time
\* and is out of the queue meanwhile (deliver_due's claim, trigger, maintain's minute).
THEOREM SentByOne == Spec => []OneSender
  <1>1. Inv => OneSender
    <2> SUFFICES ASSUME Inv PROVE OneSender
      OBVIOUS
    <2>1. /\ \A i, d : Works(i, d) <=> Sends(worker, i, d)
          /\ \A i, d : Tests(i, d) <=> Checks(admin, i, d)
      BY DEF Works, Tests, Jobs, Sends, Checks
    <2>2. Rows \subseteq Nat /\ Rows = DOMAIN deliveries
      BY DEF Inv, Tables, Rows
    <2> QED BY <2>1, <2>2 DEF Inv, Exclusive, InHand, OneSender, Status
  <1> QED BY <1>1, Invariance, PTL

\* A delivery whose webhook is on is only given up after every retry was really sent,
\* whatever was read, claimed and recorded in between (retry_delays.get in deliver_due).
THEOREM RetriesUsedUp == Spec => GivesUpAfterEveryRetry
  <1> DEFINE GivesUp == \A i \in Instances, d \in Rows :
          Record(i) /\ Works(i, d) /\ d \in Rows' /\ deliveries'[d].status = "failed"
          => \/ sends[d] > Retries
             \/ \E job \in Jobs(i) : job.view # "on"
  <1>1. ASSUME Inv, NEW i \in Instances, NEW d \in Rows, Record(i), Works(i, d),
               deliveries'[d].status = "failed", \A job \in Jobs(i) : job.view = "on"
        PROVE  sends[d] > Retries
    <2>j. PICK job \in worker[i].job :
            /\ job.sent
            /\ deliveries' = Recorded(job.row.id, Attempt(job), job.ok, Retry(job))
      BY <1>1 DEF Record, Jobs
    <2>1. /\ job \in Job /\ job.row \in Queued /\ job.row.attempts \in Nat /\ job.view = "on"
          /\ job.ok \in BOOLEAN /\ Retry(job) \in BOOLEAN
          /\ Attempt(job) = job.row.attempts + 1
      BY <1>1, WorkerHas DEF Job, Queued, Jobs, Retry, Attempt
    <2>2. job.row.id = d
      BY <1>1, WorkerHas DEF Works, Jobs, AtMostOne
    <2>3. deliveries'[d].status = IF job.ok THEN "succeeded"
                                  ELSE IF Retry(job) THEN "pending" ELSE "failed"
      <3>1. Attempt(job) \in Nat /\ d \in DOMAIN deliveries
        BY <2>1 DEF Rows
      <3> QED BY <1>1, <2>j, <2>1, <2>2, <3>1, RecordedRow
    <2>4. ~job.ok /\ Attempt(job) > Retries
      BY <1>1, <2>1, <2>3, ConstantsAssumption DEF Retry
    <2>5. job.row.attempts < sends[d] /\ sends[d] \in Nat
      BY <1>1, <2>j, <2>1, <2>2 DEF Inv, Counted, Issued, Tables
    <2> QED BY <2>1, <2>4, <2>5, ConstantsAssumption
  <1>2. Inv /\ [Next]_vars => [GivesUp]_vars
    BY <1>1
  <1> QED BY <1>2, Invariance, PTL DEF Spec, GivesUpAfterEveryRetry

\* As long as no admin sends a delivery again, one that succeeded or failed for good
\* keeps its result until it is removed ("`succeeded` and `failed` are final").
THEOREM FinishedIsFinal == Spec => FinishedStaysFinished
  <1> DEFINE Final == spent.manual = 0 =>
        \A d \in Rows \cap Rows' : Status(d) \in Finished => deliveries'[d] = deliveries[d]
  <1>1. ASSUME Inv, Next, spent.manual = 0, NEW d \in Rows \cap Rows', Status(d) \in Finished
        PROVE  deliveries'[d] = deliveries[d]
    <2>1. /\ d \in DOMAIN deliveries /\ d \in Nat /\ d \in DOMAIN sends
          /\ deliveries[d].status \notin {"pending", "sending"}
          /\ \A i \in Instances : ~Sends(worker, i, d) /\ ~Checks(admin, i, d)
          /\ \A i \in Instances : \A job \in admin[i] : job.id # d
      BY <1>1 DEF Inv, Tables, InHand, Rows, Status, Finished, Checks
    <2>2. ASSUME NEW i \in Instances, InsertDelivery(i) \/ (\E h \in Hooks : Trigger(i, h))
          PROVE  deliveries'[d] = deliveries[d]
      <3>1. d # NextId
        BY <1>1, <2>1 DEF Inv, Tables, NextId
      <3> QED BY <2>1, <2>2, <3>1 DEF InsertDelivery, Trigger, WithRow, Rows
    <2>3. ASSUME NEW i \in Instances, Claim(i) PROVE deliveries'[d] = deliveries[d]
      BY <2>1, <2>3 DEF Claim, Claimable, Status
    <2>4. ASSUME NEW i \in Instances, Record(i) PROVE deliveries'[d] = deliveries[d]
      BY <2>1, <2>4 DEF Record, Recorded, Jobs, Sends
    <2>5. ASSUME NEW i \in Instances, RecordManual(i) PROVE deliveries'[d] = deliveries[d]
      BY <2>1, <2>5 DEF RecordManual, Recorded
    <2>6. ASSUME NEW h \in Hooks, NEW i \in Instances, RemoveHook(i, h)
          PROVE  deliveries'[d] = deliveries[d]
      BY <1>1, <2>6 DEF RemoveHook, Rows
    <2>7. ASSUME NEW e \in Rows, Wait(e) PROVE deliveries'[d] = deliveries[d]
      BY <2>1, <2>7 DEF Wait, Status
    <2>8. ASSUME NEW old, NEW stuck, Maintain(old, stuck) PROVE deliveries'[d] = deliveries[d]
      BY <1>1, <2>1, <2>8 DEF Maintain, Interrupted, Rows, Status
    <2>9. ASSUME NEW i \in Instances,
                 \/ Load(i) \/ Loaded(i) \/ Enqueue(i) \/ ReadDue(i) \/ Send(i)
                 \/ AbandonBatch(i) \/ Crash(i) \/ SetEnabled(i)
                 \/ \E h \in Hooks, state \in {"off", "on"} : SaveHook(i, h, state)
                 \/ \E e \in Rows : Redeliver(i, e)
          PROVE  deliveries'[d] = deliveries[d]
      BY <2>9 DEF Load, Loaded, Enqueue, ReadDue, Send, AbandonBatch, Crash, SetEnabled,
                  SaveHook, Redeliver
    <2> QED BY <1>1, <2>2, <2>3, <2>4, <2>5, <2>6, <2>7, <2>8, <2>9 DEF Next
  <1>2. Inv /\ [Next]_vars => [Final]_vars
    BY <1>1
  <1> QED BY <1>2, Invariance, PTL DEF Spec, FinishedStaysFinished
=============================================================================
