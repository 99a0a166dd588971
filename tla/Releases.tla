----------------------------- MODULE Releases -----------------------------
(***************************************************************************)
(* Releases (crates/verdin-api/src/releases.rs and releases_admin.rs):     *)
(* entries published or unpublished together, when an admin says so or at  *)
(* a date, by several instances on one database.                           *)
(*                                                                         *)
(* Each statement outside a transaction is an action of its own.  On each  *)
(* instance one release runs at a time (the `running` mutex); the worker   *)
(* runs the releases it found due, one by one, and an admin's request to   *)
(* publish one waits for the mutex like the worker does.  The routes check *)
(* that a release is pending in a statement before the one that changes    *)
(* it, so `request` holds an admin's request between the two.             *)
(*                                                                         *)
(* What an action does to its entry is the Document Service's business: it *)
(* succeeds or fails.  Dates are reduced to whether they have come.        *)
(***************************************************************************)
EXTENDS Integers, FiniteSets, Sequences

CONSTANTS
    Instances,
    Serving,      \* the instances the admins' requests reach
    Rels,         \* release ids
    Entries,      \* (content type, document, locale)
    Filled,       \* bounds: the releases that get actions,
    MaxActions,   \*   actions added to them,
    MaxUpsets     \*   reschedulings, deletions, feature switches,
                  \*   crashes and database errors, together

ASSUME ReleasesAssumption ==
    /\ {MaxActions, MaxUpsets} \subseteq Nat
    /\ Serving \subseteq Instances /\ Rels \subseteq Nat /\ Filled \subseteq Rels
    /\ IsFiniteSet(Instances) /\ IsFiniteSet(Rels) /\ IsFiniteSet(Entries)

VARIABLES
    releases,  \* vd_releases
    actions,   \* vd_release_actions, a set
    outcome,   \* per action id: what came of it; its indices are the ids used
    enabled,   \* per instance: the releases feature switch
    due,       \* per instance: releases its worker found due and has yet to run
    run,       \* per instance: {} or {the release being run}, the `running` mutex
    request,   \* per instance: {} or {the admin's request that passed its check}
    taken,     \* per release: ids of the actions its run found
    announced, \* releases for which releases.publish was raised
    upsets     \* how much of MaxUpsets is used

vars == <<releases, actions, outcome, enabled, due, run, request, taken,
          announced, upsets>>

Statuses == {"absent", "pending", "running", "done", "failed"}
Dates    == {"future", "come"}   \* no date is one that never comes
Release  == [status: Statuses, date: Dates]
Outcomes == {"none", "ok", "error"}
Action   == [id: Nat \ {0}, release: Rels, entry: Entries,
             status: {"pending", "done", "failed"}]
Request  == [kind: {"add", "remove", "publish"}, release: Rels]
\* `todo`: ids of the actions left; `performed`: the first of them is done but not yet
\* recorded; `ended`: the release is marked done or failed but not announced.
Run      == [release: Rels, todo: Seq(Nat), performed: BOOLEAN, failures: Nat,
             ended: BOOLEAN, due: BOOLEAN]

Init ==
    /\ releases = [r \in Rels |-> [status |-> "absent", date |-> "future"]]
    /\ actions = {} /\ outcome = <<>>
    /\ enabled = [i \in Instances |-> TRUE]
    /\ due = [i \in Instances |-> {}]
    /\ run = due /\ request = due
    /\ taken = [r \in Rels |-> {}]
    /\ announced = {}
    /\ upsets = 0

Upset == upsets < MaxUpsets /\ upsets' = upsets + 1

Exists(r)    == releases[r].status # "absent"
Unused(r)    == releases[r] = [status |-> "absent", date |-> "future"]
Pending(r)   == releases[r].status = "pending"
ActionsOf(r) == {a \in actions : a.release = r}

-----------------------------------------------------------------------------
(* The admin's routes. *)

\* Ids are handed out in order, and once: a deleted release does not come back.
Create(r, date) ==
    /\ \A s \in Rels : s < r => ~Unused(s)
    /\ Unused(r)
    /\ releases' = [releases EXCEPT ![r] = [status |-> "pending", date |-> date]]
    /\ UNCHANGED <<actions, outcome, enabled, due, run, request, taken, announced, upsets>>

\* UPDATE ... WHERE id = ? AND status = 'pending'
Reschedule(r, date) ==
    /\ Pending(r) /\ releases[r].date # date
    /\ releases' = [releases EXCEPT ![r].date = date]
    /\ Upset
    /\ UNCHANGED <<actions, outcome, enabled, due, run, request, taken, announced>>

\* A release is deleted with its actions, whatever its status.
Delete(r) ==
    /\ Exists(r)
    /\ releases' = [releases EXCEPT ![r] = [status |-> "absent", date |-> "come"]]
    /\ actions' = actions \ ActionsOf(r)
    /\ Upset
    /\ UNCHANGED <<outcome, enabled, due, run, request, taken, announced>>

\* `pending(releases, id)`: the release is pending when the request is checked.
Check(i, kind, r) ==
    /\ request[i] = {} /\ Pending(r)
    /\ request' = [request EXCEPT ![i] = {[kind |-> kind, release |-> r]}]
    /\ UNCHANGED <<releases, actions, outcome, enabled, due, run, taken, announced, upsets>>

CheckAdd(i, r) ==
    /\ Len(outcome) + Cardinality({j \in Instances : \E q \in request[j] : q.kind = "add"})
         < MaxActions
    /\ Check(i, "add", r)
CheckRemove(i, r)  == Check(i, "remove", r)
CheckPublish(i, r) == Check(i, "publish", r)

\* add_action replaces the action on the entry, in one transaction.  Its foreign key
\* refuses a release that is gone.
Replaced(r, e) == {a \in actions : a.release = r /\ a.entry = e}
AddAction(i) ==
    /\ \E q \in request[i], e \in Entries :
        /\ q.kind = "add"
        /\ IF Exists(q.release)
           THEN /\ actions' = (actions \ Replaced(q.release, e))
                                \cup {[id |-> Len(outcome) + 1, release |-> q.release,
                                       entry |-> e, status |-> "pending"]}
                /\ outcome' = Append(outcome, "none")
           ELSE UNCHANGED <<actions, outcome>>
    /\ request' = [request EXCEPT ![i] = {}]
    /\ UNCHANGED <<releases, enabled, due, run, taken, announced, upsets>>

\* DELETE ... WHERE release_id = ? AND id = ?; the id may be one that is gone.
RemoveAction(i) ==
    /\ \E q \in request[i], id \in 1 .. MaxActions :
        /\ q.kind = "remove"
        /\ actions' = {a \in actions : a.id # id \/ a.release # q.release}
    /\ request' = [request EXCEPT ![i] = {}]
    /\ UNCHANGED <<releases, outcome, enabled, due, run, taken, announced, upsets>>

Switch(i) ==
    /\ enabled' = [enabled EXCEPT ![i] = ~@]
    /\ Upset
    /\ UNCHANGED <<releases, actions, outcome, due, run, request, taken, announced>>

\* A date is only looked at while its release is pending.
DateComes(r) ==
    /\ Pending(r) /\ releases[r].date = "future"
    /\ releases' = [releases EXCEPT ![r].date = "come"]
    /\ UNCHANGED <<actions, outcome, enabled, due, run, request, taken, announced, upsets>>

-----------------------------------------------------------------------------
(* Running a release. *)

\* Mutant of Claimable: the claim without its AND status = 'pending'.
ClaimableTwice(r) == Exists(r)

\* UPDATE ... SET status = 'running' WHERE id = ? AND status = 'pending'
Claimable(r) == Pending(r)

\* The mutex is taken, the release claimed; a release that is no longer pending is
\* left alone.  The SELECT of the actions follows in TakeActions.
Claim(i, r, isDue) ==
    /\ run[i] = {}
    /\ IF Claimable(r)
       THEN /\ releases' = [releases EXCEPT ![r].status = "running"]
            /\ run' = [run EXCEPT ![i] =
                         {[release |-> r, todo |-> <<0>>, performed |-> FALSE,
                           failures |-> 0, ended |-> FALSE, due |-> isDue]}]
       ELSE UNCHANGED <<releases, run>>

RunAsked(i) ==
    /\ \E q \in request[i] : q.kind = "publish" /\ Claim(i, q.release, FALSE)
    /\ request' = [request EXCEPT ![i] = {}]
    /\ UNCHANGED <<actions, outcome, enabled, due, taken, announced, upsets>>

\* Mutant of FindDue: nothing is looked for while a release is running.
FindDueWhenIdle(i) ==
    /\ enabled[i] /\ due[i] = {} /\ \A r \in Rels : releases[r].status # "running"
    /\ due' = [due EXCEPT ![i] = {r \in Rels : Pending(r) /\ releases[r].date = "come"}]
    /\ UNCHANGED <<releases, actions, outcome, enabled, run, request, taken, announced, upsets>>

\* run_due: the pending releases whose date has come.
FindDue(i) ==
    /\ enabled[i] /\ due[i] = {} /\ \A R \in run[i] : ~R.due
    /\ due' = [due EXCEPT ![i] = {r \in Rels : Pending(r) /\ releases[r].date = "come"}]
    /\ UNCHANGED <<releases, actions, outcome, enabled, run, request, taken, announced, upsets>>

RunDue(i) ==
    /\ \E r \in due[i] :
        /\ Claim(i, r, TRUE)
        /\ due' = [due EXCEPT ![i] = @ \ {r}]
    /\ UNCHANGED <<actions, outcome, enabled, request, taken, announced, upsets>>

\* The ids in the order of the SELECT (ORDER BY id).
Orders(ids) ==
    {q \in [1 .. Cardinality(ids) -> ids] :
        /\ \A id \in ids : \E k \in DOMAIN q : q[k] = id
        /\ \A j, k \in DOMAIN q : j < k => q[j] < q[k]}

\* 0 stands for the SELECT of the actions.
TakeActions(i) ==
    /\ \E R \in run[i] :
        /\ R.todo = <<0>>
        /\ LET ids == {a.id : a \in ActionsOf(R.release)} IN
           /\ \E order \in Orders(ids) : run' = [run EXCEPT ![i] = {[R EXCEPT !.todo = order]}]
           /\ taken' = [taken EXCEPT ![R.release] = ids]
    /\ UNCHANGED <<releases, actions, outcome, enabled, due, request, announced, upsets>>

\* Mutant of Performed: only the last action counts.
PerformedLast(R, ok) == [R EXCEPT !.performed = TRUE, !.failures = IF ok THEN 0 ELSE 1]

Performed(R, ok) == [R EXCEPT !.performed = TRUE, !.failures = IF ok THEN @ ELSE @ + 1]

\* The Document Service publishes or unpublishes the entry, or refuses to.
Perform(i) ==
    /\ \E R \in run[i], ok \in BOOLEAN :
        /\ R.todo \notin {<<>>, <<0>>} /\ ~R.performed
        /\ outcome' = [outcome EXCEPT ![Head(R.todo)] = IF ok THEN "ok" ELSE "error"]
        /\ run' = [run EXCEPT ![i] = {Performed(R, ok)}]
    /\ UNCHANGED <<releases, actions, enabled, due, request, taken, announced, upsets>>

\* UPDATE vd_release_actions ... WHERE id = ?
Record(i) ==
    /\ \E R \in run[i] :
        /\ R.performed
        /\ actions' = {IF a.id # Head(R.todo) THEN a
                       ELSE [a EXCEPT !.status = IF outcome[a.id] = "ok" THEN "done" ELSE "failed"]
                       : a \in actions}
        /\ run' = [run EXCEPT ![i] = {[R EXCEPT !.performed = FALSE, !.todo = Tail(@)]}]
    /\ UNCHANGED <<releases, outcome, enabled, due, request, taken, announced, upsets>>

Finish(i) ==
    /\ \E R \in run[i] :
        /\ R.todo = <<>> /\ ~R.ended
        /\ releases' = IF Exists(R.release)
                       THEN [releases EXCEPT ![R.release].status =
                               IF R.failures = 0 THEN "done" ELSE "failed"]
                       ELSE releases
        /\ run' = [run EXCEPT ![i] = {[R EXCEPT !.ended = TRUE]}]
    /\ UNCHANGED <<actions, outcome, enabled, due, request, taken, announced, upsets>>

\* Mutant of Announce: the event is raised before the result is written.
AnnounceEarly(i) ==
    /\ \E R \in run[i] :
        /\ R.todo = <<>>
        /\ announced' = announced \cup {r \in {R.release} : Exists(r)}
    /\ run' = [run EXCEPT ![i] = {}]
    /\ UNCHANGED <<releases, actions, outcome, enabled, due, request, taken, upsets>>

\* The release is read again, and announced unless it was deleted.
Announce(i) ==
    /\ \E R \in run[i] :
        /\ R.ended
        /\ announced' = announced \cup {r \in {R.release} : Exists(r)}
    /\ run' = [run EXCEPT ![i] = {}]
    /\ UNCHANGED <<releases, actions, outcome, enabled, due, request, taken, upsets>>

\* A statement of `run` or `run_due` fails: `?` gives the mutex up and ends the worker's
\* round.  The release stays as it is.
RunFails(i) ==
    /\ run[i] # {}
    /\ run' = [run EXCEPT ![i] = {}]
    /\ due' = [due EXCEPT ![i] = IF \E R \in run[i] : R.due THEN {} ELSE @]
    /\ Upset
    /\ UNCHANGED <<releases, actions, outcome, enabled, request, taken, announced>>

Crash(i) ==
    /\ run' = [run EXCEPT ![i] = {}]
    /\ due' = [due EXCEPT ![i] = {}]
    /\ request' = [request EXCEPT ![i] = {}]
    /\ Upset
    /\ UNCHANGED <<releases, actions, outcome, enabled, taken, announced>>

Proceed(i) ==
    \/ RunAsked(i) \/ RunDue(i) \/ TakeActions(i) \/ Perform(i) \/ Record(i)
    \/ Finish(i) \/ Announce(i)

Next ==
    \/ \E r \in Rels :
        \/ \E date \in Dates : Create(r, date) \/ Reschedule(r, date)
        \/ Delete(r) \/ DateComes(r)
    \/ \E i \in Serving :
        \/ \E r \in Filled : CheckAdd(i, r) \/ CheckRemove(i, r)
        \/ \E r \in Rels : CheckPublish(i, r)
    \/ \E i \in Instances :
        \/ AddAction(i) \/ RemoveAction(i) \/ Switch(i) \/ FindDue(i) \/ Proceed(i)
        \/ RunFails(i) \/ Crash(i)

\* The worker looks every 30 s, and what runs goes on.
Fairness == \A i \in Instances : WF_vars(FindDue(i)) /\ WF_vars(Proceed(i))

Spec == Init /\ [][Next]_vars /\ Fairness
-----------------------------------------------------------------------------
\* The rows keep their types, a release has at most one action on an entry, and there
\* are no actions of releases that are gone.
TypeOK ==
    /\ releases \in [Rels -> Release]
    /\ actions \subseteq Action
    /\ outcome \in Seq(Outcomes)
    /\ enabled \in [Instances -> BOOLEAN]
    /\ due \in [Instances -> SUBSET Rels]
    /\ run \in [Instances -> SUBSET Run]
    /\ request \in [Instances -> SUBSET Request]
    /\ taken \in [Rels -> SUBSET (Nat \ {0})]
    /\ announced \subseteq Rels
    /\ upsets \in Nat
    /\ \A a, b \in actions : a.id = b.id \/ (a.release = b.release /\ a.entry = b.entry) => a = b
    /\ \A a \in actions : a.id \in DOMAIN outcome /\ Exists(a.release)

\* Scaling: "Claimed in the database before they run, so each runs once": no two runs of
\* a release, and no action performed a second time, whoever asks and whatever fails.
RunsOnce ==
    /\ \A i, j \in Instances : \A R \in run[i], S \in run[j] :
           R.release = S.release => i = j
    /\ \A i \in Instances : \A R \in run[i] : \A k \in DOMAIN R.todo :
           R.todo[k] # 0 => (outcome[R.todo[k]] = "none" <=> (k > 1 \/ ~R.performed))

\* "When one fails, the other actions still run and the release ends as Failed": a
\* release that ended performed all it had taken, and says whether all went well; so
\* does each action that is still there.
EndsTruthfully ==
    /\ \A r \in Rels : releases[r].status \in {"done", "failed"} =>
        /\ \A id \in taken[r] : outcome[id] # "none"
        /\ releases[r].status = "done" <=> \A id \in taken[r] : outcome[id] = "ok"
    /\ \A a \in actions :
        /\ a.status = "done" => outcome[a.id] = "ok"
        /\ a.status = "failed" => outcome[a.id] = "error"

\* A release is announced only once it ended, and what was announced is not undone.
AnnouncedAfterwards ==
    [][\A r \in announced' \ announced : releases[r].status \in {"done", "failed"}]_vars

\* No release waits for ever once its date has come, as long as an instance has the
\* feature on: not when an instance crashed, nor when another release is stuck.
DueWaits(r) ==
    Pending(r) /\ releases[r].date = "come" /\ \E i \in Instances : enabled[i]
DueAreRun == []<>(\A r \in Rels : ~DueWaits(r))
=============================================================================
