--------------------------- MODULE ReleasesProofs ---------------------------
(***************************************************************************)
(* Theorems about Releases, for every number of instances, releases and    *)
(* entries and whatever the bounds.                                        *)
(*                                                                         *)
(* RunsOnce is not inductive: that no action is performed twice rests on   *)
(* who owns an action id.  Inv adds that a release nobody claimed has      *)
(* taken nothing and performed nothing, that the ids a release has taken   *)
(* are never those of another, and, for each run, how its list of ids      *)
(* relates to what was taken and to what came of it.                       *)
(***************************************************************************)
EXTENDS Releases, FiniteSetTheorems, TLAPS

\* A run is of a release that was claimed; one that has ended has nothing left.
Standing(R, rel) ==
    /\ rel.status # "pending"
    /\ rel # [status |-> "absent", date |-> "future"]
    /\ rel.status \in {"done", "failed"} => R.ended
    /\ R.ended => R.todo = <<>> /\ rel.status # "running"

\* Before its SELECT a run has taken nothing, and nothing of its release is done.
Untaken(R, ids, rows, out) ==
    R.todo = <<0>> =>
        /\ ids = {} /\ ~R.performed /\ R.failures = 0 /\ ~R.ended
        /\ \A a \in rows : out[a.id] = "none"

\* Afterwards it is through with the ids it has taken but those on its list, and
\* has counted the failures.
Underway(R, ids, out) ==
    R.todo # <<0>> =>
        /\ \A k \in DOMAIN R.todo : R.todo[k] \in ids
        /\ \A j, k \in DOMAIN R.todo : R.todo[j] = R.todo[k] => j = k
        /\ R.performed => R.todo # <<>>
        /\ \A k \in DOMAIN R.todo : out[R.todo[k]] = "none" <=> (k > 1 \/ ~R.performed)
        /\ \A id \in ids : out[id] = "none" => \E k \in DOMAIN R.todo : R.todo[k] = id
        /\ R.failures = 0 <=> \A id \in ids : out[id] # "error"

RunsOK ==
    \A i \in Instances : \A R \in run[i] :
        /\ Standing(R, releases[R.release])
        /\ Untaken(R, taken[R.release], ActionsOf(R.release), outcome)
        /\ Underway(R, taken[R.release], outcome)

Apart ==
    \A i, j \in Instances : \A R \in run[i], S \in run[j] :
        R.release = S.release => i = j

Owned ==
    /\ \A r \in Rels : taken[r] \subseteq DOMAIN outcome
    /\ \A r \in Rels : \A a \in actions : a.id \in taken[r] => a.release = r
    /\ \A r, s \in Rels : r # s => taken[r] \cap taken[s] = {}

Fresh ==
    \A r \in Rels : Pending(r) \/ Unused(r) =>
        /\ taken[r] = {}
        /\ \A a \in ActionsOf(r) : outcome[a.id] = "none"

Inv == TypeOK /\ Apart /\ Owned /\ Fresh /\ RunsOK /\ EndsTruthfully

-----------------------------------------------------------------------------
LEMMA InitInv == Init => Inv
  <1> SUFFICES ASSUME Init PROVE Inv
    OBVIOUS
  <1>1. TypeOK
    BY ReleasesAssumption DEF Init, TypeOK, Release, Statuses, Dates, Outcomes, Exists
  <1>2. Apart /\ Owned /\ RunsOK /\ EndsTruthfully
    BY DEF Init, Apart, Owned, RunsOK, EndsTruthfully
  <1>3. Fresh
    BY DEF Init, Fresh, Pending, Unused, ActionsOf
  <1> QED BY <1>1, <1>2, <1>3 DEF Inv

\* The requests' checks, the feature switch and the worker's look at the dates move
\* nothing that the runs go by.
LEMMA QuietKeeps ==
    ASSUME Inv, UNCHANGED <<releases, actions, outcome, run, taken>>,
           enabled' \in [Instances -> BOOLEAN], due' \in [Instances -> SUBSET Rels],
           request' \in [Instances -> SUBSET Request], announced' \subseteq Rels,
           upsets' \in Nat
    PROVE  Inv'
  <1>1. TypeOK'
    BY DEF Inv, TypeOK, Exists
  <1>2. Apart' /\ Owned' /\ EndsTruthfully'
    BY DEF Inv, Apart, Owned, EndsTruthfully
  <1>3. Fresh'
    BY DEF Inv, Fresh, Pending, Unused, ActionsOf
  <1>4. \A r : ActionsOf(r)' = ActionsOf(r)
    BY DEF ActionsOf
  <1>5. RunsOK'
    BY <1>4 DEF Inv, RunsOK
  <1> QED BY <1>1, <1>2, <1>3, <1>5 DEF Inv

\* So do the ways a run is given up.
LEMMA GivenUpKeeps ==
    ASSUME Inv, NEW i \in Instances, run' = [run EXCEPT ![i] = {}],
           UNCHANGED <<releases, actions, outcome, taken>>,
           UNCHANGED enabled, due' \in [Instances -> SUBSET Rels],
           request' \in [Instances -> SUBSET Request], announced' \subseteq Rels,
           upsets' \in Nat
    PROVE  Inv'
  <1>0. run \in [Instances -> SUBSET Run]
    BY DEF Inv, TypeOK
  <1>6. \A j \in Instances : run'[j] \subseteq run[j]
    BY <1>0
  <1>1. TypeOK'
    BY <1>0 DEF Inv, TypeOK, Exists
  <1>2. Apart' /\ Owned' /\ EndsTruthfully'
    BY <1>6 DEF Inv, Apart, Owned, EndsTruthfully
  <1>3. Fresh'
    BY DEF Inv, Fresh, Pending, Unused, ActionsOf
  <1>4. \A r : ActionsOf(r)' = ActionsOf(r)
    BY DEF ActionsOf
  <1>5. RunsOK'
    BY <1>6, <1>4 DEF Inv, RunsOK
  <1> QED BY <1>1, <1>2, <1>3, <1>5 DEF Inv

\* A release that is, or becomes, pending is not being run: nothing a run goes by moves.
LEMMA PendingRowKeeps ==
    ASSUME Inv, NEW r \in Rels, NEW rel \in Release, Pending(r) \/ Unused(r),
           rel.status = "pending", releases' = [releases EXCEPT ![r] = rel],
           UNCHANGED <<actions, outcome, enabled, due, run, request, taken, announced>>,
           upsets' \in Nat
    PROVE  Inv'
  <1>1. TypeOK'
    BY DEF Inv, TypeOK, Exists
  <1>2. Apart' /\ Owned'
    BY DEF Inv, Apart, Owned
  <1>3. Fresh'
    BY DEF Inv, TypeOK, Fresh, Pending, Unused, ActionsOf
  <1>4. \A i \in Instances : \A R \in run[i] :
           R.release \in Rels /\ releases'[R.release] = releases[R.release]
    BY DEF Inv, TypeOK, Run, RunsOK, Standing, Pending, Unused
  <1>5. \A q : ActionsOf(q)' = ActionsOf(q)
    BY DEF ActionsOf
  <1>6. RunsOK'
    BY <1>4, <1>5 DEF Inv, RunsOK
  <1>7. EndsTruthfully'
    BY DEF Inv, TypeOK, EndsTruthfully
  <1> QED BY <1>1, <1>2, <1>3, <1>6, <1>7 DEF Inv

LEMMA CreateKeeps ==
    ASSUME Inv, NEW r \in Rels, NEW date \in Dates, Create(r, date)
    PROVE  Inv'
  BY PendingRowKeeps DEF Inv, TypeOK, Create, Release, Statuses, Dates

LEMMA RescheduleKeeps ==
    ASSUME Inv, NEW r \in Rels, NEW date \in Dates, Reschedule(r, date)
    PROVE  Inv'
  <1> DEFINE rel == [releases[r] EXCEPT !.date = date]
  <1>1. rel \in Release /\ rel.status = "pending" /\ upsets' \in Nat
    BY DEF Inv, TypeOK, Reschedule, Release, Pending, Upset
  <1>2. releases' = [releases EXCEPT ![r] = rel]
    BY DEF Reschedule
  <1> QED BY <1>1, <1>2, PendingRowKeeps DEF Reschedule

LEMMA DateComesKeeps ==
    ASSUME Inv, NEW r \in Rels, DateComes(r)
    PROVE  Inv'
  <1> DEFINE rel == [releases[r] EXCEPT !.date = "come"]
  <1>1. rel \in Release /\ rel.status = "pending" /\ upsets' \in Nat
    BY DEF Inv, TypeOK, DateComes, Release, Dates, Pending
  <1>2. releases' = [releases EXCEPT ![r] = rel]
    BY DEF DateComes
  <1> QED BY <1>1, <1>2, PendingRowKeeps DEF DateComes

\* A deleted release keeps what its run took, but no action of it is left.
LEMMA DeleteKeeps ==
    ASSUME Inv, NEW r \in Rels, Delete(r)
    PROVE  Inv'
  <1> DEFINE rel == [status |-> "absent", date |-> "come"]
  <1>0. /\ releases' = [releases EXCEPT ![r] = rel]
        /\ actions' = actions \ ActionsOf(r)
        /\ UNCHANGED <<outcome, enabled, due, run, request, taken, announced>>
        /\ upsets' \in Nat
    BY DEF Delete, Upset, Inv, TypeOK
  <1>1. TypeOK'
    <2>1. releases' \in [Rels -> Release]
      BY <1>0 DEF Inv, TypeOK, Release, Statuses, Dates
    <2>2. \A a \in actions' : a \in actions /\ a.release # r
      BY <1>0 DEF ActionsOf
    <2>3. \A a \in actions' : a.release \in Rels
      BY <2>2 DEF Inv, TypeOK, Action
    <2>4. \A a \in actions' : Exists(a.release)'
      BY <1>0, <2>2, <2>3 DEF Inv, TypeOK, Exists
    <2> QED BY <1>0, <2>1, <2>2, <2>4 DEF Inv, TypeOK
  <1>2. Apart' /\ Owned'
    BY <1>0 DEF Inv, Apart, Owned
  <1>3. Fresh'
    BY <1>0 DEF Inv, TypeOK, Fresh, Pending, Unused, ActionsOf
  <1>4. RunsOK'
    <2>1. ASSUME NEW i \in Instances, NEW R \in run[i]
          PROVE  /\ R.release \in Rels
                 /\ Standing(R, releases[R.release])
                 /\ Untaken(R, taken[R.release], ActionsOf(R.release), outcome)
                 /\ Underway(R, taken[R.release], outcome)
      BY DEF Inv, TypeOK, Run, RunsOK
    <2>2. ASSUME NEW i \in Instances, NEW R \in run[i]
          PROVE  Standing(R, releases'[R.release])
      BY <1>0, <2>1, <2>2 DEF Standing, Inv, TypeOK
    <2>3. ASSUME NEW i \in Instances, NEW R \in run[i]
          PROVE  Untaken(R, taken[R.release], ActionsOf(R.release)', outcome)
      BY <1>0, <2>1, <2>3 DEF Untaken, ActionsOf
    <2> QED BY <1>0, <2>1, <2>2, <2>3 DEF RunsOK
  <1>5. EndsTruthfully'
    BY <1>0 DEF Inv, TypeOK, EndsTruthfully
  <1> QED BY <1>1, <1>2, <1>3, <1>4, <1>5 DEF Inv

-----------------------------------------------------------------------------
\* A new action has an id nobody took, and nothing came of it yet.
LEMMA AddActionKeeps ==
    ASSUME Inv, NEW i \in Instances, AddAction(i)
    PROVE  Inv'
  <1>0. PICK q \in request[i], e \in Entries : AddAction(i)!1!(q, e)
    BY DEF AddAction
  <1>1. /\ UNCHANGED <<releases, enabled, due, run, taken, announced, upsets>>
        /\ request' \in [Instances -> SUBSET Request]
        /\ q.release \in Rels
    BY DEF AddAction, Inv, TypeOK, Request
  <1>2. CASE ~Exists(q.release)
    BY <1>0, <1>1, <1>2, QuietKeeps DEF Inv, TypeOK
  <1>3. CASE Exists(q.release)
    <2> DEFINE n == Len(outcome) + 1
               new == [id |-> n, release |-> q.release, entry |-> e, status |-> "pending"]
    <2>1. /\ actions' = (actions \ Replaced(q.release, e)) \cup {new}
          /\ outcome' = Append(outcome, "none")
      BY <1>0, <1>3
    <2>2. /\ outcome' \in Seq(Outcomes)
          /\ n \in Nat \ {0} /\ n \notin DOMAIN outcome
          /\ DOMAIN outcome' = DOMAIN outcome \cup {n}
          /\ outcome'[n] = "none"
          /\ \A k \in DOMAIN outcome : outcome'[k] = outcome[k]
      BY <2>1 DEF Inv, TypeOK, Outcomes
    <2>3. new \in Action /\ new.id = n /\ new.release = q.release /\ new.entry = e
            /\ new.status = "pending"
      BY <1>1, <2>2 DEF Action
    <2> HIDE DEF n, new
    <2>4. \A a \in actions' : a = new \/ (a \in actions /\ a \notin Replaced(q.release, e))
      BY <2>1
    <2>5. \A a \in actions : a.id \in DOMAIN outcome /\ a.id # n
      BY <2>2 DEF Inv, TypeOK
    <2>6. TypeOK'
      <3>1. \A a, b \in actions' :
               a.id = b.id \/ (a.release = b.release /\ a.entry = b.entry) => a = b
        BY <2>3, <2>4, <2>5 DEF Inv, TypeOK, Replaced
      <3>2. \A a \in actions' : a.id \in DOMAIN outcome' /\ Exists(a.release)'
        BY <1>1, <1>3, <2>2, <2>3, <2>4 DEF Inv, TypeOK, Exists
      <3> QED BY <1>1, <2>1, <2>2, <2>3, <3>1, <3>2 DEF Inv, TypeOK
    <2>7. Apart'
      BY <1>1 DEF Inv, Apart
    <2>8. Owned'
      BY <1>1, <2>2, <2>3, <2>4 DEF Inv, Owned
    <2>9. \A r : \A a \in ActionsOf(r)' : a = new \/ a \in ActionsOf(r)
      BY <2>4 DEF ActionsOf
    <2>10. Fresh'
      BY <1>1, <2>2, <2>3, <2>5, <2>9 DEF Inv, Fresh, Pending, Unused, ActionsOf
    <2>11. RunsOK'
      <3> SUFFICES ASSUME NEW j \in Instances, NEW R \in run[j]
                   PROVE  /\ Standing(R, releases[R.release])
                          /\ Untaken(R, taken[R.release], ActionsOf(R.release)', outcome')
                          /\ Underway(R, taken[R.release], outcome')
        BY <1>1 DEF RunsOK
      <3>1. /\ R.release \in Rels
            /\ Standing(R, releases[R.release])
            /\ Untaken(R, taken[R.release], ActionsOf(R.release), outcome)
            /\ Underway(R, taken[R.release], outcome)
        BY DEF Inv, TypeOK, Run, RunsOK
      <3>2. Untaken(R, taken[R.release], ActionsOf(R.release)', outcome')
        BY <2>2, <2>3, <2>5, <2>9, <3>1 DEF Untaken, ActionsOf
      <3>3. \A id \in taken[R.release] : outcome'[id] = outcome[id]
        BY <2>2, <3>1 DEF Inv, Owned
      <3>4. Underway(R, taken[R.release], outcome')
        BY <3>1, <3>3 DEF Underway
      <3> QED BY <3>1, <3>2, <3>4
    <2>12. EndsTruthfully'
      <3>1. \A r \in Rels : \A id \in taken[r] : outcome'[id] = outcome[id]
        BY <2>2 DEF Inv, Owned
      <3>2. \A a \in actions' :
               /\ a.status = "done" => outcome'[a.id] = "ok"
               /\ a.status = "failed" => outcome'[a.id] = "error"
        BY <2>2, <2>3, <2>4, <2>5 DEF Inv, EndsTruthfully
      <3> QED BY <1>1, <3>1, <3>2 DEF Inv, EndsTruthfully
    <2> QED BY <2>6, <2>7, <2>8, <2>10, <2>11, <2>12 DEF Inv
  <1> QED BY <1>2, <1>3

LEMMA RemoveActionKeeps ==
    ASSUME Inv, NEW i \in Instances, RemoveAction(i)
    PROVE  Inv'
  <1>0. /\ actions' \subseteq actions
        /\ UNCHANGED <<releases, outcome, enabled, due, run, taken, announced, upsets>>
        /\ request' \in [Instances -> SUBSET Request]
    BY DEF RemoveAction, Inv, TypeOK
  <1>1. TypeOK'
    BY <1>0 DEF Inv, TypeOK, Exists
  <1>2. Apart' /\ Owned'
    BY <1>0 DEF Inv, Apart, Owned
  <1>3. \A r : ActionsOf(r)' \subseteq ActionsOf(r)
    BY <1>0 DEF ActionsOf
  <1>4. Fresh'
    BY <1>0, <1>3 DEF Inv, Fresh, Pending, Unused
  <1>5. RunsOK'
    BY <1>0, <1>3 DEF Inv, RunsOK, Untaken
  <1>6. EndsTruthfully'
    BY <1>0 DEF Inv, EndsTruthfully
  <1> QED BY <1>1, <1>2, <1>4, <1>5, <1>6 DEF Inv

-----------------------------------------------------------------------------
\* A claim makes the release that of one instance: nobody was running it.
LEMMA ClaimKeeps ==
    ASSUME Inv, NEW i \in Instances, NEW r \in Rels, NEW isDue \in BOOLEAN,
           Claim(i, r, isDue),
           UNCHANGED <<actions, outcome, enabled, taken, announced, upsets>>,
           due' \in [Instances -> SUBSET Rels], request' \in [Instances -> SUBSET Request]
    PROVE  Inv'
  <1>1. CASE ~Pending(r)
    BY <1>1, QuietKeeps DEF Claim, Claimable, Inv, TypeOK
  <1>2. CASE Pending(r)
    <2> DEFINE new == [release |-> r, todo |-> <<0>>, performed |-> FALSE,
                       failures |-> 0, ended |-> FALSE, due |-> isDue]
    <2>1. /\ run[i] = {}
          /\ releases' = [releases EXCEPT ![r].status = "running"]
          /\ run' = [run EXCEPT ![i] = {new}]
      BY <1>2 DEF Claim, Claimable
    <2>2. /\ new \in Run /\ new.release = r /\ new.todo = <<0>> /\ ~new.performed
          /\ new.failures = 0 /\ ~new.ended
      BY DEF Run
    <2> HIDE DEF new
    <2>3. /\ run'[i] = {new}
          /\ \A j \in Instances : j # i => run'[j] = run[j]
      BY <2>1 DEF Inv, TypeOK
    <2>4. /\ releases' \in [Rels -> Release]
          /\ releases'[r].status = "running"
          /\ \A s \in Rels : s # r => releases'[s] = releases[s]
      BY <2>1 DEF Inv, TypeOK, Release, Statuses
    <2>5. \A j \in Instances : \A R \in run[j] : R.release \in Rels /\ R.release # r
      BY <1>2 DEF Inv, TypeOK, Run, RunsOK, Standing, Pending
    <2>6. TypeOK'
      BY <1>2, <2>1, <2>2, <2>4 DEF Inv, TypeOK, Exists, Pending
    <2>7. Apart'
      BY <2>2, <2>3, <2>5 DEF Inv, Apart
    <2>8. Owned'
      BY DEF Inv, Owned
    <2>9. \A q : ActionsOf(q)' = ActionsOf(q)
      BY DEF ActionsOf
    <2>10. Fresh'
      BY <2>4, <2>9 DEF Inv, Fresh, Pending, Unused
    <2>11. RunsOK'
      <3>1. ASSUME NEW j \in Instances, NEW R \in run'[j], j # i
            PROVE  /\ Standing(R, releases'[R.release])
                   /\ Untaken(R, taken[R.release], ActionsOf(R.release), outcome)
                   /\ Underway(R, taken[R.release], outcome)
        BY <2>3, <2>4, <2>5, <3>1 DEF Inv, RunsOK
      <3>2. Standing(new, releases'[new.release])
        BY <2>2, <2>4 DEF Standing
      <3>3. Untaken(new, taken[r], ActionsOf(r), outcome) /\ Underway(new, taken[r], outcome)
        BY <1>2, <2>2 DEF Untaken, Underway, Inv, Fresh
      <3> QED BY <2>2, <2>3, <2>9, <3>1, <3>2, <3>3 DEF RunsOK
    <2>12. EndsTruthfully'
      BY <2>4 DEF Inv, EndsTruthfully
    <2> QED BY <2>6, <2>7, <2>8, <2>10, <2>11, <2>12 DEF Inv
  <1> QED BY <1>1, <1>2

-----------------------------------------------------------------------------
\* The list of a run names each of its ids once.
LEMMA OrderLists ==
    ASSUME NEW n \in Nat, NEW ids \in SUBSET (1 .. n), NEW q \in Orders(ids)
    PROVE  /\ q \in Seq(Nat)
           /\ \A k \in DOMAIN q : q[k] \in ids
           /\ \A j, k \in DOMAIN q : q[j] = q[k] => j = k
           /\ \A id \in ids : \E k \in DOMAIN q : q[k] = id
  <1>1. IsFiniteSet(ids)
    BY FS_Interval, FS_Subset, 1 \in Int, n \in Int
  <1>2. Cardinality(ids) \in Nat
    BY <1>1, FS_CardinalityType
  <1> DEFINE m == Cardinality(ids)
  <1>m. m \in Nat /\ ids \subseteq Nat
    BY <1>2
  <1> HIDE DEF m
  <1>3. /\ q \in [1 .. m -> ids]
        /\ \A id \in ids : \E k \in DOMAIN q : q[k] = id
        /\ \A j, k \in DOMAIN q : j < k => q[j] < q[k]
    BY DEF Orders, m
  <1>4. q \in [1 .. m -> Nat] /\ q \in Seq(Nat)
    <2>1. DOMAIN q = 1 .. m /\ q = [k \in 1 .. m |-> q[k]]
      BY <1>3
    <2>2. \A k \in 1 .. m : q[k] \in Nat
      BY <1>m, <1>3
    <2>3. q \in [1 .. m -> Nat]
      BY <2>1, <2>2
    <2> QED BY <1>m, <2>3
  <1>5. \A j, k \in 1 .. m : q[j] = q[k] => j = k
    <2>1. \A j \in 1 .. m : q[j] \in Nat /\ j \in Int
      BY <1>m, <1>4
    <2>2. \A j, k \in 1 .. m : j < k => q[j] < q[k]
      BY <1>3
    <2> QED BY <2>1, <2>2
  <1> QED BY <1>3, <1>4, <1>5

\* What a step of a run leaves to show: the run of instance i moves on, those of
\* the others are of other releases.
LEMMA OneRunMoves ==
    ASSUME Inv, NEW i \in Instances, NEW R \in run[i], NEW S \in Run,
           S.release = R.release, run' = [run EXCEPT ![i] = {S}]
    PROVE  /\ R \in Run /\ R.release \in Rels
           /\ Standing(R, releases[R.release])
           /\ Untaken(R, taken[R.release], ActionsOf(R.release), outcome)
           /\ Underway(R, taken[R.release], outcome)
           /\ run' \in [Instances -> SUBSET Run]
           /\ run'[i] = {S}
           /\ \A j \in Instances : j # i => run'[j] = run[j]
           /\ \A j \in Instances : j # i => \A T \in run[j] :
                T.release \in Rels /\ T.release # R.release
           /\ Apart'
  <1>1. R \in Run /\ R.release \in Rels
    BY DEF Inv, TypeOK, Run
  <1>2. /\ Standing(R, releases[R.release])
        /\ Untaken(R, taken[R.release], ActionsOf(R.release), outcome)
        /\ Underway(R, taken[R.release], outcome)
    BY DEF Inv, RunsOK
  <1>3. /\ run' \in [Instances -> SUBSET Run]
        /\ run'[i] = {S}
        /\ \A j \in Instances : j # i => run'[j] = run[j]
    BY DEF Inv, TypeOK
  <1>4. \A j \in Instances : j # i => \A T \in run[j] :
           T.release \in Rels /\ T.release # R.release
    BY DEF Inv, TypeOK, Run, Apart
  <1>5. Apart'
    BY <1>3, <1>4 DEF Inv, Apart
  <1> QED BY <1>1, <1>2, <1>3, <1>4, <1>5

\* The SELECT: the ids become the release's, and none of them was performed.
LEMMA TakeActionsKeeps ==
    ASSUME Inv, NEW i \in Instances, TakeActions(i)
    PROVE  Inv'
  <1>a. PICK R \in run[i] : TakeActions(i)!1!(R)
    BY DEF TakeActions
  <1> DEFINE r == R.release
             ids == {a.id : a \in ActionsOf(r)}
  <1>b. PICK order \in Orders(ids) : run' = [run EXCEPT ![i] = {[R EXCEPT !.todo = order]}]
    BY <1>a
  <1> DEFINE S == [R EXCEPT !.todo = order]
  <1>1. R \in Run /\ R.todo = <<0>> /\ taken' = [taken EXCEPT ![r] = ids]
    BY <1>a DEF Inv, TypeOK
  <1>2. UNCHANGED <<releases, actions, outcome, enabled, due, request, announced, upsets>>
    BY DEF TakeActions
  <1>3. /\ ids \in SUBSET (1 .. Len(outcome)) /\ Len(outcome) \in Nat
        /\ DOMAIN outcome = 1 .. Len(outcome)
        /\ ids \subseteq Nat \ {0}
        /\ \A a \in actions : a.id \in ids => a.release = r
    BY DEF Inv, TypeOK, ActionsOf
  <1>4. /\ order \in Seq(Nat)
        /\ \A k \in DOMAIN order : order[k] \in ids
        /\ \A j, k \in DOMAIN order : order[j] = order[k] => j = k
        /\ \A id \in ids : \E k \in DOMAIN order : order[k] = id
    <2> DEFINE n == Len(outcome)
    <2>1. n \in Nat /\ ids \in SUBSET (1 .. n)
      BY <1>3
    <2> HIDE DEF n, ids
    <2> QED BY <2>1, OrderLists
  <1>5. /\ S \in Run /\ S.release = r /\ S.todo = order /\ S.performed = R.performed
        /\ S.failures = R.failures /\ S.ended = R.ended
    BY <1>1, <1>4 DEF Run
  <1>6. run' = [run EXCEPT ![i] = {S}]
    BY <1>b
  <1> HIDE DEF S, ids
  <1>7. /\ r \in Rels
        /\ Standing(R, releases[r])
        /\ Untaken(R, taken[r], ActionsOf(r), outcome)
        /\ run' \in [Instances -> SUBSET Run]
        /\ run'[i] = {S}
        /\ \A j \in Instances : j # i => run'[j] = run[j]
        /\ \A j \in Instances : j # i => \A T \in run[j] : T.release \in Rels /\ T.release # r
        /\ Apart'
    <2>1. S \in Run /\ S.release = R.release
      BY <1>5
    <2> QED BY <1>6, <2>1, OneRunMoves
  <1>8. /\ taken' \in [Rels -> SUBSET (Nat \ {0})] /\ taken'[r] = ids
        /\ \A s \in Rels : s # r => taken'[s] = taken[s]
    BY <1>1, <1>3, <1>7 DEF Inv, TypeOK
  <1>9. \A id \in ids : outcome[id] = "none"
    BY <1>1, <1>7 DEF Untaken, ids
  <1>10. TypeOK'
    BY <1>2, <1>7, <1>8 DEF Inv, TypeOK, Exists
  <1>11. Owned'
    <2>1. \A s \in Rels : s # r => taken[s] \cap ids = {}
      BY DEF Inv, Owned, ids, ActionsOf
    <2> QED BY <1>2, <1>3, <1>7, <1>8, <2>1 DEF Inv, Owned
  <1>12. \A q : ActionsOf(q)' = ActionsOf(q)
    BY <1>2 DEF ActionsOf
  <1>13. ~Pending(r) /\ ~Unused(r)
    BY <1>7 DEF Standing, Pending, Unused
  <1>14. Fresh'
    BY <1>2, <1>8, <1>12, <1>13 DEF Inv, Fresh, Pending, Unused
  <1>15. RunsOK'
    <2>1. ASSUME NEW j \in Instances, NEW T \in run'[j], j # i
          PROVE  /\ Standing(T, releases[T.release])
                 /\ Untaken(T, taken'[T.release], ActionsOf(T.release), outcome)
                 /\ Underway(T, taken'[T.release], outcome)
      BY <1>7, <1>8, <2>1 DEF Inv, RunsOK
    <2>2. ~R.ended /\ ~R.performed /\ R.failures = 0
      BY <1>1, <1>7 DEF Untaken
    <2>3. Standing(S, releases[r])
      BY <1>5, <1>7, <2>2 DEF Standing
    <2>4. S.todo # <<0>>
      <3>1. S.todo = <<0>> => 1 \in DOMAIN order /\ order[1] = 0
        BY <1>5
      <3> QED BY <1>3, <1>4, <3>1
    <2>5. Untaken(S, ids, ActionsOf(r), outcome)
      BY <2>4 DEF Untaken
    <2>6. Underway(S, ids, outcome)
      BY <1>4, <1>5, <1>9, <2>2 DEF Underway
    <2> QED BY <1>2, <1>5, <1>7, <1>8, <1>12, <2>1, <2>3, <2>5, <2>6 DEF RunsOK
  <1>16. EndsTruthfully'
    <2>1. releases[r].status \notin {"done", "failed"}
      BY <1>1, <1>7 DEF Standing, Untaken
    <2> QED BY <1>2, <1>8, <2>1 DEF Inv, EndsTruthfully
  <1> QED BY <1>7, <1>10, <1>11, <1>14, <1>15, <1>16 DEF Inv

\* An action is performed: nothing came of it before, and it is of no other release.
LEMMA PerformKeeps ==
    ASSUME Inv, NEW i \in Instances, Perform(i)
    PROVE  Inv'
  <1>a. PICK R \in run[i], ok \in BOOLEAN : Perform(i)!1!(R, ok)
    BY DEF Perform
  <1> DEFINE r == R.release
             id == R.todo[1]
             o == IF ok THEN "ok" ELSE "error"
             S == Performed(R, ok)
  <1>1. UNCHANGED <<releases, actions, enabled, due, request, taken, announced, upsets>>
    BY DEF Perform
  <1>2. /\ R \in Run /\ R.todo \in Seq(Nat) /\ R.failures \in Nat
        /\ R.todo # <<>> /\ R.todo # <<0>> /\ ~R.performed
    <2>1. R \in Run
      BY DEF Inv, TypeOK
    <2>2. R.todo \in Seq(Nat) /\ R.failures \in Nat
      BY <2>1 DEF Run
    <2>3. R.todo # <<>> /\ R.todo # <<0>> /\ ~R.performed
      BY <1>a
    <2> QED BY <2>1, <2>2, <2>3
  <1>3. /\ S \in Run /\ S.release = r /\ S.todo = R.todo /\ S.performed
        /\ S.failures = (IF ok THEN R.failures ELSE R.failures + 1) /\ S.ended = R.ended
    <2> DEFINE f == IF ok THEN R.failures ELSE R.failures + 1
    <2>1. f \in Nat
      BY <1>2
    <2>2. S = [R EXCEPT !.performed = TRUE, !.failures = f]
      BY <1>2 DEF Performed, Run
    <2> HIDE DEF f
    <2> QED BY <1>2, <2>1, <2>2 DEF Run, f
  <1>4. 1 \in DOMAIN R.todo /\ outcome' = [outcome EXCEPT ![id] = o]
    BY <1>a, <1>2
  <1>5. o \in {"ok", "error"} /\ (o = "error" <=> ~ok)
    OBVIOUS
  <1>6. run' = [run EXCEPT ![i] = {S}]
    BY <1>a
  <1> HIDE DEF S, o
  <1>7. /\ r \in Rels
        /\ Standing(R, releases[r])
        /\ Underway(R, taken[r], outcome)
        /\ run' \in [Instances -> SUBSET Run]
        /\ run'[i] = {S}
        /\ \A j \in Instances : j # i => run'[j] = run[j]
        /\ \A j \in Instances : j # i => \A T \in run[j] : T.release \in Rels /\ T.release # r
        /\ Apart'
    <2>1. S \in Run /\ S.release = R.release
      BY <1>3
    <2> QED BY <1>6, <2>1, OneRunMoves
  <1>8. id \in taken[r] /\ id \in DOMAIN outcome /\ outcome[id] = "none"
    BY <1>2, <1>4, <1>7 DEF Underway, Inv, Owned
  <1>9. /\ outcome' \in Seq(Outcomes) /\ DOMAIN outcome' = DOMAIN outcome
        /\ outcome'[id] = o
        /\ \A k \in DOMAIN outcome : k # id => outcome'[k] = outcome[k]
    BY <1>4, <1>5, <1>8 DEF Inv, TypeOK, Outcomes
  <1> HIDE DEF id
  <1>10. \A s \in Rels : s # r => \A k \in taken[s] : outcome'[k] = outcome[k]
    BY <1>7, <1>8, <1>9 DEF Inv, Owned
  <1>11. \A a \in actions : a.release # r => outcome'[a.id] = outcome[a.id]
    BY <1>7, <1>8, <1>9 DEF Inv, Owned, TypeOK
  <1>12. \A q : ActionsOf(q)' = ActionsOf(q)
    BY <1>1 DEF ActionsOf
  <1>13. TypeOK'
    BY <1>1, <1>7, <1>9 DEF Inv, TypeOK, Exists
  <1>14. Owned'
    BY <1>1, <1>9 DEF Inv, Owned
  <1>15. Fresh'
    <2>1. ~Pending(r) /\ ~Unused(r)
      BY <1>7 DEF Standing, Pending, Unused
    <2>2. \A s \in Rels : s # r => \A a \in ActionsOf(s) : outcome'[a.id] = outcome[a.id]
      BY <1>11 DEF ActionsOf
    <2> QED BY <1>1, <1>12, <2>1, <2>2 DEF Inv, Fresh, Pending, Unused
  <1>16. RunsOK'
    <2>1. ASSUME NEW j \in Instances, NEW T \in run'[j], j # i
          PROVE  /\ Standing(T, releases[T.release])
                 /\ Untaken(T, taken[T.release], ActionsOf(T.release), outcome')
                 /\ Underway(T, taken[T.release], outcome')
      <3>1. /\ T.release \in Rels /\ T.release # r
            /\ Standing(T, releases[T.release])
            /\ Untaken(T, taken[T.release], ActionsOf(T.release), outcome)
            /\ Underway(T, taken[T.release], outcome)
        BY <1>7, <2>1 DEF Inv, RunsOK
      <3>2. \A a \in ActionsOf(T.release) : outcome'[a.id] = outcome[a.id]
        BY <1>11, <3>1 DEF ActionsOf
      <3>3. Untaken(T, taken[T.release], ActionsOf(T.release), outcome')
        BY <3>1, <3>2 DEF Untaken
      <3>4. Underway(T, taken[T.release], outcome')
        BY <1>10, <3>1 DEF Underway
      <3> QED BY <3>1, <3>3, <3>4
    <2>2. Standing(S, releases[r]) /\ Untaken(S, taken[r], ActionsOf(r), outcome')
      BY <1>2, <1>3, <1>7 DEF Standing, Untaken
    <2>3. Underway(S, taken[r], outcome')
      <3>1. \A k \in DOMAIN R.todo :
               /\ R.todo[k] \in taken[r] /\ R.todo[k] \in DOMAIN outcome
               /\ k # 1 => R.todo[k] # id /\ k > 1 /\ outcome[R.todo[k]] = "none"
        BY <1>2, <1>4, <1>7 DEF Underway, Inv, Owned, id
      <3>2. \A k \in DOMAIN R.todo : outcome'[R.todo[k]] = "none" <=> k > 1
        BY <1>5, <1>9, <3>1 DEF id
      <3>3. \A x \in taken[r] : x \in DOMAIN outcome
        BY <1>7 DEF Inv, Owned
      <3>4. \A x \in taken[r] : outcome'[x] = "none" => \E k \in DOMAIN R.todo : R.todo[k] = x
        BY <1>2, <1>5, <1>7, <1>9, <3>3 DEF Underway
      <3>5. S.failures = 0 <=> \A x \in taken[r] : outcome'[x] # "error"
        BY <1>2, <1>3, <1>5, <1>7, <1>8, <1>9, <3>3 DEF Underway
      <3> QED BY <1>2, <1>3, <1>7, <3>1, <3>2, <3>4, <3>5 DEF Underway
    <2> QED BY <1>1, <1>3, <1>7, <1>12, <2>1, <2>2, <2>3 DEF RunsOK
  <1>17. EndsTruthfully'
    <2>1. releases[r].status \notin {"done", "failed"}
      BY <1>2, <1>7 DEF Standing
    <2>2. \A a \in actions :
             /\ a.status = "done" => outcome'[a.id] = "ok"
             /\ a.status = "failed" => outcome'[a.id] = "error"
      BY <1>8, <1>9 DEF Inv, EndsTruthfully, TypeOK
    <2> QED BY <1>1, <1>10, <2>1, <2>2 DEF Inv, EndsTruthfully
  <1> QED BY <1>7, <1>13, <1>14, <1>15, <1>16, <1>17 DEF Inv

\* What came of an action is written on its row, if that is still there.
LEMMA RecordKeeps ==
    ASSUME Inv, NEW i \in Instances, Record(i)
    PROVE  Inv'
  <1>a. PICK R \in run[i] : Record(i)!1!(R)
    BY DEF Record
  <1> DEFINE r == R.release
             id == R.todo[1]
             res == IF outcome[id] = "ok" THEN "done" ELSE "failed"
             Rec(a) == IF a.id # id THEN a ELSE [a EXCEPT !.status = res]
             S == [R EXCEPT !.performed = FALSE, !.todo = Tail(@)]
  <1>1. UNCHANGED <<releases, outcome, enabled, due, request, taken, announced, upsets>>
    BY DEF Record
  <1>2. /\ R \in Run /\ R.todo \in Seq(Nat) /\ R.performed /\ r \in Rels
    BY <1>a DEF Inv, TypeOK, Run
  <1>3. /\ Standing(R, releases[r])
        /\ Untaken(R, taken[r], ActionsOf(r), outcome)
        /\ Underway(R, taken[r], outcome)
    BY DEF Inv, RunsOK
  <1>4. R.todo # <<>> /\ R.todo # <<0>> /\ 1 \in DOMAIN R.todo /\ ~R.ended
    BY <1>2, <1>3 DEF Untaken, Underway, Standing
  <1>5. /\ S \in Run /\ S.release = r /\ S.todo = Tail(R.todo) /\ ~S.performed
        /\ S.failures = R.failures /\ S.ended = R.ended
    <2> DEFINE l == Tail(R.todo)
    <2>1. l \in Seq(Nat)
      BY <1>2, <1>4
    <2>2. S = [R EXCEPT !.performed = FALSE, !.todo = l]
      BY <1>2 DEF Run
    <2> HIDE DEF l
    <2>3. S \in Run /\ S.todo = l /\ ~S.performed
      BY <1>2, <2>1, <2>2 DEF Run
    <2>4. S.release = r /\ S.failures = R.failures /\ S.ended = R.ended
      BY <1>2, <2>2 DEF Run
    <2> QED BY <2>3, <2>4 DEF l
  <1>6. run' = [run EXCEPT ![i] = {S}]
    BY <1>a
  <1>7. /\ id \in taken[r] /\ id \in DOMAIN outcome
        /\ outcome[id] \in {"ok", "error"}
    BY <1>2, <1>3, <1>4 DEF Underway, Inv, Owned, TypeOK, Outcomes
  <1>8. actions' = {Rec(a) : a \in actions}
    <2>1. \A a : a.id # Head(R.todo) <=> a.id # id
      BY <1>2, <1>4
    <2>2. \A a \in actions :
            Rec(a) = IF a.id # Head(R.todo) THEN a
                     ELSE [a EXCEPT !.status = IF outcome[a.id] = "ok" THEN "done" ELSE "failed"]
      BY <2>1
    <2>3. actions' = {IF a.id # Head(R.todo) THEN a
                      ELSE [a EXCEPT !.status = IF outcome[a.id] = "ok" THEN "done" ELSE "failed"]
                      : a \in actions}
      BY <1>a
    <2> HIDE DEF Rec
    <2> QED BY <2>2, <2>3
  <1>9. \A a \in actions :
           /\ Rec(a) \in Action /\ Rec(a).id = a.id /\ Rec(a).release = a.release
           /\ Rec(a).entry = a.entry
           /\ a.id # id => Rec(a).status = a.status
           /\ a.id = id => Rec(a).status = res
    BY DEF Inv, TypeOK, Action
  <1> HIDE DEF Rec, S
  <1>10. /\ run' \in [Instances -> SUBSET Run]
         /\ run'[i] = {S}
         /\ \A j \in Instances : j # i => run'[j] = run[j]
         /\ \A j \in Instances : j # i => \A T \in run[j] : T.release \in Rels /\ T.release # r
         /\ Apart'
    <2>1. S \in Run /\ S.release = R.release
      BY <1>5
    <2> QED BY <1>6, <2>1, OneRunMoves
  <1>11. \A b \in actions' : \E a \in actions : b = Rec(a)
    BY <1>8
  <1>12. TypeOK'
    <2>1. \A b \in actions' : b \in Action /\ b.id \in DOMAIN outcome /\ Exists(b.release)
      BY <1>9, <1>11 DEF Inv, TypeOK
    <2>2. \A b, c \in actions' :
             b.id = c.id \/ (b.release = c.release /\ b.entry = c.entry) => b = c
      BY <1>9, <1>11 DEF Inv, TypeOK
    <2> QED BY <1>1, <1>10, <2>1, <2>2 DEF Inv, TypeOK, Exists
  <1>13. Owned'
    BY <1>1, <1>9, <1>11 DEF Inv, Owned
  <1>14. \A q : \A b \in ActionsOf(q)' : \E a \in ActionsOf(q) : b.id = a.id
    BY <1>9, <1>11 DEF ActionsOf
  <1>15. Fresh'
    BY <1>1, <1>14 DEF Inv, Fresh, Pending, Unused
  <1>16. RunsOK'
    <2>1. ASSUME NEW j \in Instances, NEW T \in run'[j], j # i
          PROVE  /\ Standing(T, releases[T.release])
                 /\ Untaken(T, taken[T.release], ActionsOf(T.release)', outcome)
                 /\ Underway(T, taken[T.release], outcome)
      <3>1. /\ Standing(T, releases[T.release])
            /\ Untaken(T, taken[T.release], ActionsOf(T.release), outcome)
            /\ Underway(T, taken[T.release], outcome)
        BY <1>10, <2>1 DEF Inv, RunsOK
      <3>2. Untaken(T, taken[T.release], ActionsOf(T.release)', outcome)
        BY <1>14, <3>1 DEF Untaken
      <3> QED BY <3>1, <3>2
    <2>2. Standing(S, releases[r])
      BY <1>3, <1>4, <1>5 DEF Standing
    <2>3. /\ DOMAIN S.todo = 1 .. Len(R.todo) - 1
          /\ Len(R.todo) \in Nat /\ DOMAIN R.todo = 1 .. Len(R.todo)
          /\ \A k \in DOMAIN S.todo : S.todo[k] = R.todo[k + 1]
      BY <1>2, <1>4, <1>5
    <2>4. \A k \in DOMAIN S.todo : k + 1 \in DOMAIN R.todo /\ k \in Nat /\ k + 1 > 1
      BY <2>3
    <2>5. \A k \in DOMAIN S.todo : S.todo[k] \in taken[r] /\ outcome[S.todo[k]] = "none"
      BY <1>3, <1>4, <2>3, <2>4 DEF Underway
    <2>6. \A j, k \in DOMAIN S.todo : S.todo[j] = S.todo[k] => j = k
      <3> SUFFICES ASSUME NEW j \in DOMAIN S.todo, NEW k \in DOMAIN S.todo,
                          S.todo[j] = S.todo[k]
                   PROVE  j = k
        OBVIOUS
      <3>1. R.todo[j + 1] = R.todo[k + 1]
        BY <2>3
      <3>2. j + 1 = k + 1
        BY <1>3, <1>4, <2>4, <3>1 DEF Underway
      <3> QED BY <2>4, <3>2
    <2>7. \A x \in taken[r] : outcome[x] = "none" => \E k \in DOMAIN S.todo : S.todo[k] = x
      <3> SUFFICES ASSUME NEW x \in taken[r], outcome[x] = "none"
                   PROVE  \E k \in DOMAIN S.todo : S.todo[k] = x
        OBVIOUS
      <3>1. PICK k \in DOMAIN R.todo : R.todo[k] = x
        BY <1>3, <1>4 DEF Underway
      <3>2. k # 1
        BY <1>7, <3>1
      <3>3. k - 1 \in DOMAIN S.todo /\ (k - 1) + 1 = k
        BY <2>3, <3>2
      <3>4. S.todo[k - 1] = x
        BY <2>3, <3>1, <3>3
      <3> QED BY <3>3, <3>4
    <2>8. S.todo # <<0>>
      <3>1. S.todo = <<0>> => 1 \in DOMAIN S.todo /\ S.todo[1] = 0
        OBVIOUS
      <3>2. 0 \notin taken[r]
        BY <1>2 DEF Inv, TypeOK
      <3> QED BY <2>5, <3>1, <3>2
    <2>9. \A k \in DOMAIN S.todo : outcome[S.todo[k]] = "none" <=> (k > 1 \/ ~S.performed)
      BY <1>5, <2>5
    <2>10. S.failures = 0 <=> \A x \in taken[r] : outcome[x] # "error"
      BY <1>3, <1>4, <1>5 DEF Underway
    <2>11. Underway(S, taken[r], outcome)
      BY <1>5, <2>5, <2>6, <2>7, <2>9, <2>10 DEF Underway
    <2>12. Untaken(S, taken[r], ActionsOf(r)', outcome)
      BY <2>8 DEF Untaken
    <2> QED BY <1>1, <1>5, <1>10, <2>1, <2>2, <2>11, <2>12 DEF RunsOK
  <1>17. EndsTruthfully'
    <2>1. \A b \in actions' :
             /\ b.status = "done" => outcome[b.id] = "ok"
             /\ b.status = "failed" => outcome[b.id] = "error"
      BY <1>7, <1>9, <1>11 DEF Inv, EndsTruthfully
    <2> QED BY <1>1, <2>1 DEF Inv, EndsTruthfully
  <1> QED BY <1>10, <1>12, <1>13, <1>15, <1>16, <1>17 DEF Inv

\* A run with nothing left on its list performed all it took, and its count of
\* failures says whether all of it went well.
LEMMA FinishKeeps ==
    ASSUME Inv, NEW i \in Instances, Finish(i)
    PROVE  Inv'
  <1>a. PICK R \in run[i] : Finish(i)!1!(R)
    BY DEF Finish
  <1> DEFINE r == R.release
             st == IF R.failures = 0 THEN "done" ELSE "failed"
             S == [R EXCEPT !.ended = TRUE]
  <1>1. UNCHANGED <<actions, outcome, enabled, due, request, taken, announced, upsets>>
    BY DEF Finish
  <1>2. R \in Run /\ R.todo = <<>> /\ R.failures \in Nat /\ r \in Rels
    BY <1>a DEF Inv, TypeOK, Run
  <1>3. /\ S \in Run /\ S.release = r /\ S.todo = <<>> /\ S.performed = R.performed
        /\ S.failures = R.failures /\ S.ended
    BY <1>2 DEF Run
  <1>4. run' = [run EXCEPT ![i] = {S}]
    BY <1>a
  <1>5. releases' = IF Exists(r) THEN [releases EXCEPT ![r].status = st] ELSE releases
    BY <1>a
  <1> HIDE DEF S
  <1>6. /\ Standing(R, releases[r])
        /\ Underway(R, taken[r], outcome)
        /\ run' \in [Instances -> SUBSET Run]
        /\ run'[i] = {S}
        /\ \A j \in Instances : j # i => run'[j] = run[j]
        /\ \A j \in Instances : j # i => \A T \in run[j] : T.release \in Rels /\ T.release # r
        /\ Apart'
    <2>1. S \in Run /\ S.release = R.release
      BY <1>3
    <2> QED BY <1>4, <2>1, OneRunMoves
  <1>7. /\ releases' \in [Rels -> Release]
        /\ \A s \in Rels : s # r => releases'[s] = releases[s]
        /\ Exists(r) => releases'[r].status = st
        /\ ~Exists(r) => releases'[r] = releases[r]
    <2>1. st \in Statuses /\ releases \in [Rels -> Release]
      BY DEF Inv, TypeOK, Statuses
    <2> HIDE DEF st
    <2>2. CASE Exists(r)
      <3>1. releases' = [releases EXCEPT ![r].status = st]
        BY <1>5, <2>2
      <3> QED BY <1>2, <2>1, <2>2, <3>1 DEF Release
    <2>3. CASE ~Exists(r)
      BY <1>5, <2>1, <2>3
    <2> QED BY <2>2, <2>3
  <1>8. <<>> # <<0>> /\ DOMAIN <<>> = {}
    OBVIOUS
  <1>9. \A q : ActionsOf(q)' = ActionsOf(q)
    BY <1>1 DEF ActionsOf
  <1>10. \A s \in Rels : Exists(s)' <=> Exists(s)
    BY <1>7 DEF Exists
  <1>11. TypeOK'
    <2>1. \A a \in actions : a.release \in Rels /\ Exists(a.release)'
      BY <1>10 DEF Inv, TypeOK, Action
    <2> QED BY <1>1, <1>6, <1>7, <2>1 DEF Inv, TypeOK
  <1>12. Owned'
    BY <1>1 DEF Inv, Owned
  <1>13. releases'[r].status # "pending" /\ releases'[r] # [status |-> "absent", date |-> "future"]
    BY <1>6, <1>7 DEF Standing, Exists
  <1>14. Fresh'
    BY <1>1, <1>7, <1>9, <1>13 DEF Inv, Fresh, Pending, Unused
  <1>15. RunsOK'
    <2>1. ASSUME NEW j \in Instances, NEW T \in run'[j], j # i
          PROVE  /\ Standing(T, releases'[T.release])
                 /\ Untaken(T, taken[T.release], ActionsOf(T.release), outcome)
                 /\ Underway(T, taken[T.release], outcome)
      BY <1>6, <1>7, <2>1 DEF Inv, RunsOK
    <2>2. Standing(S, releases'[r])
      BY <1>3, <1>6, <1>7, <1>13 DEF Standing, Exists
    <2>3. Untaken(S, taken[r], ActionsOf(r), outcome)
      BY <1>3, <1>8 DEF Untaken
    <2>4. Underway(S, taken[r], outcome)
      BY <1>2, <1>3, <1>6, <1>8 DEF Underway
    <2> QED BY <1>1, <1>3, <1>6, <1>9, <2>1, <2>2, <2>3, <2>4 DEF RunsOK
  <1>16. EndsTruthfully'
    <2>1. \A id \in taken[r] : outcome[id] \in {"ok", "error"}
      BY <1>2, <1>6, <1>8 DEF Underway, Inv, Owned, TypeOK, Outcomes
    <2>2. st = "done" <=> \A id \in taken[r] : outcome[id] = "ok"
      BY <1>2, <1>6, <1>8, <2>1 DEF Underway
    <2>3. ASSUME releases'[r].status \in {"done", "failed"}
          PROVE  releases'[r].status = "done" <=> \A id \in taken[r] : outcome[id] = "ok"
      BY <1>2, <1>7, <2>2, <2>3 DEF Exists
    <2> QED BY <1>1, <1>7, <2>1, <2>3 DEF Inv, EndsTruthfully
  <1> QED BY <1>6, <1>11, <1>12, <1>14, <1>15, <1>16 DEF Inv

-----------------------------------------------------------------------------
LEMMA AsksKeep ==
    ASSUME Inv, NEW i \in Instances, NEW r \in Rels,
           CheckAdd(i, r) \/ CheckRemove(i, r) \/ CheckPublish(i, r)
    PROVE  Inv'
  <1>1. PICK kind \in {"add", "remove", "publish"} : Check(i, kind, r)
    BY DEF CheckAdd, CheckRemove, CheckPublish
  <1> DEFINE q == [kind |-> kind, release |-> r]
  <1>2. q \in Request /\ request' = [request EXCEPT ![i] = {q}]
    BY <1>1 DEF Check, Request
  <1> HIDE DEF q
  <1>3. request' \in [Instances -> SUBSET Request]
    BY <1>2 DEF Inv, TypeOK
  <1> QED BY <1>1, <1>3, QuietKeeps DEF Check, Inv, TypeOK

LEMMA WorkersLookKeeps ==
    ASSUME Inv, NEW i \in Instances, Switch(i) \/ FindDue(i)
    PROVE  Inv'
  <1>1. CASE Switch(i)
    BY <1>1, QuietKeeps DEF Switch, Upset, Inv, TypeOK
  <1>2. CASE FindDue(i)
    BY <1>2, QuietKeeps DEF FindDue, Inv, TypeOK
  <1> QED BY <1>1, <1>2

LEMMA StartsKeep ==
    ASSUME Inv, NEW i \in Instances, RunAsked(i) \/ RunDue(i)
    PROVE  Inv'
  <1>1. CASE RunAsked(i)
    <2>1. PICK q \in request[i] : Claim(i, q.release, FALSE)
      BY <1>1 DEF RunAsked
    <2>2. q.release \in Rels /\ FALSE \in BOOLEAN
      BY DEF Inv, TypeOK, Request
    <2>3. request' \in [Instances -> SUBSET Request] /\ due' \in [Instances -> SUBSET Rels]
      BY <1>1 DEF RunAsked, Inv, TypeOK
    <2> QED BY <1>1, <2>1, <2>2, <2>3, ClaimKeeps DEF RunAsked
  <1>2. CASE RunDue(i)
    <2>1. PICK r \in due[i] : Claim(i, r, TRUE) /\ due' = [due EXCEPT ![i] = @ \ {r}]
      BY <1>2 DEF RunDue
    <2>2. r \in Rels /\ TRUE \in BOOLEAN
      BY DEF Inv, TypeOK
    <2>3. request' \in [Instances -> SUBSET Request] /\ due' \in [Instances -> SUBSET Rels]
      BY <1>2, <2>1 DEF RunDue, Inv, TypeOK
    <2> QED BY <1>2, <2>1, <2>2, <2>3, ClaimKeeps DEF RunDue
  <1> QED BY <1>1, <1>2

LEMMA RunsGoKeeps ==
    ASSUME Inv, NEW i \in Instances, Announce(i) \/ RunFails(i) \/ Crash(i)
    PROVE  Inv'
  <1>1. CASE Announce(i)
    <2>1. announced' \subseteq Rels
      BY <1>1 DEF Announce, Inv, TypeOK, Run
    <2> QED BY <1>1, <2>1, GivenUpKeeps DEF Announce, Inv, TypeOK
  <1>2. CASE RunFails(i)
    <2>1. due' \in [Instances -> SUBSET Rels]
      BY <1>2 DEF RunFails, Inv, TypeOK
    <2>2. /\ run' = [run EXCEPT ![i] = {}]
          /\ UNCHANGED <<releases, actions, outcome, taken>>
          /\ UNCHANGED enabled
          /\ request' \in [Instances -> SUBSET Request] /\ announced' \subseteq Rels
          /\ upsets' \in Nat
      BY <1>2, <2>1 DEF RunFails, Upset, Inv, TypeOK
    <2> QED BY <2>1, <2>2, GivenUpKeeps
  <1>3. CASE Crash(i)
    <2>1. due' \in [Instances -> SUBSET Rels] /\ request' \in [Instances -> SUBSET Request]
      BY <1>3 DEF Crash, Inv, TypeOK
    <2>2. /\ run' = [run EXCEPT ![i] = {}]
          /\ UNCHANGED <<releases, actions, outcome, taken>>
          /\ UNCHANGED enabled
          /\ request' \in [Instances -> SUBSET Request] /\ announced' \subseteq Rels
          /\ upsets' \in Nat
      BY <1>3, <2>1 DEF Crash, Upset, Inv, TypeOK
    <2> QED BY <2>1, <2>2, GivenUpKeeps
  <1> QED BY <1>1, <1>2, <1>3

LEMMA Consecution == Inv /\ [Next]_vars => Inv'
  <1> SUFFICES ASSUME Inv, [Next]_vars PROVE Inv'
    OBVIOUS
  <1>1. CASE UNCHANGED vars
    BY <1>1, QuietKeeps DEF vars, Inv, TypeOK
  <1>2. ASSUME NEW r \in Rels, NEW date \in Dates, Create(r, date) \/ Reschedule(r, date)
        PROVE  Inv'
    BY <1>2, CreateKeeps, RescheduleKeeps
  <1>3. ASSUME NEW r \in Rels, Delete(r) \/ DateComes(r) PROVE Inv'
    BY <1>3, DeleteKeeps, DateComesKeeps
  <1>4. ASSUME NEW i \in Serving, NEW r \in Rels,
               CheckAdd(i, r) \/ CheckRemove(i, r) \/ CheckPublish(i, r)
        PROVE  Inv'
    BY <1>4, AsksKeep, ReleasesAssumption
  <1>5. ASSUME NEW i \in Instances, AddAction(i) \/ RemoveAction(i) PROVE Inv'
    BY <1>5, AddActionKeeps, RemoveActionKeeps
  <1>6. ASSUME NEW i \in Instances, Switch(i) \/ FindDue(i) PROVE Inv'
    BY <1>6, WorkersLookKeeps
  <1>7. ASSUME NEW i \in Instances, Proceed(i) PROVE Inv'
    BY <1>7, StartsKeep, TakeActionsKeeps, PerformKeeps, RecordKeeps, FinishKeeps,
       RunsGoKeeps DEF Proceed
  <1>8. ASSUME NEW i \in Instances, RunFails(i) \/ Crash(i) PROVE Inv'
    BY <1>8, RunsGoKeeps
  <1>9. Filled \subseteq Rels
    BY ReleasesAssumption
  <1> QED BY <1>1, <1>2, <1>3, <1>4, <1>5, <1>6, <1>7, <1>8, <1>9 DEF Next

THEOREM Invariance == Spec => []Inv
  BY InitInv, Consecution, PTL DEF Spec

-----------------------------------------------------------------------------
\* The rows keep their types, a release has one action on an entry at most and no
\* action outlives its release (add_action, delete and the foreign key).
THEOREM TypeCorrect == Spec => []TypeOK
  <1>1. Inv => TypeOK
    BY DEF Inv
  <1> QED BY <1>1, Invariance, PTL

\* Whoever asks for a release, and whatever fails, it is run by one instance at a time
\* and none of its actions is performed twice (run's UPDATE ... AND status = 'pending').
THEOREM RunOnce == Spec => []RunsOnce
  <1>1. Inv => RunsOnce
    <2> SUFFICES ASSUME Inv PROVE RunsOnce
      OBVIOUS
    <2>1. ASSUME NEW i \in Instances, NEW R \in run[i], NEW k \in DOMAIN R.todo, R.todo[k] # 0
          PROVE  outcome[R.todo[k]] = "none" <=> (k > 1 \/ ~R.performed)
      <3>1. R.todo # <<0>>
        BY <2>1
      <3> QED BY <2>1, <3>1 DEF Inv, RunsOK, Underway
    <2> QED BY <2>1 DEF Inv, Apart, RunsOnce
  <1> QED BY <1>1, Invariance, PTL

\* A release that is done or failed performed everything it had taken, and says truly
\* whether all of it went well; so does each action's row (run's last UPDATE).
THEOREM EndTruthfully == Spec => []EndsTruthfully
  <1>1. Inv => EndsTruthfully
    BY DEF Inv
  <1> QED BY <1>1, Invariance, PTL

\* releases.publish is raised for a release that has ended, never for one that is
\* running, was deleted or was given up (run's last SELECT and emit).
THEOREM AnnouncedAfterEnd == Spec => AnnouncedAfterwards
  <1> DEFINE A == \A r \in announced' \ announced : releases[r].status \in {"done", "failed"}
  <1>1. Inv /\ [Next]_vars => [A]_vars
    <2> SUFFICES ASSUME Inv, Next, NEW r \in announced' \ announced
                 PROVE  releases[r].status \in {"done", "failed"}
      BY DEF vars
    <2>1. ASSUME NEW i \in Instances, Announce(i)
          PROVE  releases[r].status \in {"done", "failed"}
      <3>1. PICK R \in run[i] : R.ended /\ r = R.release /\ Exists(r)
        BY <2>1 DEF Announce
      <3>2. Standing(R, releases[r]) /\ r \in Rels
        BY <3>1 DEF Inv, RunsOK, TypeOK, Run
      <3>3. releases[r].status \in Statuses
        BY <3>2 DEF Inv, TypeOK, Release
      <3> QED BY <3>1, <3>2, <3>3 DEF Standing, Exists, Statuses
    <2>2. \E i \in Instances : Announce(i)
      <3>1. announced' # announced
        OBVIOUS
      <3> QED BY <3>1 DEF Next, Create, Reschedule, Delete, DateComes, CheckAdd, CheckRemove,
                 CheckPublish, Check, AddAction, RemoveAction, Switch, FindDue, Proceed,
                 RunAsked, RunDue, TakeActions, Perform, Record, Finish, RunFails, Crash
    <2> QED BY <2>1, <2>2
  <1> QED BY <1>1, Invariance, PTL DEF Spec, AnnouncedAfterwards
=============================================================================
