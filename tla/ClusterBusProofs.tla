------------------------- MODULE ClusterBusProofs -------------------------
(***************************************************************************)
(* Theorems about ClusterBus, for every number of instances, every queue,   *)
(* batch and bound.                                                        *)
(*                                                                         *)
(* What a reader handed on says nothing by itself of what it will hand on  *)
(* next.  Inv adds that rows are numbered as their events are (Numbered),  *)
(* that the events still to be inserted come later (Waiting), and that     *)
(* every row a reader has not read yet is later than what its sender was   *)
(* heard to say (Listening): a batch is a lower part of the rows after the *)
(* cursor, so what is left out of it is later than what is in it.          *)
(***************************************************************************)
EXTENDS ClusterBus, FiniteSetTheorems, WellFoundedInduction, SequenceTheorems, TLAPS

\* The rows there are or may come to be.
Rows == table \cup UNION {inserting[i] : i \in Instances}

Unread(i, r) == r.id > reader[i].cursor /\ r.id \notin reader[i].seen

\* Each sender's events come in the order of their numbers.
Chained(s) ==
    \A k \in DOMAIN s : \A l \in 1..(k - 1) : s[l].from = s[k].from => s[l].n < s[k].n
Apart(E, F) == \A e \in E, f \in F : e.from = f.from => e.n < f.n

Numbered ==
    /\ IsFiniteSet(table)
    /\ \A r \in Rows : r.id <= lastId /\ r.n <= said[r.from]
    /\ \A i \in Instances : \A r \in inserting[i] : r.from = i
    /\ \A r, s \in Rows : r.id = s.id => r = s
    /\ \A r, s \in Rows : r.from = s.from /\ r.id < s.id => r.n < s.n
    /\ \A i \in Instances : \A r \in table, s \in inserting[i] : r.from = i => r.id < s.id

Waiting ==
    \A i \in Instances : \A k \in DOMAIN queue[i] :
        /\ queue[i][k] \in 1..said[i]
        /\ \A l \in 1..(k - 1) : queue[i][l] < queue[i][k]
        /\ \A r \in Rows : r.from = i => r.n < queue[i][k]

ReaderOK(i) ==
    /\ reader[i].cursor <= lastId
    /\ \A k \in reader[i].seen : reader[i].cursor < k /\ k <= lastId
    /\ \A j \in Instances : \A r \in inserting[j] : r.id \notin reader[i].seen

Listening(i) ==
    /\ Chained(heard[i]) /\ Chained(batch[i])
    /\ Apart(ToSet(heard[i]), ToSet(batch[i]))
    /\ \A e \in Taken(i) :
        /\ e.from # i /\ e.n \in 1..said[e.from]
        /\ \A r \in Rows : r.from = e.from /\ Unread(i, r) => e.n < r.n
        /\ \A k \in DOMAIN queue[e.from] : e.n < queue[e.from][k]

AccountedFor(i) ==
    \A r \in Rows : r.from # i /\ r.id > start[i] /\ ~Unread(i, r) =>
        \/ EventOf(r) \in Taken(i)
        \/ r.id \in missed[i].given
        \/ EventOf(r) \in missed[i].failed

Inv ==
    /\ TypeOK /\ Numbered /\ Waiting
    /\ \A i \in Instances : ReaderOK(i) /\ Listening(i) /\ AccountedFor(i)

-----------------------------------------------------------------------------
(* Numbers. *)

LEMMA Least ==
    ASSUME NEW T, T \subseteq Nat, T # {}
    PROVE  \E x \in T : \A y \in T : x <= y
<1> DEFINE R == StrictSubsetOrdering(Nat)
           U == {1..t : t \in T}
<1>1. IsWellFoundedOn(R, FiniteSubsetsOf(Nat))
    BY FS_StrictSubsetOrderingWellFounded
<1>2. U \subseteq FiniteSubsetsOf(Nat) /\ U # {}
    <2>1. \A t \in T : IsFiniteSet(1..t) /\ 1..t \subseteq Nat
        BY FS_Interval
    <2> QED BY <2>1 DEF FiniteSubsetsOf
<1> HIDE DEF R
<1>3. PICK u \in U : \A v \in U : ~(<<v, u>> \in R)
    <2> HIDE DEF U
    <2> QED BY <1>1, <1>2, WFMin
<1>4. PICK x \in T : u = 1..x
    OBVIOUS
<1>5. ASSUME NEW y \in T, y < x PROVE FALSE
    <2>1. 1..y \in U
        OBVIOUS
    <2>2. 1..y \subseteq 1..x /\ x \in 1..x /\ x \notin 1..y
        BY <1>5
    <2>3. 1..y \in SUBSET Nat /\ 1..x \in SUBSET Nat
        OBVIOUS
    <2>4. <<1..y, 1..x>> \in R
        BY <2>2, <2>3 DEF R, StrictSubsetOrdering
    <2> QED BY <2>1, <2>4, <1>3, <1>4
<1> QED BY <1>5

LEMMA Greatest ==
    ASSUME NEW T, T \subseteq Nat, T # {}, NEW b \in Nat, \A y \in T : y <= b
    PROVE  \E x \in T : \A y \in T : x >= y
<1> DEFINE U == {b - t : t \in T}
<1>1. U # {} /\ U \subseteq Nat
    OBVIOUS
<1>2. PICK u \in U : \A v \in U : u <= v
    <2> HIDE DEF U
    <2> QED BY <1>1, Least
<1>3. PICK t \in T : u = b - t
    OBVIOUS
<1>4. ASSUME NEW y \in T PROVE t >= y
    <2>1. b - y \in U
        OBVIOUS
    <2> QED BY <2>1, <1>2, <1>3
<1> QED BY <1>4

LEMMA MaxOf ==
    ASSUME NEW T, T \subseteq Nat, T # {}, NEW b \in Nat, \A y \in T : y <= b
    PROVE  Max(T) \in T /\ \A y \in T : y <= Max(T)
<1>1. \E x \in T : \A y \in T : x >= y
    BY Greatest
<1>2. Max(T) \in T /\ \A y \in T : Max(T) >= y
    BY <1>1 DEF Max
<1> QED BY <1>2

LEMMA MinOf ==
    ASSUME NEW T, T \subseteq Nat, T # {}
    PROVE  Min(T) \in T /\ \A y \in T : Min(T) <= y
<1>1. \E x \in T : \A y \in T : x =< y
    BY Least
<1> QED BY <1>1 DEF Min

-----------------------------------------------------------------------------
(* The reader. *)

\* The cursor only moves on, over ids that were read and over the gap it gives up.
LEMMA JumpIs ==
    ASSUME NEW R \in Reader, \A k \in R.seen : R.cursor < k
    PROVE  Jump(R) \in Nat /\ R.cursor <= Jump(R) /\ \A k \in R.seen : Jump(R) < k \/ Jump(R) = R.cursor
<1>0. R.cursor \in Nat /\ R.seen \subseteq Nat
    BY DEF Reader
<1>1. CASE R.seen = {}
    BY <1>0, <1>1 DEF Jump
<1>2. CASE R.seen # {}
    <2>1. Min(R.seen) \in R.seen /\ \A k \in R.seen : Min(R.seen) <= k
        BY <1>0, <1>2, MinOf
    <2> QED BY <1>0, <2>1 DEF Jump
<1> QED BY <1>1, <1>2

LEMMA AdvanceIs ==
    ASSUME NEW R \in Reader, \A k \in R.seen : R.cursor < k,
           NEW b \in Nat, R.cursor <= b, \A k \in R.seen : k <= b
    PROVE  /\ Advance(R) \in Reader
           /\ R.cursor <= Advance(R).cursor /\ Advance(R).cursor <= b
           /\ Advance(R).seen = {k \in R.seen : k > Advance(R).cursor}
           /\ \A k \in Nat : Jump(R) < k /\ k <= Advance(R).cursor => k \in R.seen
<1> DEFINE c == Jump(R)
           T == {k \in {c} \cup R.seen : (c + 1)..k \subseteq R.seen}
<1>1. R.cursor \in Nat /\ R.seen \subseteq Nat /\ R.gap \in {"none", "waiting", "over"}
    BY DEF Reader
<1>2. c \in Nat /\ R.cursor <= c /\ \A k \in R.seen : c < k \/ c = R.cursor
    BY JumpIs
<1>3. c <= b
    <2>1. CASE R.seen = {}
        BY <2>1 DEF Jump
    <2>2. CASE R.seen # {}
        BY <2>2, <1>1, <1>2
    <2> QED BY <2>1, <2>2
<1>4. c \in T /\ T \subseteq Nat /\ \A k \in T : k <= b
    BY <1>1, <1>2, <1>3
<1>5. Unbroken(R.seen, c) = Max(T)
    BY DEF Unbroken
<1> DEFINE u == Max(T)
<1>6. u \in T /\ \A k \in T : k <= u
    <2> HIDE DEF T, c
    <2> QED BY <1>4, MaxOf
<1>7. Advance(R) = [cursor |-> u, seen |-> {k \in R.seen : k > u},
                    gap |-> IF {k \in R.seen : k > u} = {} THEN "none"
                            ELSE IF u # R.cursor \/ R.gap = "none" THEN "waiting" ELSE R.gap]
    BY <1>5 DEF Advance
<1>8. u \in Nat /\ R.cursor <= u /\ u <= b
    BY <1>1, <1>2, <1>4, <1>6
<1>9. ASSUME NEW k \in Nat, c < k, k <= u PROVE k \in R.seen
    <2>1. (c + 1)..u \subseteq R.seen
        BY <1>6
    <2>2. k \in (c + 1)..u
        BY <1>2, <1>8, <1>9
    <2> QED BY <2>1, <2>2
<1> HIDE DEF u, T
<1>10. Advance(R).cursor = u /\ Advance(R).seen = {k \in R.seen : k > u}
    BY <1>7
<1>11. Advance(R) \in Reader
    BY <1>1, <1>7, <1>8 DEF Reader
<1> QED BY <1>8, <1>9, <1>10, <1>11

\* A batch is a lower part of the rows after the cursor.
LEMMA FetchedIs ==
    ASSUME TypeOK, IsFiniteSet(table), NEW i \in Instances,
           NEW r \in table, r.id > reader[i].cursor
    PROVE  /\ \E x \in Fetched(i) : x.id <= r.id
           /\ \A x \in Fetched(i) : r.id < x.id => r \in Fetched(i)
<1> DEFINE After == {s \in table : s.id > reader[i].cursor}
           Before(x) == {s \in After : s.id < x.id}
<1>1. table \subseteq Row /\ \A x \in Row : x.id \in Nat
    BY DEF TypeOK, Row
<1>2. After \subseteq table /\ IsFiniteSet(After) /\ r \in After
    BY FS_Subset
<1>3. Fetched(i) = {x \in After : Cardinality(Before(x)) < BATCH}
    BY DEF Fetched
<1>4. \E x \in Fetched(i) : x.id <= r.id
    <2> DEFINE T == {s.id : s \in After}
    <2>1. T \subseteq Nat /\ T # {}
        BY <1>1, <1>2
    <2>2. PICK m \in T : \A y \in T : m <= y
        <3> HIDE DEF T
        <3> QED BY <2>1, Least
    <2>3. PICK x \in After : x.id = m
        OBVIOUS
    <2>4. Before(x) = {}
        BY <2>2, <2>3, <1>1, <1>2
    <2>5. Cardinality(Before(x)) < BATCH
        <3>1. BATCH \in Nat /\ BATCH # 0
            BY BusAssumption
        <3> QED BY <2>4, <3>1, FS_EmptySet
    <2>6. x \in Fetched(i)
        BY <1>3, <2>3, <2>5
    <2> QED BY <2>2, <2>3, <2>6, <1>2
<1>5. ASSUME NEW x \in Fetched(i), r.id < x.id PROVE r \in Fetched(i)
    <2>1. x \in After /\ Cardinality(Before(x)) < BATCH
        BY <1>3
    <2>2. Before(r) \subseteq Before(x) /\ Before(x) \subseteq After
        BY <1>1, <1>2, <1>5, <2>1
    <2>3. IsFiniteSet(Before(x))
        BY <1>2, <2>2, FS_Subset
    <2>4. Cardinality(Before(r)) <= Cardinality(Before(x)) /\ IsFiniteSet(Before(r))
        BY <2>2, <2>3, FS_Subset
    <2>5. Cardinality(Before(r)) \in Nat /\ Cardinality(Before(x)) \in Nat
        BY <2>3, <2>4, FS_CardinalityType
    <2>6. Cardinality(Before(r)) < BATCH
        BY <2>1, <2>4, <2>5, BusAssumption
    <2> QED BY <1>2, <1>3, <2>6
<1> QED BY <1>4, <1>5

\* What a turn of the loop reads, and what it leaves.
LEMMA Turn ==
    ASSUME Inv, NEW i \in Instances,
           NEW new, new = Accepted(reader[i], Fetched(i)),
           NEW S, S = [reader[i] EXCEPT !.seen = @ \cup Ids(new)]
    PROVE  /\ new \subseteq table /\ \A x \in new : Unread(i, x)
           /\ S \in Reader /\ S.cursor = reader[i].cursor
           /\ S.seen = reader[i].seen \cup Ids(new)
           /\ \A k \in S.seen : S.cursor < k /\ k <= lastId
           /\ \A r \in table : r.id > reader[i].cursor =>
                  \E k \in S.seen : k <= r.id
           /\ \A x \in new, r \in table :
                  Unread(i, r) /\ r.id < x.id => r \in new
<1>1. TypeOK /\ IsFiniteSet(table) /\ ReaderOK(i) /\ Numbered
    BY DEF Inv, Numbered
<1>2. reader[i] \in Reader /\ table \subseteq Row
    BY <1>1 DEF TypeOK
<1>3. Fetched(i) \subseteq {x \in table : x.id > reader[i].cursor}
    BY DEF Fetched
<1>4. new = {x \in Fetched(i) : x.id > reader[i].cursor /\ x.id \notin reader[i].seen}
    BY DEF Accepted
<1>5. new \subseteq table /\ \A x \in new : Unread(i, x)
    BY <1>3, <1>4 DEF Unread
<1>6. S.cursor = reader[i].cursor /\ S.seen = reader[i].seen \cup Ids(new) /\ S.gap = reader[i].gap
    BY <1>2 DEF Reader
<1>7. Ids(new) \subseteq Nat /\ \A k \in Ids(new) : reader[i].cursor < k /\ k <= lastId
    BY <1>1, <1>2, <1>5 DEF Ids, Unread, Row, Numbered, Rows, Reader
<1>8. S \in Reader
    BY <1>2, <1>7 DEF Reader
<1>9. \A k \in S.seen : S.cursor < k /\ k <= lastId
    BY <1>1, <1>6, <1>7 DEF ReaderOK
<1>10. ASSUME NEW r \in table, r.id > reader[i].cursor PROVE \E k \in S.seen : k <= r.id
    <2>1. PICK x \in Fetched(i) : x.id <= r.id
        BY <1>1, <1>10, FetchedIs
    <2>2. x.id \in S.seen
        BY <1>3, <1>4, <1>6 DEF Ids
    <2> QED BY <2>1, <2>2
<1>11. ASSUME NEW x \in new, NEW r \in table, Unread(i, r), r.id < x.id PROVE r \in new
    <2>1. r \in Fetched(i)
        BY <1>1, <1>4, <1>11, FetchedIs DEF Unread
    <2> QED BY <1>4, <1>11, <2>1 DEF Unread
<1> QED BY <1>5, <1>6, <1>8, <1>9, <1>10, <1>11

-----------------------------------------------------------------------------
(* Events. *)

LEMMA Joined ==
    ASSUME NEW s \in Seq(Feed!Event), NEW t \in Seq(Feed!Event)
    PROVE  /\ s \o t \in Seq(Feed!Event)
           /\ ToSet(s \o t) = ToSet(s) \cup ToSet(t)
           /\ Chained(s) /\ Chained(t) /\ Apart(ToSet(s), ToSet(t)) => Chained(s \o t)
<1> DEFINE st == s \o t
<1>1. /\ st \in Seq(Feed!Event) /\ Len(st) = Len(s) + Len(t)
      /\ \A k \in 1..(Len(s) + Len(t)) : st[k] = IF k <= Len(s) THEN s[k] ELSE t[k - Len(s)]
    BY ConcatProperties
<1>2. Len(s) \in Nat /\ Len(t) \in Nat
    BY LenProperties
<1>3. DOMAIN s = 1..Len(s) /\ DOMAIN t = 1..Len(t) /\ DOMAIN st = 1..(Len(s) + Len(t))
    BY <1>1, LenProperties
<1> HIDE DEF st
<1>4. ToSet(st) = ToSet(s) \cup ToSet(t)
    <2>1. ASSUME NEW k \in DOMAIN st PROVE st[k] \in ToSet(s) \cup ToSet(t)
        <3>1. k <= Len(s) => k \in DOMAIN s /\ st[k] = s[k]
            BY <1>1, <1>2, <1>3
        <3>2. ~(k <= Len(s)) => k - Len(s) \in DOMAIN t /\ st[k] = t[k - Len(s)]
            BY <1>1, <1>2, <1>3
        <3> QED BY <3>1, <3>2 DEF ToSet
    <2>2. \A k \in DOMAIN s : k \in DOMAIN st /\ s[k] = st[k]
        BY <1>1, <1>2, <1>3
    <2>3. \A k \in DOMAIN t : k + Len(s) \in DOMAIN st /\ t[k] = st[k + Len(s)]
        BY <1>1, <1>2, <1>3
    <2>4. \A e \in ToSet(s) \cup ToSet(t) : e \in ToSet(st)
        BY <2>2, <2>3 DEF ToSet
    <2>5. \A e \in ToSet(st) : e \in ToSet(s) \cup ToSet(t)
        BY <2>1 DEF ToSet
    <2> QED BY <2>4, <2>5
<1>5. ASSUME Chained(s), Chained(t), Apart(ToSet(s), ToSet(t)),
             NEW k \in DOMAIN st, NEW l \in 1..(k - 1), st[l].from = st[k].from
      PROVE  st[l].n < st[k].n
    <2>0. k \in 1..(Len(s) + Len(t)) /\ l \in 1..(Len(s) + Len(t)) /\ l < k
        BY <1>2, <1>3
    <2>1. CASE k <= Len(s)
        <3>1. st[k] = s[k] /\ st[l] = s[l] /\ k \in DOMAIN s /\ l \in 1..(k - 1)
            BY <1>1, <1>2, <1>3, <2>0, <2>1
        <3> QED BY <3>1, <1>5 DEF Chained
    <2>2. CASE l > Len(s)
        <3>1. /\ st[k] = t[k - Len(s)] /\ st[l] = t[l - Len(s)]
              /\ k - Len(s) \in DOMAIN t /\ l - Len(s) \in 1..((k - Len(s)) - 1)
            BY <1>1, <1>2, <1>3, <2>0, <2>2
        <3> QED BY <3>1, <1>5 DEF Chained
    <2>3. CASE k > Len(s) /\ l <= Len(s)
        <3>1. st[k] = t[k - Len(s)] /\ st[l] = s[l] /\ k - Len(s) \in DOMAIN t /\ l \in DOMAIN s
            BY <1>1, <1>2, <1>3, <2>0, <2>3
        <3> QED BY <3>1, <1>5 DEF Apart, ToSet
    <2> QED BY <2>0, <2>1, <2>2, <2>3, <1>2
<1>6. Chained(s) /\ Chained(t) /\ Apart(ToSet(s), ToSet(t)) => Chained(st)
    BY <1>5 DEF Chained
<1> QED BY <1>1, <1>4, <1>6 DEF st

\* What is handed on are the events of the rows, in their senders' order.
LEMMA HandedOn ==
    ASSUME Inv, NEW i \in Instances, NEW new, new \subseteq table, NEW q \in Others(i, new)
    PROVE  /\ Events(q) \in Seq(Feed!Event)
           /\ ToSet(Events(q)) = {EventOf(r) : r \in {x \in new : x.from # i}}
           /\ Chained(Events(q))
<1> DEFINE X == {x \in new : x.from # i}
           n == Cardinality(X)
           ev == Events(q)
<1>1. IsFiniteSet(X) /\ X \subseteq table
    BY FS_Subset DEF Inv, Numbered
<1>2. n \in Nat
    BY <1>1, FS_CardinalityType
<1>3. q \in [1..n -> X] /\ \A k, l \in 1..n : k < l => q[k].id < q[l].id
    BY <1>2 DEF Others
<1>4. table \subseteq Row
    BY DEF Inv, TypeOK
<1> HIDE DEF n, X
<1>5. \A k \in 1..n : q[k] \in Row /\ q[k] \in table /\ q[k] \in X
    BY <1>1, <1>3, <1>4
<1>6. q \in Injection(1..n, X)
    <2>1. ASSUME NEW k \in 1..n, NEW l \in 1..n, q[k] = q[l] PROVE k = l
        <3>1. q[k].id \in Nat /\ q[l].id \in Nat
            BY <1>5 DEF Row
        <3> QED BY <1>2, <1>3, <2>1, <3>1
    <2> QED BY <1>3, <2>1 DEF Injection, IsInjective
<1>7. q \in Surjection(1..n, X)
    <2>1. Cardinality(1..n) = n
        BY <1>2, FS_Interval
    <2> QED BY <1>1, <1>6, <2>1, FS_Injection DEF n
<1>8. ev = [k \in 1..n |-> EventOf(q[k])]
    BY <1>3 DEF Events
<1>9. \A k \in 1..n : ev[k].from = q[k].from /\ ev[k].n = q[k].n /\ ev[k] \in Feed!Event
    <2> HIDE DEF ev
    <2> SUFFICES ASSUME NEW k \in 1..n
                 PROVE  ev[k].from = q[k].from /\ ev[k].n = q[k].n /\ ev[k] \in Feed!Event
        OBVIOUS
    <2>1. ev[k] = [from |-> q[k].from, n |-> q[k].n] /\ q[k] \in Row
        BY <1>5, <1>8 DEF EventOf
    <2> QED BY <2>1 DEF Row, Feed!Event
<1>10. ev \in Seq(Feed!Event)
    <2>1. ev \in [1..n -> Feed!Event]
        BY <1>8, <1>9
    <2> QED BY <1>2, <2>1, SeqDef
<1>11. ToSet(ev) = {EventOf(r) : r \in X}
    <2>1. ToSet(ev) = {EventOf(q[k]) : k \in 1..n}
        BY <1>8 DEF ToSet
    <2>2. \A r \in X : \E k \in 1..n : q[k] = r
        BY <1>7 DEF Surjection
    <2> QED BY <1>5, <2>1, <2>2
<1>12. Chained(ev)
    <2> SUFFICES ASSUME NEW k \in 1..n, NEW l \in 1..(k - 1), ev[l].from = ev[k].from
                 PROVE  ev[l].n < ev[k].n
        BY <1>8 DEF Chained
    <2>1. l \in 1..n /\ l < k
        BY <1>2
    <2> HIDE DEF ev
    <2>2. /\ ev[l].from = q[l].from /\ ev[l].n = q[l].n
          /\ ev[k].from = q[k].from /\ ev[k].n = q[k].n
        BY <1>9, <2>1
    <2>3. q[l].id < q[k].id /\ q[l] \in Rows /\ q[k] \in Rows
        BY <1>3, <1>5, <2>1 DEF Rows
    <2>4. q[l].n < q[k].n
        BY <2>2, <2>3 DEF Inv, Numbered
    <2> QED BY <2>2, <2>4
<1> QED BY <1>10, <1>11, <1>12 DEF X

-----------------------------------------------------------------------------
(* Sending. *)

LEMMA RowsAreRows ==
    ASSUME TypeOK
    PROVE  Rows \subseteq Row /\ \A r \in Row : r.id \in Nat /\ r.n \in Nat /\ r.from \in Instances
<1>1. \A i \in Instances : inserting[i] \subseteq Row
    BY DEF TypeOK
<1> QED BY <1>1 DEF TypeOK, Rows, Row

LEMMA TakenAreEvents ==
    ASSUME TypeOK, NEW j \in Instances
    PROVE  /\ Taken(j) \subseteq Feed!Event
           /\ \A e \in Taken(j) : e.from \in Instances
<1>1. heard[j] \in Seq(Feed!Event) /\ batch[j] \in Seq(Feed!Event)
    BY DEF TypeOK
<1>2. Taken(j) \subseteq Feed!Event
    BY <1>1, ElementOfSeq, LenProperties DEF Taken, ToSet
<1>3. \A e \in Feed!Event : e.from \in Instances
    BY DEF Feed!Event
<1> QED BY <1>2, <1>3

LEMMA PublishKeeps ==
    ASSUME Inv, NEW i \in Instances, Publish(i)
    PROVE  Inv'
<1> DEFINE last == Len(queue[i]) + 1
<1>1. TypeOK /\ Numbered /\ Waiting
    BY DEF Inv
<1>2. /\ said' = [said EXCEPT ![i] = @ + 1]
      /\ UNCHANGED <<inserting, lastId, table, reader, batch, heard, start, missed, spent>>
    BY DEF Publish, readerVars
<1>3. /\ said' \in [Instances -> Nat] /\ said'[i] = said[i] + 1 /\ said[i] \in Nat
      /\ \A j \in Instances : said[j] \in Nat /\ said[j] <= said'[j]
    BY <1>1, <1>2 DEF TypeOK
<1>4. /\ queue' \in [Instances -> Seq(Nat)]
      /\ \A j \in Instances : Len(queue'[j]) <= QUEUE
      /\ \A j \in Instances : \A k \in DOMAIN queue'[j] :
            \/ k \in DOMAIN queue[j] /\ queue'[j][k] = queue[j][k]
            \/ j = i /\ queue'[j][k] = said[i] + 1 /\ k \notin DOMAIN queue[j] /\ DOMAIN queue[j] = 1..(k - 1)
    <2>1. queue \in [Instances -> Seq(Nat)] /\ \A j \in Instances : Len(queue[j]) <= QUEUE
        BY <1>1 DEF TypeOK
    <2>2. CASE Len(queue[i]) < QUEUE
        <3> DEFINE q == Append(queue[i], said[i] + 1)
        <3>1. queue[i] \in Seq(Nat) /\ said[i] + 1 \in Nat
            BY <2>1, <1>3
        <3>2. /\ q \in Seq(Nat) /\ Len(q) = last
              /\ \A k \in 1..Len(queue[i]) : q[k] = queue[i][k]
              /\ q[last] = said[i] + 1
            BY <3>1, AppendProperties
        <3>3. DOMAIN queue[i] = 1..Len(queue[i]) /\ DOMAIN q = 1..last /\ Len(queue[i]) \in Nat
            BY <3>1, <3>2, LenProperties
        <3>4. queue' = [queue EXCEPT ![i] = q]
            BY <2>2 DEF Publish
        <3>5. last <= QUEUE
            BY <2>2, <3>3, BusAssumption
        <3> HIDE DEF q
        <3> QED BY <2>1, <3>2, <3>3, <3>4, <3>5
    <2>3. CASE ~(Len(queue[i]) < QUEUE)
        <3>1. queue' = queue
            BY <2>3 DEF Publish
        <3> QED BY <2>1, <3>1
    <2> QED BY <2>2, <2>3
<1>5. TypeOK'
    BY <1>1, <1>2, <1>3, <1>4 DEF TypeOK
<1>6. Rows' = Rows /\ Rows \subseteq Row /\ \A r \in Rows : r.n \in Nat /\ r.from \in Instances
    BY <1>1, <1>2, RowsAreRows DEF Rows
<1>7. Numbered'
    <2>1. \A r \in Rows : r.n <= said'[r.from]
        BY <1>1, <1>3, <1>6 DEF Numbered
    <2> QED BY <1>1, <1>2, <1>6, <2>1 DEF Numbered
<1>8. Waiting'
    <2> SUFFICES ASSUME NEW j \in Instances, NEW k \in DOMAIN queue'[j]
                 PROVE  /\ queue'[j][k] \in 1..said'[j]
                        /\ \A l \in 1..(k - 1) : queue'[j][l] < queue'[j][k]
                        /\ \A r \in Rows : r.from = j => r.n < queue'[j][k]
        BY <1>6 DEF Waiting
    <2>0. /\ queue'[j] \in Seq(Nat) /\ DOMAIN queue'[j] = 1..Len(queue'[j])
          /\ queue[j] \in Seq(Nat) /\ DOMAIN queue[j] = 1..Len(queue[j])
        BY <1>1, <1>4, LenProperties DEF TypeOK
    <2>1. CASE k \in DOMAIN queue[j] /\ queue'[j][k] = queue[j][k]
        <3>1. ASSUME NEW l \in 1..(k - 1) PROVE l \in DOMAIN queue'[j] /\ l \in DOMAIN queue[j]
            <4>1. /\ k \in 1..Len(queue[j]) /\ k \in 1..Len(queue'[j])
                  /\ Len(queue[j]) \in Nat /\ Len(queue'[j]) \in Nat
                BY <2>0, <2>1, LenProperties
            <4>2. l \in 1..Len(queue[j]) /\ l \in 1..Len(queue'[j])
                BY <4>1
            <4> QED BY <2>0, <4>2
        <3>2. \A l \in 1..(k - 1) : queue'[j][l] = queue[j][l]
            BY <1>4, <3>1
        <3> QED BY <1>1, <1>3, <2>1, <3>2 DEF Waiting
    <2>2. CASE j = i /\ queue'[j][k] = said[i] + 1 /\ k \notin DOMAIN queue[j] /\ DOMAIN queue[j] = 1..(k - 1)
        <3>0. \A l \in 1..(k - 1) : l \in DOMAIN queue'[j] /\ l \in DOMAIN queue[j]
            BY <2>0, <2>2
        <3>1. \A l \in 1..(k - 1) : queue'[i][l] = queue[i][l] /\ queue[i][l] \in 1..said[i]
            BY <1>1, <1>4, <2>2, <3>0 DEF Waiting
        <3>2. \A l \in 1..(k - 1) : queue'[j][l] < queue'[j][k]
            BY <1>3, <2>2, <3>1
        <3>3. \A r \in Rows : r.from = j => r.n < queue'[j][k]
            BY <1>1, <1>3, <1>6, <2>2 DEF Numbered
        <3> QED BY <1>3, <2>2, <3>2, <3>3
    <2> QED BY <1>4, <2>1, <2>2
<1>9. ASSUME NEW j \in Instances PROVE ReaderOK(j)' /\ Listening(j)' /\ AccountedFor(j)'
    <2>1. ReaderOK(j) /\ Listening(j) /\ AccountedFor(j)
        BY DEF Inv
    <2>2. ReaderOK(j)' /\ AccountedFor(j)'
        BY <1>2, <1>6, <2>1 DEF ReaderOK, AccountedFor, Unread, Taken
    <2>3. Taken(j)' = Taken(j) /\ \A r \in Rows : Unread(j, r)' <=> Unread(j, r)
        BY <1>2 DEF Taken, Unread
    <2>5. ASSUME NEW e \in Taken(j)
          PROVE  e.n \in 1..said'[e.from] /\ \A k \in DOMAIN queue'[e.from] : e.n < queue'[e.from][k]
        <3>1. e.from \in Instances
            BY <1>1, TakenAreEvents
        <3>2. e.n \in 1..said[e.from] /\ \A k \in DOMAIN queue[e.from] : e.n < queue[e.from][k]
            BY <2>1 DEF Listening
        <3>3. PICK m \in Instances : m = e.from
            BY <3>1
        <3>4. said[m] \in Nat /\ said'[m] \in Nat /\ said[m] <= said'[m] /\ e.n \in 1..said[m]
            BY <1>3, <3>2, <3>3
        <3>5. ASSUME NEW k \in DOMAIN queue'[m] PROVE e.n < queue'[m][k]
            <4>1. CASE k \in DOMAIN queue[m] /\ queue'[m][k] = queue[m][k]
                BY <3>2, <3>3, <4>1
            <4>2. CASE m = i /\ queue'[m][k] = said[i] + 1
                BY <3>4, <4>2
            <4> QED BY <1>4, <3>5, <4>1, <4>2
        <3>6. e.n \in 1..said'[m]
            BY <3>4
        <3> QED BY <3>3, <3>5, <3>6
    <2> QED BY <1>2, <1>6, <2>1, <2>2, <2>3, <2>5 DEF Listening
<1> QED BY <1>5, <1>7, <1>8, <1>9 DEF Inv

LEMMA InsertKeeps ==
    ASSUME Inv, NEW i \in Instances, Insert(i)
    PROVE  Inv'
<1> DEFINE new == [id |-> lastId + 1, from |-> i, n |-> Head(queue[i])]
<1>1. TypeOK /\ Numbered /\ Waiting
    BY DEF Inv
<1>2. /\ inserting[i] = {} /\ queue[i] # <<>> /\ lastId' = lastId + 1
      /\ inserting' = [inserting EXCEPT ![i] = {new}]
      /\ queue' = [queue EXCEPT ![i] = Tail(@)]
      /\ UNCHANGED <<said, table, reader, batch, heard, start, missed, spent>>
    BY DEF Insert, readerVars
<1>3. /\ queue \in [Instances -> Seq(Nat)] /\ \A j \in Instances : Len(queue[j]) <= QUEUE
      /\ lastId \in Nat /\ inserting \in [Instances -> SUBSET Row] /\ said \in [Instances -> Nat]
    BY <1>1 DEF TypeOK
<1>4. /\ queue[i] \in Seq(Nat) /\ DOMAIN queue[i] = 1..Len(queue[i]) /\ Len(queue[i]) \in Nat \ {0}
      /\ Head(queue[i]) = queue[i][1] /\ 1 \in DOMAIN queue[i]
      /\ Tail(queue[i]) \in Seq(Nat) /\ Len(Tail(queue[i])) = Len(queue[i]) - 1
      /\ DOMAIN Tail(queue[i]) = 1..(Len(queue[i]) - 1)
      /\ \A k \in 1..(Len(queue[i]) - 1) : Tail(queue[i])[k] = queue[i][k + 1]
    <2>1. queue[i] \in Seq(Nat)
        BY <1>3
    <2>2. /\ Tail(queue[i]) \in Seq(Nat) /\ Len(Tail(queue[i])) = Len(queue[i]) - 1
          /\ \A k \in 1..Len(Tail(queue[i])) : Tail(queue[i])[k] = queue[i][k + 1]
        BY <1>2, <2>1, HeadTailProperties
    <2>3. DOMAIN queue[i] = 1..Len(queue[i]) /\ Len(queue[i]) \in Nat \ {0}
        BY <1>2, <2>1, LenProperties, EmptySeq
    <2>4. DOMAIN Tail(queue[i]) = 1..Len(Tail(queue[i]))
        BY <2>2, LenProperties
    <2> QED BY <2>1, <2>2, <2>3, <2>4
<1>5. /\ Head(queue[i]) \in 1..said[i] /\ said[i] \in Nat
      /\ \A k \in DOMAIN queue[i] : k # 1 => Head(queue[i]) < queue[i][k]
      /\ \A r \in Rows : r.from = i => r.n < Head(queue[i])
    <2>1. \A k \in DOMAIN queue[i] : k # 1 => 1 \in 1..(k - 1)
        BY <1>4
    <2> QED BY <1>1, <1>3, <1>4, <2>1 DEF Waiting
<1>6. new \in Row /\ new.id = lastId + 1 /\ new.from = i /\ new.n = Head(queue[i])
    BY <1>3, <1>5 DEF Row
<1> HIDE DEF new
<1>7. /\ queue' \in [Instances -> Seq(Nat)] /\ \A j \in Instances : Len(queue'[j]) <= QUEUE
      /\ \A j \in Instances : \A k \in DOMAIN queue'[j] :
            \/ j # i /\ k \in DOMAIN queue[j] /\ queue'[j] = queue[j]
            \/ /\ j = i /\ k + 1 \in DOMAIN queue[i] /\ k \in Nat \ {0}
               /\ \A l \in 1..k : queue'[i][l] = queue[i][l + 1]
    <2>1. QUEUE \in Nat
        BY BusAssumption
    <2>2. Len(queue[i]) - 1 <= QUEUE
        BY <1>3, <1>4, <2>1
    <2> QED BY <1>2, <1>3, <1>4, <2>2
<1>8. TypeOK'
    <2>1. inserting' \in [Instances -> SUBSET Row]
        BY <1>2, <1>3, <1>6
    <2>2. ASSUME NEW j \in Instances PROVE \A r, s \in inserting'[j] : r = s
        <3>1. \A r, s \in inserting[j] : r = s
            BY <1>1 DEF TypeOK
        <3>2. inserting'[j] = IF j = i THEN {new} ELSE inserting[j]
            BY <1>2, <1>3
        <3> QED BY <3>1, <3>2
    <2>3. lastId' \in Nat
        BY <1>2, <1>3
    <2> QED BY <1>1, <1>2, <1>7, <2>1, <2>2, <2>3 DEF TypeOK
<1>9. /\ \A r \in Rows' : r \in Rows \/ r = new
      /\ \A r \in Rows : r \in Row /\ r.id \in Nat /\ r.n \in Nat /\ r.id <= lastId
      /\ \A j \in Instances : \A r \in inserting'[j] : r \in inserting[j] \/ (r = new /\ j = i)
    <2>1. \A j \in Instances : \A r \in inserting'[j] : r \in inserting[j] \/ (r = new /\ j = i)
        BY <1>2, <1>3
    <2> QED BY <1>1, <1>2, <2>1, RowsAreRows DEF Rows, Numbered
<1>10. Numbered'
    <2>1. \A r \in Rows' : r.id <= lastId' /\ r.n <= said'[r.from]
        BY <1>1, <1>2, <1>3, <1>5, <1>6, <1>9 DEF Numbered
    <2>2. \A j \in Instances : \A r \in inserting'[j] : r.from = j
        BY <1>1, <1>6, <1>9 DEF Numbered
    <2>3. \A r, s \in Rows' : r.id = s.id => r = s
        BY <1>1, <1>3, <1>6, <1>9 DEF Numbered
    <2>4. \A r, s \in Rows' : r.from = s.from /\ r.id < s.id => r.n < s.n
        BY <1>1, <1>3, <1>5, <1>6, <1>9 DEF Numbered
    <2>5. \A r \in table : r.id <= lastId /\ r.id \in Nat
        BY <1>9 DEF Rows
    <2>6. \A j \in Instances : \A r \in table', s \in inserting'[j] : r.from = j => r.id < s.id
        BY <1>1, <1>2, <1>3, <1>6, <1>9, <2>5 DEF Numbered
    <2> QED BY <1>1, <1>2, <2>1, <2>2, <2>3, <2>4, <2>6 DEF Numbered
<1>11. Waiting'
    <2> SUFFICES ASSUME NEW j \in Instances, NEW k \in DOMAIN queue'[j]
                 PROVE  /\ queue'[j][k] \in 1..said'[j]
                        /\ \A l \in 1..(k - 1) : queue'[j][l] < queue'[j][k]
                        /\ \A r \in Rows' : r.from = j => r.n < queue'[j][k]
        BY DEF Waiting
    <2>1. CASE j # i /\ k \in DOMAIN queue[j] /\ queue'[j] = queue[j]
        BY <1>1, <1>2, <1>6, <1>9, <2>1 DEF Waiting
    <2>2. CASE /\ j = i /\ k + 1 \in DOMAIN queue[i] /\ k \in Nat \ {0}
               /\ \A l \in 1..k : queue'[i][l] = queue[i][l + 1]
        <3>1. queue'[i][k] = queue[i][k + 1]
            BY <2>2
        <3>2. queue'[i][k] \in 1..said[i] /\ \A r \in Rows : r.from = i => r.n < queue'[i][k]
            BY <1>1, <2>2, <3>1 DEF Waiting
        <3>3. \A l \in 1..(k - 1) : queue'[i][l] = queue[i][l + 1] /\ l + 1 \in 1..((k + 1) - 1)
            BY <2>2
        <3>4. \A l \in 1..(k - 1) : queue'[i][l] < queue'[i][k]
            BY <1>1, <2>2, <3>1, <3>3 DEF Waiting
        <3>5. new.n < queue'[i][k]
            BY <1>5, <1>6, <2>2, <3>1
        <3> QED BY <1>2, <1>9, <2>2, <3>2, <3>4, <3>5
    <2> QED BY <1>7, <2>1, <2>2
<1>12. ASSUME NEW j \in Instances PROVE ReaderOK(j)' /\ Listening(j)' /\ AccountedFor(j)'
    <2>1. ReaderOK(j) /\ Listening(j) /\ AccountedFor(j) /\ reader[j] \in Reader
        BY <1>1 DEF Inv, TypeOK
    <2>2. ReaderOK(j)'
        <3>1. lastId + 1 \notin reader[j].seen
            BY <1>3, <2>1 DEF ReaderOK
        <3>2. /\ reader[j].cursor <= lastId' /\ \A k \in reader[j].seen : k <= lastId'
            BY <1>2, <1>3, <2>1 DEF ReaderOK, Reader
        <3> QED BY <1>2, <1>6, <1>9, <2>1, <3>1, <3>2 DEF ReaderOK
    <2>3. Taken(j)' = Taken(j) /\ \A r : Unread(j, r)' <=> Unread(j, r)
        BY <1>2 DEF Taken, Unread
    <2>4. Unread(j, new)
        BY <1>3, <1>6, <2>1 DEF Unread, ReaderOK, Reader
    <2>5. AccountedFor(j)'
        BY <1>2, <1>9, <2>1, <2>3, <2>4 DEF AccountedFor
    <2>6. ASSUME NEW e \in Taken(j)
          PROVE  /\ \A r \in Rows' : r.from = e.from /\ Unread(j, r) => e.n < r.n
                 /\ \A k \in DOMAIN queue'[e.from] : e.n < queue'[e.from][k]
        <3>1. /\ \A r \in Rows : r.from = e.from /\ Unread(j, r) => e.n < r.n
              /\ \A k \in DOMAIN queue[e.from] : e.n < queue[e.from][k]
            BY <2>1 DEF Listening
        <3>2. e.from \in Instances
            BY <1>1, TakenAreEvents
        <3>3. e.from = i => e.n < new.n
            BY <1>4, <1>6, <3>1
        <3>4. \A k \in DOMAIN queue'[e.from] : e.n < queue'[e.from][k]
            <4> SUFFICES ASSUME NEW m \in Instances, m = e.from, NEW k \in DOMAIN queue'[m]
                         PROVE  e.n < queue'[m][k]
                BY <3>2
            <4>1. CASE /\ m = i /\ k + 1 \in DOMAIN queue[i] /\ k \in Nat \ {0}
                       /\ \A l \in 1..k : queue'[i][l] = queue[i][l + 1]
                <5>1. queue'[i][k] = queue[i][k + 1]
                    BY <4>1
                <5> QED BY <3>1, <4>1, <5>1
            <4>2. CASE k \in DOMAIN queue[m] /\ queue'[m] = queue[m]
                BY <3>1, <4>2
            <4> QED BY <1>7, <4>1, <4>2
        <3> QED BY <1>6, <1>9, <3>1, <3>3, <3>4
    <2>7. Listening(j)'
        BY <1>2, <2>1, <2>3, <2>6 DEF Listening
    <2> QED BY <2>2, <2>5, <2>7
<1> QED BY <1>8, <1>10, <1>11, <1>12 DEF Inv

\* Rows that go, or events that are dropped, disturb nobody.
LEMMA FewerKeep ==
    ASSUME Inv, IsFiniteSet(table)', Rows' \subseteq Rows,
           \A j \in Instances : inserting'[j] \subseteq inserting[j],
           \A j \in Instances : \A r \in table', s \in inserting'[j] : r.from = j => r.id < s.id,
           \A j \in Instances : queue'[j] = queue[j] \/ queue'[j] = <<>>,
           UNCHANGED <<said, lastId>>
    PROVE  /\ Numbered' /\ Waiting'
           /\ \A j \in Instances :
                 /\ reader'[j] = reader[j] /\ batch'[j] = batch[j] /\ heard'[j] = heard[j]
                 /\ start'[j] = start[j] /\ missed'[j] = missed[j]
                 => ReaderOK(j)' /\ Listening(j)' /\ AccountedFor(j)'
<1>1. TypeOK /\ Numbered /\ Waiting
    BY DEF Inv
<1>2. Numbered'
    <2>1. \A r \in Rows' : r.id <= lastId' /\ r.n <= said'[r.from]
        BY <1>1 DEF Numbered
    <2>2. \A r, s \in Rows' : (r.id = s.id => r = s) /\ (r.from = s.from /\ r.id < s.id => r.n < s.n)
        BY <1>1 DEF Numbered
    <2>3. \A j \in Instances : \A r \in inserting'[j] : r.from = j
        BY <1>1 DEF Numbered
    <2> QED BY <2>1, <2>2, <2>3 DEF Numbered
<1>3. \A j \in Instances : DOMAIN queue'[j] \subseteq DOMAIN queue[j]
                           /\ \A k \in DOMAIN queue'[j] : queue'[j] = queue[j]
    <2>1. DOMAIN <<>> = {}
        OBVIOUS
    <2> QED BY <2>1
<1>4. Waiting'
    BY <1>1, <1>3 DEF Waiting
<1>5. ASSUME NEW j \in Instances,
             reader'[j] = reader[j] /\ batch'[j] = batch[j] /\ heard'[j] = heard[j],
             start'[j] = start[j] /\ missed'[j] = missed[j]
      PROVE  ReaderOK(j)' /\ Listening(j)' /\ AccountedFor(j)'
    <2>1. ReaderOK(j) /\ Listening(j) /\ AccountedFor(j)
        BY DEF Inv
    <2>2. ReaderOK(j)'
        BY <1>5, <2>1 DEF ReaderOK
    <2>3. Taken(j)' = Taken(j) /\ \A r : Unread(j, r)' <=> Unread(j, r)
        BY <1>5 DEF Taken, Unread
    <2>4. AccountedFor(j)'
        BY <1>5, <2>1, <2>3 DEF AccountedFor
    <2>5. ASSUME NEW e \in Taken(j)
          PROVE  /\ \A r \in Rows' : r.from = e.from /\ Unread(j, r) => e.n < r.n
                 /\ \A k \in DOMAIN queue'[e.from] : e.n < queue'[e.from][k]
        <3>1. e.from \in Instances
            BY <1>1, TakenAreEvents
        <3> QED BY <1>3, <2>1, <3>1 DEF Listening
    <2> QED BY <1>5, <2>1, <2>2, <2>3, <2>4, <2>5 DEF Listening
<1> QED BY <1>2, <1>4, <1>5

\* One insert ends, with its row or without.
LEMMA InsertEndsKeeps ==
    ASSUME Inv, NEW i \in Instances, NEW kept \in SUBSET inserting[i],
           table' = table \cup kept, inserting' = [inserting EXCEPT ![i] = {}]
    PROVE  /\ IsFiniteSet(table)' /\ Rows' \subseteq Rows
           /\ table' \subseteq Row /\ inserting' \in [Instances -> SUBSET Row]
           /\ \A j \in Instances : inserting'[j] \subseteq inserting[j]
                                   /\ \A r, s \in inserting'[j] : r = s
           /\ \A j \in Instances : \A r \in table', s \in inserting'[j] : r.from = j => r.id < s.id
<1>1. TypeOK /\ Numbered
    BY DEF Inv
<1>2. inserting \in [Instances -> SUBSET Row] /\ table \subseteq Row
    BY <1>1 DEF TypeOK
<1>3. IsFiniteSet(table')
    <2>1. CASE kept = {}
        BY <1>1, <2>1 DEF Numbered
    <2>2. CASE kept # {}
        <3>1. PICK r \in kept : TRUE
            BY <2>2
        <3>2. kept = {r}
            BY <1>1, <3>1 DEF TypeOK
        <3>3. IsFiniteSet(table \cup {r})
            BY <1>1, FS_AddElement DEF Numbered
        <3> QED BY <3>2, <3>3
    <2> QED BY <2>1, <2>2
<1>4. Rows' \subseteq Rows
    BY <1>2 DEF Rows
<1>5. \A j \in Instances : \A r \in table', s \in inserting'[j] : r.from = j => r.id < s.id
    <2> SUFFICES ASSUME NEW j \in Instances, NEW r \in table', NEW s \in inserting'[j], r.from = j
                 PROVE  r.id < s.id
        OBVIOUS
    <2>1. j # i /\ s \in inserting[j]
        BY <1>2
    <2>2. r \in kept => r.from = i
        BY <1>1 DEF Numbered
    <2> QED BY <1>1, <2>1, <2>2 DEF Numbered
<1>6. \A j \in Instances : inserting'[j] \subseteq inserting[j] /\ \A r, s \in inserting'[j] : r = s
    BY <1>1, <1>2 DEF TypeOK
<1> QED BY <1>2, <1>3, <1>4, <1>5, <1>6

LEMMA CommitKeeps ==
    ASSUME Inv, NEW i \in Instances, Commit(i)
    PROVE  Inv'
<1>1. /\ table' = table \cup inserting[i] /\ inserting' = [inserting EXCEPT ![i] = {}]
      /\ UNCHANGED <<said, queue, lastId, reader, batch, heard, start, missed, spent>>
    BY DEF Commit, readerVars
<1>2. /\ IsFiniteSet(table)' /\ Rows' \subseteq Rows
      /\ table' \subseteq Row /\ inserting' \in [Instances -> SUBSET Row]
      /\ \A j \in Instances : inserting'[j] \subseteq inserting[j]
                              /\ \A r, s \in inserting'[j] : r = s
      /\ \A j \in Instances : \A r \in table', s \in inserting'[j] : r.from = j => r.id < s.id
    BY <1>1, InsertEndsKeeps
<1>3. TypeOK'
    BY <1>1, <1>2 DEF Inv, TypeOK
<1>4. /\ Numbered' /\ Waiting'
      /\ \A j \in Instances : ReaderOK(j)' /\ Listening(j)' /\ AccountedFor(j)'
    BY <1>1, <1>2, FewerKeep
<1> QED BY <1>3, <1>4 DEF Inv

LEMMA InsertFailsKeeps ==
    ASSUME Inv, NEW i \in Instances, InsertFails(i)
    PROVE  Inv'
<1>1. /\ table' = table \cup {} /\ inserting' = [inserting EXCEPT ![i] = {}]
      /\ spent' = [spent EXCEPT !["failures"] = @ + 1]
      /\ UNCHANGED <<said, queue, lastId, reader, batch, heard, start, missed>>
    BY DEF InsertFails, Spend, readerVars
<1>2. /\ IsFiniteSet(table)' /\ Rows' \subseteq Rows
      /\ table' \subseteq Row /\ inserting' \in [Instances -> SUBSET Row]
      /\ \A j \in Instances : inserting'[j] \subseteq inserting[j]
                              /\ \A r, s \in inserting'[j] : r = s
      /\ \A j \in Instances : \A r \in table', s \in inserting'[j] : r.from = j => r.id < s.id
    <2>1. {} \in SUBSET inserting[i]
        OBVIOUS
    <2> QED BY <1>1, <2>1, InsertEndsKeeps
<1>3. spent' \in [{"failures", "prunes"} -> Nat]
    BY <1>1 DEF Inv, TypeOK
<1>4. TypeOK'
    BY <1>1, <1>2, <1>3 DEF Inv, TypeOK
<1>5. /\ Numbered' /\ Waiting'
      /\ \A j \in Instances : ReaderOK(j)' /\ Listening(j)' /\ AccountedFor(j)'
    BY <1>1, <1>2, FewerKeep
<1> QED BY <1>4, <1>5 DEF Inv

LEMMA PruneKeeps ==
    ASSUME Inv, Prune
    PROVE  Inv'
<1>1. PICK r \in table : table' = table \ {r}
    BY DEF Prune
<1>2. /\ spent' = [spent EXCEPT !["prunes"] = @ + 1]
      /\ UNCHANGED <<said, queue, inserting, lastId, reader, batch, heard, start, missed>>
    BY DEF Prune, Spend, readerVars, senderVars
<1>3. TypeOK /\ Numbered
    BY DEF Inv
<1>4. IsFiniteSet(table')
    BY <1>1, <1>3, FS_RemoveElement DEF Numbered
<1>5. Rows' \subseteq Rows /\ table' \subseteq table
    BY <1>1, <1>2 DEF Rows
<1>6. spent' \in [{"failures", "prunes"} -> Nat]
    BY <1>2, <1>3 DEF TypeOK
<1>7. TypeOK'
    BY <1>2, <1>3, <1>5, <1>6 DEF TypeOK
<1>8. \A j \in Instances : \A t \in table', s \in inserting'[j] : t.from = j => t.id < s.id
    BY <1>2, <1>3, <1>5 DEF Numbered
<1>9. /\ Numbered' /\ Waiting'
      /\ \A j \in Instances : ReaderOK(j)' /\ Listening(j)' /\ AccountedFor(j)'
    BY <1>2, <1>4, <1>5, <1>8, FewerKeep
<1> QED BY <1>7, <1>9 DEF Inv

LEMMA RestartKeeps ==
    ASSUME Inv, NEW i \in Instances, Restart(i)
    PROVE  Inv'
<1>1. TypeOK /\ Numbered
    BY DEF Inv
<1>2. PICK kept \in SUBSET inserting[i] :
          /\ table' = table \cup kept
          /\ reader' = [reader EXCEPT ![i] =
                           NewReader(IF table \cup kept = {} THEN 0 ELSE Max(Ids(table \cup kept)))]
          /\ start' = [start EXCEPT ![i] = IF table \cup kept = {} THEN 0 ELSE Max(Ids(table \cup kept))]
    BY DEF Restart
<1> DEFINE all == table \cup kept
           first == IF all = {} THEN 0 ELSE Max(Ids(all))
<1>3. /\ queue' = [queue EXCEPT ![i] = <<>>] /\ inserting' = [inserting EXCEPT ![i] = {}]
      /\ batch' = [batch EXCEPT ![i] = <<>>] /\ heard' = [heard EXCEPT ![i] = <<>>]
      /\ missed' = [missed EXCEPT ![i] = [given |-> {}, failed |-> {}]]
      /\ spent' = [spent EXCEPT !["failures"] = @ + 1]
      /\ UNCHANGED <<said, lastId>>
    BY DEF Restart, Spend
<1>4. /\ IsFiniteSet(table)' /\ Rows' \subseteq Rows
      /\ table' \subseteq Row /\ inserting' \in [Instances -> SUBSET Row]
      /\ \A j \in Instances : inserting'[j] \subseteq inserting[j]
                              /\ \A r, s \in inserting'[j] : r = s
      /\ \A j \in Instances : \A r \in table', s \in inserting'[j] : r.from = j => r.id < s.id
    BY <1>2, <1>3, InsertEndsKeeps
<1>5. lastId \in Nat /\ \A r \in Rows : r \in Row /\ r.id \in Nat /\ r.id <= lastId
    BY <1>1, RowsAreRows DEF TypeOK, Numbered
<1>6. first \in Nat /\ first <= lastId
    <2>1. CASE all = {}
        BY <1>5, <2>1
    <2>2. CASE all # {}
        <3>1. all \subseteq Rows
            BY DEF Rows
        <3>2. Ids(all) \subseteq Nat /\ Ids(all) # {} /\ \A k \in Ids(all) : k <= lastId
            BY <1>5, <2>2, <3>1 DEF Ids
        <3>3. Max(Ids(all)) \in Ids(all)
            BY <1>5, <3>2, MaxOf
        <3> QED BY <2>2, <3>2, <3>3
    <2> QED BY <2>1, <2>2
<1> HIDE DEF first
<1>7. reader' = [reader EXCEPT ![i] = NewReader(first)] /\ start' = [start EXCEPT ![i] = first]
    BY <1>2 DEF first
<1>8. TypeOK'
    <2>1. NewReader(first) \in Reader
        BY <1>6 DEF NewReader, Reader
    <2>2. reader' \in [Instances -> Reader] /\ start' \in [Instances -> Nat]
        BY <1>1, <1>6, <1>7, <2>1 DEF TypeOK
    <2>3. <<>> \in Seq(Nat) /\ <<>> \in Seq(Feed!Event) /\ Len(<<>>) = 0 /\ QUEUE \in Nat
        BY BusAssumption
    <2>4. queue' \in [Instances -> Seq(Nat)] /\ \A j \in Instances : Len(queue'[j]) <= QUEUE
        BY <1>1, <1>3, <2>3 DEF TypeOK
    <2>5. batch' \in [Instances -> Seq(Feed!Event)] /\ heard' \in [Instances -> Seq(Feed!Event)]
        BY <1>1, <1>3, <2>3 DEF TypeOK
    <2>6. missed' \in [Instances -> [given: SUBSET Nat, failed: SUBSET Feed!Event]]
        BY <1>1, <1>3 DEF TypeOK
    <2>7. spent' \in [{"failures", "prunes"} -> Nat]
        BY <1>1, <1>3 DEF TypeOK
    <2>8. said' \in [Instances -> Nat] /\ lastId' \in Nat
        BY <1>1, <1>3 DEF TypeOK
    <2> QED BY <1>4, <2>2, <2>4, <2>5, <2>6, <2>7, <2>8 DEF TypeOK
<1>9. \A j \in Instances : queue'[j] = queue[j] \/ queue'[j] = <<>>
    BY <1>1, <1>3 DEF TypeOK
<1>10. /\ Numbered' /\ Waiting'
       /\ \A j \in Instances \ {i} : ReaderOK(j)' /\ Listening(j)' /\ AccountedFor(j)'
    <2>1. \A j \in Instances \ {i} : /\ reader'[j] = reader[j] /\ batch'[j] = batch[j]
                                     /\ heard'[j] = heard[j] /\ start'[j] = start[j]
                                     /\ missed'[j] = missed[j]
        BY <1>1, <1>3, <1>7 DEF TypeOK
    <2> QED BY <1>3, <1>4, <1>9, <2>1, FewerKeep
<1>11. ReaderOK(i)' /\ Listening(i)' /\ AccountedFor(i)'
    <2>1. /\ reader'[i] = NewReader(first) /\ batch'[i] = <<>> /\ heard'[i] = <<>> /\ start'[i] = first
        BY <1>1, <1>3, <1>7 DEF TypeOK
    <2>2. ReaderOK(i)'
        BY <1>3, <1>6, <2>1 DEF ReaderOK, NewReader
    <2>3. Listening(i)'
        BY <2>1 DEF Listening, Chained, Apart, Taken, ToSet
    <2>4. AccountedFor(i)'
        BY <1>4, <1>5, <1>6, <2>1 DEF AccountedFor, Unread, NewReader
    <2> QED BY <2>2, <2>3, <2>4
<1> QED BY <1>8, <1>10, <1>11 DEF Inv

-----------------------------------------------------------------------------
(* Reading. *)

LEMMA GraceEndsKeeps ==
    ASSUME Inv, NEW i \in Instances, GraceEnds(i)
    PROVE  Inv'
<1>1. /\ reader' = [reader EXCEPT ![i].gap = "over"]
      /\ UNCHANGED <<said, queue, inserting, lastId, table, batch, heard, start, missed, spent>>
    BY DEF GraceEnds, senderVars
<1>2. TypeOK /\ Numbered /\ Waiting
    BY DEF Inv
<1>3. \A j \in Instances : reader'[j].cursor = reader[j].cursor /\ reader'[j].seen = reader[j].seen
    BY <1>1, <1>2 DEF TypeOK, Reader
<1>4. TypeOK'
    <2>0. reader[i] \in Reader
        BY <1>2 DEF TypeOK
    <2>1. [reader[i] EXCEPT !.gap = "over"] \in Reader
        BY <2>0 DEF Reader
    <2>2. reader' \in [Instances -> Reader]
        BY <1>1, <1>2, <2>1 DEF TypeOK
    <2> QED BY <1>1, <1>2, <2>2 DEF TypeOK
<1>5. Rows' = Rows
    BY <1>1 DEF Rows
<1>6. Numbered' /\ Waiting'
    BY <1>1, <1>2, <1>5 DEF Numbered, Waiting
<1>7. ASSUME NEW j \in Instances PROVE ReaderOK(j)' /\ Listening(j)' /\ AccountedFor(j)'
    <2>1. ReaderOK(j) /\ Listening(j) /\ AccountedFor(j)
        BY DEF Inv
    <2>2. Taken(j)' = Taken(j) /\ \A r : Unread(j, r)' <=> Unread(j, r)
        BY <1>1, <1>3 DEF Taken, Unread
    <2>3. ReaderOK(j)'
        BY <1>1, <1>3, <2>1 DEF ReaderOK
    <2>4. Listening(j)'
        BY <1>1, <1>5, <2>1, <2>2 DEF Listening
    <2>5. AccountedFor(j)'
        BY <1>1, <1>5, <2>1, <2>2 DEF AccountedFor
    <2> QED BY <2>3, <2>4, <2>5
<1> QED BY <1>4, <1>6, <1>7 DEF Inv

LEMMA ReadFailsKeeps ==
    ASSUME Inv, NEW i \in Instances, ReadFails(i)
    PROVE  Inv'
<1>1. /\ batch' = [batch EXCEPT ![i] = <<>>]
      /\ missed' = [missed EXCEPT ![i].failed = @ \cup ToSet(batch[i])]
      /\ spent' = [spent EXCEPT !["failures"] = @ + 1]
      /\ UNCHANGED <<said, queue, inserting, lastId, table, reader, heard, start>>
    BY DEF ReadFails, Spend, senderVars
<1>2. TypeOK /\ Numbered /\ Waiting
    BY DEF Inv
<1>3. /\ batch \in [Instances -> Seq(Feed!Event)] /\ batch[i] \in Seq(Feed!Event)
      /\ missed \in [Instances -> [given: SUBSET Nat, failed: SUBSET Feed!Event]]
    BY <1>2 DEF TypeOK
<1>4. /\ \A j \in Instances \ {i} : batch'[j] = batch[j] /\ missed'[j] = missed[j]
      /\ batch'[i] = <<>> /\ missed'[i].given = missed[i].given
      /\ missed'[i].failed = missed[i].failed \cup ToSet(batch[i])
    BY <1>1, <1>3
<1>5. TypeOK'
    <2>1. ToSet(batch[i]) \subseteq Feed!Event
        BY <1>3, ElementOfSeq, LenProperties DEF ToSet
    <2>2. missed[i] \in [given: SUBSET Nat, failed: SUBSET Feed!Event]
        BY <1>3
    <2>3. [missed[i] EXCEPT !.failed = @ \cup ToSet(batch[i])]
              \in [given: SUBSET Nat, failed: SUBSET Feed!Event]
        BY <2>1, <2>2
    <2>4. missed' \in [Instances -> [given: SUBSET Nat, failed: SUBSET Feed!Event]]
        BY <1>1, <1>3, <2>3
    <2>5. <<>> \in Seq(Feed!Event)
        OBVIOUS
    <2>6. batch' \in [Instances -> Seq(Feed!Event)]
        BY <1>1, <1>3, <2>5
    <2>7. spent' \in [{"failures", "prunes"} -> Nat]
        BY <1>1, <1>2 DEF TypeOK
    <2> QED BY <1>1, <1>2, <2>4, <2>6, <2>7 DEF TypeOK
<1>6. Numbered' /\ Waiting' /\ Rows' = Rows
    BY <1>1, <1>2 DEF Numbered, Waiting, Rows
<1>7. ASSUME NEW j \in Instances PROVE ReaderOK(j)' /\ Listening(j)' /\ AccountedFor(j)'
    <2>1. ReaderOK(j) /\ Listening(j) /\ AccountedFor(j)
        BY DEF Inv
    <2>2. \A r : Unread(j, r)' <=> Unread(j, r)
        BY <1>1 DEF Unread
    <2>3. ReaderOK(j)'
        BY <1>1, <2>1 DEF ReaderOK
    <2>4. /\ Taken(j)' \subseteq Taken(j) /\ missed'[j].given = missed[j].given
          /\ Taken(j) \subseteq Taken(j)' \cup missed'[j].failed
          /\ missed[j].failed \subseteq missed'[j].failed
          /\ ToSet(batch[j])' \subseteq ToSet(batch[j])
        <3>1. ToSet(<<>>) = {}
            BY DEF ToSet
        <3> QED BY <1>1, <1>4, <3>1 DEF Taken
    <2>5. Chained(batch[j])'
        <3>1. Chained(<<>>)
            BY DEF Chained
        <3> QED BY <1>4, <2>1, <3>1 DEF Listening
    <2>6. Listening(j)'
        BY <1>1, <1>6, <2>1, <2>2, <2>4, <2>5 DEF Listening, Apart
    <2>7. AccountedFor(j)'
        BY <1>1, <1>6, <2>1, <2>2, <2>4 DEF AccountedFor
    <2> QED BY <2>3, <2>6, <2>7
<1> QED BY <1>5, <1>6, <1>7 DEF Inv

\* What one turn of the loop does: it hands on the unread rows of a lower part of the
\* table, and what it gives up on is not there.
LEMMA ReadDoes ==
    ASSUME Inv, NEW i \in Instances, Read(i)
    PROVE  \E new \in SUBSET table, given \in SUBSET Nat, ev \in Seq(Feed!Event) :
               /\ ToSet(ev) = {EventOf(r) : r \in {x \in new : x.from # i}} /\ Chained(ev)
               /\ \A x \in new : Unread(i, x)
               /\ \A r \in Rows : Unread(i, r)' => Unread(i, r) /\ r \notin new
               /\ \A r \in Rows : ~Unread(i, r)' => ~Unread(i, r) \/ r \in new \/ r.id \in given
               /\ \A x \in new, r \in table : Unread(i, r) /\ r.id < x.id => r \in new
               /\ given \cap Ids(table) = {}
               /\ missed' = [missed EXCEPT ![i].given = @ \cup given]
               /\ reader' \in [Instances -> Reader] /\ ReaderOK(i)'
               /\ \A j \in Instances \ {i} : reader'[j] = reader[j]
               /\ \/ batch' = [batch EXCEPT ![i] = batch[i] \o ev] /\ heard' = heard
                  \/ /\ batch' = [batch EXCEPT ![i] = <<>>]
                     /\ heard' = [heard EXCEPT ![i] = heard[i] \o (batch[i] \o ev)]
               /\ UNCHANGED <<said, queue, inserting, lastId, table, start, spent>>
<1> DEFINE R == reader[i]
           new == Accepted(R, Fetched(i))
           S == [R EXCEPT !.seen = @ \cup Ids(new)]
           A == Advance(S)
           given == GivenUp(S)
<1>1. PICK q \in Others(i, new) :
          /\ reader' = [reader EXCEPT ![i] = A]
          /\ missed' = [missed EXCEPT ![i].given = @ \cup given]
          /\ \/ batch' = [batch EXCEPT ![i] = batch[i] \o Events(q)] /\ heard' = heard
             \/ /\ batch' = [batch EXCEPT ![i] = <<>>]
                /\ heard' = [heard EXCEPT ![i] = heard[i] \o (batch[i] \o Events(q))]
          /\ UNCHANGED <<said, queue, inserting, lastId, table, start, spent>>
    BY DEF Read, senderVars
<1>2. /\ TypeOK /\ Numbered /\ ReaderOK(i) /\ reader \in [Instances -> Reader] /\ R \in Reader
      /\ lastId \in Nat
    BY DEF Inv, TypeOK
<1>3. /\ new \subseteq table /\ \A x \in new : Unread(i, x)
      /\ S \in Reader /\ S.cursor = R.cursor /\ S.seen = R.seen \cup Ids(new)
      /\ \A k \in S.seen : S.cursor < k /\ k <= lastId
      /\ \A r \in table : r.id > R.cursor => \E k \in S.seen : k <= r.id
      /\ \A x \in new, r \in table : Unread(i, r) /\ r.id < x.id => r \in new
    BY Turn
<1> DEFINE ev == Events(q)
<1>4. ev \in Seq(Feed!Event) /\ Chained(ev)
      /\ ToSet(ev) = {EventOf(r) : r \in {x \in new : x.from # i}}
    BY <1>1, <1>3, HandedOn
<1> HIDE DEF new, S, ev
<1>5. /\ A \in Reader /\ S.cursor <= A.cursor /\ A.cursor <= lastId
      /\ A.seen = {k \in S.seen : k > A.cursor}
      /\ \A k \in Nat : Jump(S) < k /\ k <= A.cursor => k \in S.seen
    BY <1>2, <1>3, AdvanceIs DEF ReaderOK
<1>6. Jump(S) \in Nat /\ \A k \in S.seen : Jump(S) < k \/ Jump(S) = S.cursor
    BY <1>3, JumpIs
<1> HIDE DEF A
<1>7. /\ S.cursor \in Nat /\ S.seen \subseteq Nat /\ A.cursor \in Nat
      /\ \A r \in Rows : r \in Row /\ r.id \in Nat
    BY <1>2, <1>3, <1>5, RowsAreRows DEF Reader
<1>8. given = ((S.cursor + 1)..Jump(S)) \ S.seen
    BY DEF GivenUp
<1> HIDE DEF given
<1>9. \A r \in table : r.id > R.cursor => r.id > Jump(S)
    <2> SUFFICES ASSUME NEW r \in table, r.id > R.cursor PROVE r.id > Jump(S)
        OBVIOUS
    <2>1. PICK k \in S.seen : k <= r.id
        BY <1>3
    <2>2. r.id \in Nat /\ k \in Nat
        BY <1>7 DEF Rows
    <2> QED BY <1>3, <1>6, <1>7, <2>1, <2>2
<1>10. given \subseteq Nat /\ given \cap Ids(table) = {}
    <2>1. given \subseteq Nat
        BY <1>6, <1>7, <1>8
    <2>2. ASSUME NEW r \in table, r.id \in given PROVE FALSE
        <3>1. r.id > R.cursor /\ r.id <= Jump(S) /\ r.id \in Nat
            BY <1>3, <1>6, <1>7, <1>8, <2>2
        <3> QED BY <1>6, <1>9, <3>1
    <2> QED BY <2>1, <2>2 DEF Ids
<1>11. \A r \in Rows : r.id \in Ids(new) => r \in new
    BY <1>2, <1>3 DEF Ids, Numbered, Rows
<1>12. /\ reader'[i] = A /\ \A j \in Instances \ {i} : reader'[j] = reader[j]
       /\ reader' \in [Instances -> Reader]
    BY <1>1, <1>2, <1>5
<1>13. \A r : Unread(i, r)' <=> r.id > A.cursor /\ r.id \notin A.seen
    BY <1>12 DEF Unread
<1>14. ASSUME NEW r \in Rows, Unread(i, r)' PROVE Unread(i, r) /\ r \notin new
    <2>1. r.id > A.cursor /\ r.id \notin S.seen /\ r.id \in Nat
        BY <1>5, <1>7, <1>13, <1>14
    <2>2. r.id > R.cursor /\ r.id \notin R.seen /\ r.id \notin Ids(new)
        BY <1>3, <1>5, <1>7, <2>1
    <2> QED BY <2>2 DEF Unread, Ids
<1>15. ASSUME NEW r \in Rows, ~Unread(i, r)', Unread(i, r) PROVE r \in new \/ r.id \in given
    <2>1. r.id \in Nat /\ r.id > S.cursor /\ r.id \notin R.seen
        BY <1>3, <1>7, <1>15 DEF Unread
    <2>2. r.id \in S.seen => r \in new
        BY <1>3, <1>11, <2>1
    <2>3. r.id \notin S.seen => r.id <= A.cursor /\ ~(Jump(S) < r.id)
        BY <1>5, <1>7, <1>13, <1>15, <2>1
    <2>4. r.id \notin S.seen => r.id \in (S.cursor + 1)..Jump(S)
        BY <1>6, <1>7, <2>1, <2>3
    <2> QED BY <1>8, <2>2, <2>4
<1>16. ReaderOK(i)'
    <2>1. A.cursor <= lastId /\ \A k \in A.seen : A.cursor < k /\ k <= lastId
        BY <1>3, <1>5, <1>7
    <2>2. ASSUME NEW j \in Instances, NEW r \in inserting[j], r.id \in A.seen PROVE FALSE
        <3>1. r \in Rows /\ r.from = j /\ r.id \in S.seen /\ r.id \notin R.seen /\ r.id \in Nat
            BY <1>2, <1>5, <1>7, <2>2 DEF Rows, Numbered, ReaderOK
        <3>2. r \in table
            BY <1>3, <1>11, <3>1
        <3>3. r.id < r.id
            BY <1>2, <2>2, <3>1, <3>2 DEF Numbered
        <3> QED BY <3>1, <3>3
    <2> QED BY <1>1, <1>12, <2>1, <2>2 DEF ReaderOK
<1>17. /\ \/ batch' = [batch EXCEPT ![i] = batch[i] \o ev] /\ heard' = heard
          \/ /\ batch' = [batch EXCEPT ![i] = <<>>]
             /\ heard' = [heard EXCEPT ![i] = heard[i] \o (batch[i] \o ev)]
       /\ UNCHANGED <<said, queue, inserting, lastId, table, start, spent>>
       /\ missed' = [missed EXCEPT ![i].given = @ \cup given]
    BY <1>1 DEF ev
<1> QED BY <1>3, <1>4, <1>10, <1>12, <1>14, <1>15, <1>16, <1>17

LEMMA ReadKeeps ==
    ASSUME Inv, NEW i \in Instances, Read(i)
    PROVE  Inv'
<1>1. PICK new \in SUBSET table, given \in SUBSET Nat, ev \in Seq(Feed!Event) :
          /\ ToSet(ev) = {EventOf(r) : r \in {x \in new : x.from # i}} /\ Chained(ev)
          /\ \A x \in new : Unread(i, x)
          /\ \A r \in Rows : Unread(i, r)' => Unread(i, r) /\ r \notin new
          /\ \A r \in Rows : ~Unread(i, r)' => ~Unread(i, r) \/ r \in new \/ r.id \in given
          /\ \A x \in new, r \in table : Unread(i, r) /\ r.id < x.id => r \in new
          /\ given \cap Ids(table) = {}
          /\ missed' = [missed EXCEPT ![i].given = @ \cup given]
          /\ reader' \in [Instances -> Reader] /\ ReaderOK(i)'
          /\ \A j \in Instances \ {i} : reader'[j] = reader[j]
          /\ \/ batch' = [batch EXCEPT ![i] = batch[i] \o ev] /\ heard' = heard
             \/ /\ batch' = [batch EXCEPT ![i] = <<>>]
                /\ heard' = [heard EXCEPT ![i] = heard[i] \o (batch[i] \o ev)]
          /\ UNCHANGED <<said, queue, inserting, lastId, table, start, spent>>
    BY ReadDoes
<1>2. TypeOK /\ Numbered /\ Waiting /\ ReaderOK(i) /\ Listening(i) /\ AccountedFor(i)
    BY DEF Inv
<1>3. /\ batch \in [Instances -> Seq(Feed!Event)] /\ heard \in [Instances -> Seq(Feed!Event)]
      /\ missed \in [Instances -> [given: SUBSET Nat, failed: SUBSET Feed!Event]]
      /\ batch[i] \in Seq(Feed!Event) /\ heard[i] \in Seq(Feed!Event)
    BY <1>2 DEF TypeOK
<1>4. /\ Rows' = Rows /\ table \subseteq Rows /\ \A j \in Instances : inserting[j] \subseteq Rows
      /\ \A r \in Rows : r \in Row /\ r.id \in Nat /\ r.n \in Nat \ {0} /\ r.from \in Instances
    BY <1>1, <1>2, RowsAreRows DEF Rows, Row
<1>5. \A e \in ToSet(ev) : \E x \in new : e.from = x.from /\ e.n = x.n /\ x.from # i /\ x \in Rows
    BY <1>1, <1>4 DEF EventOf
\* What is read was unread: it is later than what was heard.
<1>6. Apart(Taken(i), ToSet(ev))
    BY <1>1, <1>2, <1>5 DEF Apart, Listening
<1>7. Apart(ToSet(batch[i]), ToSet(ev)) /\ Apart(ToSet(heard[i]), ToSet(ev))
    BY <1>6 DEF Apart, Taken
<1>8. /\ batch[i] \o ev \in Seq(Feed!Event) /\ Chained(batch[i] \o ev)
      /\ ToSet(batch[i] \o ev) = ToSet(batch[i]) \cup ToSet(ev)
    BY <1>1, <1>2, <1>3, <1>7, Joined DEF Listening
<1>9. Apart(ToSet(heard[i]), ToSet(batch[i] \o ev))
    BY <1>2, <1>7, <1>8 DEF Apart, Listening
<1>10. /\ heard[i] \o (batch[i] \o ev) \in Seq(Feed!Event)
       /\ Chained(heard[i] \o (batch[i] \o ev))
       /\ ToSet(heard[i] \o (batch[i] \o ev)) = Taken(i) \cup ToSet(ev)
    <2> DEFINE both == batch[i] \o ev
    <2>1. both \in Seq(Feed!Event) /\ Chained(both) /\ ToSet(both) = ToSet(batch[i]) \cup ToSet(ev)
        BY <1>8
    <2>2. Chained(heard[i]) /\ Apart(ToSet(heard[i]), ToSet(both))
        BY <1>2, <1>9 DEF Listening
    <2> HIDE DEF both
    <2>3. /\ heard[i] \o both \in Seq(Feed!Event) /\ Chained(heard[i] \o both)
          /\ ToSet(heard[i] \o both) = ToSet(heard[i]) \cup ToSet(both)
        BY <1>3, <2>1, <2>2, Joined
    <2>4. ToSet(heard[i] \o both) = Taken(i) \cup ToSet(ev)
        BY <2>1, <2>3 DEF Taken
    <2> QED BY <2>3, <2>4 DEF both
<1>11. /\ batch' \in [Instances -> Seq(Feed!Event)] /\ heard' \in [Instances -> Seq(Feed!Event)]
       /\ Taken(i)' = Taken(i) \cup ToSet(ev)
       /\ Chained(heard[i])' /\ Chained(batch[i])' /\ Apart(ToSet(heard[i]), ToSet(batch[i]))'
       /\ \A j \in Instances \ {i} : batch'[j] = batch[j] /\ heard'[j] = heard[j]
    <2>1. CASE batch' = [batch EXCEPT ![i] = batch[i] \o ev] /\ heard' = heard
        <3>1. batch'[i] = batch[i] \o ev /\ heard'[i] = heard[i]
            BY <1>3, <2>1
        <3>2. Taken(i)' = Taken(i) \cup ToSet(ev)
            BY <1>8, <3>1 DEF Taken
        <3>3. Chained(heard[i])' /\ Chained(batch[i])' /\ Apart(ToSet(heard[i]), ToSet(batch[i]))'
            BY <1>2, <1>8, <1>9, <3>1 DEF Listening
        <3> QED BY <1>3, <1>8, <2>1, <3>2, <3>3
    <2>2. CASE /\ batch' = [batch EXCEPT ![i] = <<>>]
               /\ heard' = [heard EXCEPT ![i] = heard[i] \o (batch[i] \o ev)]
        <3>1. batch'[i] = <<>> /\ heard'[i] = heard[i] \o (batch[i] \o ev) /\ <<>> \in Seq(Feed!Event)
            BY <1>3, <2>2
        <3>2. ToSet(<<>>) = {} /\ Chained(<<>>)
            BY DEF ToSet, Chained
        <3>3. Taken(i)' = Taken(i) \cup ToSet(ev)
            BY <1>10, <3>1, <3>2 DEF Taken
        <3>4. Chained(heard[i])' /\ Chained(batch[i])' /\ Apart(ToSet(heard[i]), ToSet(batch[i]))'
            BY <1>10, <3>1, <3>2 DEF Apart
        <3> QED BY <1>3, <1>10, <2>2, <3>1, <3>3, <3>4
    <2> QED BY <1>1, <2>1, <2>2
<1>12. TypeOK'
    <2>1. missed[i] \in [given: SUBSET Nat, failed: SUBSET Feed!Event]
        BY <1>3
    <2>2. [missed[i] EXCEPT !.given = @ \cup given] \in [given: SUBSET Nat, failed: SUBSET Feed!Event]
        BY <2>1
    <2>3. missed' \in [Instances -> [given: SUBSET Nat, failed: SUBSET Feed!Event]]
        BY <1>1, <1>3, <2>2
    <2> QED BY <1>1, <1>2, <1>11, <2>3 DEF TypeOK
<1>13. Numbered' /\ Waiting'
    BY <1>1, <1>2, <1>4 DEF Numbered, Waiting
\* What is left unread is later than what was read from the same sender.
<1>14. ASSUME NEW x \in new, NEW r \in Rows, r.from = x.from, Unread(i, r)'
       PROVE  x.n < r.n
    <2>1. Unread(i, r) /\ r \notin new /\ x \in table /\ x \in Rows
        BY <1>1, <1>4, <1>14
    <2>2. CASE r \in table
        <3>1. ~(r.id < x.id) /\ r.id # x.id
            BY <1>1, <1>2, <1>14, <2>1, <2>2 DEF Numbered
        <3>2. x.id < r.id
            BY <1>4, <2>1, <3>1
        <3> QED BY <1>2, <1>14, <2>1, <3>2 DEF Numbered
    <2>3. CASE r \notin table
        <3>1. PICK j \in Instances : r \in inserting[j]
            BY <2>3 DEF Rows
        <3>2. x.id < r.id
            BY <1>2, <1>14, <2>1, <3>1 DEF Numbered
        <3> QED BY <1>2, <1>14, <2>1, <3>2 DEF Numbered
    <2> QED BY <2>2, <2>3
<1>15. Listening(i)'
    <2> SUFFICES ASSUME NEW e \in Taken(i)'
                 PROVE  /\ e.from # i /\ e.n \in 1..said[e.from]
                        /\ \A r \in Rows : r.from = e.from /\ Unread(i, r)' => e.n < r.n
                        /\ \A k \in DOMAIN queue[e.from] : e.n < queue[e.from][k]
        BY <1>1, <1>4, <1>11 DEF Listening
    <2>1. CASE e \in Taken(i)
        BY <1>1, <1>2, <2>1 DEF Listening
    <2>2. CASE e \in ToSet(ev)
        <3>1. PICK x \in new : e.from = x.from /\ e.n = x.n /\ x.from # i /\ x \in Rows
            BY <1>5, <2>2
        <3>2. x.n <= said[x.from] /\ said[x.from] \in Nat /\ x.n \in Nat \ {0} /\ x.from \in Instances
            BY <1>2, <1>4, <3>1 DEF Numbered, TypeOK
        <3>3. e.n \in 1..said[e.from]
            BY <3>1, <3>2
        <3>4. \A k \in DOMAIN queue[x.from] : x.n < queue[x.from][k]
            BY <1>2, <3>1, <3>2 DEF Waiting
        <3> QED BY <1>14, <3>1, <3>3, <3>4
    <2> QED BY <1>11, <2>1, <2>2
<1>16. AccountedFor(i)'
    <2> SUFFICES ASSUME NEW r \in Rows, r.from # i, r.id > start[i], ~Unread(i, r)'
                 PROVE  \/ EventOf(r) \in Taken(i)'
                        \/ r.id \in missed'[i].given
                        \/ EventOf(r) \in missed'[i].failed
        BY <1>1, <1>4 DEF AccountedFor
    <2>1. /\ missed'[i].given = missed[i].given \cup given
          /\ missed'[i].failed = missed[i].failed
        BY <1>1, <1>3
    <2>2. CASE ~Unread(i, r)
        BY <1>2, <1>11, <2>1, <2>2 DEF AccountedFor
    <2>3. CASE r \in new
        BY <1>1, <1>11, <2>3
    <2> QED BY <1>1, <2>1, <2>2, <2>3
<1>17. ASSUME NEW j \in Instances \ {i} PROVE ReaderOK(j)' /\ Listening(j)' /\ AccountedFor(j)'
    <2>1. ReaderOK(j) /\ Listening(j) /\ AccountedFor(j)
        BY DEF Inv
    <2>2. reader'[j] = reader[j] /\ batch'[j] = batch[j] /\ heard'[j] = heard[j] /\ missed'[j] = missed[j]
        BY <1>1, <1>3, <1>11
    <2>3. Taken(j)' = Taken(j) /\ \A r : Unread(j, r)' <=> Unread(j, r)
        BY <2>2 DEF Taken, Unread
    <2> QED BY <1>1, <1>4, <2>1, <2>2, <2>3 DEF ReaderOK, Listening, AccountedFor
<1> QED BY <1>1, <1>11, <1>12, <1>13, <1>15, <1>16, <1>17 DEF Inv

-----------------------------------------------------------------------------
(* The bus. *)

LEMMA InitHolds == Init => Inv
<1> SUFFICES ASSUME Init PROVE Inv
    OBVIOUS
<1>1. DOMAIN <<>> = {} /\ <<>> \in Seq(Nat) /\ <<>> \in Seq(Feed!Event) /\ Len(<<>>) = 0 /\ QUEUE \in Nat
    BY BusAssumption
<1>2. /\ said = [i \in Instances |-> 0] /\ queue = [i \in Instances |-> <<>>]
      /\ inserting = [i \in Instances |-> {}] /\ lastId = 0 /\ table = {}
      /\ reader = [i \in Instances |-> NewReader(0)]
      /\ batch = [i \in Instances |-> <<>>] /\ heard = [i \in Instances |-> <<>>]
      /\ start = [i \in Instances |-> 0]
      /\ missed = [i \in Instances |-> [given |-> {}, failed |-> {}]]
      /\ spent = [what \in {"failures", "prunes"} |-> 0]
    BY DEF Init
<1>3. NewReader(0) \in Reader
    BY DEF NewReader, Reader
<1>4. TypeOK
    <2>1. missed \in [Instances -> [given: SUBSET Nat, failed: SUBSET Feed!Event]]
        BY <1>2
    <2>2. spent \in [{"failures", "prunes"} -> Nat]
        BY <1>2
    <2> QED BY <1>1, <1>2, <1>3, <2>1, <2>2 DEF TypeOK
<1>5. Rows = {}
    BY <1>2 DEF Rows
<1>6. Numbered
    BY <1>2, <1>5, FS_EmptySet DEF Numbered
<1>7. Waiting
    BY <1>1, <1>2, <1>5 DEF Waiting
<1>8. ASSUME NEW i \in Instances PROVE ReaderOK(i) /\ Listening(i) /\ AccountedFor(i)
    <2>1. reader[i].cursor = 0 /\ reader[i].seen = {} /\ heard[i] = <<>> /\ batch[i] = <<>>
        BY <1>2 DEF NewReader
    <2>2. Taken(i) = {} /\ Chained(<<>>) /\ ToSet(<<>>) = {}
        BY <2>1 DEF Taken, ToSet, Chained
    <2> QED BY <1>2, <1>5, <2>1, <2>2 DEF ReaderOK, Listening, AccountedFor, Apart
<1> QED BY <1>4, <1>6, <1>7, <1>8 DEF Inv

LEMMA NextKeeps == Inv /\ [Next]_vars => Inv'
<1> SUFFICES ASSUME Inv, [Next]_vars PROVE Inv'
    OBVIOUS
<1>1. ASSUME NEW i \in Instances, Publish(i) PROVE Inv'
    BY <1>1, PublishKeeps
<1>2. ASSUME NEW i \in Instances, Insert(i) PROVE Inv'
    BY <1>2, InsertKeeps
<1>3. ASSUME NEW i \in Instances, Commit(i) PROVE Inv'
    BY <1>3, CommitKeeps
<1>4. ASSUME NEW i \in Instances, InsertFails(i) PROVE Inv'
    BY <1>4, InsertFailsKeeps
<1>5. ASSUME NEW i \in Instances, Read(i) PROVE Inv'
    BY <1>5, ReadKeeps
<1>6. ASSUME NEW i \in Instances, ReadFails(i) PROVE Inv'
    BY <1>6, ReadFailsKeeps
<1>7. ASSUME NEW i \in Instances, GraceEnds(i) PROVE Inv'
    BY <1>7, GraceEndsKeeps
<1>8. ASSUME NEW i \in Instances, Restart(i) PROVE Inv'
    BY <1>8, RestartKeeps
<1>9. CASE Prune
    BY <1>9, PruneKeeps
<1>10. CASE UNCHANGED vars
    <2>1. /\ UNCHANGED <<said, queue, inserting, lastId, table>>
          /\ UNCHANGED <<reader, batch, heard, start, missed, spent>>
        BY <1>10 DEF vars
    <2>2. TypeOK'
        BY <2>1 DEF Inv, TypeOK
    <2>3. Rows' = Rows
        BY <2>1 DEF Rows
    <2>4. Numbered' /\ Waiting'
        BY <2>1, <2>3 DEF Inv, Numbered, Waiting
    <2>5. ASSUME NEW i \in Instances PROVE ReaderOK(i)' /\ Listening(i)' /\ AccountedFor(i)'
        <3>1. Taken(i)' = Taken(i) /\ \A r : Unread(i, r)' <=> Unread(i, r)
            BY <2>1 DEF Taken, Unread
        <3>2. ReaderOK(i) /\ Listening(i) /\ AccountedFor(i)
            BY DEF Inv
        <3>3. ReaderOK(i)' /\ Listening(i)' /\ AccountedFor(i)'
            BY <2>1, <2>3, <3>1, <3>2 DEF ReaderOK, Listening, AccountedFor
        <3> QED BY <3>3
    <2> QED BY <2>2, <2>4, <2>5 DEF Inv
<1> QED BY <1>1, <1>2, <1>3, <1>4, <1>5, <1>6, <1>7, <1>8, <1>9, <1>10 DEF Next

LEMMA Invariance == Spec => []Inv
<1>1. Init => Inv
    BY InitHolds
<1>2. Inv /\ [Next]_vars => Inv'
    BY NextKeeps
<1> QED BY <1>1, <1>2, PTL DEF Spec

\* The variables keep their types; an instance inserts one row at a time, and its queue
\* of events to send never grows past its size.
THEOREM TypeCorrect == Spec => []TypeOK
<1>1. Inv => TypeOK
    BY DEF Inv
<1> QED BY <1>1, Invariance, PTL

\* A row another instance wrote is never passed over in silence (Accounted).
THEOREM EveryRowIsAccounted == Spec => []Accounted
<1>1. Inv => Accounted
    <2> SUFFICES ASSUME Inv, NEW i \in Instances, NEW r \in Reached(i)
                 PROVE  \/ EventOf(r) \in Taken(i)
                        \/ r.id \in missed[i].given
                        \/ EventOf(r) \in missed[i].failed
        BY DEF Accounted
    <2>1. r \in Rows /\ r.from # i /\ r.id > start[i]
        BY DEF Reached, Rows
    <2>2. r.id \in Nat /\ reader[i].cursor \in Nat
        BY <2>1, RowsAreRows DEF Inv, TypeOK, Reader
    <2>3. ~Unread(i, r)
        BY <2>2 DEF Reached, Unread
    <2> QED BY <2>1, <2>3 DEF Inv, AccountedFor
<1> QED BY <1>1, Invariance, PTL

\* A row that can be read is never given up on as if it were a gap (GivesUpGapsOnly).
THEOREM OnlyGapsAreGivenUp == Spec => GivesUpGapsOnly
<1> DEFINE Kept(i) == (missed'[i].given \ missed[i].given) \cap Ids(table) = {}
<1>1. Inv /\ [Next]_vars => \A i \in Instances : Kept(i)
    <2> SUFFICES ASSUME Inv, [Next]_vars, NEW j \in Instances PROVE Kept(j)
        OBVIOUS
    <2>1. missed \in [Instances -> [given: SUBSET Nat, failed: SUBSET Feed!Event]]
        BY DEF Inv, TypeOK
    <2>2. CASE missed' = missed
        BY <2>2
    <2>3. ASSUME NEW i \in Instances, Read(i) PROVE Kept(j)
        <3>1. PICK given \in SUBSET Nat :
                  /\ given \cap Ids(table) = {}
                  /\ missed' = [missed EXCEPT ![i].given = @ \cup given]
            BY <2>3, ReadDoes
        <3>2. missed'[j].given \subseteq missed[j].given \cup given
            BY <2>1, <3>1
        <3> QED BY <3>1, <3>2
    <2>4. ASSUME NEW i \in Instances, ReadFails(i) PROVE Kept(j)
        <3>1. missed' = [missed EXCEPT ![i].failed = @ \cup ToSet(batch[i])]
            BY <2>4 DEF ReadFails
        <3>2. missed'[j].given = missed[j].given
            BY <2>1, <3>1
        <3> QED BY <3>2
    <2>5. ASSUME NEW i \in Instances, Restart(i) PROVE Kept(j)
        <3>1. missed' = [missed EXCEPT ![i] = [given |-> {}, failed |-> {}]]
            BY <2>5 DEF Restart
        <3>2. missed'[j].given \subseteq missed[j].given
            BY <2>1, <3>1
        <3> QED BY <3>2
    <2>6. ASSUME NEW i \in Instances,
                 Publish(i) \/ Insert(i) \/ Commit(i) \/ InsertFails(i) \/ GraceEnds(i)
          PROVE  missed' = missed
        BY <2>6 DEF Publish, Insert, Commit, InsertFails, GraceEnds, readerVars
    <2>7. Prune \/ UNCHANGED vars => missed' = missed
        BY DEF Prune, readerVars, vars
    <2> QED BY <2>2, <2>3, <2>4, <2>5, <2>6, <2>7 DEF Next
<1> QED BY <1>1, Invariance, PTL DEF Spec, GivesUpGapsOnly

-----------------------------------------------------------------------------
(* What the consumers rely on. *)

LEMMA Continued ==
    ASSUME NEW s \in Seq(Feed!Event), NEW t \in Seq(Feed!Event)
    PROVE  Feed!IsPrefix(s, s \o t)
<1> DEFINE st == s \o t
<1>1. /\ st \in Seq(Feed!Event) /\ Len(st) = Len(s) + Len(t)
      /\ \A k \in 1..(Len(s) + Len(t)) : st[k] = IF k <= Len(s) THEN s[k] ELSE t[k - Len(s)]
    BY ConcatProperties
<1>2. Len(s) \in Nat /\ Len(t) \in Nat
    BY LenProperties
<1> HIDE DEF st
<1>3. \A k \in 1..Len(s) : st[k] = s[k]
    BY <1>1, <1>2
<1>4. Len(s) <= Len(st) /\ SubSeq(s, 1, Len(s)) = SubSeq(st, 1, Len(s))
    <2> DEFINE u == SubSeq(s, 1, Len(s))
               v == SubSeq(st, 1, Len(s))
    <2>0. /\ \A k \in 1..Len(s) : s[k] \in Feed!Event
          /\ \A k \in 1..Len(s) : st[k] \in Feed!Event
        BY <1>3, ElementOfSeq
    <2>1. /\ u \in Seq(Feed!Event) /\ Len(u) = (IF 1 <= Len(s) THEN Len(s) - 1 + 1 ELSE 0)
          /\ \A k \in 1..(Len(s) - 1 + 1) : u[k] = s[1 + k - 1]
        BY <1>2, <2>0, SubSeqProperties
    <2>2. /\ v \in Seq(Feed!Event) /\ Len(v) = (IF 1 <= Len(s) THEN Len(s) - 1 + 1 ELSE 0)
          /\ \A k \in 1..(Len(s) - 1 + 1) : v[k] = st[1 + k - 1]
        BY <1>2, <2>0, SubSeqProperties
    <2> HIDE DEF u, v
    <2>3. Len(u) = Len(s) /\ Len(v) = Len(s)
        BY <1>2, <2>1, <2>2
    <2>4. \A k \in 1..Len(s) : u[k] = v[k]
        BY <1>2, <1>3, <2>1, <2>2
    <2>5. u = v
        BY <2>1, <2>2, <2>3, <2>4, SeqEqual
    <2> QED BY <1>1, <1>2, <2>5 DEF u, v
<1> QED BY <1>4 DEF Feed!IsPrefix, st

\* What was heard so far is what the feed promises.
LEMMA HeardIsProper ==
    ASSUME Inv, NEW i \in Instances
    PROVE  Feed!Proper(i, heard[i])
<1>1. Listening(i) /\ heard[i] \in Seq(Feed!Event)
    BY DEF Inv, TypeOK
<1>2. ASSUME NEW k \in DOMAIN heard[i]
      PROVE  heard[i][k].from # i /\ heard[i][k].n \in 1..said[heard[i][k].from]
    <2>1. heard[i][k] \in Taken(i)
        BY DEF Taken, ToSet
    <2> QED BY <1>1, <2>1 DEF Listening
<1> QED BY <1>1, <1>2 DEF Feed!Proper, Listening, Chained

\* The bus does what its consumers rely on (ImplementsFeed): whatever rows commit out of
\* order, are given up on or are lost with an instance, what an instance hears of another
\* is in the order that instance said it, and nothing twice.
THEOREM BusImplementsFeed == Spec => ImplementsFeed
<1>1. Init => Feed!Init
    BY DEF Init, Feed!Init
<1>2. Inv /\ Inv' /\ [Next]_vars => [Feed!Next]_(Feed!feedVars)
    <2> SUFFICES ASSUME Inv, Inv', [Next]_vars PROVE [Feed!Next]_(Feed!feedVars)
        OBVIOUS
    <2>1. heard \in [Instances -> Seq(Feed!Event)] /\ batch \in [Instances -> Seq(Feed!Event)]
        BY DEF Inv, TypeOK
    <2>2. UNCHANGED <<said, heard>> => UNCHANGED Feed!feedVars
        BY DEF Feed!feedVars
    <2>3. ASSUME NEW i \in Instances, Publish(i) PROVE Feed!Next
        <3>1. Feed!Say(i)
            BY <2>3 DEF Publish, readerVars, Feed!Say
        <3> QED BY <3>1 DEF Feed!Next
    <2>4. ASSUME NEW i \in Instances, Read(i) PROVE [Feed!Next]_(Feed!feedVars)
        <3>1. PICK ev \in Seq(Feed!Event) :
                  /\ heard' = heard \/ heard' = [heard EXCEPT ![i] = heard[i] \o (batch[i] \o ev)]
                  /\ said' = said
            BY <2>4, ReadDoes
        <3>2. CASE heard' = [heard EXCEPT ![i] = heard[i] \o (batch[i] \o ev)]
            <4> DEFINE more == batch[i] \o ev
            <4>1. more \in Seq(Feed!Event) /\ heard[i] \in Seq(Feed!Event)
                BY <2>1, ConcatProperties
            <4>2. heard'[i] = heard[i] \o more /\ heard' = [heard EXCEPT ![i] = heard'[i]]
                BY <2>1, <3>2
            <4> HIDE DEF more
            <4>3. Feed!IsPrefix(heard[i], heard'[i])
                BY <4>1, <4>2, Continued
            <4>4. Feed!Proper(i, heard[i])'
                BY HeardIsProper, PTL
            <4>5. Feed!Proper(i, heard'[i])
                BY <3>1, <4>4 DEF Feed!Proper
            <4>6. Feed!Hear(i)
                BY <3>1, <4>2, <4>3, <4>5 DEF Feed!Hear
            <4> QED BY <4>6 DEF Feed!Next
        <3> QED BY <2>2, <3>1, <3>2
    <2>5. ASSUME NEW i \in Instances, Restart(i) PROVE Feed!Next
        <3>1. Feed!Start(i)
            BY <2>5 DEF Restart, Feed!Start
        <3> QED BY <3>1 DEF Feed!Next
    <2>6. ASSUME NEW i \in Instances,
                 Insert(i) \/ Commit(i) \/ InsertFails(i) \/ ReadFails(i) \/ GraceEnds(i)
          PROVE  UNCHANGED <<said, heard>>
        BY <2>6 DEF Insert, Commit, InsertFails, ReadFails, GraceEnds, readerVars, senderVars
    <2>7. Prune \/ UNCHANGED vars => UNCHANGED <<said, heard>>
        BY DEF Prune, readerVars, senderVars, vars
    <2> QED BY <2>2, <2>3, <2>4, <2>5, <2>6, <2>7 DEF Next
<1> QED BY <1>1, <1>2, Invariance, PTL DEF Spec, ImplementsFeed, Feed!Spec
=============================================================================
