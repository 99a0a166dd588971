-------------------------- MODULE PanelPartsProofs --------------------------
(***************************************************************************)
(* Further theorems about the admin panel: its lists, with an inductive     *)
(* invariant as in PanelProofs; the panel as a whole; and the two parts of  *)
(* it that run by themselves: EntryCollab, for any entries, and             *)
(* MediaLibrary, for any number of files and folders and any size of a      *)
(* page; and for all of them whatever the bounds are.                       *)
(*                                                                         *)
(*  PagedInv      what was read, or shows, is the server's but for switched *)
(*                rows, or a change that loads again is unanswered          *)
(*                                                                         *)
(* That an open stream has announced what was missed rests on what `first` *)
(* stands for (StreamOK): before the stream is first open nothing counts   *)
(* as missed, and a stream that closes is no first one any more.  That the *)
(* comments never go back rests on the numbers of the loads (LoadsOK): no  *)
(* two loads share one, so whatever is shown came from a load before the   *)
(* latest was started, and the latest asked the server after that.         *)
(*                                                                         *)
(* That a deletion was warned of rests on what the selection may hold: a   *)
(* load that fails empties the listing and keeps the selection, a deletion *)
(* in the sheet takes a file off the listing and keeps it selected.        *)
(* LibraryInv says that a selected file is listed or cannot be listed      *)
(* again (Dropped), and that while a confirmation is open the rest is what *)
(* it is about.                                                            *)
(*                                                                         *)
(* That the listing is the shelf rests on ShelfInv: the latest load, and    *)
(* what shows, are of the place that is open; and each step that changes a *)
(* file loads again, but for a batch, which does so when it ends, and for  *)
(* the changes the page does not look at (`unsure`).                       *)
(***************************************************************************)
EXTENDS PanelProofs, MenuTreeProofs, EntryCollab, MediaLibrary

-----------------------------------------------------------------------------
(* The lists of the settings and the releases. *)

Spots == [page: Nat \ {0}, query: BOOLEAN]

PagedTables == [rows: UNION {[S -> {0, 1}] : S \in SUBSET Things}, pages: Nat]

ListOps == {"create", "update", "switch", "act", "remove"}

ListJobs == [op: ListOps, t: Things, says: {0, 1, Gone}, done: BOOLEAN]

IsLookup(l) ==
    /\ l = [n |-> l.n, of |-> l.of, got |-> l.got, stale |-> l.stale]
    /\ l.of \in Spots /\ l.got \in PagedTables \union {Lists!NotRead} /\ l.stale \in BOOLEAN

PagedTypes ==
    /\ which \in Lists!Lists /\ things \in [Things -> {0, 1, Gone}]
    /\ spot \in Spots /\ box \in BOOLEAN /\ typing \subseteq BOOLEAN
    /\ table \in PagedTables /\ status \in {"loading", "reloading", "idle", "failed"}
    /\ \A l \in lookups : IsLookup(l)
    /\ jobs \subseteq ListJobs
    /\ \A j \in jobs : /\ j.op \in which.ops
                       /\ j.done /\ j.op \in {"update", "switch"} => j.says # Gone

\* A list that is not searched has nothing in its box; else the timer applies what is there.
SearchIsOfTheBox ==
    /\ ~which.searched => /\ ~box /\ typing = {} /\ ~spot.query
                          /\ \A l \in lookups : ~l.of.query
    /\ "box" \notin excused => typing \subseteq {box} /\ (typing = {} => (spot.query <=> box))

\* The loads: what a page of a resource waits for, and what was read last.
LoadsAreTrue ==
    /\ status \in {"loading", "reloading"} => lookups # {}
    /\ Lists!IsResource =>
         /\ lookups # {} => status \in {"loading", "reloading"}
         /\ \A l, m \in lookups : l = m
         /\ \A l \in lookups : l.of = spot
    /\ \A l \in lookups : ~l.stale /\ l.got # Lists!NotRead => l.got = Lists!Answer(l.of)

\* A change that is made, and not answered yet: a switch goes into its row, what is not
\* only a switch loads the page again.
Switched(t) == \E j \in jobs : j.done /\ j.op = "switch" /\ j.t = t
Remade      == \E j \in jobs : j.done /\ j.op # "switch"

\* What was read, or shows, is what the server has but for the rows that are switched.
Agrees(a) ==
    /\ a.pages = Lists!Answer(spot).pages /\ DOMAIN a.rows = DOMAIN Lists!Answer(spot).rows
    /\ \A t \in DOMAIN a.rows : a.rows[t] = Lists!Answer(spot).rows[t] \/ Switched(t)

RowsComeRight ==
    "rows" \notin excused =>
        \/ Remade
        \/ /\ Lists!IsResource
           /\ \A l \in lookups : l.got # Lists!NotRead => Agrees(l.got)
           /\ lookups = {} /\ status = "idle" => Agrees(table)
        \/ ~Lists!IsResource /\ (lookups = {} /\ status = "idle" => table = Lists!Answer(spot))

\* What there is of a search.
All(q) == {t \in Things : things[t] # Gone /\ (q => t \in Found)}
Before(s) == (s.page - 1) * ListSize

\* The page that is chosen is one there is, or the one removed was its last: then the list
\* steps back.
PageIsThere ==
    /\ "rows" \notin excused
    /\ jobs = {} \/ lookups = {}
    /\ \A i, j \in jobs : i = j
    /\ \A j \in jobs : j.done => things[j.t] = j.says
    /\ \A l \in lookups : l.of = spot /\ ~l.stale
    /\ \/ Cardinality(All(spot.query)) > Before(spot)
       \/ /\ \E j \in jobs : j.done /\ j.op = "remove"
          /\ Cardinality(All(spot.query)) = Before(spot) /\ Cardinality(Lists!Rows) = 1

PagesComeRight ==
    /\ "empty" \notin excused => status # "failed"
    /\ which.how = "releases" => Lists!Rows # {} \/ spot.page = 1
    /\ which.how # "releases" /\ "empty" \notin excused /\ spot.page > 1 => PageIsThere

PagedInv ==
    /\ PagedTypes /\ SearchIsOfTheBox /\ LoadsAreTrue /\ RowsComeRight /\ PagesComeRight

\* A finite set of numbers has a greatest.
HasGreatest(S) == \E m \in S : \A y \in S : y <= m

LEMMA GreatestOf ==
    ASSUME NEW S \in SUBSET Nat, IsFiniteSet(S), S # {}
    PROVE  \E m \in S : \A y \in S : y <= m
<1> DEFINE Bad == {n \in Nat : \E Q \in SUBSET Nat :
                      IsFiniteSet(Q) /\ Q # {} /\ Cardinality(Q) = n /\ ~HasGreatest(Q)}
<1>1. SUFFICES ASSUME ~HasGreatest(S) PROVE FALSE
    BY DEF HasGreatest
<1>2. Bad # {}
    BY <1>1, FS_CardinalityType
<1>3. PICK n \in Bad : \A k \in Bad : n <= k
    BY <1>2, SmallestOf
<1>4. PICK Q \in SUBSET Nat : IsFiniteSet(Q) /\ Q # {} /\ Cardinality(Q) = n /\ ~HasGreatest(Q)
    BY <1>3
<1>5. PICK x \in Q : TRUE
    BY <1>4
<1>6. /\ IsFiniteSet(Q \ {x}) /\ Cardinality(Q \ {x}) = n - 1 /\ Q \ {x} \in SUBSET Nat
      /\ Cardinality(Q \ {x}) \in Nat
    BY <1>4, <1>5, FS_RemoveElement, FS_CardinalityType
<1>7. n - 1 \notin Bad
    BY <1>3
<1>8. CASE Q \ {x} = {}
    BY <1>4, <1>5, <1>8 DEF HasGreatest
<1>9. CASE Q \ {x} # {}
    <2>1. HasGreatest(Q \ {x})
        BY <1>6, <1>7, <1>9
    <2>2. PICK m \in Q \ {x} : \A y \in Q \ {x} : y <= m
        BY <2>1 DEF HasGreatest
    <2>3. CASE x <= m
        BY <1>4, <2>2, <2>3 DEF HasGreatest
    <2>4. CASE m < x
        <3>1. \A y \in Q : y <= x
            BY <1>4, <1>5, <2>2, <2>4
        <3> QED BY <1>4, <1>5, <3>1 DEF HasGreatest
    <2> QED BY <1>4, <1>5, <2>2, <2>3, <2>4
<1> QED BY <1>8, <1>9

\* The place of a thing in their order.
RankIn(S, t) == Cardinality({u \in S : u <= t})

\* There is a thing after the first k, and it is among the first k + 1.
LEMMA RankExists ==
    ASSUME NEW S \in SUBSET Nat, IsFiniteSet(S), NEW k \in Nat, k < Cardinality(S)
    PROVE  \E t \in S : RankIn(S, t) = k + 1
<1> DEFINE Upto(t) == {u \in S : u <= t}
           T == {t \in S : k < RankIn(S, t)}
<1>1. \A t \in S : IsFiniteSet(Upto(t)) /\ Cardinality(Upto(t)) \in Nat
    BY FS_Subset, FS_CardinalityType
<1>2. S # {}
    BY FS_EmptySet
<1>3. PICK m \in S : \A y \in S : y <= m
    BY <1>2, GreatestOf
<1>4. Upto(m) = S
    BY <1>3
<1>5. m \in T
    BY <1>4 DEF RankIn
<1>6. PICK t \in T : \A y \in T : t <= y
    <2>1. T \in SUBSET Nat /\ T # {}
        BY <1>5
    <2> QED BY <2>1, SmallestOf
<1> DEFINE P == {u \in S : u < t}
<1>7. Upto(t) = P \union {t} /\ t \notin P /\ P \in SUBSET Nat
    <2>1. t \in S /\ t \in Nat
        BY <1>6
    <2>2. \A u \in S : u <= t <=> u < t \/ u = t
        BY <2>1
    <2>3. \A u : u \in Upto(t) <=> u \in P \union {t}
        <3> HIDE DEF T
        <3> QED BY <2>1, <2>2
    <2>4. Upto(t) = P \union {t}
        BY <2>3
    <2>5. t \notin P
        BY <2>1
    <2>6. P \in SUBSET Nat
        OBVIOUS
    <2> QED BY <2>4, <2>5, <2>6
<1>8. IsFiniteSet(P)
    BY FS_Subset
<1>9. Cardinality(Upto(t)) = Cardinality(P) + 1
    BY <1>7, <1>8, FS_AddElement
<1>10. Cardinality(P) <= k /\ Cardinality(P) \in Nat
    <2>1. CASE P = {}
        BY <2>1, FS_EmptySet
    <2>2. CASE P # {}
        <3>1. PICK p \in P : \A y \in P : y <= p
            BY <1>7, <1>8, <2>2, GreatestOf
        <3>2. Upto(p) = P
            <4>1. t \in Nat /\ p \in Nat /\ p < t
                BY <1>6
            <4>2. \A u \in S : u <= p <=> u < t
                BY <3>1, <4>1
            <4> HIDE DEF T
            <4> QED BY <4>2
        <3>3. p \notin T
            BY <1>6, <3>1
        <3>4. ~(k < Cardinality(P)) /\ Cardinality(P) \in Nat
            BY <1>1, <3>1, <3>2, <3>3 DEF RankIn
        <3> QED BY <3>4
    <2> QED BY <2>1, <2>2
<1>11. k < Cardinality(Upto(t)) /\ Cardinality(Upto(t)) \in Nat
    BY <1>1, <1>6 DEF RankIn
<1>12. Cardinality(Upto(t)) = k + 1
    BY <1>9, <1>10, <1>11
<1> QED BY <1>6, <1>12 DEF RankIn

LEMMA RanksDiffer ==
    ASSUME NEW S \in SUBSET Nat, IsFiniteSet(S), NEW t \in S, NEW u \in S, t < u
    PROVE  RankIn(S, t) < RankIn(S, u) /\ RankIn(S, u) <= Cardinality(S)
<1> DEFINE Upto(v) == {w \in S : w <= v}
<1>1. \A v \in S : IsFiniteSet(Upto(v)) /\ Cardinality(Upto(v)) \in Nat
    BY FS_Subset, FS_CardinalityType
<1>2. Upto(t) \subseteq Upto(u) \ {u} /\ u \in Upto(u) /\ Upto(u) \subseteq S
    <2>1. t \in Nat /\ u \in Nat /\ \A w \in S : w \in Nat
        OBVIOUS
    <2>2. \A w \in S : w <= t => w <= u /\ w # u
        BY <2>1
    <2>3. Upto(t) \subseteq Upto(u) \ {u}
        BY <2>2
    <2>4. u \in Upto(u)
        BY <2>1
    <2> QED BY <2>3, <2>4
<1>3. IsFiniteSet(Upto(u) \ {u}) /\ Cardinality(Upto(u) \ {u}) = Cardinality(Upto(u)) - 1
    BY <1>1, <1>2, FS_RemoveElement
<1>4. Cardinality(Upto(t)) <= Cardinality(Upto(u) \ {u})
    BY <1>2, <1>3, FS_Subset
<1>5. Cardinality(Upto(u)) <= Cardinality(S)
    BY <1>2, FS_Subset
<1> QED BY <1>1, <1>3, <1>4, <1>5 DEF RankIn

LEMMA RankIsBounded ==
    ASSUME NEW S \in SUBSET Nat, IsFiniteSet(S), NEW t \in S
    PROVE  RankIn(S, t) \in Nat /\ RankIn(S, t) <= Cardinality(S)
<1>1. {w \in S : w <= t} \subseteq S
    OBVIOUS
<1> QED BY <1>1, FS_Subset, FS_CardinalityType DEF RankIn

\* The page after the first k things: not empty when there are more than k, and of one
\* thing when there is one more.
PageAfter(S, k, size) == {t \in S : k < RankIn(S, t) /\ RankIn(S, t) <= k + size}

LEMMA PageAfterIs ==
    ASSUME NEW S \in SUBSET Nat, IsFiniteSet(S), NEW k \in Nat, NEW size \in Nat \ {0}
    PROVE  /\ k < Cardinality(S) => PageAfter(S, k, size) # {}
           /\ Cardinality(S) = k + 1 => Cardinality(PageAfter(S, k, size)) = 1
<1>1. Cardinality(S) \in Nat
    BY FS_CardinalityType
<1>2. ASSUME k < Cardinality(S)
      PROVE  \E t \in S : RankIn(S, t) = k + 1 /\ t \in PageAfter(S, k, size)
    <2>1. PICK t \in S : RankIn(S, t) = k + 1
        BY <1>2, RankExists
    <2> QED BY <2>1 DEF PageAfter
<1>3. ASSUME Cardinality(S) = k + 1 PROVE Cardinality(PageAfter(S, k, size)) = 1
    <2>1. PICK t \in S : RankIn(S, t) = k + 1 /\ t \in PageAfter(S, k, size)
        BY <1>1, <1>2, <1>3
    <2>2. ASSUME NEW u \in PageAfter(S, k, size), u # t PROVE FALSE
        <3>1. u \in S /\ k < RankIn(S, u)
            BY DEF PageAfter
        <3>2. RankIn(S, u) \in Nat /\ RankIn(S, u) <= k + 1
            BY <1>3, <3>1, RankIsBounded
        <3>3. CASE t < u
            BY <1>3, <2>1, <3>1, <3>2, <3>3, RanksDiffer
        <3>4. CASE u < t
            BY <1>3, <2>1, <3>1, <3>2, <3>4, RanksDiffer
        <3>5. t \in Nat /\ u \in Nat
            BY <3>1
        <3> QED BY <2>2, <3>3, <3>4, <3>5
    <2>3. PageAfter(S, k, size) = {t}
        BY <2>1, <2>2
    <2> QED BY <2>3, FS_Singleton
<1> QED BY <1>2, <1>3

\* The last page there is is not empty.
LEMMA PagesHold ==
    ASSUME NEW n \in Nat, NEW size \in Nat \ {0}, NEW p \in Nat \ {0},
           p <= (n + size - 1) \div size
    PROVE  (p - 1) * size < n
<1> DEFINE q == (n + size - 1) \div size
           m == n + size - 1
<1>1. q * size <= m /\ q \in Nat
    OBVIOUS
<1>2. p * size <= q * size
    BY <1>1
<1>3. p * size = (p - 1) * size + size
    OBVIOUS
<1> HIDE DEF q
<1> QED BY <1>1, <1>2, <1>3

LEMMA PagedConstants ==
    /\ Things \in SUBSET Nat /\ IsFiniteSet(Things) /\ ListSize \in Nat \ {0}
    /\ Gone \notin {0, 1} /\ Gone # 0 /\ Gone # 1
BY PanelAssumption DEF PanelAssumption, Lists!ListsAssumption, Lists!IsFiniteSet, IsFiniteSet

\* What the proofs need of the lists.
ListIs(w) ==
    /\ w.how \in {"resource", "releases", "submissions"}
    /\ w.ops \subseteq ListOps /\ w.patches \subseteq {"switch", "update"}
    /\ "switch" \in w.ops => "switch" \in w.patches
    /\ w.how # "resource" => w.ops \subseteq {"update", "remove"} /\ ~w.searched
    /\ w.steps \subseteq {0, 1} /\ 1 \in w.steps
    /\ w.searched \in BOOLEAN

LEMMA ListsAre ==
    /\ \A w \in Lists!Lists : ListIs(w)
    /\ Lists!RedirectsPage.searched /\ Lists!AuditLogsPage.searched
<1> USE DEF ListIs, ListOps, Lists!PagedList
<1>1. ListIs(Lists!UsersPage)
    BY DEF Lists!UsersPage
<1>2. ListIs(Lists!TokensPage)
    BY DEF Lists!TokensPage
<1>3. ListIs(Lists!WebhooksPage)
    BY DEF Lists!WebhooksPage
<1>4. ListIs(Lists!MenusPage)
    BY DEF Lists!MenusPage
<1>5. ListIs(Lists!FormsPage)
    BY DEF Lists!FormsPage
<1>6. ListIs(Lists!RedirectsPage) /\ Lists!RedirectsPage.searched
    BY DEF Lists!RedirectsPage
<1>7. ListIs(Lists!EndUsersPage)
    BY DEF Lists!EndUsersPage
<1>8. ListIs(Lists!AuditLogsPage) /\ Lists!AuditLogsPage.searched
    BY DEF Lists!AuditLogsPage
<1>9. ListIs(Lists!WebhookDeliveries)
    BY DEF Lists!WebhookDeliveries
<1>10. ListIs(Lists!ReleasesPage)
    BY DEF Lists!ReleasesPage
<1>11. ListIs(Lists!Submissions)
    BY DEF Lists!Submissions
<1> HIDE DEF ListIs
<1> QED
    BY <1>1, <1>2, <1>3, <1>4, <1>5, <1>6, <1>7, <1>8, <1>9, <1>10, <1>11 DEF Lists!Lists

LEMMA TablesAre ==
    ASSUME NEW a \in PagedTables, NEW b \in PagedTables, a.pages = b.pages,
           DOMAIN a.rows = DOMAIN b.rows, \A t \in DOMAIN a.rows : a.rows[t] = b.rows[t]
    PROVE  a = b
<1>1. a = [rows |-> a.rows, pages |-> a.pages] /\ b = [rows |-> b.rows, pages |-> b.pages]
    BY DEF PagedTables
<1>2. /\ a.rows = [t \in DOMAIN a.rows |-> a.rows[t]] /\ b.rows = [t \in DOMAIN b.rows |-> b.rows[t]]
    BY DEF PagedTables
<1>3. a.rows = b.rows
    BY <1>2
<1> QED BY <1>1, <1>3

LEMMA AllIs ==
    ASSUME NEW q
    PROVE  /\ All(q) \in SUBSET Nat /\ All(q) \subseteq Things /\ IsFiniteSet(All(q))
           /\ Cardinality(All(q)) \in Nat
<1>1. All(q) \subseteq Things
    BY DEF All
<1> QED BY <1>1, PagedConstants, FS_Subset, FS_CardinalityType

LEMMA BeforeIs ==
    ASSUME NEW s \in Spots
    PROVE  /\ Before(s) \in Nat /\ s.page * ListSize = Before(s) + ListSize
           /\ Before([s EXCEPT !.page = @ - 1]) = Before(s) - ListSize
<1>1. s.page \in Nat \ {0} /\ ListSize \in Nat
    BY PagedConstants DEF Spots
<1>2. (s.page - 1) * ListSize \in Nat /\ s.page * ListSize = (s.page - 1) * ListSize + ListSize
    BY <1>1
<1>3. (s.page - 1 - 1) * ListSize = (s.page - 1) * ListSize - ListSize
    BY <1>1
<1>4. [s EXCEPT !.page = @ - 1].page = s.page - 1
    BY DEF Spots
<1> QED BY <1>2, <1>3, <1>4 DEF Before

LEMMA AnswerIs ==
    ASSUME PagedTypes, NEW s \in Spots
    PROVE  /\ Lists!Answer(s) \in PagedTables
           /\ DOMAIN Lists!Answer(s).rows = PageAfter(All(s.query), Before(s), ListSize)
           /\ \A t \in DOMAIN Lists!Answer(s).rows :
                 Lists!Answer(s).rows[t] = things[t] /\ t \in All(s.query)
           /\ Lists!Answer(s).pages = (Cardinality(All(s.query)) + ListSize - 1) \div ListSize
<1> DEFINE all == All(s.query)
           shows == PageAfter(all, Before(s), ListSize)
<1>1. all = {t \in Things : things[t] # Gone /\ (s.query => t \in Found)}
    BY DEF All
<1>2. \A S : Lists!Cardinality(S) = Cardinality(S)
    BY DEF Lists!Cardinality, Cardinality
<1>3. shows = {t \in all : /\ (s.page - 1) * ListSize < Lists!Cardinality({u \in all : u <= t})
                           /\ Lists!Cardinality({u \in all : u <= t}) <= s.page * ListSize}
    BY <1>2, BeforeIs DEF PageAfter, RankIn, Before
<1>4. Lists!Answer(s) = [rows |-> [t \in shows |-> things[t]],
                         pages |-> (Cardinality(all) + ListSize - 1) \div ListSize]
    BY <1>1, <1>2, <1>3 DEF Lists!Answer
<1>5. shows \subseteq all /\ all \subseteq Things /\ Cardinality(all) \in Nat
    BY AllIs DEF PageAfter
<1>6. \A t \in shows : things[t] \in {0, 1}
    BY <1>1, <1>5 DEF PagedTypes
<1>7. (Cardinality(all) + ListSize - 1) \div ListSize \in Nat
    BY <1>5, PagedConstants
<1> HIDE DEF all, shows
<1>8. [t \in shows |-> things[t]] \in [shows -> {0, 1}] /\ shows \in SUBSET Things
    BY <1>5, <1>6
<1>9. Lists!Answer(s) \in PagedTables
    BY <1>4, <1>7, <1>8 DEF PagedTables
<1> QED BY <1>4, <1>5, <1>9 DEF all, shows

\* Answers are of what there is, and of the page that is asked for.
LEMMA SameThings ==
    ASSUME UNCHANGED things
    PROVE  /\ \A s : Lists!Answer(s)' = Lists!Answer(s)
           /\ \A q : All(q)' = All(q)
BY DEF Lists!Answer, All

\* A load as it starts.
Fresh(l, s) == IsLookup(l) /\ l.of = s /\ l.got = Lists!NotRead /\ ~l.stale

LEMMA LoadIs ==
    ASSUME NEW s \in Spots, NEW others
    PROVE  Fresh(Lists!Load(s, others), s)
BY DEF Lists!Load, Fresh, IsLookup

\* A load is asked for: in the place of the others, or beside them.
Asking(s, others) ==
    /\ spot' = IF which.how = "releases" THEN spot ELSE s
    /\ status' \in {"loading", "reloading"}
    /\ lookups' = IF Lists!IsResource \/ others = {} THEN {Lists!Load(s, {})}
                  ELSE others \union {Lists!Load(s, others)}

LEMMA AskIs ==
    ASSUME NEW s, NEW others, Lists!Ask(s, others)
    PROVE  Asking(s, others)
BY DEF Lists!Ask, Asking

LEMMA ReloadIs ==
    ASSUME PagedTypes, Lists!Reload
    PROVE  \/ Asking(spot, lookups) /\ ~Lists!Refuses
           \/ Lists!Refuses /\ UNCHANGED <<spot, status, lookups>>
<1>1. CASE ~Lists!IsResource
    BY <1>1, AskIs DEF Lists!Reload, Lists!Refuses
<1>2. CASE Lists!IsResource
    BY <1>2 DEF Lists!Reload, Asking, Lists!IsResource
<1> QED BY <1>1, <1>2

LEMMA AskingIs ==
    ASSUME PagedTypes, NEW s \in Spots, NEW others \in SUBSET lookups, Asking(s, others)
    PROVE  /\ spot' \in Spots /\ status' \in {"loading", "reloading"}
           /\ lookups' # {}
           /\ \A l \in lookups' : IsLookup(l) /\ (l \in others \/ Fresh(l, s))
           /\ Lists!IsResource \/ others = {} =>
                 /\ \A l \in lookups' : Fresh(l, s)
                 /\ \A l, m \in lookups' : l = m
<1>1. spot' \in Spots /\ status' \in {"loading", "reloading"}
    BY DEF Asking, PagedTypes
<1>2. \A o : Fresh(Lists!Load(s, o), s) /\ IsLookup(Lists!Load(s, o))
    BY LoadIs DEF Fresh
<1>3. CASE Lists!IsResource \/ others = {}
    <2>1. lookups' = {Lists!Load(s, {})}
        BY <1>3 DEF Asking
    <2> QED BY <1>1, <1>2, <2>1
<1>4. CASE ~(Lists!IsResource \/ others = {})
    <2>1. lookups' = others \union {Lists!Load(s, others)}
        BY <1>4 DEF Asking
    <2> QED BY <1>1, <1>2, <1>4, <2>1 DEF PagedTypes
<1> QED BY <1>3, <1>4

\* Once a load is asked for, what shows waits for it.
LEMMA AskingKeeps ==
    ASSUME PagedTypes, LoadsAreTrue, NEW s \in Spots, NEW others \in SUBSET lookups,
           Asking(s, others), UNCHANGED <<which, things>>
    PROVE  LoadsAreTrue' /\ RowsComeRight'
<1>1. /\ status' \in {"loading", "reloading"} /\ lookups' # {}
      /\ \A l \in lookups' : l \in others \/ Fresh(l, s)
      /\ Lists!IsResource => /\ \A l \in lookups' : Fresh(l, s)
                             /\ \A l, m \in lookups' : l = m
    BY AskingIs
<1>2. Lists!IsResource' <=> Lists!IsResource
    BY DEF Lists!IsResource
<1>3. Lists!IsResource => spot' = s
    BY DEF Asking, Lists!IsResource
<1>4. LoadsAreTrue'
    <2>1. Lists!IsResource' =>
             /\ lookups' # {} => status' \in {"loading", "reloading"}
             /\ \A l, m \in lookups' : l = m
             /\ \A l \in lookups' : l.of = spot'
        BY <1>1, <1>2, <1>3 DEF Fresh
    <2>2. \A l \in lookups' : ~l.stale /\ l.got # Lists!NotRead => l.got = Lists!Answer(l.of)'
        <3> TAKE l \in lookups'
        <3>1. CASE l \in others
            BY <3>1, SameThings DEF LoadsAreTrue
        <3>2. CASE Fresh(l, s)
            BY <3>2 DEF Fresh
        <3> QED BY <1>1, <3>1, <3>2
    <2> QED BY <1>1, <2>1, <2>2 DEF LoadsAreTrue
<1>5. RowsComeRight'
    <2>1. Lists!IsResource' => \A l \in lookups' : l.got = Lists!NotRead
        BY <1>1, <1>2 DEF Fresh
    <2> QED BY <1>1, <2>1 DEF RowsComeRight
<1> QED BY <1>4, <1>5

LEMMA ListsStay == PagedInv /\ UNCHANGED listsVars => PagedInv'
<1> SUFFICES ASSUME PagedInv, UNCHANGED listsVars PROVE PagedInv'
    OBVIOUS
<1>1. UNCHANGED <<which, things, spot, box, typing, table, status, lookups, jobs, excused>>
    BY DEF listsVars
<1>2. (\A s : Lists!Answer(s)' = Lists!Answer(s)) /\ \A q : All(q)' = All(q)
    BY <1>1, SameThings
<1>3. PagedTypes'
    BY <1>1 DEF PagedInv, PagedTypes
<1>4. SearchIsOfTheBox'
    BY <1>1 DEF PagedInv, SearchIsOfTheBox
<1>5. LoadsAreTrue'
    BY <1>1, <1>2 DEF PagedInv, LoadsAreTrue, Lists!IsResource
<1>6. \A a : Agrees(a)' <=> Agrees(a)
    BY <1>1, <1>2 DEF Agrees, Switched
<1>7. RowsComeRight'
    BY <1>1, <1>2, <1>6 DEF PagedInv, RowsComeRight, Remade, Lists!IsResource
<1>8. PagesComeRight'
    BY <1>1, <1>2 DEF PagedInv, PagesComeRight, PageIsThere, Before, Lists!Rows
<1> QED BY <1>3, <1>4, <1>5, <1>7, <1>8 DEF PagedInv

LEMMA ListsStartAny ==
    ASSUME NEW list \in Lists!Lists, Lists!Starts(list)
    PROVE  PagedInv
<1>1. /\ which = list /\ spot = [page |-> 1, query |-> FALSE] /\ ~box /\ typing = {}
      /\ table = Lists!Nothing /\ status = "loading" /\ lookups = {Lists!Load(spot, {})}
      /\ jobs = {} /\ excused = {}
    BY DEF Lists!Starts
<1>2. spot \in Spots /\ spot.page = 1 /\ ~spot.query
    BY <1>1 DEF Spots
<1>3. Fresh(Lists!Load(spot, {}), spot)
    BY <1>2, LoadIs
<1>4. PagedTypes
    <2>1. things \in [Things -> {0, 1, Gone}]
        BY DEF Lists!Starts
    <2>2. table \in PagedTables
        <3>1. [t \in {} |-> Gone] \in [{} -> {0, 1}]
            OBVIOUS
        <3> QED BY <1>1, <3>1 DEF Lists!Nothing, PagedTables
    <2>3. box \in BOOLEAN
        BY DEF Lists!Starts
    <2> QED BY <1>1, <1>2, <1>3, <2>1, <2>2, <2>3 DEF PagedTypes, Fresh
<1>5. SearchIsOfTheBox
    BY <1>1, <1>2, <1>3 DEF SearchIsOfTheBox, Fresh
<1>6. LoadsAreTrue
    BY <1>1, <1>3 DEF LoadsAreTrue, Fresh
<1>7. RowsComeRight
    BY <1>1, <1>3 DEF RowsComeRight, Fresh
<1>8. PagesComeRight
    BY <1>1, <1>2 DEF PagesComeRight
<1> QED BY <1>4, <1>5, <1>6, <1>7, <1>8 DEF PagedInv

LEMMA ListsStart == Init => PagedInv
<1> SUFFICES ASSUME Init PROVE PagedInv
    OBVIOUS
<1>1. \E list \in Lists!Lists : Lists!Starts(list)
    BY DEF Init, Lists!Init, Lists!Lists
<1> QED BY <1>1, ListsStartAny

LEMMA WhichIs ==
    ASSUME PagedTypes
    PROVE  ListIs(which) /\ (Lists!IsResource <=> which.how = "resource")
BY ListsAre DEF PagedTypes, Lists!IsResource

LEMMA LookupIs ==
    ASSUME NEW l, IsLookup(l)
    PROVE  /\ l.of \in Spots /\ l.of.page \in Nat \ {0} /\ l.of.query \in BOOLEAN
           /\ l.stale \in BOOLEAN
           /\ l.got # Lists!NotRead => l.got \in PagedTables
BY DEF IsLookup, Spots

\* What agrees with the server depends on what there is, the page and what was switched.
LEMMA SameAgrees ==
    ASSUME UNCHANGED <<things, spot, jobs>>
    PROVE  (\A a : Agrees(a)' <=> Agrees(a)) /\ (Remade' <=> Remade)
BY SameThings DEF Agrees, Switched, Remade

LEMMA AnswerAgrees ==
    ASSUME NEW a, a = Lists!Answer(spot)
    PROVE  Agrees(a)
BY DEF Agrees

LEMMA LoadIsReadKeeps ==
    ASSUME PagedInv, NEW l \in lookups, Lists!LoadIsRead(l)
    PROVE  PagedInv'
<1> PICK m : m = [l EXCEPT !.got = Lists!Answer(l.of)]
    OBVIOUS
<1>1. /\ UNCHANGED <<which, things, spot, box, typing, table, status, jobs, excused>>
      /\ lookups' = (lookups \ {l}) \union {m} /\ l.got = Lists!NotRead
    BY DEF Lists!LoadIsRead
<1>2. PagedTypes /\ IsLookup(l) /\ l.of \in Spots
    BY LookupIs DEF PagedInv, PagedTypes
<1>3. Lists!Answer(l.of) \in PagedTables
    BY <1>2, AnswerIs
<1>4. IsLookup(m) /\ m.of = l.of /\ (m.stale <=> l.stale) /\ m.got = Lists!Answer(l.of)
    BY <1>2, <1>3 DEF IsLookup
<1>5. PagedTypes'
    BY <1>1, <1>2, <1>4 DEF PagedTypes
<1>6. SearchIsOfTheBox'
    BY <1>1, <1>4 DEF PagedInv, SearchIsOfTheBox
<1>7. LoadsAreTrue'
    <2>1. status' \in {"loading", "reloading"} => lookups' # {}
        BY <1>1
    <2>2. Lists!IsResource' =>
             /\ lookups' # {} => status' \in {"loading", "reloading"}
             /\ \A i, j \in lookups' : i = j
             /\ \A i \in lookups' : i.of = spot'
        BY <1>1, <1>4 DEF PagedInv, LoadsAreTrue, Lists!IsResource
    <2>3. \A i \in lookups' : ~i.stale /\ i.got # Lists!NotRead => i.got = Lists!Answer(i.of)'
        <3>1. \A i \in lookups' : i = m \/ i \in lookups
            BY <1>1
        <3>2. m.got = Lists!Answer(m.of)'
            BY <1>1, <1>4, SameThings
        <3>3. \A i \in lookups : ~i.stale /\ i.got # Lists!NotRead => i.got = Lists!Answer(i.of)'
            BY <1>1, SameThings DEF PagedInv, LoadsAreTrue
        <3> QED BY <3>1, <3>2, <3>3
    <2> QED BY <2>1, <2>2, <2>3 DEF LoadsAreTrue
<1>8. RowsComeRight'
    <2>1. lookups' # {}
        BY <1>1
    <2>2. ASSUME Lists!IsResource, NEW i \in lookups' PROVE Agrees(i.got)'
        <3>1. i = m
            BY <1>1, <2>2 DEF PagedInv, LoadsAreTrue
        <3>2. m.got = Lists!Answer(spot)
            BY <1>4, <2>2 DEF PagedInv, LoadsAreTrue
        <3> QED BY <1>1, <3>1, <3>2, AnswerAgrees, SameAgrees
    <2>3. Lists!IsResource' <=> Lists!IsResource
        BY <1>1 DEF Lists!IsResource
    <2> QED BY <2>1, <2>2, <2>3 DEF RowsComeRight
<1>9. PagesComeRight'
    <2>1. PageIsThere => PageIsThere'
        BY <1>1, <1>4, SameThings DEF PageIsThere, Before, Lists!Rows
    <2> QED BY <1>1, <2>1 DEF PagedInv, PagesComeRight, Lists!Rows
<1> QED BY <1>5, <1>6, <1>7, <1>8, <1>9 DEF PagedInv

\* The releases load the page before the one that emptied.
LEMMA StepsBackKeeps ==
    ASSUME PagedInv, NEW l \in lookups, Lists!LoadEnds(l),
           which.how = "releases", DOMAIN l.got.rows = {}, l.of.page > 1
    PROVE  PagedInv'
<1> DEFINE last == IF l.got.pages = 0 THEN 1 ELSE l.got.pages
           before == IF l.of.page - 1 <= last THEN l.of.page - 1 ELSE last
           s == [l.of EXCEPT !.page = before]
           others == lookups \ {l}
<1>1. /\ UNCHANGED <<which, things, box, typing, jobs, table, excused>>
      /\ Lists!Ask(s, others) /\ l.got # Lists!NotRead
    BY DEF Lists!LoadEnds
<1>2. PagedTypes /\ IsLookup(l)
    BY DEF PagedInv, PagedTypes
<1>3. l.of \in Spots /\ l.of.page \in Nat \ {0} /\ l.got.pages \in Nat
    BY <1>1, <1>2, LookupIs DEF PagedTables
<1>4. before \in Nat \ {0}
    BY <1>3
<1> HIDE DEF before
<1>5. s \in Spots /\ (s.query <=> l.of.query) /\ others \in SUBSET lookups
    BY <1>3, <1>4 DEF Spots
<1> HIDE DEF s, others
<1>6. Asking(s, others)
    BY <1>1, AskIs
<1>7. spot' = spot /\ status' = "loading"
    BY <1>1 DEF Lists!Ask
<1>8. /\ lookups' # {}
      /\ \A i \in lookups' : IsLookup(i) /\ (i \in others \/ Fresh(i, s))
    BY <1>2, <1>5, <1>6, AskingIs
<1>9. PagedTypes'
    BY <1>1, <1>2, <1>7, <1>8 DEF PagedTypes
<1>10. SearchIsOfTheBox'
    <2>1. ~which.searched
        BY <1>2, WhichIs DEF ListIs
    <2>2. ~l.of.query
        BY <2>1 DEF PagedInv, SearchIsOfTheBox
    <2>3. \A i \in lookups' : ~i.of.query
        BY <1>5, <1>8, <2>1, <2>2 DEF PagedInv, SearchIsOfTheBox, Fresh
    <2> QED BY <1>1, <1>7, <2>3 DEF PagedInv, SearchIsOfTheBox
<1>11. LoadsAreTrue' /\ RowsComeRight'
    BY <1>1, <1>2, <1>5, <1>6, AskingKeeps DEF PagedInv
<1>12. PagesComeRight'
    BY <1>1, <1>7 DEF PagedInv, PagesComeRight, Lists!Rows
<1> QED BY <1>9, <1>10, <1>11, <1>12 DEF PagedInv

\* An answer is shown.
LEMMA AnswerShows ==
    ASSUME PagedInv, NEW l \in lookups, Lists!LoadEnds(l),
           ~(which.how = "releases" /\ DOMAIN l.got.rows = {} /\ l.of.page > 1)
    PROVE  PagedInv'
<1>1. /\ UNCHANGED <<which, things, box, typing, jobs>>
      /\ table' = l.got /\ status' = "idle" /\ lookups' = lookups \ {l}
      /\ spot' = IF which.how = "releases" THEN l.of ELSE spot
      /\ l.got # Lists!NotRead
    BY DEF Lists!LoadEnds
<1>2. excused' = IF l.of # spot' \/ (l.stale /\ ~Lists!IsResource)
                 THEN excused \union {"rows"}
                 ELSE IF l.stale THEN excused ELSE excused \ {"rows"}
    BY DEF Lists!LoadEnds
<1>3. PagedTypes /\ IsLookup(l) /\ l.of \in Spots /\ l.got \in PagedTables
    BY <1>1, LookupIs DEF PagedInv, PagedTypes
<1>4. (Lists!IsResource' <=> Lists!IsResource) /\ (Lists!IsResource => which.how # "releases")
    BY <1>1 DEF Lists!IsResource
<1>5. PagedTypes'
    BY <1>1, <1>3 DEF PagedTypes
<1>6. SearchIsOfTheBox'
    <2>1. CASE which.how = "releases"
        <3>1. ~which.searched
            BY <1>3, <2>1, WhichIs DEF ListIs
        <3>2. ~spot'.query /\ ~box /\ typing = {}
            BY <1>1, <2>1, <3>1 DEF PagedInv, SearchIsOfTheBox
        <3> QED BY <1>1, <3>1, <3>2 DEF PagedInv, SearchIsOfTheBox
    <2>2. CASE which.how # "releases"
        <3>1. spot' = spot /\ excused' \union {"rows"} = excused \union {"rows"}
            BY <1>1, <1>2, <2>2
        <3>2. "box" \in excused' <=> "box" \in excused
            BY <3>1
        <3> QED BY <1>1, <3>1, <3>2 DEF PagedInv, SearchIsOfTheBox
    <2> QED BY <2>1, <2>2
<1>7. LoadsAreTrue'
    <2>1. Lists!IsResource' =>
             /\ lookups' = {} /\ \A i, j \in lookups' : i = j
             /\ \A i \in lookups' : i.of = spot'
        BY <1>1, <1>4 DEF PagedInv, LoadsAreTrue
    <2>2. \A i \in lookups' : ~i.stale /\ i.got # Lists!NotRead => i.got = Lists!Answer(i.of)'
        BY <1>1, SameThings DEF PagedInv, LoadsAreTrue
    <2>3. status' \notin {"loading", "reloading"}
        BY <1>1
    <2> QED BY <2>1, <2>2, <2>3 DEF LoadsAreTrue
<1>8. RowsComeRight'
    <2> SUFFICES ASSUME "rows" \notin excused' PROVE RowsComeRight'
        BY DEF RowsComeRight
    <2>1. l.of = spot' /\ (l.stale => Lists!IsResource /\ "rows" \notin excused)
        BY <1>2
    <2>2. ~l.stale => table' = Lists!Answer(l.of)'
        BY <1>1, <2>1, SameThings DEF PagedInv, LoadsAreTrue
    <2>3. CASE Lists!IsResource
        <3>1. lookups' = {} /\ spot' = spot
            BY <1>1, <1>4, <2>3 DEF PagedInv, LoadsAreTrue
        <3>2. (\A a : Agrees(a)' <=> Agrees(a)) /\ (Remade' <=> Remade)
            BY <1>1, <3>1, SameAgrees
        <3>3. Remade \/ Agrees(table')
            <4>1. CASE l.stale
                BY <1>1, <2>1, <2>3, <4>1 DEF PagedInv, RowsComeRight
            <4>2. CASE ~l.stale
                BY <1>1, <2>3, <4>2, AnswerAgrees, <2>1, <3>1 DEF PagedInv, LoadsAreTrue
            <4> QED BY <4>1, <4>2
        <3> QED BY <1>4, <2>3, <3>1, <3>2, <3>3 DEF RowsComeRight
    <2>4. CASE ~Lists!IsResource
        BY <1>4, <2>1, <2>2, <2>4 DEF RowsComeRight
    <2> QED BY <2>3, <2>4
<1>9. PagesComeRight'
    <2>1. status' # "failed" /\ ("empty" \in excused' <=> "empty" \in excused)
        BY <1>1, <1>2
    <2>2. CASE which.how = "releases"
        <3>1. l.of.page \in Nat \ {0}
            BY <1>3, LookupIs
        <3>2. Lists!Rows' # {} \/ spot'.page = 1
            BY <1>1, <2>2, <3>1 DEF Lists!Rows
        <3> QED BY <1>1, <2>1, <2>2, <3>2 DEF PagesComeRight
    <2>3. CASE which.how # "releases"
        <3> SUFFICES ASSUME "empty" \notin excused', spot'.page > 1 PROVE PageIsThere'
            BY <1>1, <2>1, <2>3 DEF PagesComeRight
        <3>1. spot' = spot /\ PageIsThere
            BY <1>1, <2>1, <2>3 DEF PagedInv, PagesComeRight
        <3>2. jobs = {} /\ l.of = spot /\ ~l.stale
            BY <3>1 DEF PageIsThere
        <3>3. "rows" \notin excused'
            BY <1>2, <3>1, <3>2
        <3> QED BY <1>1, <3>1, <3>2, <3>3, SameThings DEF PageIsThere, Before
    <2> QED BY <2>2, <2>3
<1> QED BY <1>5, <1>6, <1>7, <1>8, <1>9 DEF PagedInv

LEMMA LoadEndsKeeps ==
    ASSUME PagedInv, NEW l \in lookups, Lists!LoadEnds(l)
    PROVE  PagedInv'
BY StepsBackKeeps, AnswerShows

LEMMA ListLoadFailsKeeps ==
    ASSUME PagedInv, NEW l \in lookups, Lists!LoadFails(l)
    PROVE  PagedInv'
<1>1. /\ UNCHANGED <<which, things, spot, box, typing, table, jobs>>
      /\ lookups' = lookups \ {l} /\ status' = "failed"
      /\ excused' = excused \union {"rows", "empty"}
    BY DEF Lists!LoadFails
<1>2. PagedTypes' /\ SearchIsOfTheBox'
    BY <1>1 DEF PagedInv, PagedTypes, SearchIsOfTheBox
<1>3. LoadsAreTrue'
    <2>1. \A i \in lookups' : ~i.stale /\ i.got # Lists!NotRead => i.got = Lists!Answer(i.of)'
        BY <1>1, SameThings DEF PagedInv, LoadsAreTrue
    <2>2. Lists!IsResource' => lookups' = {} /\ \A i \in lookups' : i.of = spot'
        BY <1>1 DEF PagedInv, LoadsAreTrue, Lists!IsResource
    <2> QED BY <1>1, <2>1, <2>2 DEF LoadsAreTrue
<1>4. RowsComeRight' /\ PagesComeRight'
    BY <1>1 DEF PagedInv, RowsComeRight, PagesComeRight, Lists!Rows
<1> QED BY <1>2, <1>3, <1>4 DEF PagedInv

\* Another page, or the same one again, is of the same search.
LEMMA AskingSearches ==
    ASSUME PagedInv, NEW s \in Spots, Asking(s, lookups), s.query <=> spot.query,
           UNCHANGED <<which, box, typing>>, "box" \in excused' <=> "box" \in excused
    PROVE  SearchIsOfTheBox'
<1>1. PagedTypes
    BY DEF PagedInv
<1>2. \A l \in lookups' : l \in lookups \/ l.of = s
    BY <1>1, AskingIs DEF Fresh
<1>3. spot' = spot \/ spot' = s
    BY DEF Asking
<1>4. ~which'.searched => /\ ~box' /\ typing' = {} /\ ~spot'.query
                          /\ \A l \in lookups' : ~l.of.query
    BY <1>2, <1>3 DEF PagedInv, SearchIsOfTheBox
<1>5. "box" \notin excused' => typing' \subseteq {box'} /\ (typing' = {} => (spot'.query <=> box'))
    BY <1>3 DEF PagedInv, SearchIsOfTheBox
<1> QED BY <1>4, <1>5 DEF SearchIsOfTheBox

\* Nothing is under way, and what shows came right: the page count is the server's.
LEMMA RestIsRight ==
    ASSUME PagedInv, lookups = {}, "rows" \notin excused, "empty" \notin excused,
           \A j \in jobs : ~j.done
    PROVE  /\ table.pages = Lists!Answer(spot).pages
           /\ Lists!Rows = DOMAIN Lists!Answer(spot).rows
           /\ table = Lists!Answer(spot)
<1>1. PagedTypes /\ spot \in Spots
    BY DEF PagedInv, PagedTypes
<1>2. status = "idle"
    BY <1>1 DEF PagedInv, PagedTypes, LoadsAreTrue, PagesComeRight
<1>3. ~Remade /\ \A t : ~Switched(t)
    BY DEF Remade, Switched
<1>4. Agrees(table) \/ table = Lists!Answer(spot)
    BY <1>2, <1>3 DEF PagedInv, RowsComeRight
<1>5. /\ table.pages = Lists!Answer(spot).pages
      /\ DOMAIN table.rows = DOMAIN Lists!Answer(spot).rows
      /\ \A t \in DOMAIN table.rows : table.rows[t] = Lists!Answer(spot).rows[t]
    BY <1>3, <1>4 DEF Agrees
<1>6. table = Lists!Answer(spot)
    BY <1>1, <1>5, AnswerIs, TablesAre DEF PagedTypes
<1> QED BY <1>5, <1>6 DEF Lists!Rows

LEMMA TurnKeeps ==
    ASSUME PagedInv, NEW p \in 1 .. Lists!Cardinality(Things), Lists!Turn(p)
    PROVE  PagedInv'
<1> PICK s : s = [spot EXCEPT !.page = p]
    OBVIOUS
<1>1. /\ UNCHANGED <<which, things, box, typing, table, jobs>>
      /\ Lists!Ask(s, lookups) /\ p <= table.pages
      /\ excused' = IF jobs = {} /\ lookups = {} /\ "rows" \notin excused THEN excused
                    ELSE excused \union {"empty"}
    BY DEF Lists!Turn
<1>2. PagedTypes /\ spot \in Spots
    BY DEF PagedInv, PagedTypes
<1>3. p \in Nat \ {0}
    <2>1. Lists!Cardinality(Things) \in Nat
        BY PagedConstants, FS_CardinalityType DEF Lists!Cardinality, Cardinality
    <2> QED BY <2>1
<1>4. s \in Spots /\ s.page = p /\ (s.query <=> spot.query) /\ s.query = spot.query
    BY <1>2, <1>3 DEF Spots
<1>5. Asking(s, lookups) /\ status' = "loading"
    BY <1>1, AskIs DEF Lists!Ask
<1>6. PagedTypes'
    BY <1>1, <1>2, <1>4, <1>5, AskingIs DEF PagedTypes
<1>7. SearchIsOfTheBox'
    BY <1>1, <1>4, <1>5, AskingSearches
<1>8. LoadsAreTrue' /\ RowsComeRight'
    BY <1>1, <1>2, <1>4, <1>5, AskingKeeps DEF PagedInv
<1>9. PagesComeRight'
    <2>1. CASE which.how = "releases"
        <3>1. spot' = spot
            BY <1>5, <2>1 DEF Asking
        <3> QED BY <1>1, <1>5, <2>1, <3>1 DEF PagedInv, PagesComeRight, Lists!Rows
    <2>2. CASE which.how # "releases"
        <3> SUFFICES ASSUME "empty" \notin excused' PROVE PageIsThere'
            BY <1>1, <1>5, <2>2 DEF PagesComeRight
        <3>1. /\ jobs = {} /\ lookups = {} /\ "rows" \notin excused /\ "empty" \notin excused
              /\ excused' = excused
            BY <1>1
        <3>2. spot' = s /\ \A l \in lookups' : Fresh(l, s)
            BY <1>2, <1>4, <1>5, <2>2, <3>1, AskingIs DEF Asking
        <3>3. table.pages = (Cardinality(All(spot.query)) + ListSize - 1) \div ListSize
            BY <1>2, <3>1, RestIsRight, AnswerIs
        <3>4. Cardinality(All(s.query)) > Before(s)
            <4>1. /\ Cardinality(All(s.query)) \in Nat /\ ListSize \in Nat \ {0}
                  /\ p <= (Cardinality(All(s.query)) + ListSize - 1) \div ListSize
                BY <1>1, <1>4, <3>3, AllIs, PagedConstants
            <4>2. (p - 1) * ListSize < Cardinality(All(s.query))
                BY <1>3, <4>1, PagesHold
            <4>3. Before(s) = (p - 1) * ListSize /\ Before(s) \in Nat
                BY <1>4, BeforeIs DEF Before
            <4> QED BY <4>1, <4>2, <4>3
        <3>5. Cardinality(All(spot.query))' > Before(spot)'
            BY <1>1, <3>2, <3>4, SameThings DEF Before
        <3> QED BY <1>1, <3>1, <3>2, <3>5 DEF PageIsThere, Fresh
    <2> QED BY <2>1, <2>2
<1> QED BY <1>6, <1>7, <1>8, <1>9 DEF PagedInv

LEMMA RetryKeeps ==
    ASSUME PagedInv, Lists!Retry
    PROVE  PagedInv'
<1>1. /\ UNCHANGED <<which, things, box, typing, table, jobs, excused>>
      /\ status = "failed" /\ Lists!Reload
    BY DEF Lists!Retry
<1>2. PagedTypes /\ spot \in Spots
    BY DEF PagedInv, PagedTypes
<1>3. Asking(spot, lookups)
    BY <1>1, <1>2, ReloadIs DEF Lists!Refuses
<1>4. PagedTypes'
    BY <1>1, <1>2, <1>3, AskingIs DEF PagedTypes
<1>5. SearchIsOfTheBox'
    BY <1>1, <1>2, <1>3, AskingSearches
<1>6. LoadsAreTrue' /\ RowsComeRight'
    BY <1>1, <1>2, <1>3, AskingKeeps DEF PagedInv
<1>7. PagesComeRight'
    <2>1. "empty" \in excused
        BY <1>1 DEF PagedInv, PagesComeRight
    <2>2. spot' = spot
        BY <1>3 DEF Asking
    <2> QED BY <1>1, <2>1, <2>2 DEF PagedInv, PagesComeRight, Lists!Rows
<1> QED BY <1>4, <1>5, <1>6, <1>7 DEF PagedInv

LEMMA SetSearchKeeps ==
    ASSUME PagedInv, NEW text \in BOOLEAN, Lists!SetSearch(text)
    PROVE  PagedInv'
<1>1. /\ UNCHANGED <<which, things, spot, table, status, lookups, jobs, excused>>
      /\ which.searched /\ typing' = {text}
    BY DEF Lists!SetSearch
<1>2. box' = text
    BY DEF Lists!SetSearch
<1>3. PagedTypes'
    BY <1>1, <1>2 DEF PagedInv, PagedTypes
<1>4. typing' \subseteq {box'} /\ typing' # {}
    BY <1>1, <1>2
<1>5. SearchIsOfTheBox'
    BY <1>1, <1>4 DEF SearchIsOfTheBox
<1>6. LoadsAreTrue'
    BY <1>1, SameThings DEF PagedInv, LoadsAreTrue, Lists!IsResource
<1>7. RowsComeRight'
    BY <1>1, SameThings, SameAgrees DEF PagedInv, RowsComeRight, Lists!IsResource
<1>8. PagesComeRight'
    BY <1>1, SameThings DEF PagedInv, PagesComeRight, PageIsThere, Before, Lists!Rows
<1> QED BY <1>3, <1>5, <1>6, <1>7, <1>8 DEF PagedInv

\* A search is applied: it is the one that is chosen then, from the first page.
LEMMA SearchIsApplied ==
    ASSUME PagedInv, NEW text \in BOOLEAN, Lists!ApplySearch(text), which.searched,
           UNCHANGED <<which, things, table, jobs>>,
           "rows" \in excused' <=> "rows" \in excused, "empty" \in excused' <=> "empty" \in excused
    PROVE  /\ spot'.query <=> text
           /\ \A l \in lookups' : IsLookup(l)
           /\ spot' \in Spots /\ status' \in {"loading", "reloading", "idle", "failed"}
           /\ LoadsAreTrue' /\ RowsComeRight' /\ PagesComeRight'
<1> PICK s : s = IF which = Lists!AuditLogsPage /\ text = spot.query THEN spot
                 ELSE [page |-> 1, query |-> text]
    OBVIOUS
<1>1. /\ s = spot => UNCHANGED <<spot, status, lookups>>
      /\ s # spot => Lists!Ask(s, lookups)
    BY DEF Lists!ApplySearch
<1>2. PagedTypes /\ spot \in Spots /\ which.how = "resource" /\ Lists!IsResource
    BY WhichIs DEF PagedInv, PagedTypes, ListIs
<1>3. s \in Spots /\ (s = spot \/ s.page = 1)
    BY <1>2 DEF Spots
<1>4. s.query <=> text
    <2>1. CASE which = Lists!AuditLogsPage /\ text = spot.query
        BY <2>1
    <2>2. CASE ~(which = Lists!AuditLogsPage /\ text = spot.query)
        BY <2>2
    <2> QED BY <2>1, <2>2
<1>5. CASE s = spot
    <2>1. UNCHANGED <<spot, status, lookups>>
        BY <1>1, <1>5
    <2>2. LoadsAreTrue'
        BY <2>1, SameThings DEF PagedInv, LoadsAreTrue, Lists!IsResource
    <2>3. RowsComeRight'
        BY <2>1, SameThings, SameAgrees DEF PagedInv, RowsComeRight, Lists!IsResource
    <2>4. PagesComeRight'
        BY <2>1, SameThings DEF PagedInv, PagesComeRight, PageIsThere, Before, Lists!Rows
    <2> QED BY <1>2, <1>4, <1>5, <2>1, <2>2, <2>3, <2>4 DEF PagedTypes
<1>6. CASE s # spot
    <2>1. Asking(s, lookups) /\ status' = "loading"
        BY <1>1, <1>6, AskIs DEF Lists!Ask
    <2>2. LoadsAreTrue' /\ RowsComeRight'
        BY <1>2, <1>3, <2>1, AskingKeeps DEF PagedInv
    <2>3. spot' = s /\ spot'.page = 1
        BY <1>2, <1>3, <1>6, <2>1 DEF Asking
    <2>4. PagesComeRight'
        BY <2>1, <2>3 DEF PagesComeRight
    <2> QED BY <1>2, <1>3, <1>4, <2>1, <2>2, <2>3, <2>4, AskingIs
<1> QED BY <1>5, <1>6

LEMMA PauseEndsKeeps ==
    ASSUME PagedInv, Lists!PauseEnds
    PROVE  PagedInv'
<1>1. /\ UNCHANGED <<which, things, box, table, jobs, excused>> /\ typing' = {}
    BY DEF Lists!PauseEnds
<1>2. PICK text \in typing : Lists!ApplySearch(text)
    BY DEF Lists!PauseEnds
<1>3. text \in BOOLEAN /\ which.searched
    BY <1>2 DEF PagedInv, PagedTypes, SearchIsOfTheBox
<1>4. /\ spot'.query <=> text
      /\ \A l \in lookups' : IsLookup(l)
      /\ spot' \in Spots /\ status' \in {"loading", "reloading", "idle", "failed"}
      /\ LoadsAreTrue' /\ RowsComeRight' /\ PagesComeRight'
    BY <1>1, <1>2, <1>3, SearchIsApplied
<1>5. PagedTypes'
    BY <1>1, <1>4 DEF PagedInv, PagedTypes
<1>6. "box" \notin excused => text = box
    BY <1>2 DEF PagedInv, SearchIsOfTheBox
<1>7. "box" \notin excused => (spot'.query <=> box)
    BY <1>4, <1>6
<1>8. SearchIsOfTheBox'
    BY <1>1, <1>3, <1>7 DEF SearchIsOfTheBox
<1> QED BY <1>4, <1>5, <1>8 DEF PagedInv

LEMMA StartNewKeeps ==
    ASSUME PagedInv, Lists!StartNew
    PROVE  PagedInv'
<1>1. /\ UNCHANGED <<which, things, table, jobs>> /\ which = Lists!RedirectsPage /\ ~box'
    BY DEF Lists!StartNew
<1>2. box' \in BOOLEAN
    BY DEF Lists!StartNew
<1>3. which.searched
    BY <1>1, ListsAre
<1>4. CASE spot.query
    <2>1. Lists!ApplySearch(FALSE) /\ typing' = {} /\ UNCHANGED excused
        BY <1>4 DEF Lists!StartNew
    <2>2. /\ spot'.query <=> FALSE
          /\ \A l \in lookups' : IsLookup(l)
          /\ spot' \in Spots /\ status' \in {"loading", "reloading", "idle", "failed"}
          /\ LoadsAreTrue' /\ RowsComeRight' /\ PagesComeRight'
        BY <1>1, <1>3, <2>1, SearchIsApplied
    <2>3. PagedTypes'
        BY <1>1, <1>2, <2>1, <2>2 DEF PagedInv, PagedTypes
    <2>4. SearchIsOfTheBox'
        BY <1>1, <1>3, <2>1, <2>2 DEF SearchIsOfTheBox
    <2> QED BY <2>2, <2>3, <2>4 DEF PagedInv
<1>5. CASE ~spot.query
    <2>1. /\ UNCHANGED <<spot, status, lookups, typing>>
          /\ excused' = IF TRUE \in typing THEN excused \union {"box"} ELSE excused
        BY <1>5 DEF Lists!StartNew
    <2>2. PagedTypes'
        BY <1>1, <1>2, <2>1 DEF PagedInv, PagedTypes
    <2>3. "box" \notin excused' => typing' \subseteq {FALSE}
        <3>1. typing \subseteq BOOLEAN
            BY DEF PagedInv, PagedTypes
        <3> QED BY <2>1, <3>1
    <2>4. box' = FALSE
        BY DEF Lists!StartNew
    <2>5. "box" \notin excused' => typing' \subseteq {box'}
        BY <2>3, <2>4
    <2>6. SearchIsOfTheBox'
        BY <1>1, <1>3, <1>5, <2>1, <2>5 DEF SearchIsOfTheBox
    <2>7. ("rows" \in excused' <=> "rows" \in excused) /\ ("empty" \in excused' <=> "empty" \in excused)
        BY <2>1
    <2>8. LoadsAreTrue'
        BY <1>1, <2>1, SameThings DEF PagedInv, LoadsAreTrue, Lists!IsResource
    <2>9. RowsComeRight'
        BY <1>1, <2>1, <2>7, SameThings, SameAgrees DEF PagedInv, RowsComeRight, Lists!IsResource
    <2>10. PagesComeRight'
        BY <1>1, <2>1, <2>7, SameThings
           DEF PagedInv, PagesComeRight, PageIsThere, Before, Lists!Rows
    <2> QED BY <2>2, <2>6, <2>8, <2>9, <2>10 DEF PagedInv
<1> QED BY <1>4, <1>5

LEMMA AnswersAre ==
    PagedTypes => \A s \in Spots :
        /\ Lists!Answer(s) \in PagedTables
        /\ DOMAIN Lists!Answer(s).rows = PageAfter(All(s.query), Before(s), ListSize)
        /\ \A t \in DOMAIN Lists!Answer(s).rows :
              Lists!Answer(s).rows[t] = things[t] /\ t \in All(s.query)
        /\ Lists!Answer(s).pages = (Cardinality(All(s.query)) + ListSize - 1) \div ListSize
BY AnswerIs

LEMMA AnswersWillBe ==
    (PagedTypes => \A s \in Spots :
        /\ Lists!Answer(s) \in PagedTables
        /\ DOMAIN Lists!Answer(s).rows = PageAfter(All(s.query), Before(s), ListSize)
        /\ \A t \in DOMAIN Lists!Answer(s).rows :
              Lists!Answer(s).rows[t] = things[t] /\ t \in All(s.query)
        /\ Lists!Answer(s).pages = (Cardinality(All(s.query)) + ListSize - 1) \div ListSize)'
BY AnswersAre, PTL

LEMMA ListSendKeeps ==
    ASSUME PagedInv, NEW op \in ListOps, NEW t \in Things, Lists!Send(op, t)
    PROVE  PagedInv'
<1> PICK k : k = [op |-> op, t |-> t, says |-> Gone, done |-> FALSE]
    OBVIOUS
<1>1. /\ UNCHANGED <<which, things, spot, box, typing, table, status, lookups>>
      /\ jobs' = jobs \union {k} /\ op \in which.ops
      /\ excused' = IF jobs = {} /\ lookups = {} THEN excused ELSE excused \union {"empty"}
    BY DEF Lists!Send
<1>2. k \in ListJobs /\ ~k.done /\ k.op = op
    BY DEF ListJobs
<1>3. PagedTypes'
    BY <1>1, <1>2 DEF PagedInv, PagedTypes
<1>4. /\ "rows" \in excused' <=> "rows" \in excused
      /\ "box" \in excused' <=> "box" \in excused
      /\ "empty" \in excused => "empty" \in excused'
    BY <1>1
<1>5. SearchIsOfTheBox'
    BY <1>1, <1>4 DEF PagedInv, SearchIsOfTheBox
<1>6. LoadsAreTrue'
    BY <1>1, SameThings DEF PagedInv, LoadsAreTrue, Lists!IsResource
<1>7. RowsComeRight'
    <2>1. (Remade' <=> Remade) /\ \A u : Switched(u)' <=> Switched(u)
        BY <1>1, <1>2 DEF Remade, Switched
    <2>2. \A a : Agrees(a)' <=> Agrees(a)
        BY <1>1, <2>1, SameThings DEF Agrees
    <2> QED BY <1>1, <1>4, <2>1, <2>2, SameThings DEF PagedInv, RowsComeRight, Lists!IsResource
<1>8. PagesComeRight'
    <2>1. ASSUME PageIsThere, "empty" \notin excused' PROVE PageIsThere'
        <3>1. jobs = {} /\ lookups = {} /\ jobs' = {k}
            BY <1>1, <2>1
        <3> QED BY <1>1, <1>2, <1>4, <2>1, <3>1, SameThings DEF PageIsThere, Before
    <2> QED BY <1>1, <1>4, <2>1 DEF PagedInv, PagesComeRight, Lists!Rows
<1> QED BY <1>3, <1>5, <1>6, <1>7, <1>8 DEF PagedInv

LEMMA JobFailsKeeps ==
    ASSUME PagedInv, NEW j \in jobs, Lists!JobFails(j)
    PROVE  PagedInv'
<1>1. /\ UNCHANGED <<which, things, spot, box, typing, table, status, lookups>>
      /\ jobs' = jobs \ {j}
      /\ excused' = IF j.done THEN excused \union {"rows", "empty"} ELSE excused
    BY DEF Lists!JobFails
<1>2. PagedTypes'
    BY <1>1 DEF PagedInv, PagedTypes
<1>3. "box" \in excused' <=> "box" \in excused
    BY <1>1
<1>4. SearchIsOfTheBox'
    BY <1>1, <1>3 DEF PagedInv, SearchIsOfTheBox
<1>5. LoadsAreTrue'
    BY <1>1, SameThings DEF PagedInv, LoadsAreTrue, Lists!IsResource
<1>6. RowsComeRight'
    <2>1. CASE j.done
        BY <1>1, <2>1 DEF RowsComeRight
    <2>2. CASE ~j.done
        <3>1. (Remade' <=> Remade) /\ \A u : Switched(u)' <=> Switched(u)
            BY <1>1, <2>2 DEF Remade, Switched
        <3>2. \A a : Agrees(a)' <=> Agrees(a)
            BY <1>1, <3>1, SameThings DEF Agrees
        <3> QED BY <1>1, <2>2, <3>1, <3>2, SameThings DEF PagedInv, RowsComeRight, Lists!IsResource
    <2> QED BY <2>1, <2>2
<1>7. PagesComeRight'
    <2>1. ASSUME PageIsThere, ~j.done PROVE PageIsThere'
        <3>1. jobs' = {} /\ \A i \in jobs : ~i.done
            BY <1>1, <2>1 DEF PageIsThere
        <3> QED BY <1>1, <2>1, <3>1, SameThings DEF PageIsThere, Before
    <2>2. "empty" \notin excused' => "empty" \notin excused /\ ~j.done
        BY <1>1
    <2> QED BY <1>1, <2>1, <2>2 DEF PagedInv, PagesComeRight, Lists!Rows
<1> QED BY <1>2, <1>4, <1>5, <1>6, <1>7 DEF PagedInv

\* A load that is older than a change is the load it was, but for that.
LEMMA StaleIs ==
    ASSUME NEW l, IsLookup(l), NEW old
    PROVE  LET m == [l EXCEPT !.stale = old]
           IN  /\ m = [n |-> m.n, of |-> m.of, got |-> m.got, stale |-> m.stale]
               /\ m.of = l.of /\ m.got = l.got /\ m.stale = old
<1>1. l = [n |-> l.n, of |-> l.of, got |-> l.got, stale |-> l.stale]
    BY DEF IsLookup
<1> QED BY <1>1

\* The loads that were read are older than the change.
LEMMA OlderIs ==
    ASSUME NEW ls, \A l \in ls : IsLookup(l)
    PROVE  /\ \A i \in Lists!Older(ls) :
                 /\ IsLookup(i) /\ (i.got # Lists!NotRead => i.stale)
                 /\ \E l \in ls : i.of = l.of /\ i.got = l.got
           /\ Lists!Older(ls) = {} <=> ls = {}
           /\ (\A l, m \in ls : l = m) => \A i, k \in Lists!Older(ls) : i = k
<1> DEFINE f(l) == IF l.got = Lists!NotRead THEN l ELSE [l EXCEPT !.stale = TRUE]
<1>1. ASSUME NEW l \in ls
      PROVE  /\ IsLookup(f(l)) /\ f(l).of = l.of /\ f(l).got = l.got
             /\ f(l).got # Lists!NotRead => f(l).stale
    <2>1. IsLookup(l)
        OBVIOUS
    <2>2. CASE l.got = Lists!NotRead
        BY <2>1, <2>2
    <2>3. CASE l.got # Lists!NotRead
        <3> PICK m : m = [l EXCEPT !.stale = TRUE]
            OBVIOUS
        <3>1. /\ m = [n |-> m.n, of |-> m.of, got |-> m.got, stale |-> m.stale]
              /\ m.of = l.of /\ m.got = l.got /\ m.stale = TRUE
            BY <2>1, StaleIs, ZenonT(40)
        <3>2. m.stale \in BOOLEAN
            BY <3>1
        <3>3. IsLookup(m)
            BY <2>1, <3>1, <3>2 DEF IsLookup
        <3>4. f(l) = m
            BY <2>3
        <3> QED BY <3>1, <3>3, <3>4
    <2> QED BY <2>2, <2>3
<1>2. Lists!Older(ls) = {f(l) : l \in ls}
    BY DEF Lists!Older
<1> HIDE DEF f
<1> QED BY <1>1, <1>2

\* Nothing that is read is up to date any more, and nothing else becomes so.
LEMMA OlderKeepsLoads ==
    ASSUME PagedInv, lookups' = Lists!Older(lookups),
           UNCHANGED <<which, spot, box, typing, table, status>>,
           "box" \in excused' <=> "box" \in excused
    PROVE  /\ \A l \in lookups' : IsLookup(l)
           /\ SearchIsOfTheBox' /\ LoadsAreTrue'
<1>1. \A l \in lookups : IsLookup(l)
    BY DEF PagedInv, PagedTypes
<1>2. /\ \A i \in lookups' : /\ IsLookup(i) /\ (i.got # Lists!NotRead => i.stale)
                             /\ \E l \in lookups : i.of = l.of /\ i.got = l.got
      /\ lookups' = {} <=> lookups = {}
      /\ (\A l, m \in lookups : l = m) => \A i, k \in lookups' : i = k
    BY <1>1, OlderIs
<1>3. SearchIsOfTheBox'
    <2>1. ~which'.searched => /\ ~box' /\ typing' = {} /\ ~spot'.query
                              /\ \A i \in lookups' : ~i.of.query
        BY <1>2 DEF PagedInv, SearchIsOfTheBox
    <2> QED BY <2>1 DEF PagedInv, SearchIsOfTheBox
<1>4. LoadsAreTrue'
    <2>1. Lists!IsResource' =>
             /\ lookups' # {} => status' \in {"loading", "reloading"}
             /\ \A i, k \in lookups' : i = k
             /\ \A i \in lookups' : i.of = spot'
        BY <1>2 DEF PagedInv, LoadsAreTrue, Lists!IsResource
    <2>2. status' \in {"loading", "reloading"} => lookups' # {}
        BY <1>2 DEF PagedInv, LoadsAreTrue
    <2>3. \A i \in lookups' : ~i.stale => i.got = Lists!NotRead
        BY <1>2
    <2> QED BY <2>1, <2>2, <2>3 DEF LoadsAreTrue
<1> QED BY <1>2, <1>3, <1>4

LEMMA ListOthersKeep ==
    ASSUME PagedInv, NEW op \in {"create", "update", "remove"}, NEW t \in Things,
           Lists!OthersChange(op, t)
    PROVE  PagedInv'
<1>1. /\ UNCHANGED <<which, spot, box, typing, table, status, jobs>>
      /\ lookups' = Lists!Older(lookups) /\ excused' = excused \union {"rows", "empty"}
    BY DEF Lists!OthersChange
<1>2. PICK says \in Lists!Changed(op, t) : things' = [things EXCEPT ![t] = says]
    BY DEF Lists!OthersChange
<1>3. says \in {0, 1, Gone}
    BY <1>2 DEF Lists!Changed, PagedInv, PagedTypes
<1>4. things' \in [Things -> {0, 1, Gone}]
    BY <1>2, <1>3 DEF PagedInv, PagedTypes
<1>5. "box" \in excused' <=> "box" \in excused
    BY <1>1
<1>6. (\A l \in lookups' : IsLookup(l)) /\ SearchIsOfTheBox' /\ LoadsAreTrue'
    BY <1>1, <1>5, OlderKeepsLoads
<1>7. PagedTypes'
    BY <1>1, <1>4, <1>6 DEF PagedInv, PagedTypes
<1>8. RowsComeRight' /\ PagesComeRight'
    BY <1>1 DEF PagedInv, RowsComeRight, PagesComeRight, Lists!Rows
<1> QED BY <1>6, <1>7, <1>8 DEF PagedInv

LEMMA JobsChange ==
    ASSUME NEW j \in ListJobs, NEW says \in {0, 1, Gone}, NEW yes \in BOOLEAN
    PROVE  LET k == [j EXCEPT !.done = yes, !.says = says]
           IN  /\ k \in ListJobs /\ k.op = j.op /\ k.t = j.t /\ k.says = says /\ k.done = yes
BY DEF ListJobs

\* What a change makes of what there is.
LEMMA ChangedIs ==
    ASSUME PagedTypes, NEW op \in ListOps, NEW t \in Things, NEW says \in Lists!Changed(op, t),
           things' = [things EXCEPT ![t] = says]
    PROVE  /\ says \in {0, 1, Gone} /\ (op \in {"update", "switch"} => says # Gone)
           /\ things' \in [Things -> {0, 1, Gone}] /\ things'[t] = says
           /\ \A u \in Things \ {t} : things'[u] = things[u]
           /\ op = "create" => \A q : All(q) \subseteq All(q)'
           /\ op = "remove" => \A q : All(q)' = All(q) \ {t}
           /\ op \notin {"create", "remove"} => \A q : All(q)' = All(q)
<1>1. things \in [Things -> {0, 1, Gone}]
    BY DEF PagedTypes
<1>2. /\ (op = "create") <=> (things[t] = Gone)
      /\ says = CASE op = "create" -> 0 [] op = "remove" -> Gone [] OTHER -> 1 - things[t]
    BY DEF Lists!Changed
<1>3. /\ op = "create" => says = 0
      /\ op = "remove" => says = Gone
      /\ op \notin {"create", "remove"} => says \in {0, 1}
    BY <1>1, <1>2
<1>4. Gone # 0 /\ Gone # 1
    BY PagedConstants
<1>5. /\ says \in {0, 1, Gone} /\ (op \in {"update", "switch"} => says # Gone)
      /\ things' \in [Things -> {0, 1, Gone}] /\ things'[t] = says
      /\ \A u \in Things \ {t} : things'[u] = things[u]
    BY <1>1, <1>3, <1>4
<1>6. ASSUME NEW q PROVE All(q)' = {u \in Things : things'[u] # Gone /\ (q => u \in Found)}
    BY DEF All
<1>7. ASSUME op = "create", NEW q PROVE All(q) \subseteq All(q)'
    <2>1. \A u \in Things : things[u] # Gone => things'[u] # Gone
        BY <1>2, <1>5, <1>7
    <2> QED BY <1>6, <2>1 DEF All
<1>8. ASSUME op = "remove", NEW q PROVE All(q)' = All(q) \ {t}
    <2>1. \A u \in Things : things'[u] # Gone <=> things[u] # Gone /\ u # t
        BY <1>3, <1>5, <1>8
    <2> QED BY <1>6, <2>1 DEF All
<1>9. ASSUME op \notin {"create", "remove"}, NEW q PROVE All(q)' = All(q)
    <2>1. \A u \in Things : things'[u] # Gone <=> things[u] # Gone
        BY <1>2, <1>3, <1>4, <1>5, <1>9
    <2> QED BY <1>6, <2>1 DEF All
<1> QED BY <1>5, <1>7, <1>8, <1>9

\* A thing is switched on the server: what was right is, but for its row.
LEMMA SwitchAgrees ==
    ASSUME PagedTypes, PagedTypes', NEW t \in Things, UNCHANGED spot,
           \A u \in Things \ {t} : things'[u] = things[u], \A q : All(q)' = All(q),
           Switched(t)', \A u : Switched(u) => Switched(u)', NEW a, Agrees(a)
    PROVE  Agrees(a)'
<1> PICK s : s = spot
    OBVIOUS
<1>1. s \in Spots /\ s = spot' /\ Before(s)' = Before(s)
    BY DEF PagedTypes, Before
<1> PICK now : now = Lists!Answer(s)
    OBVIOUS
<1> PICK then : then = Lists!Answer(s)'
    OBVIOUS
<1>2. /\ DOMAIN now.rows = PageAfter(All(s.query), Before(s), ListSize)
      /\ \A u \in DOMAIN now.rows : now.rows[u] = things[u] /\ u \in All(s.query)
      /\ now.pages = (Cardinality(All(s.query)) + ListSize - 1) \div ListSize
    BY <1>1, AnswersAre
<1>3. /\ DOMAIN then.rows = PageAfter(All(s.query)', Before(s)', ListSize)
      /\ \A u \in DOMAIN then.rows : then.rows[u] = things'[u] /\ u \in All(s.query)'
      /\ then.pages = (Cardinality(All(s.query)') + ListSize - 1) \div ListSize
    BY <1>1, AnswersWillBe
<1>4. All(s.query)' = All(s.query) /\ All(s.query) \subseteq Things
    BY DEF All
<1>5. then.pages = now.pages /\ DOMAIN then.rows = DOMAIN now.rows
    BY <1>1, <1>2, <1>3, <1>4
<1>6. \A u \in DOMAIN now.rows : u = t \/ then.rows[u] = now.rows[u]
    BY <1>2, <1>3, <1>4, <1>5
<1>7. /\ a.pages = now.pages /\ DOMAIN a.rows = DOMAIN now.rows
      /\ \A u \in DOMAIN a.rows : a.rows[u] = now.rows[u] \/ Switched(u)
    BY DEF Agrees
<1>8. /\ a.pages = then.pages /\ DOMAIN a.rows = DOMAIN then.rows
      /\ \A u \in DOMAIN a.rows : a.rows[u] = then.rows[u] \/ Switched(u)'
    BY <1>5, <1>6, <1>7
<1>9. Lists!Answer(spot)' = then
    BY <1>1
<1> QED BY <1>8, <1>9 DEF Agrees

\* The one removed was the last of its page, or the page is there still.
LEMMA PageWillBeThere ==
    ASSUME PagedInv, PageIsThere, "empty" \notin excused, NEW j \in jobs, ~j.done,
           NEW t \in Things, UNCHANGED <<spot, table>>,
           \/ j.op = "create" /\ \A q : All(q) \subseteq All(q)'
           \/ j.op = "remove" /\ \A q : All(q)' = All(q) \ {t}
           \/ \A q : All(q)' = All(q)
    PROVE  \/ Cardinality(All(spot.query))' > Before(spot)
           \/ /\ j.op = "remove" /\ Cardinality(All(spot.query))' = Before(spot)
              /\ Cardinality(Lists!Rows) = 1
<1> PICK q : q = spot.query
    OBVIOUS
<1> PICK then : then = All(q)'
    OBVIOUS
<1>1. Cardinality(All(spot.query))' = Cardinality(then)
    OBVIOUS
<1>2. /\ All(q) \in SUBSET Nat /\ IsFiniteSet(All(q)) /\ Cardinality(All(q)) \in Nat
    BY AllIs
<1>3. then \subseteq Things /\ IsFiniteSet(then) /\ Cardinality(then) \in Nat
    <2>1. then \subseteq Things
        BY DEF All
    <2> QED BY <2>1, PagedConstants, FS_Subset, FS_CardinalityType
<1>4. PagedTypes /\ spot \in Spots /\ Before(spot) \in Nat
    BY BeforeIs DEF PagedInv, PagedTypes
<1>5. \A i \in jobs : i = j
    BY DEF PageIsThere
<1>6. Cardinality(All(q)) > Before(spot)
    BY <1>5 DEF PageIsThere
<1>7. CASE All(q) \subseteq then
    <2>1. Cardinality(All(q)) <= Cardinality(then)
        BY <1>3, <1>7, FS_Subset
    <2> QED BY <1>1, <1>2, <1>3, <1>4, <1>6, <2>1
<1>8. CASE j.op = "remove" /\ then = All(q) \ {t}
    <2>1. Cardinality(then) = Cardinality(All(q)) \/ Cardinality(then) = Cardinality(All(q)) - 1
        <3>1. Cardinality(All(q) \ {t}) = IF t \in All(q) THEN Cardinality(All(q)) - 1 ELSE Cardinality(All(q))
            BY <1>2, FS_RemoveElement
        <3> QED BY <1>8, <3>1
    <2>2. CASE Cardinality(then) > Before(spot)
        BY <1>1, <2>2
    <2>3. CASE ~(Cardinality(then) > Before(spot))
        <3>1. Cardinality(then) = Before(spot) /\ Cardinality(All(q)) = Before(spot) + 1
            BY <1>2, <1>3, <1>4, <1>6, <2>1, <2>3
        <3>2. Cardinality(PageAfter(All(q), Before(spot), ListSize)) = 1
            BY <1>2, <1>4, <3>1, PageAfterIs, PagedConstants
        <3>3. lookups = {} /\ "rows" \notin excused
            BY DEF PageIsThere
        <3>4. Lists!Rows = PageAfter(All(q), Before(spot), ListSize)
            BY <1>4, <1>5, <3>3, RestIsRight, AnswersAre
        <3> QED BY <1>1, <1>8, <3>1, <3>2, <3>4
    <2> QED BY <2>2, <2>3
<1> QED BY <1>7, <1>8

LEMMA JobIsDoneKeeps ==
    ASSUME PagedInv, NEW j \in jobs, Lists!JobIsDone(j)
    PROVE  PagedInv'
<1>1. /\ ~j.done /\ lookups' = Lists!Older(lookups)
      /\ UNCHANGED <<which, spot, box, typing, table, status, excused>>
    BY DEF Lists!JobIsDone
<1>2. PICK says \in Lists!Changed(j.op, j.t) :
         /\ things' = [things EXCEPT ![j.t] = says]
         /\ jobs' = (jobs \ {j}) \union {[j EXCEPT !.done = TRUE, !.says = says]}
    BY DEF Lists!JobIsDone
<1>3. PagedTypes /\ j \in ListJobs /\ j.t \in Things /\ j.op \in ListOps /\ j.op \in which.ops
    BY DEF PagedInv, PagedTypes, ListJobs
<1>4. /\ says \in {0, 1, Gone} /\ (j.op \in {"update", "switch"} => says # Gone)
      /\ things' \in [Things -> {0, 1, Gone}] /\ things'[j.t] = says
      /\ \A u \in Things \ {j.t} : things'[u] = things[u]
      /\ j.op = "create" => \A q : All(q) \subseteq All(q)'
      /\ j.op = "remove" => \A q : All(q)' = All(q) \ {j.t}
      /\ j.op \notin {"create", "remove"} => \A q : All(q)' = All(q)
    BY <1>2, <1>3, ChangedIs
<1> PICK k : k = [j EXCEPT !.done = TRUE, !.says = says]
    OBVIOUS
<1>5. k \in ListJobs /\ k.op = j.op /\ k.t = j.t /\ k.says = says /\ k.done = TRUE
    <2>1. TRUE \in BOOLEAN /\ j \in ListJobs /\ says \in {0, 1, Gone}
        BY <1>3, <1>4
    <2> QED BY <2>1, JobsChange, ZenonT(40)
<1>6. k.done
    BY <1>5
<1>7. jobs' = (jobs \ {j}) \union {k}
    BY <1>2
<1>8. (\A l \in lookups' : IsLookup(l)) /\ SearchIsOfTheBox' /\ LoadsAreTrue'
    BY <1>1, OlderKeepsLoads
<1>9. PagedTypes'
    <2>1. jobs' \subseteq ListJobs
        BY <1>3, <1>5, <1>7 DEF PagedTypes
    <2>2. \A i \in jobs' : i.op \in which.ops
        BY <1>3, <1>5, <1>7 DEF PagedTypes
    <2>3. \A i \in jobs' : i.done /\ i.op \in {"update", "switch"} => i.says # Gone
        BY <1>3, <1>4, <1>5, <1>7, ZenonT(40) DEF PagedTypes
    <2> QED BY <1>1, <1>3, <1>4, <1>8, <2>1, <2>2, <2>3 DEF PagedTypes
<1>10. /\ \A l \in lookups : IsLookup(l)
       /\ \A i \in lookups' : \E l \in lookups : i.of = l.of /\ i.got = l.got
       /\ lookups' = {} <=> lookups = {}
    <2>1. \A l \in lookups : IsLookup(l)
        BY <1>3 DEF PagedTypes
    <2> QED BY <1>1, <2>1, OlderIs
<1>11. RowsComeRight'
    <2> SUFFICES ASSUME "rows" \notin excused, ~Remade' PROVE RowsComeRight'
        BY <1>1 DEF RowsComeRight
    <2>1. j.op = "switch"
        BY <1>5, <1>6, <1>7 DEF Remade
    <2>2. ~Remade
        BY <1>1, <1>7 DEF Remade
    <2>3. Lists!IsResource /\ Lists!IsResource'
        BY <1>1, <1>3, <2>1, WhichIs DEF ListIs, Lists!IsResource
    <2>4. Switched(j.t)' /\ \A u : Switched(u) => Switched(u)'
        BY <1>1, <1>5, <1>6, <1>7, <2>1 DEF Switched
    <2>5. ASSUME NEW a, Agrees(a) PROVE Agrees(a)'
        BY <1>1, <1>3, <1>4, <1>9, <2>1, <2>4, <2>5, SwitchAgrees
    <2>6. /\ \A l \in lookups : l.got # Lists!NotRead => Agrees(l.got)
          /\ lookups = {} /\ status = "idle" => Agrees(table)
        BY <2>2, <2>3 DEF PagedInv, RowsComeRight
    <2>7. \A i \in lookups' : i.got # Lists!NotRead => Agrees(i.got)'
        <3> SUFFICES ASSUME NEW i \in lookups', i.got # Lists!NotRead PROVE Agrees(i.got)'
            OBVIOUS
        <3>1. PICK l \in lookups : i.of = l.of /\ i.got = l.got
            BY <1>10
        <3> QED BY <2>5, <2>6, <3>1
    <2>8. ASSUME lookups' = {}, status' = "idle" PROVE Agrees(table)'
        <3> PICK kept : kept = table
            OBVIOUS
        <3>1. Agrees(kept)' /\ kept = table'
            BY <1>1, <1>10, <2>5, <2>6, <2>8
        <3> QED BY <3>1 DEF Agrees
    <2> QED BY <2>3, <2>7, <2>8 DEF RowsComeRight
<1>12. PagesComeRight'
    <2>1. ASSUME PageIsThere, "empty" \notin excused PROVE PageIsThere'
        <3>1. jobs' = {k} /\ lookups' = {} /\ "rows" \notin excused'
            BY <1>1, <1>7, <1>10, <2>1 DEF PageIsThere
        <3>2. \/ Cardinality(All(spot.query))' > Before(spot)
              \/ /\ j.op = "remove" /\ Cardinality(All(spot.query))' = Before(spot)
                 /\ Cardinality(Lists!Rows) = 1
            BY <1>1, <1>3, <1>4, <2>1, PageWillBeThere
        <3>3. Cardinality(All(spot.query))' = Cardinality(All(spot.query)') /\ Before(spot)' = Before(spot)
              /\ Lists!Rows' = Lists!Rows
            BY <1>1 DEF Before, Lists!Rows
        <3>4. things'[k.t] = k.says
            BY <1>4, <1>5
        <3>5. \/ Cardinality(All(spot.query))' > Before(spot)'
              \/ /\ \E i \in jobs' : i.done /\ i.op = "remove"
                 /\ Cardinality(All(spot.query))' = Before(spot)' /\ Cardinality(Lists!Rows)' = 1
            BY <1>5, <1>6, <3>1, <3>2, <3>3
        <3> QED BY <3>1, <3>4, <3>5 DEF PageIsThere
    <2> QED BY <1>1, <2>1 DEF PagedInv, PagesComeRight, Lists!Rows
<1> QED BY <1>8, <1>9, <1>11, <1>12 DEF PagedInv

StepsBack(j) ==
    /\ j.op = "remove" /\ which.how # "releases" /\ spot.page > 1
    /\ Cardinality(Lists!Rows) \in which.steps

\* An answer leaves the loads as they are, or asks for the page that shows then.
LEMMA AnsweredAsks ==
    ASSUME PagedTypes, NEW j \in jobs, Lists!JobIsAnswered(j)
    PROVE  \/ /\ UNCHANGED <<spot, status, lookups>> /\ (j.op = "switch" \/ Lists!Refuses)
              /\ ~StepsBack(j)
           \/ Asking(spot, lookups) /\ j.op # "switch" /\ ~Lists!Refuses /\ ~StepsBack(j)
           \/ Asking([spot EXCEPT !.page = @ - 1], lookups) /\ j.op # "switch" /\ StepsBack(j)
<1>1. \/ j.op = "switch" /\ UNCHANGED <<spot, status, lookups>>
      \/ j.op \in {"create", "update", "act"} /\ Lists!Reload
      \/ j.op = "remove" /\ Lists!Removed
    BY DEF Lists!JobIsAnswered
<1>2. Lists!Cardinality(Lists!Rows) = Cardinality(Lists!Rows)
    BY DEF Lists!Cardinality, Cardinality
<1>3. CASE j.op = "switch" /\ UNCHANGED <<spot, status, lookups>>
    BY <1>3 DEF StepsBack
<1>4. CASE j.op # "switch" /\ ~StepsBack(j) /\ Lists!Reload
    BY <1>4, ReloadIs
<1>5. CASE StepsBack(j) /\ Lists!Ask([spot EXCEPT !.page = @ - 1], lookups)
    BY <1>5, AskIs DEF StepsBack
<1>6. CASE j.op \in {"create", "update", "act"} /\ Lists!Reload
    BY <1>4, <1>6 DEF StepsBack
<1>7. CASE j.op = "remove" /\ Lists!Removed
    BY <1>2, <1>4, <1>5, <1>7 DEF StepsBack, Lists!Removed
<1> QED BY <1>1, <1>3, <1>6, <1>7

\* The answer goes into its row.
LEMMA PatchIs ==
    ASSUME PagedTypes, NEW j \in jobs, Lists!JobIsAnswered(j)
    PROVE  /\ table' \in PagedTables /\ table'.pages = table.pages
           /\ DOMAIN table'.rows = DOMAIN table.rows
           /\ \A t \in DOMAIN table.rows :
                 IF t = j.t /\ j.op \in which.patches THEN table'.rows[t] = j.says
                 ELSE table'.rows[t] = table.rows[t]
<1>1. /\ table' = IF j.op \in which.patches /\ j.t \in Lists!Rows
                  THEN [table EXCEPT !.rows[j.t] = j.says] ELSE table
      /\ j.done
    BY DEF Lists!JobIsAnswered
<1>2. table \in PagedTables /\ j \in ListJobs /\ ListIs(which)
    BY WhichIs DEF PagedTypes
<1>3. j.op \in which.patches => j.says \in {0, 1}
    <2>1. j.op \in which.patches => j.op \in {"switch", "update"}
        BY <1>2 DEF ListIs
    <2> QED BY <1>1, <1>2, <2>1 DEF PagedTypes, ListJobs
<1>4. PICK S \in SUBSET Things : table \in [rows : [S -> {0, 1}], pages : Nat]
    BY <1>2 DEF PagedTables
<1>5. CASE j.op \in which.patches /\ j.t \in Lists!Rows
    <2>1. table' = [table EXCEPT !.rows[j.t] = j.says] /\ j.t \in S
        BY <1>1, <1>4, <1>5 DEF Lists!Rows
    <2>2. /\ table' \in [rows : [S -> {0, 1}], pages : Nat] /\ table'.pages = table.pages
          /\ table'.rows = [table.rows EXCEPT ![j.t] = j.says]
        BY <1>3, <1>4, <1>5, <2>1
    <2>3. table' \in PagedTables
        BY <2>2 DEF PagedTables
    <2> QED BY <1>4, <1>5, <2>2, <2>3
<1>6. CASE ~(j.op \in which.patches /\ j.t \in Lists!Rows)
    BY <1>1, <1>2, <1>6 DEF Lists!Rows
<1> QED BY <1>5, <1>6

\* The page that shows is loaded again, or the one before it.
LEMMA AnsweredAskingKeeps ==
    ASSUME PagedInv, NEW j \in jobs, Lists!JobIsAnswered(j), NEW s \in Spots,
           Asking(s, lookups), j.op # "switch",
           \/ s = spot /\ ~Lists!Refuses /\ ~StepsBack(j)
           \/ s = [spot EXCEPT !.page = @ - 1] /\ StepsBack(j)
    PROVE  PagedInv'
<1>1. /\ UNCHANGED <<which, things, box, typing>> /\ j.done /\ jobs' = jobs \ {j}
      /\ excused' = IF (j.op = "switch" \/ Lists!Refuses) /\ Lists!Overtaken(j)
                    THEN excused \union {"rows"} ELSE excused
    BY DEF Lists!JobIsAnswered
<1>2. PagedTypes /\ spot \in Spots
    BY DEF PagedInv, PagedTypes
<1>3. /\ table' \in PagedTables /\ Lists!Rows' = Lists!Rows
    BY <1>2, PatchIs DEF Lists!Rows
<1>4. s.query = spot.query
    BY <1>2 DEF Spots
<1>5. /\ "box" \in excused' <=> "box" \in excused
      /\ "empty" \in excused' <=> "empty" \in excused
    BY <1>1
<1>6. /\ spot' \in Spots /\ status' \in {"loading", "reloading"}
      /\ \A l \in lookups' : IsLookup(l)
      /\ lookups = {} => \A l \in lookups' : Fresh(l, s)
    BY <1>2, AskingIs
<1>7. PagedTypes'
    BY <1>1, <1>2, <1>3, <1>6 DEF PagedTypes
<1>8. SearchIsOfTheBox'
    BY <1>1, <1>4, <1>5, AskingSearches
<1>9. LoadsAreTrue' /\ RowsComeRight'
    BY <1>1, <1>2, AskingKeeps DEF PagedInv
<1>10. PagesComeRight'
    <2>1. CASE which.how = "releases"
        <3>1. spot' = spot
            BY <2>1 DEF Asking
        <3>2. status' # "failed"
            BY <1>6
        <3> QED BY <1>1, <1>3, <1>5, <2>1, <3>1, <3>2 DEF PagedInv, PagesComeRight
    <2>2. CASE which.how # "releases"
        <3> SUFFICES ASSUME "empty" \notin excused', spot'.page > 1 PROVE PageIsThere'
            BY <1>1, <1>6, <2>2 DEF PagesComeRight
        <3>1. spot' = s
            BY <2>2 DEF Asking
        <3>2. spot.page > 1
            <4>1. spot.page \in Nat /\ (s.page = spot.page \/ s.page = spot.page - 1)
                BY <1>2 DEF Spots
            <4> QED BY <3>1, <4>1
        <3>3. PageIsThere
            BY <1>5, <2>2, <3>2 DEF PagedInv, PagesComeRight
        <3>4. /\ jobs' = {} /\ lookups = {} /\ things[j.t] = j.says /\ "rows" \notin excused
              /\ \A i \in jobs : i = j
            BY <1>1, <3>3 DEF PageIsThere
        <3>5. "rows" \notin excused'
            BY <1>1, <3>4 DEF Lists!Overtaken
        <3>6. Cardinality(All(s.query)) > Before(s)
            <4>1. /\ Before(spot) \in Nat /\ ListSize \in Nat \ {0} /\ Cardinality(All(s.query)) \in Nat
                  /\ Before([spot EXCEPT !.page = @ - 1]) = Before(spot) - ListSize
                BY <1>2, BeforeIs, AllIs, PagedConstants
            <4>2. CASE s = spot /\ ~StepsBack(j)
                <5>1. 1 \in which.steps
                    BY <1>2, WhichIs DEF ListIs
                <5> QED BY <2>2, <3>2, <3>3, <3>4, <4>2, <5>1 DEF StepsBack, PageIsThere
            <4>3. CASE s = [spot EXCEPT !.page = @ - 1]
                <5>1. Cardinality(All(s.query)) >= Before(spot)
                    BY <1>4, <3>3, <4>1 DEF PageIsThere
                <5>2. Before(s) = Before(spot) - ListSize
                    BY <4>1, <4>3
                <5> QED BY <4>1, <5>1, <5>2
            <4> QED BY <4>2, <4>3
        <3>7. Cardinality(All(spot.query))' > Before(spot)'
            BY <1>1, <3>1, <3>6, SameThings DEF Before
        <3>8. \A l \in lookups' : l.of = spot' /\ ~l.stale
            BY <1>6, <3>1, <3>4 DEF Fresh
        <3> QED BY <3>4, <3>5, <3>7, <3>8 DEF PageIsThere
    <2> QED BY <2>1, <2>2
<1> QED BY <1>7, <1>8, <1>9, <1>10 DEF PagedInv

\* The list is left as it is: the row is right, or what is loading is.
LEMMA AnsweredRestsKeeps ==
    ASSUME PagedInv, NEW j \in jobs, Lists!JobIsAnswered(j),
           UNCHANGED <<spot, status, lookups>>, j.op = "switch" \/ Lists!Refuses, ~StepsBack(j)
    PROVE  PagedInv'
<1>1. /\ UNCHANGED <<which, things, box, typing>> /\ j.done /\ jobs' = jobs \ {j}
      /\ excused' = IF (j.op = "switch" \/ Lists!Refuses) /\ Lists!Overtaken(j)
                    THEN excused \union {"rows"} ELSE excused
    BY DEF Lists!JobIsAnswered
<1>2. PagedTypes /\ spot \in Spots /\ j.op \in which.ops
    BY DEF PagedInv, PagedTypes
<1>3. /\ table' \in PagedTables /\ Lists!Rows' = Lists!Rows /\ table'.pages = table.pages
      /\ DOMAIN table'.rows = DOMAIN table.rows
      /\ \A t \in DOMAIN table.rows :
            IF t = j.t /\ j.op \in which.patches THEN table'.rows[t] = j.says
            ELSE table'.rows[t] = table.rows[t]
    BY <1>2, PatchIs DEF Lists!Rows
<1>4. /\ "box" \in excused' <=> "box" \in excused
      /\ "empty" \in excused' <=> "empty" \in excused
    BY <1>1
<1>5. PagedTypes'
    BY <1>1, <1>2, <1>3 DEF PagedTypes
<1>6. SearchIsOfTheBox'
    BY <1>1, <1>4 DEF PagedInv, SearchIsOfTheBox
<1>7. LoadsAreTrue'
    BY <1>1, SameThings DEF PagedInv, LoadsAreTrue, Lists!IsResource
<1>8. Lists!IsResource
    BY <1>2, WhichIs DEF ListIs, Lists!Refuses
<1>9. RowsComeRight'
    <2> SUFFICES ASSUME "rows" \notin excused', ~Remade' PROVE RowsComeRight'
        BY DEF RowsComeRight
    <2>1. "rows" \notin excused /\ things[j.t] = j.says /\ \A l \in lookups : ~l.stale
        BY <1>1 DEF Lists!Overtaken
    <2> PICK was : was = Lists!Answer(spot)
        OBVIOUS
    <2>2. Lists!Answer(spot)' = was
        BY <1>1, SameThings
    <2>3. \A l \in lookups' : l.got # Lists!NotRead => Agrees(l.got)'
        <3>1. \A l \in lookups : l.got # Lists!NotRead => l.got = was
            BY <1>8, <2>1 DEF PagedInv, LoadsAreTrue
        <3> QED BY <2>2, <3>1 DEF Agrees
    <2>4. ASSUME lookups' = {}, status' = "idle" PROVE Agrees(table)'
        <3>1. j.op = "switch" /\ "switch" \in which.patches
            BY <1>2, <2>4, WhichIs DEF Lists!Refuses, ListIs
        <3>2. ~Remade
            BY <1>1, <3>1 DEF Remade
        <3>3. Agrees(table)
            BY <1>8, <2>1, <2>4, <3>2 DEF PagedInv, RowsComeRight
        <3>4. /\ table.pages = was.pages /\ DOMAIN table.rows = DOMAIN was.rows
              /\ \A t \in DOMAIN table.rows : table.rows[t] = was.rows[t] \/ Switched(t)
            BY <3>3 DEF Agrees
        <3>5. \A t : t # j.t /\ Switched(t) => Switched(t)'
            BY <1>1 DEF Switched
        <3>6. \A t \in DOMAIN was.rows : was.rows[t] = things[t]
            BY <1>2, AnswerIs
        <3>7. \A t \in DOMAIN table'.rows : table'.rows[t] = was.rows[t] \/ Switched(t)'
            BY <1>3, <2>1, <3>1, <3>4, <3>5, <3>6
        <3>8. table'.pages = was.pages /\ DOMAIN table'.rows = DOMAIN was.rows
            BY <1>3, <3>4
        <3> QED BY <2>2, <3>7, <3>8 DEF Agrees
    <2>5. Lists!IsResource'
        BY <1>1, <1>8 DEF Lists!IsResource
    <2> QED BY <2>3, <2>4, <2>5 DEF RowsComeRight
<1>10. PagesComeRight'
    <2>1. ASSUME PageIsThere PROVE PageIsThere'
        <3>1. lookups = {} /\ jobs' = {} /\ things[j.t] = j.says /\ \A i \in jobs : i = j
            BY <1>1, <2>1 DEF PageIsThere
        <3>2. j.op = "switch"
            BY <3>1 DEF PagedInv, LoadsAreTrue, Lists!Refuses
        <3>3. excused' = excused
            BY <1>1, <3>1 DEF Lists!Overtaken
        <3>4. Cardinality(All(spot.query)) > Before(spot)
            BY <2>1, <3>1, <3>2 DEF PageIsThere
        <3> QED BY <1>1, <2>1, <3>1, <3>3, <3>4, SameThings DEF PageIsThere, Before
    <2> QED BY <1>1, <1>3, <1>4, <2>1 DEF PagedInv, PagesComeRight
<1> QED BY <1>5, <1>6, <1>7, <1>9, <1>10 DEF PagedInv

LEMMA JobIsAnsweredKeeps ==
    ASSUME PagedInv, NEW j \in jobs, Lists!JobIsAnswered(j)
    PROVE  PagedInv'
<1>1. PagedTypes /\ spot \in Spots
    BY DEF PagedInv, PagedTypes
<1>2. CASE /\ UNCHANGED <<spot, status, lookups>> /\ (j.op = "switch" \/ Lists!Refuses)
           /\ ~StepsBack(j)
    BY <1>2, AnsweredRestsKeeps
<1>3. CASE Asking(spot, lookups) /\ j.op # "switch" /\ ~Lists!Refuses /\ ~StepsBack(j)
    BY <1>1, <1>3, AnsweredAskingKeeps
<1>4. CASE Asking([spot EXCEPT !.page = @ - 1], lookups) /\ j.op # "switch" /\ StepsBack(j)
    <2> PICK s : s = [spot EXCEPT !.page = @ - 1]
        OBVIOUS
    <2>1. s \in Spots
        <3>1. spot.page > 1 /\ spot.page \in Nat
            BY <1>1, <1>4 DEF StepsBack, Spots
        <3> QED BY <1>1, <3>1 DEF Spots
    <2>2. Asking(s, lookups)
        BY <1>4
    <2> QED BY <1>4, <2>1, <2>2, AnsweredAskingKeeps
<1> QED BY <1>1, <1>2, <1>3, <1>4, AnsweredAsks

LEMMA ListsKeep == PagedInv /\ Lists!Next => PagedInv'
<1> SUFFICES ASSUME PagedInv, Lists!Next PROVE PagedInv'
    OBVIOUS
<1>1. CASE Lists!Progress
    BY <1>1, LoadIsReadKeeps, LoadEndsKeeps, ListLoadFailsKeeps, JobIsDoneKeeps,
       JobIsAnsweredKeeps, JobFailsKeeps, PauseEndsKeeps DEF Lists!Progress
<1>2. CASE Lists!Retry \/ Lists!StartNew
    BY <1>2, RetryKeeps, StartNewKeeps
<1>3. CASE \E p \in 1 .. Lists!Cardinality(Things) : Lists!Turn(p)
    BY <1>3, TurnKeeps
<1>4. CASE \E text \in BOOLEAN : Lists!SetSearch(text)
    BY <1>4, SetSearchKeeps
<1>5. CASE \E op \in {"create", "update", "switch", "act", "remove"}, t \in Things : Lists!Send(op, t)
    BY <1>5, ListSendKeeps DEF ListOps
<1>6. CASE \E op \in {"create", "update", "remove"}, t \in Things : Lists!OthersChange(op, t)
    BY <1>6, ListOthersKeep
<1> QED BY <1>1, <1>2, <1>3, <1>4, <1>5, <1>6 DEF Lists!Next

LEMMA ListsInvariance == Spec => []PagedInv
<1>1. PagedInv /\ [Next]_vars => PagedInv'
    <2> SUFFICES ASSUME PagedInv, [Next]_vars PROVE PagedInv'
        OBVIOUS
    <2>1. Lists!Next \/ UNCHANGED listsVars
        BY DEF Next, Only, vars
    <2> QED BY <2>1, ListsKeep, ListsStay
<1> QED BY <1>1, ListsStart, PTL DEF Spec

\* The types of a list, and that it shows what the server has once it is at rest.
LEMMA ListsAreTheServers ==
    ASSUME PagedInv
    PROVE  Lists!ListsTypeOK /\ Lists!RowsAreTheServers
<1>1. PagedTypes /\ spot \in Spots /\ spot.query \in BOOLEAN /\ box \in BOOLEAN
    BY DEF PagedInv, PagedTypes, Spots
<1>2. Lists!ListsTypeOK
    <2>1. Lists!IsResource => Lists!Cardinality(lookups) <= 1
        <3> SUFFICES ASSUME Lists!IsResource PROVE Cardinality(lookups) <= 1
            BY DEF Lists!Cardinality, Cardinality
        <3>1. CASE lookups = {}
            BY <3>1, FS_EmptySet
        <3>2. CASE lookups # {}
            <4>1. PICK l \in lookups : lookups = {l}
                BY <3>2 DEF PagedInv, LoadsAreTrue
            <4> QED BY <4>1, FS_Singleton
        <3> QED BY <3>1, <3>2
    <2>2. \A t \in Lists!Rows : table.rows[t] \in {0, 1}
        BY <1>1 DEF PagedTypes, PagedTables, Lists!Rows
    <2>3. spot.page \in Nat \ {0}
        BY <1>1 DEF Spots
    <2> QED BY <1>1, <2>1, <2>2, <2>3 DEF PagedTypes, Lists!ListsTypeOK
<1>3. Lists!Settled /\ "rows" \notin excused => table = Lists!Answer(spot)
    <2> SUFFICES ASSUME Lists!Settled, "rows" \notin excused PROVE table = Lists!Answer(spot)
        OBVIOUS
    <2>1. lookups = {} /\ jobs = {} /\ status = "idle"
        BY DEF Lists!Settled
    <2>2. ~Remade /\ \A t : ~Switched(t)
        BY <2>1 DEF Remade, Switched
    <2>3. Agrees(table) \/ table = Lists!Answer(spot)
        BY <2>1, <2>2 DEF PagedInv, RowsComeRight
    <2>4. CASE Agrees(table)
        <3>1. /\ table.pages = Lists!Answer(spot).pages
              /\ DOMAIN table.rows = DOMAIN Lists!Answer(spot).rows
              /\ \A t \in DOMAIN table.rows : table.rows[t] = Lists!Answer(spot).rows[t]
            BY <2>2, <2>4 DEF Agrees
        <3> QED BY <1>1, <3>1, AnswerIs, TablesAre DEF PagedTypes
    <2> QED BY <2>3, <2>4
<1>4. Lists!Settled /\ "empty" \notin excused => Lists!Rows # {} \/ spot.page = 1
    <2> SUFFICES ASSUME Lists!Settled, "empty" \notin excused, spot.page # 1 PROVE Lists!Rows # {}
        OBVIOUS
    <2>1. CASE which.how = "releases"
        BY <2>1 DEF PagedInv, PagesComeRight
    <2>2. CASE which.how # "releases"
        <3>1. spot.page > 1
            BY <1>1 DEF Spots
        <3>2. PageIsThere /\ jobs = {} /\ lookups = {}
            BY <2>2, <3>1 DEF PagedInv, PagesComeRight, Lists!Settled
        <3>3. Cardinality(All(spot.query)) > Before(spot) /\ "rows" \notin excused
            BY <3>2 DEF PageIsThere
        <3>4. Lists!Rows = PageAfter(All(spot.query), Before(spot), ListSize)
            BY <1>1, <3>2, <3>3, RestIsRight, AnswersAre
        <3>5. /\ All(spot.query) \in SUBSET Nat /\ IsFiniteSet(All(spot.query))
              /\ Cardinality(All(spot.query)) \in Nat /\ Before(spot) \in Nat
            BY <1>1, AllIs, BeforeIs
        <3> QED BY <3>3, <3>4, <3>5, PageAfterIs, PagedConstants
    <2> QED BY <2>1, <2>2
<1>5. typing = {} /\ "box" \notin excused => spot.query = box
    <2>1. typing = {} /\ "box" \notin excused => (spot.query <=> box)
        BY DEF PagedInv, SearchIsOfTheBox
    <2> QED BY <1>1, <2>1
<1> QED BY <1>2, <1>3, <1>4, <1>5 DEF Lists!RowsAreTheServers
-----------------------------------------------------------------------------
(* Every page. *)

\* What a page shows and acts on is what it was asked for last (ShownIsAsked): the form is
\* that of the URL, the rows of a list are those of what is listed and, once it is at rest,
\* the server's, in whatever order loads and changes are answered; and a deployment that
\* shows in progress is followed.
THEOREM WhatShowsWasAsked == Spec => []ShownIsAsked
<1>1. EntryInv /\ ListInv /\ PagedInv /\ DeployInv => ShownIsAsked
    BY ListsAreTheServers, DeploysAreFollowed DEF EntryInv, ListInv, ShownIsAsked
<1> QED BY <1>1, EntryInvariance, ListInvariance, ListsInvariance, DeploysInvariance, PTL

LEMMA OneAtMost ==
    ASSUME NEW R, \A p, q \in R : p = q
    PROVE  IsFiniteSet(R) /\ Cardinality(R) <= 1
<1>1. CASE R = {}
    BY <1>1, FS_EmptySet
<1>2. CASE R # {}
    <2>1. PICK p \in R : R = {p}
        BY <1>2
    <2> QED BY <2>1, FS_Singleton
<1> QED BY <1>1, <1>2

LEMMA SessionTyped == SessionInv => Session!TypeOK
<1> SUFFICES ASSUME SessionInv PROVE Session!TypeOK
    OBVIOUS
<1>1. ASSUME NEW t \in Tabs
      PROVE  Session!Cardinality({p \in posts : p.tab = t /\ p.op = "refresh"}) <= 1
    <2>1. PICK R : R = {p \in posts : p.tab = t /\ p.op = "refresh"}
        OBVIOUS
    <2>2. \A p, q \in R : p = q
        BY <2>1 DEF SessionInv, OneRefreshInATab
    <2>3. Session!Cardinality(R) = Cardinality(R)
        BY DEF Session!Cardinality, Cardinality
    <2>4. Cardinality(R) <= 1
        BY <2>2, OneAtMost
    <2> QED BY <2>1, <2>3, <2>4
<1>2. cookie.of \in 0 .. MaxSignIns
    BY DEF SessionInv, SessionTypes, Tokens
<1>3. \A t \in Tabs : tab[t].token \in {"none", "good", "expired"}
    BY DEF SessionInv, SessionTypes
<1>4. \A p \in posts : p.op = "refresh" => tab[p.tab].refreshing
    BY DEF SessionInv, OneRefreshInATab
<1> QED BY <1>1, <1>2, <1>3, <1>4 DEF Session!TypeOK, SessionInv, SessionTypes

LEMMA ImportTyped == ImportInv => Import!TypeOK
<1> SUFFICES ASSUME ImportInv PROVE Import!TypeOK
    OBVIOUS
<1>1. ASSUME checked = Import!NoReport PROVE ~checked.passed
    <2>1. ~Import!NoReport.passed
        BY DEF Import!NoReport
    <2> QED BY <1>1, <2>1, Zenon
<1>2. checked # Import!NoReport => checked.of.file \in Files
    BY Zenon DEF ImportInv, ImportTypes
<1>3. checked.passed => checked.of.file \in Files
    BY <1>1, <1>2, Zenon
<1> QED BY <1>3 DEF ImportInv, ImportTypes, Imported, Import!TypeOK

LEMMA BuilderTyped == BuilderInv => Schema!BuilderTypeOK
<1> SUFFICES ASSUME BuilderInv PROVE Schema!BuilderTypeOK
    OBVIOUS
<1>1. draft.shown => draft \in Drafts
    BY DEF BuilderInv, BuilderTypes, Schema!NoDraft
<1>2. draft.shown => draft.of \in Schema!Routes /\ draft.type \in Schema!Routes
    BY <1>1 DEF Drafts
<1>3. /\ schema \in Schemas /\ builderUrl \in Schema!Routes \union {NoName}
      /\ sources # Schema!NoSources => sources \in Schemas
    BY DEF BuilderInv, BuilderTypes
<1>4. removal \in BOOLEAN /\ working \in BOOLEAN
    BY DEF BuilderInv, BuilderTypes
<1> QED BY <1>2, <1>3, <1>4 DEF Schema!BuilderTypeOK, Schemas, Contents

LEMMA SettingsTyped == SettingsInv => Settings!SettingsTypeOK
BY DEF SettingsInv, SettingsTypes, Texts, Settings!SettingsTypeOK

LEMMA RolesTyped == RolesInv => Roles!RolesTypeOK
<1> SUFFICES ASSUME RolesInv PROVE Roles!RolesTypeOK
    OBVIOUS
<1>1. \A k \in Roles!Keys : permissions[k] = NotGranted \/ permissions[k] \in Granted
    BY DEF RolesInv, Permissions
<1>2. \A c \in roleCalls : c.role \in RoleIds \union {NoRole}
    BY DEF RolesInv
<1> QED BY <1>1, <1>2 DEF RolesInv, Granted, Roles!RolesTypeOK

\* The tree of a menu is typed on its page, and stays the empty one on the others.
LEMMA MenuInvariance == Spec => []MenuTypeOK
<1>1. Init => MenuTypeOK
    <2>1. Init => MenuInit
        BY NoRowsIsAMenu DEF Init, MenuInit
    <2> QED BY <2>1, StartIsTyped
<1>2. MenuTypeOK /\ [Next]_vars => MenuTypeOK'
    <2>1. [Next]_vars => [MenuNext]_menuVars
        BY DEF Next, Only, vars
    <2> QED BY <2>1, StepIsTyped
<1> QED BY <1>1, <1>2, PTL DEF Spec

\* In the page of a menu, an indent, an outdent, a swap or a drop of any row on any other moves
\* one item with what is under it and nothing else, within the limits, and the drop shows it
\* where it was dropped (MovesKeepTheTree).
THEOREM MenuMovesAreSound == Spec => []MovesKeepTheTree
<1>1. MenuTypeOK => MovesKeepTheTree
    BY TypedMovesAreSound DEF MovesKeepTheTree
<1> QED BY <1>1, MenuInvariance, PTL

\* Whatever page is open, its state has the shapes the code gives it: among it, a tab has one
\* refresh under way, a list one load, a lock one admin.
THEOREM PagesAreTyped == Spec => []PanelTypeOK
<1>1. /\ EntryInv /\ ListInv /\ ImportInv /\ SessionInv /\ BuilderInv /\ SettingsInv /\ RolesInv
      /\ PresenceInv /\ PagedInv /\ DeployInv /\ MenuTypeOK /\ page \in Pages
      => PanelTypeOK
    BY EntryTyped, ListTyped, ImportTyped, SessionTyped, BuilderTyped, SettingsTyped, RolesTyped,
       PresenceTyped, ListsAreTheServers, DeploysAreFollowed DEF PanelTypeOK
<1>2. Spec => [](page \in Pages)
    <2>1. page \in Pages /\ [Next]_vars => (page \in Pages)'
        BY DEF Next, Only, vars
    <2>2. Init => page \in Pages
        BY DEF Init
    <2> QED BY <2>1, <2>2, PTL DEF Spec
<1> QED BY <1>1, <1>2, EntryInvariance, ListInvariance, ImportInvariance, SessionInvariance,
        BuilderInvariance, SettingsInvariance, RolesInvariance, PresenceInvariance,
        ListsInvariance, DeploysInvariance, MenuInvariance, PTL
-----------------------------------------------------------------------------
(* The live view of an entry: its event stream, its comments. *)


Message  == (Entries \X Kinds) \union {Lagged}
Users(e, h) == (IF e = NoEntry THEN 0 ELSE 1) + (IF h THEN 1 ELSE 0)

\* The stream: who retains it, and what a gap leaves behind.
StreamOK ==
    /\ heldElsewhere \in BOOLEAN
    /\ users = Users(collabEntry, heldElsewhere)
    /\ stream \in [at : {"idle", "connecting", "open", "waiting"}, first : BOOLEAN,
                   aborted : BOOLEAN]
    /\ missed \in BOOLEAN /\ wire \in Seq(Message)
    /\ users > 0 => stream.at # "idle"
    /\ stream.first => ~missed
    /\ stream.at = "idle" => stream.first
    /\ stream.at = "open" => ~stream.first
    /\ stream.at = "open" /\ missed => \E i \in 1 .. Len(wire) : wire[i] = Lagged

LoadRecord ==
    [n : Nat, entry : Entries, due : SUBSET Kinds, what : SUBSET Kinds,
     got : [Kinds -> Nat \union {Unloaded}]]

\* Comments an answered load brings are no newer than the server's, and no older than
\* those on the screen if it is the latest.
Bounded(ld, T, sh, e, n) ==
    "comments" \in ld.what /\ "comments" \notin ld.due =>
        /\ ld.got["comments"] \in Nat
        /\ ld.got["comments"] <= T[ld.entry]["comments"]
        /\ ld.n = n /\ ld.entry = e /\ sh # Unloaded => sh <= ld.got["comments"]

LoadsOK ==
    /\ collabEntry \in Entries \union {NoEntry}
    /\ truth \in [Entries -> [Kinds -> Nat]]
    /\ refreshes \in Nat /\ loads \subseteq LoadRecord
    /\ \A ld \in loads : ld.n \in 1 .. refreshes
    /\ \A ld, other \in loads : ld.n = other.n => ld = other
    /\ \A ld \in loads : Bounded(ld, truth, collabShown["comments"], collabEntry, refreshes)
    /\ collabShown \in [Kinds -> Nat \union {Unloaded}]
    /\ collabEntry = NoEntry => collabShown = None
    /\ collabShown["comments"] # Unloaded => collabShown["comments"] <= truth[collabEntry]["comments"]

\* What waits, and the admin's own requests.
AskedOK ==
    /\ collabPending \subseteq Kinds /\ timer \in BOOLEAN /\ failed \in BOOLEAN
    /\ sends \subseteq [op : {"comments", "tasks", "task in place"}, entry : Entries,
                        done : Nat \union {Unloaded}]

CollabInv == StreamOK /\ LoadsOK /\ AskedOK

----------------------------------------------------------------------------
(* The stream. *)

\* The messages that are written are about entries, or say that some were lost.
LEMMA Announces ==
    ASSUME StreamOK, NEW e \in Entries, NEW k \in Kinds, Changed(e, k), UNCHANGED <<collabEntry,
                                                                                    heldElsewhere>>
    PROVE  StreamOK'
  <1> DEFINE message == <<e, k>>
  <1>1. message \in Message /\ Lagged \in Message
    BY DEF Message
  <1>2. UNCHANGED <<users, stream, heldElsewhere, collabEntry>>
    BY DEF Changed
  <1> HIDE DEF message
  <1>3. CASE stream.at = "open" /\ wire' = Append(wire, message) /\ UNCHANGED missed
    <2>1. wire' \in Seq(Message) /\ Len(wire') = Len(wire) + 1
          /\ \A i \in 1 .. Len(wire) : wire'[i] = wire[i]
      BY <1>1, <1>3 DEF StreamOK
    <2>2. missed' => \E i \in 1 .. Len(wire') : wire'[i] = Lagged
      BY <2>1, <1>3 DEF StreamOK
    <2> QED BY <1>2, <1>3, <2>1, <2>2 DEF StreamOK
  <1>4. CASE stream.at = "open" /\ wire' = <<Lagged, message>> /\ missed' = TRUE
    <2>1. wire' \in Seq(Message) /\ Len(wire') = 2 /\ wire'[1] = Lagged
      BY <1>1, <1>4
    <2>2. \E i \in 1 .. Len(wire') : wire'[i] = Lagged
      BY <2>1
    <2> QED BY <1>2, <1>4, <2>1, <2>2 DEF StreamOK
  <1>5. CASE stream.at # "open" /\ missed' = (missed \/ ~stream.first) /\ UNCHANGED wire
    BY <1>2, <1>5 DEF StreamOK
  <1> QED BY <1>3, <1>4, <1>5 DEF Changed, Announced, message

\* A component releases what it held and retains again.
LEMMA Holds ==
    ASSUME StreamOK, NEW before \in {0, 1}, NEW after \in {0, 1}, before <= users,
           Hold(before, after), UNCHANGED <<wire, missed>>, heldElsewhere' \in BOOLEAN,
           users' = Users(collabEntry', heldElsewhere')
    PROVE  StreamOK'
  <1>1. users \in Nat
    BY DEF StreamOK, Users
  <1>2. stream' \in [at : {"idle", "connecting", "open", "waiting"}, first : BOOLEAN,
                     aborted : BOOLEAN]
    <2>1. Stopped(stream) \in [at : {"idle", "connecting", "open", "waiting"},
                              first : BOOLEAN, aborted : BOOLEAN]
      <3>1. CASE stream.at \in {"connecting", "open"}
        <4>1. Stopped(stream) = [stream EXCEPT !.aborted = TRUE]
          BY <3>1 DEF Stopped
        <4> QED BY <4>1 DEF StreamOK
      <3>2. CASE stream.at \notin {"connecting", "open"}
        <4>1. (stream.at \in {"connecting", "open"}) = FALSE
          BY <3>2
        <4>2. Stopped(stream) = [stream EXCEPT !.aborted = FALSE]
          BY <4>1, Zenon DEF Stopped
        <4> QED BY <4>2 DEF StreamOK
      <3> QED BY <3>1, <3>2
    <2>2. Started \in [at : {"idle", "connecting", "open", "waiting"}, first : BOOLEAN,
                       aborted : BOOLEAN]
      BY DEF Started
    <2> QED BY <2>1, <2>2 DEF StreamOK, Hold, Retained
  <1>3. users' > 0 => stream'.at # "idle"
    BY <1>1 DEF StreamOK, Hold, Stopped, Retained, Started
  <1>4. \/ stream'.at = stream.at /\ stream'.first = stream.first
        \/ stream.at = "idle" /\ stream'.at = "connecting"
    BY DEF StreamOK, Hold, Stopped, Retained, Started
  <1> QED BY <1>2, <1>3, <1>4 DEF StreamOK

\* One round of the stream's own loop.
LEMMA Loops ==
    ASSUME StreamOK, Wakes \/ Ends \/ OpenFails \/ Closes, UNCHANGED <<collabEntry, heldElsewhere>>
    PROVE  StreamOK'
  <1>1. users \in Nat /\ users' = users
    BY DEF StreamOK, Users, Wakes, Ends, OpenFails, Closes
  <1>2. <<>> \in Seq(Message)
    OBVIOUS
  <1>3. CASE Wakes
    BY <1>1, <1>3 DEF StreamOK, Wakes
  <1>4. CASE Ends
    BY <1>1, <1>2, <1>4 DEF StreamOK, Ends, Started
  <1>5. CASE OpenFails
    BY <1>1, <1>5 DEF StreamOK, OpenFails
  <1>6. CASE Closes
    BY <1>1, <1>2, <1>6 DEF StreamOK, Closes
  <1> QED BY <1>3, <1>4, <1>5, <1>6

LEMMA Opens ==
    ASSUME StreamOK, NEW resync \in BOOLEAN, Open(resync), UNCHANGED <<collabEntry, heldElsewhere>>
    PROVE  StreamOK'
  <1>1. <<>> \in Seq(Message)
    OBVIOUS
  <1> QED BY <1>1 DEF StreamOK, Open

\* Reading the word of a loss makes up for what was missed; any other message leaves it
\* in the rest.
LEMMA Reads ==
    ASSUME StreamOK, Read, UNCHANGED <<collabEntry, heldElsewhere>>
    PROVE  StreamOK'
  <1>1. wire \in Seq(Message) /\ wire # <<>> /\ wire' = Tail(wire)
    BY DEF StreamOK, Read
  <1>2. /\ wire' \in Seq(Message) /\ Len(wire) \in Nat /\ Len(wire') = Len(wire) - 1
        /\ \A i \in 2 .. Len(wire) : wire'[i - 1] = wire[i]
        /\ Head(wire) = wire[1]
    BY <1>1
  <1>3. ASSUME missed' PROVE \E i \in 1 .. Len(wire') : wire'[i] = Lagged
    <2>1. PICK i \in 1 .. Len(wire) : wire[i] = Lagged
      BY <1>3 DEF StreamOK, Read
    <2>2. i # 1
      BY <1>2, <1>3, <2>1 DEF Read
    <2>3. i - 1 \in 1 .. Len(wire') /\ wire'[i - 1] = Lagged
      BY <1>2, <2>1, <2>2
    <2> QED BY <2>3
  <1> QED BY <1>2, <1>3 DEF StreamOK, Read

LEMMA StreamSteps ==
    ASSUME CollabInv, [CollabNext]_liveVars
    PROVE  StreamOK'
  <1> USE DEF CollabInv
  <1>1. ASSUME NEW e \in Entries \union {NoEntry}, Bind(e) PROVE StreamOK'
    <2>1. collabEntry' = e /\ UNCHANGED <<wire, missed, heldElsewhere>>
      BY <1>1 DEF Bind
    <2>2. users' = Users(collabEntry', heldElsewhere')
      BY <1>1, <2>1 DEF Bind, Hold, StreamOK, Users
    <2>3. PICK before \in {0, 1}, after \in {0, 1} : before <= users /\ Hold(before, after)
      BY <1>1 DEF Bind, StreamOK, Users
    <2> QED BY <2>1, <2>2, <2>3, Holds DEF StreamOK
  <1>2. CASE HoldElsewhere
    <2>1. collabEntry' = collabEntry /\ heldElsewhere' = ~heldElsewhere /\ UNCHANGED <<wire,
                                                                                       missed>>
      BY <1>2 DEF HoldElsewhere, collabVars
    <2>2. users' = Users(collabEntry', heldElsewhere')
      <3>1. users' = users - (IF heldElsewhere THEN 1 ELSE 0) + (IF heldElsewhere THEN 0 ELSE 1)
        BY <1>2 DEF HoldElsewhere, Hold
      <3>2. CASE heldElsewhere = TRUE
        <4>1. heldElsewhere' = FALSE
          BY <2>1, <3>2
        <4> QED BY <2>1, <3>1, <3>2, <4>1 DEF StreamOK, Users
      <3>3. CASE heldElsewhere = FALSE
        <4>1. heldElsewhere' = TRUE
          BY <2>1, <3>3
        <4> QED BY <2>1, <3>1, <3>3, <4>1 DEF StreamOK, Users
      <3> QED BY <3>2, <3>3 DEF StreamOK
    <2>3. PICK before \in {0, 1}, after \in {0, 1} : before <= users /\ Hold(before, after)
      BY <1>2 DEF HoldElsewhere, StreamOK, Users
    <2> QED BY <2>1, <2>2, <2>3, Holds DEF StreamOK
  <1>3. CASE StreamOpens
    BY <1>3, Opens DEF StreamOpens
  <1>4. CASE ReadMessage
    BY <1>4, Reads DEF ReadMessage
  <1>5. CASE StreamRuns
    BY <1>5, Loops DEF StreamRuns, collabVars
  <1>6. ASSUME NEW sd \in sends, Done(sd) PROVE StreamOK'
    <2>1. sd.entry \in Entries /\ (IF sd.op = "comments" THEN "comments" ELSE "tasks") \in Kinds
      BY DEF AskedOK, Kinds
    <2> QED BY <1>6, <2>1, Announces DEF Done
  <1>7. ASSUME NEW e \in Entries, NEW k \in Kinds, OthersChange(e, k) PROVE StreamOK'
    BY <1>7, Announces DEF OthersChange
  <1>8. ASSUME UNCHANGED <<streamVars, collabEntry, heldElsewhere>> PROVE StreamOK'
    BY <1>8 DEF StreamOK, streamVars
  <1>9. ASSUME NEW ld \in loads, Loaded(ld) \/ LoadFails(ld) \/ \E k \in Kinds : Serve(ld, k)
        PROVE  StreamOK'
    BY <1>8, <1>9 DEF Loaded, LoadFails, Serve
  <1>10. ASSUME NEW sd \in sends, Answered(sd) \/ Refused(sd) PROVE StreamOK'
    BY <1>8, <1>10 DEF Answered, Refused
  <1>11. ASSUME TimerFires \/ \E op \in {"comments", "tasks", "task in place"} : Send(op)
         PROVE  StreamOK'
    BY <1>8, <1>11 DEF TimerFires, Send
  <1>12. CASE UNCHANGED liveVars
    BY <1>8, <1>12 DEF liveVars, collabVars
  <1> QED
    BY <1>1, <1>2, <1>3, <1>4, <1>5, <1>6, <1>7, <1>9, <1>10, <1>11, <1>12 DEF CollabNext, Requests

----------------------------------------------------------------------------
(* The loads. *)

\* What the pages's own record says of a load does not change by a new one.
LEMMA Refreshes ==
    ASSUME LoadsOK, NEW what, what \subseteq Kinds, Refresh(what), collabEntry' \in Entries \union {NoEntry},
           UNCHANGED truth, collabShown' \in [Kinds -> Nat \union {Unloaded}],
           \/ collabShown'["comments"] = Unloaded
           \/ collabEntry' = collabEntry /\ collabShown'["comments"] = collabShown["comments"],
           collabEntry' = NoEntry => collabShown' = None
    PROVE  LoadsOK'
  <1>1. CASE collabEntry' = NoEntry
    <2>1. collabShown'["comments"] = Unloaded /\ UNCHANGED <<refreshes, loads>>
      BY <1>1 DEF Refresh, None, Kinds
    <2>2. \A ld \in loads' : Bounded(ld, truth', collabShown'["comments"], collabEntry', refreshes')
      BY <2>1 DEF LoadsOK, Bounded
    <2> QED BY <2>1, <2>2 DEF LoadsOK
  <1>2. CASE collabEntry' # NoEntry
    <2> DEFINE new == Load(what)
    <2>1. /\ new \in LoadRecord /\ new.n = refreshes + 1 /\ new.due = new.what
          /\ refreshes' = refreshes + 1 /\ loads' = loads \union {new} /\ refreshes \in Nat
      BY <1>2 DEF Refresh, Load, LoadRecord, LoadsOK, None
    <2> HIDE DEF new
    <2>2. loads' \subseteq LoadRecord /\ \A ld \in loads' : ld.n \in 1 .. refreshes'
      BY <2>1 DEF LoadsOK
    <2>3. \A ld, other \in loads' : ld.n = other.n => ld = other
      BY <2>1 DEF LoadsOK
    <2>4. ASSUME NEW ld \in loads'
          PROVE  Bounded(ld, truth', collabShown'["comments"], collabEntry', refreshes')
      <3>1. CASE ld = new
        BY <2>1, <3>1 DEF Bounded
      <3>2. CASE ld \in loads
        <4>1. ld.n # refreshes'
          BY <2>1, <3>2 DEF LoadsOK
        <4> QED BY <3>2, <4>1 DEF LoadsOK, Bounded
      <3> QED BY <2>1, <3>1, <3>2
    <2>5. collabShown'["comments"] # Unloaded => collabShown'["comments"] <= truth'[collabEntry']["comments"]
      BY DEF LoadsOK
    <2> QED BY <1>2, <2>1, <2>2, <2>3, <2>4, <2>5 DEF LoadsOK
  <1> QED BY <1>1, <1>2

\* The server's comments only get newer.
LEMMA Grows ==
    ASSUME LoadsOK, NEW e \in Entries, NEW k \in Kinds, Changed(e, k),
           UNCHANGED <<collabEntry, collabShown, refreshes, loads>>
    PROVE  LoadsOK'
  <1>1. /\ truth' \in [Entries -> [Kinds -> Nat]]
        /\ \A f \in Entries : truth[f]["comments"] \in Nat /\ truth'[f]["comments"] \in Nat
                              /\ truth[f]["comments"] <= truth'[f]["comments"]
    BY DEF LoadsOK, Changed, Kinds
  <1>2. ASSUME NEW ld \in loads
        PROVE  Bounded(ld, truth', collabShown'["comments"], collabEntry', refreshes')
    <2>1. Bounded(ld, truth, collabShown["comments"], collabEntry, refreshes) /\ ld.entry \in Entries
      BY DEF LoadsOK, LoadRecord
    <2> QED BY <1>1, <2>1 DEF Bounded
  <1>3. collabShown["comments"] # Unloaded =>
            collabEntry \in Entries /\ collabShown["comments"] \in Nat
            /\ collabShown["comments"] <= truth[collabEntry]["comments"]
    BY DEF LoadsOK, None, Kinds
  <1> QED BY <1>1, <1>2, <1>3 DEF LoadsOK

\* An answered request brings what the server has at that moment, which is no older than
\* what is shown.
LEMMA Serves ==
    ASSUME LoadsOK, NEW ld \in loads, NEW k \in Kinds, Serve(ld, k)
    PROVE  LoadsOK'
  <1> DEFINE new == [ld EXCEPT !.due = @ \ {k}, !.got[k] = truth[ld.entry][k]]
  <1>1. /\ UNCHANGED <<truth, collabEntry, collabShown, refreshes>>
        /\ loads' = (loads \ {ld}) \union {new}
    BY DEF Serve
  <1>2. ld \in LoadRecord /\ truth[ld.entry][k] \in Nat /\ k \in ld.due
    BY DEF LoadsOK, LoadRecord, Serve
  <1>3. /\ new \in LoadRecord /\ new.n = ld.n /\ new.entry = ld.entry /\ new.what = ld.what
        /\ new.due = ld.due \ {k}
        /\ \A j \in Kinds : new.got[j] = IF j = k THEN truth[ld.entry][k] ELSE ld.got[j]
    BY <1>2 DEF LoadRecord
  <1> HIDE DEF new
  <1>4. Bounded(new, truth, collabShown["comments"], collabEntry, refreshes)
    <2>1. Bounded(ld, truth, collabShown["comments"], collabEntry, refreshes) /\ "comments" \in Kinds
      BY DEF LoadsOK, Kinds
    <2>2. CASE k = "comments"
      BY <1>2, <1>3, <2>1, <2>2 DEF Bounded, LoadsOK
    <2>3. CASE k # "comments"
      BY <1>3, <2>1, <2>3 DEF Bounded
    <2> QED BY <2>2, <2>3
  <1>5. loads' \subseteq LoadRecord /\ \A other \in loads' : other.n \in 1 .. refreshes
    BY <1>1, <1>3 DEF LoadsOK
  <1>6. \A a, b \in loads' : a.n = b.n => a = b
    BY <1>1, <1>3 DEF LoadsOK
  <1>7. \A other \in loads' : Bounded(other, truth, collabShown["comments"], collabEntry, refreshes)
    BY <1>1, <1>4 DEF LoadsOK
  <1> QED BY <1>1, <1>5, <1>6, <1>7 DEF LoadsOK

\* Only the latest load is shown.
LEMMA Shows ==
    ASSUME LoadsOK, NEW ld \in loads, Loaded(ld)
    PROVE  /\ LoadsOK'
           /\ \/ collabShown'["comments"] = collabShown["comments"]
              \/ /\ collabEntry \in Entries /\ collabShown'["comments"] \in Nat
                 /\ collabShown'["comments"] <= truth[collabEntry]["comments"]
                 /\ collabShown["comments"] # Unloaded => collabShown["comments"] <= collabShown'["comments"]
  <1>1. UNCHANGED <<truth, collabEntry, refreshes>> /\ loads' = loads \ {ld} /\ ld.due = {}
    BY DEF Loaded
  <1>2. CASE Outdated(ld)
    <2>1. collabShown' = collabShown
      BY <1>2 DEF Loaded
    <2> QED BY <1>1, <2>1 DEF LoadsOK
  <1>3. CASE ~Outdated(ld)
    <2>1. /\ ld.n = refreshes /\ ld.entry = collabEntry /\ ld \in LoadRecord
          /\ collabShown' = [k \in Kinds |-> IF k \in ld.what THEN ld.got[k] ELSE collabShown[k]]
      BY <1>3 DEF Loaded, Outdated, LoadsOK
    <2>2. collabShown' \in [Kinds -> Nat \union {Unloaded}] /\ collabEntry \in Entries
      BY <2>1 DEF LoadsOK, LoadRecord
    <2>3. "comments" \in Kinds /\ Bounded(ld, truth, collabShown["comments"], collabEntry, refreshes)
      BY DEF LoadsOK, Kinds
    <2>4. \/ collabShown'["comments"] = collabShown["comments"]
          \/ /\ collabShown'["comments"] \in Nat /\ collabShown'["comments"] <= truth[collabEntry]["comments"]
             /\ collabShown["comments"] # Unloaded => collabShown["comments"] <= collabShown'["comments"]
      BY <1>1, <2>1, <2>3 DEF Bounded
    <2>5. \A other \in loads' : other \in loads /\ other.n # refreshes
      BY <1>1, <2>1 DEF LoadsOK
    <2>6. \A other \in loads' : Bounded(other, truth, collabShown'["comments"], collabEntry, refreshes)
      BY <2>5 DEF LoadsOK, Bounded
    <2>7. collabEntry # NoEntry
      BY <2>2, CollabAssumption
    <2>8. collabShown'["comments"] # Unloaded => collabShown'["comments"] <= truth[collabEntry]["comments"]
      BY <2>4 DEF LoadsOK
    <2> QED BY <1>1, <2>2, <2>4, <2>5, <2>6, <2>7, <2>8 DEF LoadsOK
  <1> QED BY <1>2, <1>3

LEMMA LoadsSteps ==
    ASSUME CollabInv, [CollabNext]_liveVars
    PROVE  LoadsOK'
  <1> USE DEF CollabInv
  <1>1. ASSUME NEW e \in Entries \union {NoEntry}, Bind(e) PROVE LoadsOK'
    <2>1. None \in [Kinds -> Nat \union {Unloaded}] /\ None["comments"] = Unloaded
          /\ Kinds \in SUBSET Kinds
      BY DEF None, Kinds
    <2>2. collabEntry' = e /\ collabShown' = None /\ UNCHANGED truth /\ Refresh(Kinds)
      BY <1>1 DEF Bind
    <2> QED BY <2>1, <2>2, Refreshes
  <1>2. CASE TimerFires
    BY <1>2, Refreshes DEF TimerFires, LoadsOK, AskedOK
  <1>3. ASSUME NEW sd \in sends, Answered(sd) PROVE LoadsOK'
    <2>1. sd.op \in {"comments", "tasks", "task in place"} /\ sd.done \in Nat /\ sd.entry \in Entries
      BY <1>3 DEF AskedOK, Answered
    <2>2. CASE sd.op = "task in place"
      <3>1. /\ UNCHANGED <<truth, collabEntry, refreshes, loads>>
            /\ collabShown' = IF sd.entry = collabEntry /\ collabShown["tasks"] # Unloaded
                        THEN [collabShown EXCEPT !["tasks"] = sd.done] ELSE collabShown
        BY <1>3, <2>2 DEF Answered
      <3>2. /\ collabShown' \in [Kinds -> Nat \union {Unloaded}]
            /\ collabShown'["comments"] = collabShown["comments"]
            /\ collabEntry = NoEntry => collabShown' = collabShown
        BY <2>1, <3>1, CollabAssumption DEF LoadsOK, Kinds
      <3> QED BY <3>1, <3>2 DEF LoadsOK
    <2>3. CASE sd.op # "task in place"
      <3>1. {sd.op} \in SUBSET Kinds
        BY <2>1, <2>3 DEF Kinds
      <3> QED BY <1>3, <2>3, <3>1, Refreshes DEF Answered, LoadsOK
    <2> QED BY <2>2, <2>3
  <1>4. ASSUME NEW sd \in sends, Done(sd) PROVE LoadsOK'
    <2>1. sd.entry \in Entries /\ (IF sd.op = "comments" THEN "comments" ELSE "tasks") \in Kinds
      BY DEF AskedOK, Kinds
    <2> QED BY <1>4, <2>1, Grows DEF Done
  <1>5. ASSUME NEW e \in Entries, NEW k \in Kinds, OthersChange(e, k) PROVE LoadsOK'
    BY <1>5, Grows DEF OthersChange
  <1>6. ASSUME NEW ld \in loads, NEW k \in Kinds, Serve(ld, k) PROVE LoadsOK'
    BY <1>6, Serves
  <1>7. ASSUME NEW ld \in loads, Loaded(ld) PROVE LoadsOK'
    BY <1>7, Shows
  <1>8. ASSUME NEW ld \in loads, LoadFails(ld) PROVE LoadsOK'
    BY <1>8 DEF LoadFails, LoadsOK
  <1>9. ASSUME UNCHANGED <<truth, collabEntry, collabShown, refreshes, loads>> PROVE LoadsOK'
    BY <1>9 DEF LoadsOK
  <1>10. ASSUME NEW sd \in sends, Refused(sd) PROVE LoadsOK'
    BY <1>9, <1>10 DEF Refused
  <1>11. ASSUME \/ HoldElsewhere \/ StreamOpens \/ ReadMessage \/ StreamRuns \/ UNCHANGED liveVars
                \/ \E op \in {"comments", "tasks", "task in place"} : Send(op)
         PROVE  LoadsOK'
    BY <1>9, <1>11 DEF HoldElsewhere, StreamOpens, ReadMessage, StreamRuns, Send, liveVars,
       collabVars
  <1> QED
    BY <1>1, <1>2, <1>3, <1>4, <1>5, <1>6, <1>7, <1>8, <1>10, <1>11 DEF CollabNext, Requests

----------------------------------------------------------------------------
LEMMA AskedSteps ==
    ASSUME CollabInv, [CollabNext]_liveVars
    PROVE  AskedOK'
  <1> USE DEF CollabInv
  <1>1. ASSUME UNCHANGED <<collabPending, timer, failed, sends>> PROVE AskedOK'
    BY <1>1 DEF AskedOK
  <1>2. ASSUME NEW kinds \in SUBSET Kinds, Schedule(kinds), UNCHANGED <<failed, sends>>
        PROVE  AskedOK'
    BY <1>2 DEF AskedOK, Schedule
  <1>3. ASSUME NEW e \in Entries \union {NoEntry}, Bind(e) PROVE AskedOK'
    BY <1>3 DEF Bind, AskedOK
  <1>4. CASE TimerFires
    BY <1>4 DEF TimerFires, AskedOK
  <1>5. CASE StreamOpens
    <2>1. Kinds \in SUBSET Kinds
      OBVIOUS
    <2> QED BY <1>1, <1>2, <1>5, <2>1 DEF StreamOpens
  <1>6. CASE ReadMessage
    <2>1. wire \in Seq(Message) /\ wire # <<>> /\ UNCHANGED <<failed, sends>>
      BY <1>6 DEF ReadMessage, Read, StreamOK
    <2>2. Head(wire) \in Message
      BY <2>1
    <2>3. Head(wire) # Lagged => Head(wire)[2] \in Kinds
      BY <2>2 DEF Message
    <2>4. Kinds \in SUBSET Kinds
      OBVIOUS
    <2> QED BY <1>1, <1>2, <1>6, <2>1, <2>3, <2>4 DEF ReadMessage
  <1>7. ASSUME NEW op \in {"comments", "tasks", "task in place"}, Send(op) PROVE AskedOK'
    <2>1. collabEntry \in Entries
      BY <1>7 DEF Send, LoadsOK
    <2>2. [op |-> op, entry |-> collabEntry, done |-> Unloaded]
            \in [op : {"comments", "tasks", "task in place"}, entry : Entries,
                 done : Nat \union {Unloaded}]
      BY <2>1
    <2>3. sends' = sends \union {[op |-> op, entry |-> collabEntry, done |-> Unloaded]}
          /\ UNCHANGED <<collabPending, timer, failed>>
      BY <1>7 DEF Send
    <2> QED BY <2>2, <2>3, Zenon DEF AskedOK
  <1>8. ASSUME NEW sd \in sends, Done(sd) PROVE AskedOK'
    <2> DEFINE k == IF sd.op = "comments" THEN "comments" ELSE "tasks"
    <2>1. sd.entry \in Entries /\ k \in Kinds
      BY DEF AskedOK, Kinds
    <2>2. truth[sd.entry][k] + 1 \in Nat
      BY <2>1 DEF LoadsOK
    <2>3. [sd EXCEPT !.done = truth[sd.entry][k] + 1]
            \in [op : {"comments", "tasks", "task in place"}, entry : Entries,
                 done : Nat \union {Unloaded}]
      BY <2>2 DEF AskedOK
    <2>4. sends \subseteq [op : {"comments", "tasks", "task in place"}, entry : Entries,
                          done : Nat \union {Unloaded}]
          /\ collabPending \subseteq Kinds /\ timer \in BOOLEAN /\ failed \in BOOLEAN
      BY DEF AskedOK
    <2>5. sends' = (sends \ {sd}) \union {[sd EXCEPT !.done = truth[sd.entry][k] + 1]}
          /\ UNCHANGED <<collabPending, timer, failed>>
      BY <1>8 DEF Done
    <2> QED BY <2>3, <2>4, <2>5, Zenon DEF AskedOK
  <1>9. ASSUME NEW sd \in sends, Answered(sd) \/ Refused(sd) PROVE AskedOK'
    BY <1>9 DEF Answered, Refused, AskedOK
  <1>10. ASSUME NEW ld \in loads, Loaded(ld) \/ LoadFails(ld) PROVE AskedOK'
    <2>1. failed' \in BOOLEAN /\ UNCHANGED <<collabPending, timer, sends>>
      BY <1>10 DEF Loaded, LoadFails, AskedOK
    <2> QED BY <2>1 DEF AskedOK
  <1>11. ASSUME \/ HoldElsewhere \/ StreamRuns \/ UNCHANGED liveVars
                \/ \E ld \in loads, k \in Kinds : Serve(ld, k)
                \/ \E e \in Entries, k \in Kinds : OthersChange(e, k)
         PROVE  AskedOK'
    BY <1>1, <1>11 DEF HoldElsewhere, StreamRuns, Serve, OthersChange, liveVars, collabVars
  <1> QED
    BY <1>3, <1>4, <1>5, <1>6, <1>7, <1>8, <1>9, <1>10, <1>11 DEF CollabNext, Requests

LEMMA CollabStarts == CollabInit => CollabInv
  <1> SUFFICES ASSUME CollabInit PROVE CollabInv
    OBVIOUS
  <1>1. StreamOK
    <2>1. <<>> \in Seq(Message)
      OBVIOUS
    <2>2. Users(collabEntry, heldElsewhere) = 0
      BY DEF CollabInit, Users
    <2>3. /\ stream = [at |-> "idle", first |-> TRUE, aborted |-> FALSE]
          /\ users = 0 /\ wire = <<>> /\ missed = FALSE /\ heldElsewhere = FALSE
      BY DEF CollabInit, StreamInit
    <2>4. stream \in [at : {"idle", "connecting", "open", "waiting"}, first : BOOLEAN,
                     aborted : BOOLEAN]
      BY <2>3
    <2>5. stream.at = "idle" /\ stream.first = TRUE
      BY <2>3
    <2>6. heldElsewhere \in BOOLEAN /\ missed \in BOOLEAN /\ ~missed
      BY <2>3
    <2> QED BY <2>1, <2>2, <2>3, <2>4, <2>5, <2>6 DEF StreamOK
  <1>2. LoadsOK
    BY DEF CollabInit, LoadsOK, None, Kinds
  <1>3. AskedOK
    BY DEF CollabInit, AskedOK
  <1> QED BY <1>1, <1>2, <1>3 DEF CollabInv

LEMMA CollabInvariance == CollabSpec => []CollabInv
  <1>1. CollabInv /\ [CollabNext]_liveVars => CollabInv'
    BY StreamSteps, LoadsSteps, AskedSteps DEF CollabInv
  <1> QED BY <1>1, CollabStarts, PTL DEF CollabSpec

----------------------------------------------------------------------------
(* The theorems. *)

\* The stream, the loads and the comments shown are always of the shapes the code gives
\* them (entry-collab.ts, realtime.ts).
THEOREM CollabTypeCorrect == CollabSpec => []CollabTypeOK
  <1>1. CollabInv => CollabTypeOK
    <2> SUFFICES ASSUME CollabInv PROVE CollabTypeOK
      OBVIOUS
    <2>1. users \in 0 .. 2 /\ stream.at \in {"idle", "connecting", "open", "waiting"}
      BY DEF CollabInv, StreamOK, Users
    <2>2. \A ld \in loads : ld.n \in 1 .. refreshes /\ ld.entry \in Entries
      BY DEF CollabInv, LoadsOK, LoadRecord
    <2> QED BY <2>1, <2>2 DEF CollabInv, LoadsOK, AskedOK, CollabTypeOK
  <1> QED BY <1>1, CollabInvariance, PTL

\* A retained stream runs, and whoever listens is told of every gap (`retain`, `run` and
\* the resync of realtime.ts).
THEOREM StreamStaysUp == CollabSpec => []StreamKeepsUp
  <1>1. CollabInv => StreamKeepsUp
    BY DEF CollabInv, StreamOK, StreamKeepsUp
  <1> QED BY <1>1, CollabInvariance, PTL

\* However the loads, the answers and the switches between entries interleave, the
\* comments are of the entry on the screen and never get older: EntryCollab implements
\* LiveView (`refresh` of entry-collab.ts).
THEOREM CommentsStayLive == CollabSpec => CommentsAreLive
  <1> DEFINE truths == [e \in Entries |-> truth[e]["comments"]]
             about  == IF collabEntry = NoEntry THEN Unloaded ELSE collabEntry
  <1>1. CollabInit => View!Init
    BY DEF CollabInit, View!Init, None, Kinds
  <1>2. ASSUME CollabInv, [CollabNext]_liveVars PROVE [View!Next]_View!vars
    <2> USE <1>2 DEF CollabInv
    <2>1. ASSUME UNCHANGED <<collabEntry, collabShown, truth>> PROVE UNCHANGED View!vars
      BY <2>1 DEF View!vars
    <2>2. ASSUME NEW e \in Entries \union {NoEntry}, Bind(e) PROVE View!Next
      <3>1. collabEntry' = e /\ collabShown' = None /\ UNCHANGED truth
        BY <2>2 DEF Bind
      <3>2. about' \in Entries \union {Unloaded} /\ collabShown'["comments"] = Unloaded
        BY <3>1 DEF None, Kinds
      <3> QED BY <3>1, <3>2 DEF View!Next, View!Follow
    <2>3. ASSUME NEW e \in Entries, NEW k \in Kinds, Changed(e, k), UNCHANGED <<collabEntry,
                                                                                collabShown>>
          PROVE  [View!Next]_View!vars
      <3>1. truth' = [truth EXCEPT ![e][k] = @ + 1] /\ truth \in [Entries -> [Kinds -> Nat]]
        BY <2>3 DEF Changed, LoadsOK
      <3>2. CASE k = "comments"
        <4>1. truths' = [truths EXCEPT ![e] = @ + 1]
          BY <3>1, <3>2
        <4> QED BY <2>3, <4>1 DEF View!Next, View!Change
      <3>3. CASE k # "comments"
        <4>1. truths' = truths
          BY <3>1, <3>3
        <4> QED BY <2>3, <4>1 DEF View!vars
      <3> QED BY <3>2, <3>3
    <2>4. ASSUME NEW ld \in loads, Loaded(ld) PROVE [View!Next]_View!vars
      <3>1. UNCHANGED <<collabEntry, truth>>
        BY <2>4 DEF Loaded
      <3>2. CASE collabShown'["comments"] = collabShown["comments"]
        BY <3>1, <3>2 DEF View!vars
      <3>3. CASE /\ collabEntry \in Entries /\ collabShown'["comments"] \in Nat
                 /\ collabShown'["comments"] <= truth[collabEntry]["comments"]
                 /\ collabShown["comments"] # Unloaded => collabShown["comments"] <= collabShown'["comments"]
        <4>1. about = collabEntry /\ about # Unloaded /\ truths[about] = truth[collabEntry]["comments"]
          BY <3>3, CollabAssumption
        <4>2. View!Show(collabShown'["comments"])
          BY <3>1, <3>3, <4>1 DEF View!Show
        <4>3. collabShown'["comments"] \in 0 .. truths[about]
          BY <3>3, <4>1 DEF LoadsOK, Kinds
        <4> QED BY <4>1, <4>2, <4>3 DEF View!Next
      <3> QED BY <2>4, <3>2, <3>3, Shows
    <2>5. ASSUME NEW sd \in sends, Done(sd) PROVE [View!Next]_View!vars
      <3>1. sd.entry \in Entries /\ (IF sd.op = "comments" THEN "comments" ELSE "tasks") \in Kinds
        BY DEF AskedOK, Kinds
      <3> QED BY <2>3, <2>5, <3>1 DEF Done
    <2>6. ASSUME NEW sd \in sends, Answered(sd) PROVE UNCHANGED View!vars
      <3>1. UNCHANGED <<collabEntry, truth>> /\ collabShown'["comments"] = collabShown["comments"]
        BY <2>6 DEF Answered, LoadsOK, Kinds
      <3> QED BY <3>1 DEF View!vars
    <2>7. ASSUME NEW e \in Entries, NEW k \in Kinds, OthersChange(e, k)
          PROVE  [View!Next]_View!vars
      BY <2>3, <2>7 DEF OthersChange
    <2>8. ASSUME NEW ld \in loads, LoadFails(ld) \/ \E k \in Kinds : Serve(ld, k)
          PROVE  UNCHANGED View!vars
      BY <2>1, <2>8 DEF LoadFails, Serve
    <2>9. ASSUME NEW sd \in sends, Refused(sd) PROVE UNCHANGED View!vars
      BY <2>1, <2>9 DEF Refused
    <2>10. ASSUME \/ TimerFires \/ HoldElsewhere \/ StreamOpens \/ ReadMessage \/ StreamRuns
                  \/ UNCHANGED liveVars
                  \/ \E op \in {"comments", "tasks", "task in place"} : Send(op)
           PROVE  UNCHANGED View!vars
      BY <2>1, <2>10 DEF TimerFires, HoldElsewhere, StreamOpens, ReadMessage, StreamRuns, Send,
         liveVars, collabVars
    <2> QED
      BY <2>2, <2>4, <2>5, <2>6, <2>7, <2>8, <2>9, <2>10 DEF CollabNext, Requests
  <1> QED BY <1>1, <1>2, CollabInvariance, PTL DEF CollabSpec, CommentsAreLive, View!Spec
-----------------------------------------------------------------------------
(* The media library. *)

\* Files that are deleted, are not listed, and are in no answer that will be shown.
Dropped ==
    {f \in MediaFiles :
        /\ shelf[f] = "gone" /\ f \notin files.rows
        /\ \A ld \in mediaLoads : ld.read /\ ~Overtaken(ld) => f \notin ld.rows}

\* What is uploaded is not stored yet, and is uploaded once.
Uploading ==
    \A u \in uploads : shelf[u.file] = "new" /\ \A v \in uploads : v.file = u.file => v = u

\* What the server has deleted for the sheet, is gone.
DeletedAreGone ==
    \A c \in sheetCalls : c.op = "delete" => c.to = "gone" /\ (c.at = "done" => shelf[c.file] = "gone")

Kept    == files.rows = {} \/ picked \subseteq files.rows \union Dropped
Covered == warned = {} \/ picked \subseteq warned \union Dropped

LibraryInv == MediaTypeOK /\ Uploading /\ DeletedAreGone /\ Kept /\ Covered

-----------------------------------------------------------------------------
(* Types. *)

LEMMA PageIs ==
    ASSUME MediaTypeOK, NEW p \in Place
    PROVE  /\ PageOf(p) \in SUBSET MediaFiles /\ PageCount(p) \in Nat
           /\ \A f \in PageOf(p) : shelf[f] # "gone"
<1>1. p.folder \in MediaFolders /\ p.folder # "gone"
    BY MediaAssumption DEF Place
<1>2. FilesIn(p.folder) \subseteq MediaFiles /\ \A f \in FilesIn(p.folder) : shelf[f] # "gone"
    BY <1>1 DEF FilesIn
<1>3. PageOf(p) \subseteq FilesIn(p.folder)
    BY DEF PageOf
<1>4. Cardinality(FilesIn(p.folder)) \in Nat
    BY <1>2, MediaAssumption, FS_Subset, FS_CardinalityType
<1>5. PageCount(p) \in Nat
    BY <1>4, MediaAssumption DEF PageCount
<1> QED BY <1>2, <1>3, <1>5

\* No answer to a load that was just started has come.
LEMMA MediaLoadIs ==
    ASSUME MediaTypeOK, NEW p \in Place, LoadListing(p)
    PROVE  /\ place' \in Place /\ mediaState' \in {"loading", "ready", "error"} /\ mediaRequests' \in Nat
           /\ mediaLoads' \subseteq [n: Nat, of: Place, read: BOOLEAN, rows: SUBSET MediaFiles, pages: Nat]
           /\ \A ld \in mediaLoads' : ld.n <= mediaRequests' /\ ~(ld.read /\ ~Overtaken(ld)')
<1> DEFINE new == Loading(p, mediaRequests + 1)
<1>1. /\ place' = p /\ mediaState' = "loading" /\ mediaRequests' = mediaRequests + 1
      /\ mediaLoads' = mediaLoads \union {new} /\ mediaRequests \in Nat
    BY DEF LoadListing, MediaTypeOK
<1>2. /\ new \in [n: Nat, of: Place, read: BOOLEAN, rows: SUBSET MediaFiles, pages: Nat]
      /\ new.n = mediaRequests' /\ new.read = FALSE
    BY <1>1 DEF Loading
<1>3. \A ld \in mediaLoads : ld.n \in Nat /\ ld.n <= mediaRequests
    BY DEF MediaTypeOK
<1>4. \A ld \in mediaLoads : ld.n <= mediaRequests' /\ ld.n # mediaRequests'
    BY <1>1, <1>3
<1> HIDE DEF new
<1>5. \A ld \in mediaLoads' : ld.n <= mediaRequests' /\ ~(ld.read /\ ~Overtaken(ld)')
    BY <1>1, <1>2, <1>4 DEF Overtaken
<1> QED BY <1>1, <1>2, <1>5 DEF MediaTypeOK

\* Only what is stored is moved or deleted, and only what is new is uploaded.
Shelved ==
    /\ shelf' \in [MediaFiles -> Where]
    /\ \A f \in MediaFiles : shelf[f] = "gone" => shelf'[f] = "gone"

LEMMA DroppedStay ==
    ASSUME MediaTypeOK, Shelved, files'.rows \intersect Dropped = {},
           \A ld \in mediaLoads' : ld.read /\ ~Overtaken(ld)' => ld.rows \intersect Dropped = {}
    PROVE  Dropped \subseteq Dropped'
BY DEF Dropped, Shelved

LEMMA QuietListing ==
    ASSUME LibraryInv, Shelved, UNCHANGED mediaListing
    PROVE  Dropped \subseteq Dropped'
<1>1. UNCHANGED <<files, mediaRequests, mediaLoads>>
    BY DEF mediaListing
<1>2. files.rows \intersect Dropped = {}
    BY DEF Dropped
<1>3. \A ld \in mediaLoads' : ld.read /\ ~Overtaken(ld)' => ld.rows \intersect Dropped = {}
    BY <1>1 DEF Dropped, Overtaken
<1> QED BY <1>1, <1>2, <1>3, DroppedStay DEF LibraryInv

LEMMA NewListing ==
    ASSUME LibraryInv, Shelved, NEW p \in Place, LoadListing(p), files'.rows \subseteq files.rows
    PROVE  Dropped \subseteq Dropped'
<1>1. \A ld \in mediaLoads' : ~(ld.read /\ ~Overtaken(ld)')
    BY MediaLoadIs DEF LibraryInv
<1>2. files'.rows \intersect Dropped = {}
    BY DEF Dropped
<1> QED BY <1>1, <1>2, DroppedStay DEF LibraryInv

\* What every step keeps, whatever it is about.
Steady == MediaTypeOK' /\ Shelved /\ Uploading' /\ Dropped \subseteq Dropped'

-----------------------------------------------------------------------------
(* The listing. *)

LEMMA OpenFolderKeeps ==
    ASSUME LibraryInv, NEW folder \in MediaFolders, OpenFolder(folder)
    PROVE  Steady
<1> DEFINE p == [folder |-> folder, page |-> 1]
<1>1. MediaTypeOK /\ Uploading /\ p \in Place
    BY DEF LibraryInv, Place
<1>2. /\ LoadListing(p) /\ mediaHappened' = mediaHappened + 1 /\ picked' = {}
      /\ UNCHANGED <<shelf, files, warned, moving, sheet, batches, uploads, sheetCalls, unsure>>
    BY DEF OpenFolder, MediaHappens, dialogs, mediaCalls
<1> HIDE DEF p
<1>3. Shelved
    BY <1>1, <1>2 DEF MediaTypeOK, Shelved
<1>4. MediaTypeOK'
    BY <1>1, <1>2, MediaLoadIs DEF MediaTypeOK
<1>5. Dropped \subseteq Dropped'
    BY <1>1, <1>2, <1>3, NewListing
<1> QED BY <1>1, <1>2, <1>3, <1>4, <1>5 DEF Steady, Uploading

LEMMA TurnPageKeeps ==
    ASSUME LibraryInv, NEW n \in Nat \ {0}, TurnPage(n)
    PROVE  Steady
<1> DEFINE p == [place EXCEPT !.page = n]
<1>1. MediaTypeOK /\ Uploading /\ p \in Place
    BY DEF LibraryInv, MediaTypeOK, Place
<1>2. /\ LoadListing(p) /\ mediaHappened' = mediaHappened + 1
      /\ UNCHANGED <<shelf, files, picked, warned, moving, sheet, batches, uploads, sheetCalls,
                     unsure>>
    BY DEF TurnPage, MediaHappens, dialogs, mediaCalls
<1> HIDE DEF p
<1>3. Shelved
    BY <1>1, <1>2 DEF MediaTypeOK, Shelved
<1>4. MediaTypeOK'
    BY <1>1, <1>2, MediaLoadIs DEF MediaTypeOK
<1>5. Dropped \subseteq Dropped'
    BY <1>1, <1>2, <1>3, NewListing
<1> QED BY <1>1, <1>2, <1>3, <1>4, <1>5 DEF Steady, Uploading

\* An answer is of the files there are: none that is deleted by then.
LEMMA ServerReadsKeeps ==
    ASSUME LibraryInv, NEW ld \in mediaLoads, ServerReads(ld)
    PROVE  Steady
<1> DEFINE answer == [ld EXCEPT !.read = TRUE, !.rows = PageOf(ld.of), !.pages = PageCount(ld.of)]
           Loads == [n: Nat, of: Place, read: BOOLEAN, rows: SUBSET MediaFiles, pages: Nat]
<1>1. MediaTypeOK /\ Uploading /\ ld \in Loads /\ ld.n <= mediaRequests
    BY DEF LibraryInv, MediaTypeOK
<1>2. /\ mediaLoads' = (mediaLoads \ {ld}) \union {answer}
      /\ UNCHANGED <<shelf, place, files, mediaState, mediaRequests, picked, warned, moving, sheet>>
      /\ UNCHANGED <<batches, uploads, sheetCalls, unsure, mediaHappened>>
    BY DEF ServerReads, dialogs, mediaCalls
<1>3. /\ PageOf(ld.of) \in SUBSET MediaFiles /\ PageCount(ld.of) \in Nat
      /\ \A f \in PageOf(ld.of) : shelf[f] # "gone"
    BY <1>1, PageIs
<1>4. answer \in Loads /\ answer.n = ld.n /\ answer.rows = PageOf(ld.of)
    BY <1>1, <1>3
<1> HIDE DEF answer, Loads
<1>5. mediaLoads' \subseteq Loads /\ \A l \in mediaLoads' : l.n <= mediaRequests
    BY <1>1, <1>2, <1>4 DEF MediaTypeOK, Loads
<1>6. MediaTypeOK'
    BY <1>1, <1>2, <1>5 DEF MediaTypeOK, Loads
<1>7. Shelved
    BY <1>1, <1>2 DEF MediaTypeOK, Shelved
<1>8. \A l \in mediaLoads' : l.read /\ ~Overtaken(l)' => l.rows \intersect Dropped = {}
    BY <1>2, <1>3, <1>4 DEF Dropped, Overtaken
<1>9. files'.rows \intersect Dropped = {}
    BY <1>2 DEF Dropped
<1>10. Dropped \subseteq Dropped'
    BY <1>1, <1>7, <1>8, <1>9, DroppedStay
<1> QED BY <1>1, <1>2, <1>6, <1>7, <1>10 DEF Steady, Uploading

LEMMA ArrivesKeeps ==
    ASSUME LibraryInv, NEW ld \in mediaLoads, Arrives(ld)
    PROVE  Steady
<1>1. MediaTypeOK /\ Uploading /\ ld \in [n: Nat, of: Place, read: BOOLEAN, rows: SUBSET MediaFiles, pages: Nat]
    BY DEF LibraryInv, MediaTypeOK
<1>2. /\ ld.read /\ mediaLoads' = mediaLoads \ {ld}
      /\ UNCHANGED <<shelf, place, mediaRequests, warned, moving, sheet, batches, uploads>>
      /\ UNCHANGED <<sheetCalls, unsure, mediaHappened>>
      /\ \/ UNCHANGED <<files, mediaState, picked>>
         \/ /\ ~Overtaken(ld) /\ files' = [of |-> ld.of, rows |-> ld.rows, pages |-> ld.pages]
            /\ mediaState' = "ready" /\ picked' = picked \intersect ld.rows
    BY DEF Arrives, StillPicked, dialogs, mediaCalls
<1>3. /\ files' \in [of: Place, rows: SUBSET MediaFiles, pages: Nat]
      /\ mediaState' \in {"loading", "ready", "error"} /\ picked' \in SUBSET MediaFiles
      /\ files'.rows = files.rows \/ (~Overtaken(ld) /\ files'.rows = ld.rows)
    BY <1>1, <1>2 DEF MediaTypeOK
<1>4. MediaTypeOK'
    BY <1>1, <1>2, <1>3 DEF MediaTypeOK
<1>5. Shelved
    BY <1>1, <1>2 DEF MediaTypeOK, Shelved
<1>6. \A l \in mediaLoads : l.read /\ ~Overtaken(l) => l.rows \intersect Dropped = {}
    BY DEF Dropped
<1>7. files'.rows \intersect Dropped = {}
    BY <1>2, <1>3, <1>6 DEF Dropped
<1>8. Dropped \subseteq Dropped'
    BY <1>1, <1>2, <1>5, <1>6, <1>7, DroppedStay DEF Overtaken
<1> QED BY <1>1, <1>2, <1>4, <1>5, <1>8 DEF Steady, Uploading

LEMMA LoadFailsKeeps ==
    ASSUME LibraryInv, NEW ld \in mediaLoads, ListingFails(ld)
    PROVE  Steady /\ (files'.rows = {} \/ files'.rows = files.rows)
<1>1. MediaTypeOK /\ Uploading
    BY DEF LibraryInv
<1>2. /\ mediaLoads' = mediaLoads \ {ld}
      /\ UNCHANGED <<shelf, place, mediaRequests, picked, warned, moving, sheet, batches, uploads>>
      /\ UNCHANGED <<sheetCalls, unsure, mediaHappened>>
      /\ \/ UNCHANGED <<files, mediaState>>
         \/ files' = [files EXCEPT !.rows = {}] /\ mediaState' = "error"
    BY DEF ListingFails, dialogs, mediaCalls
<1>3. /\ files' \in [of: Place, rows: SUBSET MediaFiles, pages: Nat]
      /\ mediaState' \in {"loading", "ready", "error"}
      /\ files'.rows = {} \/ files'.rows = files.rows
    <2>1. files \in [of: Place, rows: SUBSET MediaFiles, pages: Nat]
        BY <1>1 DEF MediaTypeOK
    <2> QED BY <1>1, <1>2, <2>1 DEF MediaTypeOK
<1>4. MediaTypeOK'
    BY <1>1, <1>2, <1>3 DEF MediaTypeOK
<1>5. Shelved
    BY <1>1, <1>2 DEF MediaTypeOK, Shelved
<1>6. files'.rows \intersect Dropped = {}
    BY <1>3 DEF Dropped
<1>7. \A l \in mediaLoads : l.read /\ ~Overtaken(l) => l.rows \intersect Dropped = {}
    BY DEF Dropped
<1>8. Dropped \subseteq Dropped'
    BY <1>1, <1>2, <1>5, <1>6, <1>7, DroppedStay DEF Overtaken
<1> QED BY <1>1, <1>2, <1>3, <1>4, <1>5, <1>8 DEF Steady, Uploading

-----------------------------------------------------------------------------
(* The selection, what is done with it, the sheet and uploads. *)

LEMMA DialogStepsKeep ==
    ASSUME LibraryInv, UNCHANGED <<shelf, mediaListing, uploads>>, MediaTypeOK'
    PROVE  Steady
<1>1. Shelved
    BY DEF LibraryInv, MediaTypeOK, Shelved
<1> QED BY <1>1, QuietListing DEF LibraryInv, Steady, Uploading

LEMMA ToggleKeeps ==
    ASSUME LibraryInv, NEW f \in MediaFiles, Toggle(f)
    PROVE  Steady
<1>1. /\ UNCHANGED <<shelf, mediaListing, warned, moving, sheet, batches, uploads, sheetCalls,
                     unsure, mediaHappened>>
      /\ picked' = picked \ {f} \/ picked' = picked \union {f}
    BY DEF Toggle, dialogs, mediaCalls
<1>2. MediaTypeOK'
    BY <1>1 DEF LibraryInv, MediaTypeOK, mediaListing
<1> QED BY <1>1, <1>2, DialogStepsKeep

LEMMA SelectAllKeeps ==
    ASSUME LibraryInv, SelectAll
    PROVE  Steady
<1>1. /\ UNCHANGED <<shelf, mediaListing, warned, moving, sheet, batches, uploads, sheetCalls,
                     unsure, mediaHappened>>
      /\ picked' = {} \/ picked' = files.rows
    BY DEF SelectAll, dialogs, mediaCalls
<1>2. MediaTypeOK'
    BY <1>1 DEF LibraryInv, MediaTypeOK, mediaListing
<1> QED BY <1>1, <1>2, DialogStepsKeep

LEMMA DialogsKeep ==
    ASSUME LibraryInv, RequestBulkDelete \/ OpenMoveFiles \/ CloseDialog
    PROVE  Steady
<1>1. /\ UNCHANGED <<shelf, mediaListing, picked, batches, uploads, sheetCalls, unsure,
                     mediaHappened>>
      /\ warned' \in {warned, Selected, {}} /\ moving' \in {moving, Selected, {}}
      /\ sheet' \in {sheet, NoSheet}
    BY DEF RequestBulkDelete, OpenMoveFiles, CloseDialog, mediaCalls
<1>2. Selected \in SUBSET MediaFiles
    BY DEF LibraryInv, MediaTypeOK, Selected
<1>3. MediaTypeOK'
    BY <1>1, <1>2 DEF LibraryInv, MediaTypeOK, mediaListing
<1> QED BY <1>1, <1>3, DialogStepsKeep

LEMMA OpenSheetKeeps ==
    ASSUME LibraryInv, NEW f \in MediaFiles, OpenSheet(f)
    PROVE  Steady
<1>1. /\ UNCHANGED <<shelf, mediaListing, picked, warned, moving, batches, uploads, sheetCalls,
                     unsure, mediaHappened>>
      /\ sheet' = f
    BY DEF OpenSheet, mediaCalls
<1>2. MediaTypeOK'
    BY <1>1 DEF LibraryInv, MediaTypeOK, mediaListing
<1> QED BY <1>1, <1>2, DialogStepsKeep

LEMMA BatchStartsKeeps ==
    ASSUME LibraryInv, DeleteSelected \/ \E to \in MediaFolders : MoveFiles(to)
    PROVE  Steady
<1>1. /\ UNCHANGED <<shelf, mediaListing, picked, moving, sheet, uploads, sheetCalls, unsure>>
      /\ warned' \in {warned, {}} /\ mediaHappened' \in {mediaHappened, mediaHappened + 1}
      /\ \/ batches' = batches
         \/ batches' = batches \union {Batch("delete", Selected, "gone")}
         \/ \E to \in MediaFolders : batches' = batches \union {Batch("move", moving, to)}
    BY DEF DeleteSelected, MoveFiles, MediaHappens, dialogs
<1>2. Selected \in SUBSET MediaFiles /\ moving \in SUBSET MediaFiles /\ mediaHappened \in Nat
    BY DEF LibraryInv, MediaTypeOK, Selected
<1>3. batches' \subseteq [n: Nat, op: {"delete", "move"}, left: SUBSET MediaFiles, to: Where]
    <2>1. batches \subseteq [n: Nat, op: {"delete", "move"}, left: SUBSET MediaFiles, to: Where]
        BY DEF LibraryInv, MediaTypeOK
    <2>2. Batch("delete", Selected, "gone") \in [n: Nat, op: {"delete", "move"}, left: SUBSET MediaFiles, to: Where]
        BY <1>2 DEF Batch, Where
    <2>3. \A to \in MediaFolders :
              Batch("move", moving, to) \in [n: Nat, op: {"delete", "move"}, left: SUBSET MediaFiles, to: Where]
        BY <1>2 DEF Batch, Where
    <2> QED BY <1>1, <2>1, <2>2, <2>3
<1>4. MediaTypeOK'
    BY <1>1, <1>2, <1>3 DEF LibraryInv, MediaTypeOK, mediaListing
<1> QED BY <1>1, <1>4, DialogStepsKeep

LEMMA BatchSettlesKeeps ==
    ASSUME LibraryInv, NEW b \in batches, NEW f \in b.left, BatchSettles(b, f)
    PROVE  Steady
<1> DEFINE less == [b EXCEPT !.left = @ \ {f}]
           Batches == [n: Nat, op: {"delete", "move"}, left: SUBSET MediaFiles, to: Where]
<1>1. MediaTypeOK /\ Uploading /\ b \in Batches /\ batches \subseteq Batches
    BY DEF LibraryInv, MediaTypeOK
<1>2. /\ batches' = (batches \ {b}) \union {less}
      /\ UNCHANGED <<mediaListing, picked, warned, moving, sheet, uploads, sheetCalls, unsure,
                     mediaHappened>>
      /\ (Stored(f) /\ shelf' = [shelf EXCEPT ![f] = b.to]) \/ UNCHANGED shelf
    BY DEF BatchSettles, dialogs
<1>3. less \in Batches
    BY <1>1
<1> HIDE DEF less
<1>4. batches' \subseteq Batches
    BY <1>1, <1>2, <1>3
<1>5. Shelved /\ \A u \in uploads : shelf'[u.file] = "new"
    <2>1. b.to \in Where /\ f \in MediaFiles /\ shelf \in [MediaFiles -> Where]
        BY <1>1 DEF MediaTypeOK
    <2>2. Stored(f) => shelf[f] # "gone" /\ shelf[f] # "new"
        BY MediaAssumption DEF Stored
    <2>3. Shelved
        BY <1>2, <2>1, <2>2 DEF Shelved
    <2>4. ASSUME NEW u \in uploads PROVE shelf'[u.file] = "new"
        <3>1. shelf[u.file] = "new" /\ u.file \in MediaFiles
            BY <1>1 DEF Uploading, MediaTypeOK
        <3> QED BY <1>2, <2>1, <2>2, <3>1
    <2> QED BY <2>3, <2>4
<1>6. MediaTypeOK'
    BY <1>1, <1>2, <1>4, <1>5 DEF MediaTypeOK, mediaListing, Shelved
<1> QED BY <1>1, <1>2, <1>5, <1>6, QuietListing DEF Steady, Uploading

LEMMA BatchEndsKeeps ==
    ASSUME LibraryInv, NEW b \in batches, BatchEnds(b)
    PROVE  Steady
<1>1. MediaTypeOK /\ Uploading /\ place \in Place
    BY DEF LibraryInv, MediaTypeOK
<1>2. /\ batches' = batches \ {b} /\ picked' = {} /\ LoadListing(place) /\ moving' \in {moving, {}}
      /\ UNCHANGED <<shelf, files, warned, sheet, uploads, sheetCalls, unsure, mediaHappened>>
    BY DEF BatchEnds, Reload
<1>3. Shelved
    BY <1>1, <1>2 DEF MediaTypeOK, Shelved
<1>4. MediaTypeOK'
    BY <1>1, <1>2, MediaLoadIs DEF MediaTypeOK
<1>5. Dropped \subseteq Dropped'
    BY <1>1, <1>2, <1>3, NewListing
<1> QED BY <1>1, <1>2, <1>3, <1>4, <1>5 DEF Steady, Uploading

SheetRequests ==
    [op: {"save", "replace", "delete"}, file: MediaFiles, to: Where, at: {"sent", "done"},
     changed: BOOLEAN]

LEMMA SheetSendsKeeps ==
    ASSUME LibraryInv, NEW op \in {"save", "replace", "delete"}, NEW to \in Where, SheetSends(op, to)
    PROVE  Steady
<1> DEFINE c == [op |-> op, file |-> sheet, to |-> to, at |-> "sent", changed |-> FALSE]
<1>1. /\ UNCHANGED <<shelf, mediaListing, picked, warned, moving, sheet, batches, uploads, unsure>>
      /\ mediaHappened' = mediaHappened + 1 /\ sheet # NoSheet
      /\ sheetCalls' = sheetCalls \union {c}
    BY DEF SheetSends, MediaHappens, dialogs
<1>2. sheet \in MediaFiles
    BY <1>1 DEF LibraryInv, MediaTypeOK
<1>3. c \in SheetRequests
    BY <1>2 DEF SheetRequests
<1> HIDE DEF c
<1>4. sheetCalls' \subseteq SheetRequests
    BY <1>1, <1>3 DEF LibraryInv, MediaTypeOK, SheetRequests
<1>5. MediaTypeOK'
    BY <1>1, <1>4 DEF LibraryInv, MediaTypeOK, mediaListing, SheetRequests
<1> QED BY <1>1, <1>5, DialogStepsKeep

\* What the server does with a request of the sheet.
LEMMA ServedCallIs ==
    ASSUME LibraryInv, NEW c \in sheetCalls, SheetServed(c)
    PROVE  /\ UNCHANGED <<mediaListing, picked, warned, moving, sheet, batches, uploads, unsure,
                          mediaHappened>>
           /\ c.file \in MediaFiles /\ Stored(c.file)
           /\ \E to \in Where, d \in SheetRequests :
                /\ shelf' = [shelf EXCEPT ![c.file] = to] /\ sheetCalls' = (sheetCalls \ {c}) \union {d}
                /\ d.op = c.op /\ d.file = c.file /\ d.to = to /\ d.at = "done"
                /\ d.changed = (shelf[c.file] # to)
                /\ c.op = "delete" => to = c.to
<1> DEFINE to == IF c.op = "replace" THEN shelf[c.file] ELSE c.to
<1>1. c \in SheetRequests /\ c.file \in MediaFiles /\ to \in Where
    BY DEF LibraryInv, MediaTypeOK, SheetRequests
<1>2. c.op = "delete" => to = c.to
    OBVIOUS
<1>3. /\ shelf' = [shelf EXCEPT ![c.file] = to] /\ Stored(c.file)
      /\ sheetCalls' = (sheetCalls \ {c}) \union
              {[c EXCEPT !.at = "done", !.to = to, !.changed = shelf[c.file] # to]}
      /\ UNCHANGED <<mediaListing, picked, warned, moving, sheet, batches, uploads, unsure,
                     mediaHappened>>
    BY DEF SheetServed, dialogs
<1> HIDE DEF to
<1>4. PICK d : d = [c EXCEPT !.at = "done", !.to = to, !.changed = shelf[c.file] # to]
    OBVIOUS
<1>5. /\ d \in SheetRequests /\ d.op = c.op /\ d.file = c.file /\ d.to = to /\ d.at = "done"
      /\ d.changed = (shelf[c.file] # to)
    BY <1>1, <1>4 DEF SheetRequests
<1> QED BY <1>1, <1>2, <1>3, <1>4, <1>5

LEMMA SheetServedKeeps ==
    ASSUME LibraryInv, NEW c \in sheetCalls, SheetServed(c)
    PROVE  Steady
<1>1. /\ UNCHANGED <<mediaListing, picked, warned, moving, sheet, batches, uploads, unsure,
                     mediaHappened>>
      /\ c.file \in MediaFiles /\ Stored(c.file)
    BY ServedCallIs
<1>2. PICK to \in Where, d \in SheetRequests :
         shelf' = [shelf EXCEPT ![c.file] = to] /\ sheetCalls' = (sheetCalls \ {c}) \union {d}
    BY ServedCallIs
<1>3. MediaTypeOK /\ Uploading /\ shelf \in [MediaFiles -> Where] /\ sheetCalls \subseteq SheetRequests
    BY DEF LibraryInv, MediaTypeOK, SheetRequests
<1>4. shelf[c.file] # "gone" /\ \A u \in uploads : u.file # c.file
    BY <1>1, <1>3, MediaAssumption DEF Stored, Uploading
<1>5. Shelved /\ \A u \in uploads : shelf'[u.file] = shelf[u.file]
    BY <1>1, <1>2, <1>3, <1>4 DEF Shelved, MediaTypeOK
<1>6. sheetCalls' \subseteq SheetRequests
    BY <1>2, <1>3
<1>7. MediaTypeOK'
    BY <1>1, <1>3, <1>5, <1>6 DEF MediaTypeOK, Shelved, mediaListing, SheetRequests
<1> QED BY <1>1, <1>3, <1>5, <1>7, QuietListing DEF Steady, Uploading

LEMMA SheetSettlesKeeps ==
    ASSUME LibraryInv, NEW c \in sheetCalls, SheetSettles(c)
    PROVE  /\ Steady /\ picked' = picked /\ warned' = warned
           /\ \/ files'.rows = files.rows
              \/ \E f \in MediaFiles : files'.rows = files.rows \ {f} /\ f \in Dropped'
<1>1. /\ MediaTypeOK /\ Uploading /\ place \in Place
      /\ c.file \in MediaFiles /\ c.changed \in BOOLEAN
      /\ files \in [of: Place, rows: SUBSET MediaFiles, pages: Nat]
    BY DEF LibraryInv, MediaTypeOK
<1>2. /\ sheetCalls' = sheetCalls \ {c}
      /\ UNCHANGED <<shelf, picked, warned, moving, batches, uploads, mediaHappened>>
    BY DEF SheetSettles
<1>3. Shelved
    BY <1>1, <1>2 DEF MediaTypeOK, Shelved
<1>4. ASSUME UNCHANGED mediaListing, unsure' = (unsure \/ c.changed), sheet' \in {sheet, c.file}
      PROVE  Steady /\ files'.rows = files.rows
    <2>1. unsure' \in BOOLEAN
        BY <1>1, <1>4 DEF MediaTypeOK
    <2>2. MediaTypeOK'
        BY <1>1, <1>2, <1>4, <2>1 DEF MediaTypeOK, mediaListing
    <2> QED BY <1>1, <1>2, <1>3, <1>4, <2>2, QuietListing DEF Steady, Uploading, mediaListing
<1>5. CASE SheetSaved(c)
    <2>1. /\ sheet' = c.file
          /\ \/ LoadListing(place) /\ UNCHANGED <<files, unsure>>
             \/ unsure' = (unsure \/ c.changed) /\ UNCHANGED mediaListing
        BY <1>5 DEF SheetSaved, Reload
    <2>2. CASE LoadListing(place) /\ UNCHANGED <<files, unsure>>
        <3>1. MediaTypeOK'
            BY <1>1, <1>2, <2>1, <2>2, MediaLoadIs DEF MediaTypeOK
        <3>2. Dropped \subseteq Dropped'
            BY <1>1, <1>3, <2>2, NewListing
        <3> QED BY <1>1, <1>2, <1>3, <2>2, <3>1, <3>2 DEF Steady, Uploading
    <2> QED BY <1>2, <1>4, <2>1, <2>2
<1>6. CASE SheetDeleted(c)
    <2>1. /\ sheet' = NoSheet /\ shelf[c.file] = "gone"
          /\ files' = [files EXCEPT !.rows = @ \ {c.file}] /\ LoadListing(place) /\ UNCHANGED unsure
        BY <1>6 DEF SheetDeleted, Reload, LibraryInv, DeletedAreGone
    <2>3. /\ files' \in [of: Place, rows: SUBSET MediaFiles, pages: Nat]
          /\ files'.rows = files.rows \ {c.file}
        BY <1>1, <2>1
    <2>4. MediaTypeOK'
        BY <1>1, <1>2, <2>1, <2>3, MediaLoadIs DEF MediaTypeOK
    <2>5. Dropped \subseteq Dropped'
        BY <1>1, <1>3, <2>1, <2>3, NewListing
    <2>6. c.file \in Dropped'
        BY <1>1, <1>2, <2>1, <2>3, MediaLoadIs DEF Dropped
    <2> QED BY <1>1, <1>2, <1>3, <2>3, <2>4, <2>5, <2>6 DEF Steady, Uploading
<1>7. CASE SheetFails(c)
    <2>1. UNCHANGED mediaListing /\ unsure' = (unsure \/ c.changed) /\ sheet' = sheet
        BY <1>7 DEF SheetFails
    <2> QED BY <1>2, <1>4, <2>1
<1> QED BY <1>5, <1>6, <1>7 DEF SheetSettles

LEMMA UploadKeeps ==
    ASSUME LibraryInv, NEW f \in MediaFiles, Upload(f)
    PROVE  Steady
<1> DEFINE u == [file |-> f, to |-> place.folder]
<1>1. /\ UNCHANGED <<shelf, mediaListing, picked, warned, moving, sheet, batches, sheetCalls,
                     unsure>>
      /\ mediaHappened' = mediaHappened + 1 /\ shelf[f] = "new" /\ \A v \in uploads : v.file # f
      /\ uploads' = uploads \union {u}
    BY DEF Upload, MediaHappens, dialogs
<1>2. MediaTypeOK /\ Uploading /\ u \in [file: MediaFiles, to: MediaFolders]
    BY DEF LibraryInv, MediaTypeOK, Place
<1>3. MediaTypeOK'
    BY <1>1, <1>2 DEF MediaTypeOK, mediaListing
<1>4. Uploading'
    BY <1>1, <1>2 DEF Uploading
<1>5. Shelved
    BY <1>1, <1>2 DEF MediaTypeOK, Shelved
<1> QED BY <1>1, <1>3, <1>4, <1>5, QuietListing DEF Steady

LEMMA UploadEndsKeeps ==
    ASSUME LibraryInv, NEW u \in uploads, UploadEnds(u)
    PROVE  Steady
<1>1. /\ MediaTypeOK /\ Uploading /\ place \in Place
      /\ u.file \in MediaFiles /\ u.to \in MediaFolders /\ u.to \in Where
      /\ shelf \in [MediaFiles -> Where] /\ shelf[u.file] = "new"
    BY DEF LibraryInv, MediaTypeOK, Uploading, Where
<1>2. /\ uploads' = uploads \ {u} /\ LoadListing(place)
      /\ UNCHANGED <<files, picked, warned, moving, sheet, batches, sheetCalls, unsure,
                     mediaHappened>>
      /\ shelf' = [shelf EXCEPT ![u.file] = u.to] \/ shelf' = shelf
    BY DEF UploadEnds, Reload, dialogs
<1>3. Shelved
    BY <1>1, <1>2 DEF Shelved
<1>4. Uploading'
    <2>1. \A v \in uploads' : v \in uploads /\ v.file \in MediaFiles /\ v.file # u.file
        BY <1>1, <1>2 DEF Uploading, MediaTypeOK
    <2>2. \A v \in uploads' : shelf'[v.file] = shelf[v.file]
        BY <1>1, <1>2, <2>1
    <2> QED BY <1>1, <2>1, <2>2 DEF Uploading
<1>5. MediaTypeOK'
    BY <1>1, <1>2, <1>3, MediaLoadIs DEF MediaTypeOK, Shelved
<1>6. Dropped \subseteq Dropped'
    BY <1>1, <1>2, <1>3, NewListing
<1> QED BY <1>3, <1>4, <1>5, <1>6 DEF Steady

LEMMA OthersChangeKeeps ==
    ASSUME LibraryInv, NEW f \in MediaFiles, NEW to \in Where, OthersChangeFiles(f, to)
    PROVE  Steady
<1>1. /\ Stored(f) /\ shelf' = [shelf EXCEPT ![f] = to] /\ unsure' = TRUE /\ mediaHappened' = mediaHappened + 1
      /\ UNCHANGED <<mediaListing, picked, warned, moving, sheet, batches, uploads, sheetCalls>>
    BY DEF OthersChangeFiles, MediaHappens, dialogs, mediaCalls
<1>2. MediaTypeOK /\ Uploading /\ shelf \in [MediaFiles -> Where]
    BY DEF LibraryInv, MediaTypeOK
<1>3. shelf[f] # "gone" /\ \A u \in uploads : u.file # f
    BY <1>1, <1>2, MediaAssumption DEF Stored, Uploading
<1>4. Shelved
    BY <1>1, <1>2, <1>3 DEF Shelved
<1>5. MediaTypeOK'
    BY <1>1, <1>2, <1>4 DEF MediaTypeOK, Shelved, mediaListing
<1>6. Uploading'
    BY <1>1, <1>2, <1>3 DEF Uploading
<1> QED BY <1>1, <1>4, <1>5, <1>6, QuietListing DEF Steady

-----------------------------------------------------------------------------
(* The library. *)

LEMMA EveryStepIsSteady ==
    ASSUME LibraryInv, MediaNext
    PROVE  Steady
<1>1. ASSUME Progress PROVE Steady
    <2>1. ASSUME NEW ld \in mediaLoads, ServerReads(ld) \/ Arrives(ld) \/ ListingFails(ld) PROVE Steady
        BY <2>1, ServerReadsKeeps, ArrivesKeeps, LoadFailsKeeps
    <2>2. ASSUME NEW b \in batches, BatchEnds(b) \/ \E f \in b.left : BatchSettles(b, f) PROVE Steady
        BY <2>2, BatchEndsKeeps, BatchSettlesKeeps
    <2>3. ASSUME NEW c \in sheetCalls, SheetServed(c) \/ SheetSettles(c) PROVE Steady
        BY <2>3, SheetServedKeeps, SheetSettlesKeeps
    <2>4. ASSUME NEW u \in uploads, UploadEnds(u) PROVE Steady
        BY <2>4, UploadEndsKeeps
    <2> QED BY <1>1, <2>1, <2>2, <2>3, <2>4 DEF Progress
<1>2. ASSUME NEW folder \in MediaFolders,
             \/ OpenFolder(folder) \/ MoveFiles(folder) \/ SheetSends("save", folder)
             \/ \E f \in MediaFiles : OthersChangeFiles(f, folder)
      PROVE  Steady
    <2>1. folder \in Where
        BY DEF Where
    <2> QED BY <1>2, <2>1, OpenFolderKeeps, BatchStartsKeeps, SheetSendsKeeps, OthersChangeKeeps
<1>3. ASSUME NEW n \in 1 .. Cardinality(MediaFiles), TurnPage(n) PROVE Steady
    <2>1. n \in Nat \ {0}
        BY MediaAssumption, FS_CardinalityType
    <2> QED BY <1>3, <2>1, TurnPageKeeps
<1>4. ASSUME NEW f \in MediaFiles, Toggle(f) \/ OpenSheet(f) \/ Upload(f) \/ OthersChangeFiles(f, "gone")
      PROVE  Steady
    <2>1. "gone" \in Where
        BY DEF Where
    <2> QED BY <1>4, <2>1, ToggleKeeps, OpenSheetKeeps, UploadKeeps, OthersChangeKeeps
<1>5. ASSUME \/ SelectAll \/ RequestBulkDelete \/ DeleteSelected \/ OpenMoveFiles \/ CloseDialog
             \/ SheetSends("delete", "gone") \/ SheetSends("replace", Root)
      PROVE  Steady
    <2>1. "gone" \in Where /\ Root \in Where
        BY MediaAssumption DEF Where
    <2> QED BY <1>5, <2>1, SelectAllKeeps, DialogsKeep, BatchStartsKeeps, SheetSendsKeeps
<1> QED BY <1>1, <1>2, <1>3, <1>4, <1>5 DEF MediaNext

LEMMA QuietSelection ==
    ASSUME LibraryInv, Steady, UNCHANGED <<files, picked>>, warned' = warned \/ warned' = {}
    PROVE  Kept' /\ Covered'
BY DEF LibraryInv, Steady, Kept, Covered

LEMMA SelectionKeeps ==
    ASSUME LibraryInv, MediaNext
    PROVE  Kept' /\ Covered'
<1>1. Steady /\ Kept /\ Covered
    BY EveryStepIsSteady DEF LibraryInv
<1>2. ASSUME NEW ld \in mediaLoads, Arrives(ld) PROVE Kept' /\ Covered'
    <2>1. CASE UNCHANGED <<files, picked, warned>>
        BY <1>1, <2>1, QuietSelection
    <2>2. CASE /\ files' = [of |-> ld.of, rows |-> ld.rows, pages |-> ld.pages]
               /\ picked' = picked \intersect ld.rows /\ warned' = warned
        <3>1. files'.rows = ld.rows
            BY <2>2
        <3> QED BY <1>1, <2>2, <3>1 DEF Steady, Kept, Covered
    <2> QED BY <1>2, <2>1, <2>2 DEF Arrives, StillPicked, dialogs
<1>3. ASSUME NEW ld \in mediaLoads, ListingFails(ld) PROVE Kept' /\ Covered'
    <2>1. UNCHANGED <<picked, warned>>
        BY <1>3 DEF ListingFails, dialogs
    <2>2. files'.rows = {} \/ files'.rows = files.rows
        BY <1>3, LoadFailsKeeps
    <2> QED BY <1>1, <2>1, <2>2 DEF Steady, Kept, Covered
<1>4. ASSUME NEW c \in sheetCalls, SheetSettles(c) PROVE Kept' /\ Covered'
    <2>1. UNCHANGED <<picked, warned>>
        BY <1>4, SheetSettlesKeeps
    <2>2. CASE files'.rows = files.rows
        BY <1>1, <2>1, <2>2 DEF Steady, Kept, Covered
    <2>3. CASE \E f \in MediaFiles : files'.rows = files.rows \ {f} /\ f \in Dropped'
        BY <1>1, <2>1, <2>3 DEF Steady, Kept, Covered
    <2> QED BY <1>4, <2>2, <2>3, SheetSettlesKeeps
\* Nothing is selected while a confirmation is open.
<1>5. ASSUME NEW f \in MediaFiles, Toggle(f) PROVE Kept' /\ Covered'
    <2>1. /\ files' = files /\ warned' = {} /\ f \in files.rows
          /\ picked' = picked \ {f} \/ picked' = picked \union {f}
        BY <1>5 DEF Toggle, dialogs, mediaListing, Modal
    <2> QED BY <1>1, <2>1 DEF Steady, Kept, Covered
<1>6. ASSUME SelectAll PROVE Kept' /\ Covered'
    <2>1. files' = files /\ warned' = {} /\ (picked' = {} \/ picked' = files.rows)
        BY <1>6 DEF SelectAll, dialogs, mediaListing, Modal
    <2> QED BY <1>1, <2>1 DEF Steady, Kept, Covered
<1>7. ASSUME RequestBulkDelete PROVE Kept' /\ Covered'
    <2>1. UNCHANGED <<files, picked>> /\ warned' = Selected /\ files.rows # {}
        BY <1>7 DEF RequestBulkDelete, mediaListing, Selected
    <2>2. picked \subseteq Selected \union Dropped
        BY <1>1, <2>1 DEF Kept, Selected
    <2> QED BY <1>1, <2>1, <2>2 DEF Steady, Kept, Covered
<1>8. ASSUME (\E b \in batches : BatchEnds(b)) \/ \E folder \in MediaFolders : OpenFolder(folder)
      PROVE  Kept' /\ Covered'
    <2>1. picked' = {}
        BY <1>8 DEF BatchEnds, OpenFolder
    <2> QED BY <2>1 DEF Kept, Covered
<1>9. ASSUME UNCHANGED <<files, picked>>, warned' = warned \/ warned' = {} PROVE Kept' /\ Covered'
    BY <1>1, <1>9, QuietSelection
<1>10. ASSUME \/ \E ld \in mediaLoads : ServerReads(ld)
              \/ \E b \in batches : \E f \in b.left : BatchSettles(b, f)
              \/ \E u \in uploads : UploadEnds(u)
              \/ \E c \in sheetCalls : SheetServed(c)
       PROVE  UNCHANGED <<files, picked, warned>>
    BY <1>10 DEF ServerReads, BatchSettles, UploadEnds, SheetServed, dialogs, mediaListing
<1>11. ASSUME \/ \E folder \in MediaFolders : MoveFiles(folder) \/ SheetSends("save", folder)
                                                \/ \E f \in MediaFiles : OthersChangeFiles(f, folder)
              \/ \E n \in 1 .. Cardinality(MediaFiles) : TurnPage(n)
              \/ \E f \in MediaFiles : OpenSheet(f) \/ Upload(f) \/ OthersChangeFiles(f, "gone")
              \/ DeleteSelected \/ OpenMoveFiles \/ CloseDialog
              \/ SheetSends("delete", "gone") \/ SheetSends("replace", Root)
       PROVE  UNCHANGED <<files, picked>> /\ (warned' = warned \/ warned' = {})
    BY <1>11 DEF MoveFiles, SheetSends, OthersChangeFiles, TurnPage, OpenSheet, Upload,
       DeleteSelected,
                 OpenMoveFiles, CloseDialog, dialogs, mediaListing
<1> QED BY <1>2, <1>3, <1>4, <1>5, <1>6, <1>7, <1>8, <1>9, <1>10, <1>11 DEF MediaNext, Progress

LEMMA DeletionsKeep ==
    ASSUME LibraryInv, MediaNext
    PROVE  DeletedAreGone'
<1>1. MediaTypeOK /\ Shelved /\ DeletedAreGone
    BY EveryStepIsSteady DEF Steady, LibraryInv
<1>2. ASSUME sheetCalls' \subseteq sheetCalls PROVE DeletedAreGone'
    BY <1>1, <1>2 DEF DeletedAreGone, Shelved, MediaTypeOK
<1>3. ASSUME NEW op, NEW to, SheetSends(op, to), op = "delete" => to = "gone" PROVE DeletedAreGone'
    <2>1. /\ UNCHANGED shelf
          /\ sheetCalls' = sheetCalls \union
               {[op |-> op, file |-> sheet, to |-> to, at |-> "sent", changed |-> FALSE]}
        BY <1>3 DEF SheetSends
    <2> QED BY <1>1, <1>3, <2>1 DEF DeletedAreGone
<1>4. ASSUME NEW c \in sheetCalls, SheetServed(c) PROVE DeletedAreGone'
    <2>1. c.file \in MediaFiles /\ shelf \in [MediaFiles -> Where]
        BY <1>1, <1>4, ServedCallIs DEF MediaTypeOK
    <2>2. PICK to \in Where, d \in SheetRequests :
            /\ shelf' = [shelf EXCEPT ![c.file] = to] /\ sheetCalls' = (sheetCalls \ {c}) \union {d}
            /\ d.op = c.op /\ d.file = c.file /\ d.to = to
            /\ c.op = "delete" => to = c.to
        BY <1>4, ServedCallIs
    <2>3. d.op = "delete" => d.to = "gone" /\ shelf'[d.file] = "gone"
        BY <1>1, <2>1, <2>2 DEF DeletedAreGone
    <2>4. \A e \in sheetCalls : e.op = "delete" =>
              e.to = "gone" /\ (e.at = "done" => shelf'[e.file] = "gone")
        BY <1>1 DEF DeletedAreGone, Shelved, MediaTypeOK
    <2> QED BY <2>2, <2>3, <2>4 DEF DeletedAreGone
<1>5. ASSUME \/ \E ld \in mediaLoads : ServerReads(ld) \/ Arrives(ld) \/ ListingFails(ld)
             \/ \E b \in batches : BatchEnds(b) \/ \E f \in b.left : BatchSettles(b, f)
             \/ \E c \in sheetCalls : SheetSettles(c)
             \/ \E u \in uploads : UploadEnds(u)
      PROVE  sheetCalls' \subseteq sheetCalls
    BY <1>5 DEF ServerReads, Arrives, ListingFails, BatchEnds, BatchSettles, SheetSettles,
       UploadEnds, mediaCalls
<1>6. ASSUME \/ \E folder \in MediaFolders : \/ OpenFolder(folder) \/ MoveFiles(folder)
                                             \/ \E f \in MediaFiles : OthersChangeFiles(f, folder)
             \/ \E n \in 1 .. Cardinality(MediaFiles) : TurnPage(n)
             \/ \E f \in MediaFiles : Toggle(f) \/ OpenSheet(f) \/ Upload(f) \/ OthersChangeFiles(f, "gone")
             \/ SelectAll \/ RequestBulkDelete \/ DeleteSelected \/ OpenMoveFiles \/ CloseDialog
      PROVE  sheetCalls' \subseteq sheetCalls
    BY <1>6 DEF OpenFolder, MoveFiles, OthersChangeFiles, TurnPage, Toggle, OpenSheet, Upload,
                SelectAll, RequestBulkDelete, DeleteSelected, OpenMoveFiles, CloseDialog, mediaCalls
<1> QED BY <1>2, <1>3, <1>4, <1>5, <1>6 DEF MediaNext, Progress

LEMMA LibraryInitHolds == MediaInit => LibraryInv
<1> SUFFICES ASSUME MediaInit PROVE LibraryInv
    OBVIOUS
<1>1. Root \in MediaFolders /\ [folder |-> Root, page |-> 1] \in Place
    BY MediaAssumption DEF Place
<1>2. place \in Place /\ files \in [of: Place, rows: SUBSET MediaFiles, pages: Nat]
      /\ files.rows = {} /\ picked = {} /\ uploads = {}
    BY <1>1 DEF MediaInit
<1>3. Loading(place, 1) \in [n: Nat, of: Place, read: BOOLEAN, rows: SUBSET MediaFiles, pages: Nat]
      /\ Loading(place, 1).n = 1
    BY <1>2 DEF Loading
<1>4. shelf \in [MediaFiles -> Where]
    BY <1>1 DEF MediaInit, Where
<1>5. /\ mediaLoads \subseteq [n: Nat, of: Place, read: BOOLEAN, rows: SUBSET MediaFiles, pages: Nat]
      /\ \A ld \in mediaLoads : ld.n <= mediaRequests
      /\ mediaRequests \in Nat
    BY <1>3 DEF MediaInit
<1>6. /\ mediaState \in {"loading", "ready", "error"} /\ {picked, warned, moving} \subseteq SUBSET MediaFiles
      /\ batches = {} /\ uploads = {} /\ sheetCalls = {} /\ sheet = NoSheet
      /\ unsure \in BOOLEAN /\ mediaHappened \in Nat
    BY DEF MediaInit
<1>7. MediaTypeOK
    BY <1>2, <1>4, <1>5, <1>6 DEF MediaTypeOK
<1> QED BY <1>2, <1>6, <1>7 DEF LibraryInv, Uploading, DeletedAreGone, Kept, Covered

LEMMA LibraryNextKeeps == LibraryInv /\ [MediaNext]_mediaVars => LibraryInv'
<1>1. ASSUME LibraryInv, MediaNext PROVE LibraryInv'
    BY <1>1, EveryStepIsSteady, SelectionKeeps, DeletionsKeep DEF Steady, LibraryInv
<1>2. ASSUME LibraryInv, UNCHANGED mediaVars PROVE LibraryInv'
    BY <1>2 DEF mediaVars, LibraryInv, MediaTypeOK, Uploading, DeletedAreGone, Kept, Covered, Dropped, Overtaken
<1> QED BY <1>1, <1>2

LEMMA LibraryInvariance == MediaSpec => []LibraryInv
<1>1. MediaInit => LibraryInv
    BY LibraryInitHolds
<1>2. LibraryInv /\ [MediaNext]_mediaVars => LibraryInv'
    BY LibraryNextKeeps
<1> QED BY <1>1, <1>2, PTL DEF MediaSpec

\* The library's state keeps the shapes the code gives it, and no load is newer than the last.
THEOREM LibraryTypeCorrect == MediaSpec => []MediaTypeOK
<1>1. LibraryInv => MediaTypeOK
    BY DEF LibraryInv
<1> QED BY <1>1, LibraryInvariance, PTL

\* No file is deleted whose usage the confirmation did not show (DeletionsAreWarned).
THEOREM NothingElseIsDeleted == MediaSpec => DeletionsAreWarned
<1> DEFINE Warned == \A b \in batches' : b.op = "delete" /\ b.n \notin {c.n : c \in batches}
                                          => b.left \subseteq warned
<1>1. LibraryInv /\ [MediaNext]_mediaVars => Warned
    <2> SUFFICES ASSUME LibraryInv, [MediaNext]_mediaVars PROVE Warned
        OBVIOUS
    <2>1. CASE batches' \subseteq batches
        BY <2>1
    <2>2. ASSUME DeleteSelected PROVE Warned
        <3>1. /\ warned # {}
              /\ batches' = batches \/ batches' = batches \union {Batch("delete", Selected, "gone")}
            BY <2>2 DEF DeleteSelected
        <3>2. Selected \subseteq warned
            BY <3>1 DEF LibraryInv, Covered, Selected, Dropped
        <3>3. Batch("delete", Selected, "gone").left = Selected
            BY DEF Batch
        <3> QED BY <3>1, <3>2, <3>3
    <2>3. ASSUME NEW to \in MediaFolders, MoveFiles(to) PROVE Warned
        <3>1. batches' = batches \union {Batch("move", moving, to)}
            BY <2>3 DEF MoveFiles
        <3>2. Batch("move", moving, to).op = "move"
            BY DEF Batch
        <3> QED BY <3>1, <3>2
    <2>4. ASSUME NEW b \in batches, NEW f \in b.left, BatchSettles(b, f) PROVE Warned
        <3>1. batches' = (batches \ {b}) \union {[b EXCEPT !.left = @ \ {f}]}
            BY <2>4 DEF BatchSettles
        <3>2. b \in [n: Nat, op: {"delete", "move"}, left: SUBSET MediaFiles, to: Where]
            BY DEF LibraryInv, MediaTypeOK
        <3>3. [b EXCEPT !.left = @ \ {f}].n = b.n
            BY <3>2
        <3> QED BY <3>1, <3>3
    <2>5. ASSUME \/ \E ld \in mediaLoads : ServerReads(ld) \/ Arrives(ld) \/ ListingFails(ld)
                 \/ \E b \in batches : BatchEnds(b)
                 \/ \E c \in sheetCalls : SheetServed(c) \/ SheetSettles(c)
                 \/ \E u \in uploads : UploadEnds(u)
          PROVE  batches' \subseteq batches
        BY <2>5 DEF ServerReads, Arrives, ListingFails, BatchEnds, SheetServed, SheetSettles,
           UploadEnds, mediaCalls
    <2>6. ASSUME \/ \E folder \in MediaFolders : OpenFolder(folder) \/ SheetSends("save", folder)
                                                  \/ \E f \in MediaFiles : OthersChangeFiles(f, folder)
                 \/ \E n \in 1 .. Cardinality(MediaFiles) : TurnPage(n)
                 \/ \E f \in MediaFiles : Toggle(f) \/ OpenSheet(f) \/ Upload(f) \/ OthersChangeFiles(f, "gone")
                 \/ SelectAll \/ RequestBulkDelete \/ OpenMoveFiles \/ CloseDialog
                 \/ SheetSends("delete", "gone") \/ SheetSends("replace", Root)
          PROVE  batches' \subseteq batches
        BY <2>6 DEF OpenFolder, SheetSends, OthersChangeFiles, TurnPage, Toggle, OpenSheet, Upload,
                    SelectAll, RequestBulkDelete, OpenMoveFiles, CloseDialog, mediaCalls
    <2>7. UNCHANGED mediaVars => batches' \subseteq batches
        BY DEF mediaVars
    <2> QED BY <2>1, <2>2, <2>3, <2>4, <2>5, <2>6, <2>7 DEF MediaNext, Progress
<1> QED BY <1>1, LibraryInvariance, PTL DEF MediaSpec, DeletionsAreWarned

-----------------------------------------------------------------------------
(* What is listed. *)

\* What a load has read, and what the page shows, is of the place that is open, and what the
\* server has there: only a batch, or a request of the sheet that the server has done, changes
\* files before the page loads again.
LatestIsOfThePlace ==
    /\ mediaState = "ready" => files.of = place
    /\ \A ld \in mediaLoads : ld.n = mediaRequests => ld.of = place

Harmless(c) == c.at = "done" => ~c.changed

LatestIsRight ==
    ~unsure /\ batches = {} /\ (\A c \in sheetCalls : Harmless(c)) =>
        /\ mediaState = "ready" => files.rows = PageOf(place)
        /\ \A ld \in mediaLoads : ld.n = mediaRequests /\ ld.read => ld.rows = PageOf(place)

ShelfInv == LatestIsOfThePlace /\ LatestIsRight

\* Loading again, the page waits for an answer that is yet to be read.
LEMMA LoadingIsRight ==
    ASSUME MediaTypeOK, NEW p, LoadListing(p)
    PROVE  ShelfInv'
<1> PICK new : new = Loading(p, mediaRequests + 1)
    OBVIOUS
<1>1. /\ place' = p /\ mediaState' = "loading" /\ mediaRequests' = mediaRequests + 1
      /\ mediaLoads' = mediaLoads \union {new}
    BY DEF LoadListing
<1>2. new.of = p
    BY DEF Loading
<1>3. ~new.read
    BY DEF Loading
<1>4. \A ld \in mediaLoads : ld.n # mediaRequests'
    BY <1>1 DEF MediaTypeOK
<1>5. \A ld \in mediaLoads' : ld.n = mediaRequests' => ld = new
    BY <1>1, <1>4
<1>6. LatestIsOfThePlace'
    BY <1>1, <1>2, <1>5 DEF LatestIsOfThePlace
<1>7. LatestIsRight'
    BY <1>1, <1>3, <1>5 DEF LatestIsRight
<1> QED BY <1>6, <1>7 DEF ShelfInv

LEMMA ServerReadsShelf ==
    ASSUME MediaTypeOK, ShelfInv, NEW ld \in mediaLoads, ServerReads(ld)
    PROVE  ShelfInv'
<1> PICK answer : answer = [ld EXCEPT !.read = TRUE, !.rows = PageOf(ld.of), !.pages = PageCount(ld.of)]
    OBVIOUS
<1>1. /\ mediaLoads' = (mediaLoads \ {ld}) \union {answer}
      /\ UNCHANGED <<shelf, place, files, mediaState, mediaRequests, batches, sheetCalls, unsure>>
    BY DEF ServerReads, mediaCalls
<1>2. ld \in [n: Nat, of: Place, read: BOOLEAN, rows: SUBSET MediaFiles, pages: Nat]
    BY DEF MediaTypeOK
<1>3. answer.n = ld.n /\ answer.of = ld.of /\ answer.rows = PageOf(ld.of)
    BY <1>2
<1>4. \A q : PageOf(q)' = PageOf(q)
    BY <1>1 DEF PageOf, FilesIn, Rank
<1>5. LatestIsOfThePlace'
    BY <1>1, <1>3 DEF ShelfInv, LatestIsOfThePlace
<1>6. LatestIsRight'
    <2> SUFFICES ASSUME ~unsure, batches = {}, \A c \in sheetCalls : Harmless(c)
                 PROVE  LatestIsRight'
        BY <1>1 DEF LatestIsRight
    <2> PICK rows : rows = PageOf(place)
        OBVIOUS
    <2>1. PageOf(place)' = rows
        BY <1>1, <1>4
    <2>2. answer.n = mediaRequests => answer.rows = rows
        BY <1>3 DEF ShelfInv, LatestIsOfThePlace
    <2>3. \A m \in mediaLoads : m.n = mediaRequests /\ m.read => m.rows = rows
        BY DEF ShelfInv, LatestIsRight
    <2>4. mediaState = "ready" => files.rows = rows
        BY DEF ShelfInv, LatestIsRight
    <2> QED BY <1>1, <2>1, <2>2, <2>3, <2>4 DEF LatestIsRight
<1> QED BY <1>5, <1>6 DEF ShelfInv

\* An answer that comes, is of the place and right, unless it was overtaken.
LEMMA ArrivesShelf ==
    ASSUME MediaTypeOK, ShelfInv, NEW ld \in mediaLoads, Arrives(ld) \/ ListingFails(ld)
    PROVE  ShelfInv'
<1>1. /\ mediaLoads' = mediaLoads \ {ld}
      /\ UNCHANGED <<shelf, place, mediaRequests, batches, sheetCalls, unsure>>
    BY DEF Arrives, ListingFails, mediaCalls
<1>2. \/ UNCHANGED <<files, mediaState>>
      \/ mediaState' = "error"
      \/ /\ mediaState' = "ready" /\ ld.n = mediaRequests /\ ld.read
         /\ files' = [of |-> ld.of, rows |-> ld.rows, pages |-> ld.pages]
    BY DEF Arrives, ListingFails, Overtaken
<1>3. PageOf(place)' = PageOf(place)
    BY <1>1 DEF PageOf, FilesIn, Rank
<1>4. LatestIsOfThePlace'
    BY <1>1, <1>2 DEF ShelfInv, LatestIsOfThePlace
<1>5. LatestIsRight'
    BY <1>1, <1>2, <1>3 DEF ShelfInv, LatestIsRight
<1> QED BY <1>4, <1>5 DEF ShelfInv

\* The server's files and the listing stay.
LEMMA QuietShelf ==
    ASSUME ShelfInv, UNCHANGED <<mediaListing, unsure>>,
                                 UNCHANGED shelf \/ unsure' \/ batches' # {},
           batches' = {} => batches = {},
           \A c \in sheetCalls : c \in sheetCalls' \/ Harmless(c)
    PROVE  ShelfInv'
<1>1. UNCHANGED <<place, files, mediaState, mediaRequests, mediaLoads>>
    BY DEF mediaListing
<1>2. UNCHANGED shelf => PageOf(place)' = PageOf(place)
    BY <1>1 DEF PageOf, FilesIn, Rank
<1> QED BY <1>1, <1>2 DEF ShelfInv, LatestIsOfThePlace, LatestIsRight

LEMMA UnsureShelf ==
    ASSUME ShelfInv, UNCHANGED mediaListing, unsure'
    PROVE  ShelfInv'
BY DEF ShelfInv, LatestIsOfThePlace, LatestIsRight, mediaListing

\* The server's part of a request of the sheet: until its answer comes, the request says so.
LEMMA ServedShelf ==
    ASSUME MediaTypeOK, ShelfInv, NEW c \in sheetCalls, SheetServed(c)
    PROVE  ShelfInv'
<1> DEFINE to == IF c.op = "replace" THEN shelf[c.file] ELSE c.to
           d == [c EXCEPT !.at = "done", !.to = to, !.changed = shelf[c.file] # to]
<1>1. /\ UNCHANGED <<mediaListing, batches, unsure>> /\ c.at = "sent"
      /\ shelf' = [shelf EXCEPT ![c.file] = to] /\ sheetCalls' = (sheetCalls \ {c}) \union {d}
    BY DEF SheetServed
<1>2. /\ c \in [op: {"save", "replace", "delete"}, file: MediaFiles, to: Where,
              at: {"sent", "done"}, changed: BOOLEAN]
      /\ shelf \in [MediaFiles -> Where]
    BY DEF MediaTypeOK
<1>3. d.changed = (shelf[c.file] # to) /\ d.at = "done"
    BY <1>2
<1> HIDE DEF to, d
<1>4. UNCHANGED <<place, files, mediaState, mediaRequests, mediaLoads>>
    BY <1>1 DEF mediaListing
<1>5. CASE d.changed
    <2>1. d \in sheetCalls' /\ ~Harmless(d)
        BY <1>1, <1>3, <1>5 DEF Harmless
    <2> QED BY <1>4, <1>5, <2>1 DEF ShelfInv, LatestIsOfThePlace, LatestIsRight
<1>6. CASE ~d.changed
    <2>1. UNCHANGED shelf
        BY <1>1, <1>2, <1>3, <1>6
    <2>3. \A e \in sheetCalls : e \in sheetCalls' \/ e = c
        BY <1>1
    <2> QED BY <1>1, <2>1, <2>3, QuietShelf DEF Harmless
<1> QED BY <1>3, <1>5, <1>6

LEMMA SheetShelf ==
    ASSUME MediaTypeOK, ShelfInv, NEW c \in sheetCalls, SheetSettles(c)
    PROVE  ShelfInv'
<1>1. UNCHANGED <<batches, shelf>> /\ sheetCalls' = sheetCalls \ {c}
    BY DEF SheetSettles
<1>2. ASSUME UNCHANGED mediaListing, unsure' = (unsure \/ c.changed) PROVE ShelfInv'
    <2>1. CASE unsure'
        BY <1>2, <2>1, UnsureShelf
    <2>2. CASE ~unsure'
        <3>1. ~unsure /\ ~c.changed
            BY <1>2, <2>2
        <3>2. UNCHANGED unsure
            BY <1>2, <2>2, <3>1 DEF MediaTypeOK
        <3>3. \A e \in sheetCalls : e \in sheetCalls' \/ Harmless(e)
            BY <1>1, <3>1 DEF Harmless
        <3> QED BY <1>1, <1>2, <3>2, <3>3, QuietShelf
    <2> QED BY <2>1, <2>2
<1>3. CASE SheetSaved(c)
    <2>1. CASE c.to # place.folder
        BY <1>3, <2>1, LoadingIsRight DEF SheetSaved, Reload
    <2>2. CASE c.to = place.folder
        BY <1>2, <1>3, <2>2 DEF SheetSaved
    <2> QED BY <2>1, <2>2
<1>4. CASE SheetDeleted(c)
    BY <1>4, LoadingIsRight DEF SheetDeleted, Reload
<1>5. CASE SheetFails(c)
    BY <1>2, <1>5 DEF SheetFails
<1> QED BY <1>3, <1>4, <1>5 DEF SheetSettles

LEMMA ShelfKeeps ==
    ASSUME MediaTypeOK, ShelfInv, MediaNext
    PROVE  ShelfInv'
<1>1. ASSUME \/ \E folder \in MediaFolders : OpenFolder(folder)
             \/ \E p \in 1 .. Cardinality(MediaFiles) : TurnPage(p)
             \/ \E b \in batches : BatchEnds(b)
             \/ \E u \in uploads : UploadEnds(u)
      PROVE  ShelfInv'
    BY <1>1, LoadingIsRight DEF OpenFolder, TurnPage, BatchEnds, UploadEnds, Reload
<1>2. ASSUME NEW b \in batches, NEW f \in b.left, BatchSettles(b, f) PROVE ShelfInv'
    <2>1. UNCHANGED <<mediaListing, unsure, sheetCalls>> /\ batches' # {}
        BY <1>2 DEF BatchSettles
    <2> QED BY <2>1, QuietShelf
<1>3. ASSUME \/ \E folder \in MediaFolders : MoveFiles(folder) \/ SheetSends("save", folder)
             \/ \E f \in MediaFiles : Toggle(f) \/ OpenSheet(f) \/ Upload(f)
             \/ SelectAll \/ RequestBulkDelete \/ DeleteSelected \/ OpenMoveFiles \/ CloseDialog
             \/ SheetSends("delete", "gone") \/ SheetSends("replace", Root)
      PROVE  ShelfInv'
    <2>1. /\ UNCHANGED <<mediaListing, unsure, shelf>> /\ (batches' = {} => batches = {})
          /\ sheetCalls \subseteq sheetCalls'
        BY <1>3 DEF MoveFiles, SheetSends, Toggle, OpenSheet, Upload, SelectAll, RequestBulkDelete,
                    DeleteSelected, OpenMoveFiles, CloseDialog, mediaCalls
    <2> QED BY <2>1, QuietShelf
<1>4. ASSUME NEW f \in MediaFiles, NEW to, OthersChangeFiles(f, to) PROVE ShelfInv'
    <2>1. UNCHANGED mediaListing /\ unsure'
        BY <1>4 DEF OthersChangeFiles
    <2> QED BY <2>1, UnsureShelf
<1>5. ASSUME Progress PROVE ShelfInv'
    BY <1>1, <1>2, <1>5, ServerReadsShelf, ArrivesShelf, ServedShelf, SheetShelf DEF Progress
<1> QED BY <1>1, <1>3, <1>4, <1>5 DEF MediaNext

\* A listing that waits for nothing shows what the server has in the folder and on the page
\* that are open (ShelfIsShown), whatever the admin changed meanwhile and in whatever order the
\* answers came; but for what others changed, and for what the sheet changed when its answer is
\* lost or the folder was opened before it came.
THEOREM ListingIsTheShelf == MediaSpec => []ShelfIsShown
<1>1. MediaInit => ShelfInv
    BY DEF MediaInit, Loading, ShelfInv, LatestIsOfThePlace, LatestIsRight
<1>2. MediaTypeOK /\ ShelfInv /\ [MediaNext]_mediaVars => ShelfInv'
    <2>1. ASSUME MediaTypeOK, ShelfInv, UNCHANGED mediaVars PROVE ShelfInv'
        <3>1. UNCHANGED <<mediaListing, unsure, shelf, batches, sheetCalls>>
            BY <2>1 DEF mediaVars, mediaListing
        <3> QED BY <2>1, <3>1, QuietShelf
    <2> QED BY <2>1, ShelfKeeps
<1>3. ShelfInv => ShelfIsShown
    BY DEF ShelfInv, LatestIsOfThePlace, LatestIsRight, ShelfIsShown
<1> QED BY <1>1, <1>2, <1>3, LibraryTypeCorrect, PTL DEF MediaSpec
=============================================================================
