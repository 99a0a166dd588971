----------------------------- MODULE PagedLists -----------------------------
(***************************************************************************)
(* The lists of the settings and of the releases: a page of rows at a time, *)
(* some of them searched, with what the admin does to a row from the list   *)
(* or from its dialog.  Most are an Angular resource (core/paging.ts): a    *)
(* load of other parameters takes the place of the one under way, and a     *)
(* reload is refused while such a load is under way; releases and the       *)
(* submissions of a form load by hand.  A list is the record of how it      *)
(* differs, and lists that do not differ are one.                           *)
(***************************************************************************)
EXTENDS Integers, FiniteSets

CONSTANTS Things,      \* what can be counted, numbered in the order of the lists
          FirstThings, \* those there are at first
          Found,       \* those a search finds
          ListSize,    \* `PAGE_SIZE`
          Gone,        \* a thing there is not
          MaxLists     \* bound: page turns, searches, changes and retries together

ListsAssumption ==
    /\ Things \subseteq Nat /\ IsFiniteSet(Things)
    /\ FirstThings \subseteq Things /\ Found \subseteq Things
    /\ ListSize \in Nat \ {0} /\ MaxLists \in Nat /\ Gone \notin {0, 1}

VARIABLES
    which,    \* the list that is open
    things,   \* the server: what each thing says, or Gone
    spot,     \* `page`, and whether a search is applied
    box,      \* whether the search box holds a text
    typing,   \* what the timer of the search box is to apply: one text or none
    table,    \* the rows, and `pageCount`
    status,   \* of the resource, or `loading` and `error`: loading, reloading, idle, failed
    lookups,  \* the loads under way
    jobs,     \* the requests that change a thing
    excused,  \* for the properties: what the page cannot know, or does not look at
    counted    \* how much has happened, for the bound

vars == <<which, things, spot, box, typing, table, status, lookups, jobs, excused, counted>>

Happen == counted < MaxLists /\ counted' = counted + 1

----------------------------------------------------------------------------
(* How the lists differ: the changes one can make (dialogs create and       *)
(* update, the buttons of a row switch, remove or act), those whose answer  *)
(* goes into its row, whether the pager waits for the load, and on how many *)
(* rows a removal steps back.                                               *)

PagedList == [how |-> "resource", searched |-> FALSE, ops |-> {}, patches |-> {},
              waits |-> TRUE, steps |-> {0, 1}]

UsersPage     == [PagedList EXCEPT !.ops = {"create", "update", "act", "remove"}]
TokensPage    == [PagedList EXCEPT !.ops = {"create", "act", "remove"}]
WebhooksPage  == [PagedList EXCEPT !.ops = {"switch", "act", "remove"}, !.patches = {"switch"}]
MenusPage     == [PagedList EXCEPT !.ops = {"remove"}]
FormsPage     == [PagedList EXCEPT !.ops = {"remove"}]
RedirectsPage == [PagedList EXCEPT !.searched = TRUE, !.ops = {"create", "update", "remove"},
                                   !.patches = {"update"}]
EndUsersPage  == [PagedList EXCEPT !.searched = TRUE, !.patches = {"switch"}, !.steps = {1},
                                   !.ops = {"create", "update", "switch", "remove"}]
AuditLogsPage     == [PagedList EXCEPT !.searched = TRUE]
WebhookDeliveries == [PagedList EXCEPT !.ops = {"act"}, !.waits = FALSE]
ReleasesPage  == [PagedList EXCEPT !.how = "releases", !.ops = {"update", "remove"}]
Submissions   == [PagedList EXCEPT !.how = "submissions", !.ops = {"remove"}, !.steps = {1}]

Lists == {UsersPage, TokensPage, WebhooksPage, MenusPage, FormsPage, RedirectsPage,
          EndUsersPage, AuditLogsPage, WebhookDeliveries, ReleasesPage, Submissions}

IsResource == which.how = "resource"

----------------------------------------------------------------------------
(* The server. *)

\* A page of what there is, in the order of the things.
Answer(s) ==
    LET all == {t \in Things : things[t] # Gone /\ (s.query => t \in Found)}
        Rank(t) == Cardinality({u \in all : u <= t})
        page == {t \in all : (s.page - 1) * ListSize < Rank(t) /\ Rank(t) <= s.page * ListSize}
    IN  [rows |-> [t \in page |-> things[t]],
         pages |-> (Cardinality(all) + ListSize - 1) \div ListSize]

Nothing == [rows |-> [t \in {} |-> Gone], pages |-> 1]
NotRead == [rows |-> [t \in {} |-> Gone], pages |-> -1]

Rows == DOMAIN table.rows

\* The answers that are on their way are older than a change.
Older(loads) == {IF l.got = NotRead THEN l ELSE [l EXCEPT !.stale = TRUE] : l \in loads}

----------------------------------------------------------------------------
(* Loads. *)

Load(s, others) ==
    [n |-> CHOOSE n \in 0..Cardinality(others) : \A l \in others : l.n # n,
     of |-> s, got |-> NotRead, stale |-> FALSE]

\* Other parameters: what was under way is given up.  A list that loads by hand asks
\* beside it, and that of the releases turns its page with the answer.
Ask(s, others) ==
    /\ spot' = IF which.how = "releases" THEN spot ELSE s
    /\ status' = "loading"
    /\ lookups' = IF IsResource THEN {Load(s, {})} ELSE others \union {Load(s, others)}

\* A resource that is loading refuses to reload, also when what it is about to show was
\* read before the change the reload is for.
Refuses == IsResource /\ status = "loading"

\* `reload`, or `load` by hand: the same page again.
Reload ==
    \/ ~IsResource /\ Ask(spot, lookups)
    \/ /\ IsResource /\ ~Refuses
       /\ status' = "reloading" /\ lookups' = {Load(spot, {})} /\ UNCHANGED spot
    \/ Refuses /\ UNCHANGED <<spot, status, lookups>>

\* `removed`: steps back when it was the last row of its page.
Removed ==
    IF which.how # "releases" /\ Cardinality(Rows) \in which.steps /\ spot.page > 1
    THEN Ask([spot EXCEPT !.page = @ - 1], lookups)
    ELSE Reload

\* The server reads what was asked for.
LoadIsRead(l) ==
    /\ l \in lookups /\ l.got = NotRead
    /\ lookups' = (lookups \ {l}) \union {[l EXCEPT !.got = Answer(l.of)]}
    /\ UNCHANGED <<which, things, spot, box, typing, table, status, jobs, excused, counted>>

\* Its answer is shown.  The releases look whether their page emptied, and load the one
\* before; a list that loads by hand shows whichever answer comes last.
LoadEnds(l) ==
    /\ l \in lookups /\ l.got # NotRead
    /\ IF which.how = "releases" /\ DOMAIN l.got.rows = {} /\ l.of.page > 1
       THEN LET last == IF l.got.pages = 0 THEN 1 ELSE l.got.pages
                before == IF l.of.page - 1 <= last THEN l.of.page - 1 ELSE last
            IN  /\ Ask([l.of EXCEPT !.page = before], lookups \ {l})
                /\ UNCHANGED <<table, excused>>
       ELSE /\ table' = l.got /\ status' = "idle" /\ lookups' = lookups \ {l}
            /\ spot' = IF which.how = "releases" THEN l.of ELSE spot
            /\ excused' = IF l.of # spot' \/ (l.stale /\ ~IsResource)
                          THEN excused \union {"rows"}
                          ELSE IF l.stale THEN excused ELSE excused \ {"rows"}
    /\ UNCHANGED <<which, things, box, typing, jobs, counted>>

\* It fails: the rows stay.
LoadFails(l) ==
    /\ l \in lookups /\ lookups' = lookups \ {l}
    /\ status' = "failed" /\ excused' = excused \union {"rows", "empty"}
    /\ UNCHANGED <<which, things, spot, box, typing, table, jobs, counted>>

----------------------------------------------------------------------------
(* What the admin does, and what others do. *)

\* `go` of the pager: one page on or back, within those the last answer counted.
Turn(p) ==
    /\ table.pages > 1
    /\ which.waits => status \notin {"loading", "reloading"}
    /\ \/ p = spot.page + 1 /\ p <= table.pages
       \/ spot.page > 1 /\ p = IF spot.page - 1 <= table.pages THEN spot.page - 1 ELSE table.pages
    /\ Happen
    /\ Ask([spot EXCEPT !.page = p], lookups)
    /\ excused' = IF jobs = {} /\ lookups = {} /\ "rows" \notin excused THEN excused
                  ELSE excused \union {"empty"}
    /\ UNCHANGED <<which, things, box, typing, table, jobs>>

\* Nothing was ever loaded: the page offers to try again.
Retry ==
    /\ status = "failed" /\ table = Nothing /\ Happen
    /\ Reload
    /\ UNCHANGED <<which, things, box, typing, table, jobs, excused>>

\* `setSearch`, or `patch` of the filters: applied after a pause.
SetSearch(text) ==
    /\ which.searched /\ Happen
    /\ box' = text /\ typing' = {text}
    /\ UNCHANGED <<which, things, spot, table, status, lookups, jobs, excused>>

\* `applySearch` and `apply`: from the first page; the audit log looks whether the
\* filters differ at all.
ApplySearch(text) ==
    LET s == IF which = AuditLogsPage /\ text = spot.query THEN spot
             ELSE [page |-> 1, query |-> text]
    IN  IF s = spot THEN UNCHANGED <<spot, status, lookups>> ELSE Ask(s, lookups)

PauseEnds ==
    /\ \E text \in typing : ApplySearch(text)
    /\ typing' = {}
    /\ UNCHANGED <<which, things, box, table, jobs, excused, counted>>

\* `startNew` of the redirects: the box is emptied, and the search with it when one is
\* applied; else a timer that runs still applies what the box held.
StartNew ==
    /\ which = RedirectsPage /\ Happen
    /\ box' = FALSE
    /\ IF spot.query
       THEN ApplySearch(FALSE) /\ typing' = {} /\ UNCHANGED excused
       ELSE /\ excused' = IF TRUE \in typing THEN excused \union {"box"} ELSE excused
            /\ UNCHANGED <<spot, status, lookups, typing>>
    /\ UNCHANGED <<which, things, table, jobs>>

\* A change is sent: of a row, or of a new thing.  The button of a row waits for its own
\* answer, and a dialog that creates and updates for that of what it saves.
Send(op, t) ==
    /\ op \in which.ops
    /\ IF op = "create" THEN things[t] = Gone ELSE t \in Rows
    /\ ~\E j \in jobs : j.op = op /\ j.t = t
    /\ op \in {"create", "update"} /\ "update" \in which.ops =>
          ~\E j \in jobs : j.op \in {"create", "update"}
    /\ Happen
    /\ jobs' = jobs \union {[op |-> op, t |-> t, says |-> Gone, done |-> FALSE]}
    /\ excused' = IF jobs = {} /\ lookups = {} THEN excused ELSE excused \union {"empty"}
    /\ UNCHANGED <<which, things, spot, box, typing, table, status, lookups>>

\* What a change makes of a thing; it is refused when the thing is, or is not, there.
Changed(op, t) ==
    IF (op = "create") # (things[t] = Gone) THEN {}
    ELSE {CASE op = "create" -> 0 [] op = "remove" -> Gone [] OTHER -> 1 - things[t]}

\* The server makes the change.
JobIsDone(j) ==
    /\ j \in jobs /\ ~j.done
    /\ \E says \in Changed(j.op, j.t) :
          /\ things' = [things EXCEPT ![j.t] = says]
          /\ jobs' = (jobs \ {j}) \union {[j EXCEPT !.done = TRUE, !.says = says]}
    /\ lookups' = Older(lookups)
    /\ UNCHANGED <<which, spot, box, typing, table, status, excused, counted>>

\* The row of an answer may say something else by now, and a load that was read before
\* the change ends after it.
Overtaken(j) == things[j.t] # j.says \/ \E l \in lookups : l.stale

\* The answer goes into the row, where the list does that; what is not only a switch
\* loads the page again.
JobIsAnswered(j) ==
    /\ j \in jobs /\ j.done /\ jobs' = jobs \ {j}
    /\ table' = IF j.op \in which.patches /\ j.t \in Rows
                THEN [table EXCEPT !.rows[j.t] = j.says] ELSE table
    /\ \/ j.op = "switch" /\ UNCHANGED <<spot, status, lookups>>
       \/ j.op \in {"create", "update", "act"} /\ Reload
       \/ j.op = "remove" /\ Removed
    /\ excused' = IF (j.op = "switch" \/ Refuses) /\ Overtaken(j)
                  THEN excused \union {"rows"} ELSE excused
    /\ UNCHANGED <<which, things, box, typing, counted>>

\* It was refused, or its answer is lost: a message, and the list as it was.
JobFails(j) ==
    /\ j \in jobs /\ jobs' = jobs \ {j}
    /\ excused' = IF j.done THEN excused \union {"rows", "empty"} ELSE excused
    /\ UNCHANGED <<which, things, spot, box, typing, table, status, lookups, counted>>

\* Another admin makes a change.
OthersChange(op, t) ==
    /\ Happen
    /\ \E says \in Changed(op, t) : things' = [things EXCEPT ![t] = says]
    /\ lookups' = Older(lookups)
    /\ excused' = excused \union {"rows", "empty"}
    /\ UNCHANGED <<which, spot, box, typing, table, status, jobs>>

----------------------------------------------------------------------------

\* A list is opened, and asks for its first page.
Starts(list) ==
    /\ which = list
    /\ things = [t \in Things |-> IF t \in FirstThings THEN 0 ELSE Gone]
    /\ spot = [page |-> 1, query |-> FALSE] /\ box = FALSE /\ typing = {}
    /\ table = Nothing /\ status = "loading" /\ lookups = {Load(spot, {})} /\ jobs = {}
    /\ excused = {} /\ counted = 0

Init == \E list \in Lists : Starts(list)

Progress ==
    \/ \E l \in lookups : LoadIsRead(l) \/ LoadEnds(l) \/ LoadFails(l)
    \/ \E j \in jobs : JobIsDone(j) \/ JobIsAnswered(j) \/ JobFails(j)
    \/ PauseEnds

Next ==
    \/ Progress \/ Retry \/ StartNew
    \/ \E p \in 1..Cardinality(Things) : Turn(p)
    \/ \E text \in BOOLEAN : SetSearch(text)
    \/ \E op \in {"create", "update", "switch", "act", "remove"}, t \in Things : Send(op, t)
    \/ \E op \in {"create", "update", "remove"}, t \in Things : OthersChange(op, t)

\* Loads, changes and timers end.
Spec == Init /\ [][Next]_vars /\ WF_vars(Progress)

----------------------------------------------------------------------------
(* Properties. *)

\* A list's state has the shapes the code gives it.
ListsTypeOK ==
    /\ which \in Lists /\ things \in [Things -> {0, 1, Gone}]
    /\ spot.page \in Nat \ {0} /\ typing \subseteq BOOLEAN
    /\ \A t \in Rows : table.rows[t] \in {0, 1}
    /\ status \in {"loading", "reloading", "idle", "failed"}
    /\ IsResource => Cardinality(lookups) <= 1

ListAtRest == status \notin {"loading", "reloading"}

Settled == lookups = {} /\ jobs = {} /\ status = "idle"

\* Once nothing is under way, the rows and the page count are those the server has for the
\* page and search that are chosen - after any own changes, in whatever order they were
\* answered - unless somebody else changed something, an answer was lost, or the page
\* could not load again; the page that shows is not one a removal emptied; and the search
\* applied is the one in the box.
RowsAreTheServers ==
    /\ Settled /\ "rows" \notin excused => table = Answer(spot)
    /\ Settled /\ "empty" \notin excused => Rows # {} \/ spot.page = 1
    /\ typing = {} /\ "box" \notin excused => spot.query = box
=============================================================================
