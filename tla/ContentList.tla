---------------------------- MODULE ContentList ----------------------------
(***************************************************************************)
(* The list of a type's entries in the admin panel: what is listed          *)
(* (list-state.ts), its loads of two requests each (the page, then the      *)
(* published versions of its rows), the selection, the bulk actions that    *)
(* run over it (list-bulk.ts), and the notice that other admins changed     *)
(* something (list-live.ts).  Search, filters, sort and page size are one   *)
(* `filter` here: each of them starts over at the first page.               *)
(***************************************************************************)
EXTENDS Integers, FiniteSets

CONSTANTS ListLocales,     \* the locales of the type
          FirstLocale,     \* the one listed first: the default, or the last one chosen
          ListEntries,     \* the entries, numbered in the order of the list
          FirstLive,       \* those that are published at first
          PageSize,        \* `pageSize`
          BulkConcurrency, \* `BULK_CONCURRENCY`
          MaxListed        \* bound: loads, bulk actions and changes from elsewhere together

ListAssumption ==
    /\ FirstLocale \in ListLocales
    /\ FirstLive \subseteq ListEntries /\ ListEntries \subseteq Nat /\ IsFiniteSet(ListEntries)
    /\ PageSize \in Nat \ {0} /\ BulkConcurrency \in Nat \ {0} /\ MaxListed \in Nat

VARIABLES
    content,     \* the server: draft and published versions of each locale
    query,       \* what is listed: locale, filter and page
    documents,   \* `documents`: the rows, and the query they answer
    published,   \* `published`: which rows are live, and the rows it was asked for
    listing,     \* `loading`
    listError,   \* `error`
    listRequests,\* `requests`: the number of the latest load
    listLoads,   \* the loads under way
    selection,   \* `selection`
    confirming,  \* `confirming`: the action that asks first, or "none"
    bulk,        \* `progress`: the bulk action that runs, or NoBulk
    outdated,    \* `outdated` and `changedRows`
    listed       \* how much has happened, for the bound

vars == <<content, query, documents, published, listing, listError, listRequests,
          listLoads, selection, confirming, bulk, outdated, listed>>

serverAndBulk == <<content, confirming, bulk>>

NoBulk == [action |-> "none"]
Running == bulk # NoBulk

Actions == {"publish", "unpublish", "delete"}
Filters == {"none", "search"}
Queries == [locale : ListLocales, filter : Filters, page : Nat \ {0}]

Happen == listed < MaxListed /\ listed' = listed + 1

----------------------------------------------------------------------------
(* What the server answers. *)

Matching(q) == {e \in content.draft[q.locale] : q.filter = "none" \/ e # 1}
Rank(e, es) == Cardinality({f \in es : f <= e})

PageOf(q) ==
    LET es == Matching(q)
    IN  {e \in es : (q.page - 1) * PageSize < Rank(e, es) /\ Rank(e, es) <= q.page * PageSize}
PageCount(q) == (Cardinality(Matching(q)) + PageSize - 1) \div PageSize

----------------------------------------------------------------------------
(* What is listed.  Every change of it, and every reload, starts a load and  *)
(* an empty selection.                                                       *)

Listing(q, n) == [n |-> n, query |-> q, at |-> "page", rows |-> {}, pages |-> 1]

Lists(q) ==
    /\ query' = q
    /\ listRequests' = listRequests + 1
    /\ listLoads' = listLoads \union {Listing(q, listRequests + 1)}
    /\ listing' = TRUE /\ listError' = FALSE
    /\ selection' = {}

Init ==
    /\ content = [draft     |-> [l \in ListLocales |-> ListEntries],
                  published |-> [l \in ListLocales |-> FirstLive]]
    /\ query = [locale |-> FirstLocale, filter |-> "none", page |-> 1]
    /\ documents = [of |-> query, rows |-> {}, pages |-> 1]
    /\ published = [of |-> {}, live |-> {}]
    /\ listing = TRUE /\ listError = FALSE
    /\ listRequests = 1 /\ listLoads = {Listing(query, 1)}
    /\ selection = {} /\ confirming = "none" /\ bulk = NoBulk
    /\ outdated = [list |-> FALSE, rows |-> {}] /\ listed = 0

\* The dialog of a bulk action is modal.
Change(q) ==
    /\ confirming = "none" /\ Happen
    /\ Lists(q)
    /\ UNCHANGED <<serverAndBulk, documents, published, outdated>>

\* `setLocale` and the pagination wait for a bulk action; search and sort do not.
SetLocale(l) ==
    /\ l # query.locale /\ ~Running
    /\ Change([query EXCEPT !.locale = l, !.page = 1])
SetFilter(f)  == f # query.filter /\ Change([query EXCEPT !.filter = f, !.page = 1])
SetPage(p) ==
    /\ p # query.page /\ p <= documents.pages /\ ~Running
    /\ Change([query EXCEPT !.page = p])
Refresh == outdated.list /\ ~Running /\ Change(query)

----------------------------------------------------------------------------
(* `load`. *)

\* Mutant of OutdatedLoad: a load does not look whether it is the latest.
OutdatedLoadNever(ld) == FALSE

OutdatedLoad(ld) == ld.n # listRequests

\* The page arrives.  A page that emptied gives way to the last one.
PageArrives(ld) ==
    /\ ld \in listLoads /\ ld.at = "page"
    /\ LET last == PageCount(ld.query)
           rows == PageOf(ld.query)
       IN CASE OutdatedLoad(ld) ->
                 /\ listLoads' = listLoads \ {ld}
                 /\ UNCHANGED <<query, listRequests, listing, listError, selection>>
            [] ~OutdatedLoad(ld) /\ rows = {} /\ last < ld.query.page /\ ld.query.page > 1 ->
                 /\ query' = [query EXCEPT !.page = IF last > 1 THEN last ELSE 1]
                 /\ listRequests' = listRequests + 1
                 /\ listLoads' = (listLoads \ {ld}) \union {Listing(query', listRequests + 1)}
                 /\ listing' = TRUE /\ listError' = FALSE /\ selection' = {}
            [] OTHER ->
                 /\ listLoads' = (listLoads \ {ld}) \union
                                 {[ld EXCEPT !.at = "published", !.rows = rows, !.pages = last]}
                 /\ UNCHANGED <<query, listRequests, listing, listError, selection>>
    /\ UNCHANGED <<serverAndBulk, documents, published, outdated, listed>>

\* The published versions of its rows arrive: they are taken at once, the rows only if
\* no later load was started.
PublishedArrive(ld) ==
    /\ ld \in listLoads /\ ld.at = "published"
    /\ listLoads' = listLoads \ {ld}
    /\ published' = [of |-> ld.rows, live |-> content.published[ld.query.locale] \intersect ld.rows]
    /\ IF OutdatedLoad(ld) THEN UNCHANGED <<documents, listing, outdated>>
       ELSE /\ documents' = [of |-> ld.query, rows |-> ld.rows, pages |-> ld.pages]
            /\ outdated' = [list |-> FALSE, rows |-> {}]
            /\ listing' = FALSE
    /\ UNCHANGED <<serverAndBulk, query, listError, listRequests, selection, listed>>

\* The rows of the load before stay under the error.
LoadFails(ld) ==
    /\ ld \in listLoads
    /\ listLoads' = listLoads \ {ld}
    /\ IF OutdatedLoad(ld) THEN UNCHANGED <<listing, listError>>
       ELSE listing' = FALSE /\ listError' = TRUE
    /\ UNCHANGED <<serverAndBulk, query, documents, published, listRequests, selection,
                   outdated, listed>>

----------------------------------------------------------------------------
(* The selection and the bulk actions. *)

Shown == ~listing /\ confirming = "none" /\ ~Running

Select(d) ==
    /\ Shown /\ d \in documents.rows
    /\ selection' = IF d \in selection THEN selection \ {d} ELSE selection \union {d}
    /\ UNCHANGED <<serverAndBulk, query, documents, published, listing, listError,
                   listRequests, listLoads, outdated, listed>>

SelectPage ==
    /\ Shown /\ documents.rows # {}
    /\ selection' = IF documents.rows \subseteq selection THEN {} ELSE documents.rows
    /\ UNCHANGED <<serverAndBulk, query, documents, published, listing, listError,
                   listRequests, listLoads, outdated, listed>>

Selected == documents.rows \intersect selection
Targets(action) == IF action = "unpublish" THEN Selected \intersect published.live ELSE Selected

\* `run`, with the targets and the locale of this moment.
Run(action) ==
    bulk' = [action |-> action, locale |-> query.locale, sent |-> {}, done |-> {},
             targets |-> Targets(action)]

\* `request`: a deletion asks first, and so does any action on several entries.
Request(action) ==
    /\ confirming = "none" /\ ~Running /\ Targets(action) # {} /\ Happen
    /\ IF action = "delete" \/ Cardinality(Targets(action)) > 1
       THEN confirming' = action /\ UNCHANGED bulk
       ELSE Run(action) /\ UNCHANGED confirming
    /\ UNCHANGED <<content, query, documents, published, listing, listError, listRequests,
                   listLoads, selection, outdated>>

Answer(yes) ==
    /\ confirming # "none" /\ confirming' = "none"
    /\ IF yes /\ Targets(confirming) # {} /\ ~Running THEN Run(confirming) ELSE UNCHANGED bulk
    /\ UNCHANGED <<content, query, documents, published, listing, listError, listRequests,
                   listLoads, selection, outdated, listed>>

\* Mutant of HasWorker: one more than the limit.
HasWorkerMore == Cardinality(bulk.sent) <= BulkConcurrency

HasWorker == Cardinality(bulk.sent) < BulkConcurrency

\* `runLimited`: the next entry is sent when fewer than the limit are under way.
TaskStarts(d) ==
    /\ Running /\ d \in bulk.targets \ (bulk.sent \union bulk.done)
    /\ HasWorker
    /\ \A e \in bulk.targets \ (bulk.sent \union bulk.done) : d <= e
    /\ bulk' = [bulk EXCEPT !.sent = @ \union {d}]
    /\ UNCHANGED <<content, query, documents, published, listing, listError, listRequests,
                   listLoads, selection, confirming, outdated, listed>>

Applied(c, action, d, l) ==
    CASE action = "delete" -> [c EXCEPT !.draft[l] = @ \ {d}, !.published[l] = @ \ {d}]
      [] action = "publish" -> [c EXCEPT !.published[l] = @ \union {d}]
      [] action = "unpublish" -> [c EXCEPT !.published[l] = @ \ {d}]

\* It settles: done, or refused (or there is no such version any more).
TaskSettles(d) ==
    /\ Running /\ d \in bulk.sent
    /\ bulk' = [bulk EXCEPT !.sent = @ \ {d}, !.done = @ \union {d}]
    /\ \/ /\ d \in content.draft[bulk.locale]
          /\ content' = Applied(content, bulk.action, d, bulk.locale)
       \/ UNCHANGED content
    /\ UNCHANGED <<query, documents, published, listing, listError, listRequests, listLoads,
                   selection, confirming, outdated, listed>>

\* The selection is gone and the page is loaded again, whatever failed.
BulkEnds ==
    /\ Running /\ bulk.done = bulk.targets
    /\ bulk' = NoBulk
    /\ Lists(query)
    /\ UNCHANGED <<content, documents, published, confirming, outdated, listed>>

----------------------------------------------------------------------------
(* Others. *)

\* `listChange`: a row, or the list, or none of its business.
Concerns(e, l, deleted) == deleted \/ l = query.locale

\* Another admin creates, publishes or deletes an entry; events while the list loads or
\* a bulk action runs are not looked at.
OthersChange(e, l) ==
    /\ Happen
    /\ \E action \in {"publish", "delete", "create"} :
         /\ (action = "create") = (e \notin content.draft[l])
         /\ content' = IF action = "create"
                       THEN [content EXCEPT !.draft[l] = @ \union {e}]
                       ELSE Applied(content, action, e, l)
         /\ outdated' = IF Running \/ listing \/ ~Concerns(e, l, action = "delete") THEN outdated
                        ELSE [list |-> TRUE,
                              rows |-> outdated.rows \union ({e} \intersect documents.rows)]
    /\ UNCHANGED <<query, documents, published, listing, listError, listRequests, listLoads,
                   selection, confirming, bulk>>

----------------------------------------------------------------------------
Progress ==
    \/ \E ld \in listLoads : PageArrives(ld) \/ PublishedArrive(ld) \/ LoadFails(ld)
    \/ \E d \in ListEntries : TaskStarts(d) \/ TaskSettles(d)
    \/ BulkEnds

Next ==
    \/ Progress
    \/ \E l \in ListLocales : SetLocale(l) \/ \E e \in ListEntries : OthersChange(e, l)
    \/ \E f \in Filters : SetFilter(f)
    \/ \E p \in 1 .. Cardinality(ListEntries) : SetPage(p)
    \/ Refresh \/ SelectPage
    \/ \E d \in ListEntries : Select(d)
    \/ \E action \in Actions : Request(action)
    \/ \E yes \in BOOLEAN : Answer(yes)

\* Requests are answered or fail.
Spec == Init /\ [][Next]_vars /\ WF_vars(Progress)

----------------------------------------------------------------------------
(* Properties. *)

\* The list's state has the shapes the code gives it.
TypeOK ==
    /\ query \in Queries /\ documents.of \in Queries
    /\ documents.rows \subseteq ListEntries /\ published.live \subseteq ListEntries
    /\ selection \subseteq ListEntries
    /\ \A ld \in listLoads : ld.n \in 1 .. listRequests
    /\ Running => bulk.sent \subseteq bulk.targets /\ Cardinality(bulk.sent) <= BulkConcurrency

\* The rows one can act on are those of what is listed now, in whatever order the loads
\* were answered; after a failed load the page says so.
RowsAreOfTheQuery == ~listing /\ ~listError => documents.of = query

\* The list shows its rows or an error, and no bulk action runs.
ListAtRest == ~listing /\ ~Running
=============================================================================
