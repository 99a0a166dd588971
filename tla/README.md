# Verdin in TLA+

A verification development of [Verdin](../src/README.md), a headless CMS with a server in Rust and an admin panel in Angular: TLA+ modules of its core,
TLC configurations that check them on small instances, and proofs, checked by TLAPS, for every value of their constants.

1. [The system](#1-the-system): inventory
2. [The modules and the code](#2-the-modules-and-the-code)
3. [What is checked](#3-what-is-checked): runs, bounds, fairness
4. [Where the code and its documentation disagree](#4-where-the-code-and-its-documentation-disagree)
5. [What is proved](#5-what-is-proved)
6. [What is not covered](#6-what-is-not-covered)
7. [Plan](#7-plan)

`PROJECT.json` holds the same as data: the components, the runs, what lines every definition stands for, a broken variant of the code for every property, the hazards and the theorems.

## 1. The system

Verdin serves the content types of a project over REST and GraphQL from one database (SQLite, PostgreSQL or MySQL).
The server is one process with tasks of its own (webhook worker, release worker, event bus, search writer, digest);
several instances may share a PostgreSQL or MySQL database, and coordinate by nothing else than that database.
The admin panel is a single-page application: a page holds what it loaded in signals, sends requests whose answers come in any order,
and hears of other admins' changes by one event stream.

**The server** (`src/crates`)

| Component | State | Operations | Interacts with | Hard about it | What makes it correct |
|---|---|---|---|---|---|
| **Document Service** (`verdin-content/service.rs`) | a row per document, locale and state (draft, published); link tables | create, update, delete, publish, unpublish, discard | hooks before, listeners after the commit; locales; releases call it | one write touches many rows: the siblings in other locales, the published versions, the documents targets are taken from | a published version has its draft and its required values; shared attributes agree; no link without a document; a to-one target has one owner; readers see only what was published |
| **Locales** (`locales_admin.rs`) | `vd_locales`, the default one | add, remove, set default | deletes the rows of the Document Service | removal bypasses the Document Service | no document's links break |
| **Webhooks** (`webhooks.rs`) | `vd_webhooks`, the delivery queue and log; per instance a cache of the webhooks and a worker | enqueue, read due, claim, send, record, maintain, redeliver, test | listens to the Document Service, releases, upload, review; one queue, many instances | claims, retries, a crash between claim and record, rows changed between two statements | one sender at a time, no early giving up, every delivery ends |
| **Admin sessions** (`verdin-auth/service.rs`, `account.rs`) | `vd_sessions` (families of rotating tokens), `vd_admin_users` | sign in, refresh, sign out, change password, deactivate, prune | account links, SSO, two-factor end in a session | concurrent refreshes, reuse of old tokens, isolation levels, revocation in a second statement | one working token per family; what was ended stays ended |
| **Second factors** (`two_factor.rs`, `passkeys.rs`, `two_factor_admin.rs`) | a secret, its last step, recovery codes, passkeys | enrol, confirm, sign in, remove, new codes, reset | the second half of a sign-in; roles may require one | checks and writes in separate statements | a code works once; what was shown last works; the last factor stays where one is required |
| **Event bus** (`cluster.rs`) | `vd_cluster_events`; per instance a queue and a reader's cursor | publish, insert, commit, read, prune | feeds caches, presence, settings of the other instances | ids become visible out of order; gaps, full queue, failed statements, restarts | no event is skipped in silence, none comes twice or out of its sender's order |
| **Releases** (`releases.rs`, `releases_admin.rs`) | `vd_releases`, `vd_release_actions`; per instance a mutex and a worker | create, reschedule, delete, add and remove actions, run | calls the Document Service per action; raises a webhook event | two workers and an admin at once, a crash half way, checks in an earlier statement | each release runs once, tells the truth about its actions, is announced afterwards |
| **Presence and realtime** (`realtime.rs`) | who views and edits what, per instance; the listeners of the stream | join, heartbeat, leave, subscribe | event bus, browser streams | expiry without an event, announcements outside the lock | everybody ends up seeing who is there |
| **Deploy triggers** (`deploy.rs`) | targets, their deployments | start, report, list | providers' callbacks | reports late or never | the panel's row comes to what the provider reported |
| Search index (`verdin-search`, `content/search.rs`) | a Tantivy index per instance, a queue of jobs, a generation | index on write, rebuild, query | listener of the Document Service | text read after the commit and queued later; a rebuild next to writers; a crash before the index commit | the index ends up with what the database holds |
| Read cache (`cache.rs`), rate limiter (`limiter.rs`), CDN purging (`cdn.rs`) | per-instance maps | fill, clear, count, purge after a delay | cleared by the Document Service and the event bus | a fill that began before a clear; keys taken and lost in a crash | a write is seen by every read that starts after it |
| Accounts, roles, one-time links (`verdin-auth`) | admin users, roles, tokens | invite, reset, demote | sessions | checks and writes in separate statements | one active Super Admin at least |
| Review, comments, digest, engagement | stages, tasks, votes | move, assign, vote, send | publish gate of the Document Service | lost updates, double votes, double sends | the gate sees the stage that is stored |
| Media library (`verdin-upload`) | files, folder tree, stored bytes | upload, replace, move, delete | content references files | checks outside the transaction, bytes and row in two systems | the folders stay a tree, and paths true |
| Migrations (`verdin-migrate`) | schema snapshot, journal of steps | plan, apply, resume | runs before the server starts | a crash between DDL and journal; two instances starting | a resumed plan ends where an uninterrupted one does |
| The rest: import, transfer, history, SSO, end users, plugins, AI and MCP, site features, audit, query compiler, schema, GraphQL, OpenAPI, e-mail, CLI | see `PROJECT.json` | | | | |

**The admin panel** (`src/admin/src/app`)

| Component | State | Operations | Hard about it | What makes it correct |
|---|---|---|---|---|
| **Session in the browser** (`core/auth.ts`) | an access token per tab, one cookie | sign in and out, refresh, retry after a 401 | tabs and callers that refresh at once; lost answers | no used token is presented; a sign-in lives until somebody ends it |
| **Event stream, comments and tasks** (`core/realtime.ts`, `content/collab`) | users of the stream, its loop; what is shown of an entry | retain, release, reopen; refresh, change | a loop that ends while it is retained; answers out of order | the stream runs while it is needed; what is shown never goes back |
| **Presence** (`core/presence.ts`) | who else is there | heartbeat, leave | tabs that die, gaps, announcements that change places | it settles on who is there |
| **Entry editor** (`content/edit.ts`, `editor/`) | the route's entry, the form, its baseline, notices | load, edit, translate, save, publish, unpublish, discard, delete, leave | a save answered after the form has changed; others' changes | the form is of the URL; edits go with a question; changes it can hear of are announced |
| **Content list** (`content/list*.ts`) | query, rows, published flags, selection | load, page, select, bulk actions | loads that overtake each other, bulk actions half done | rows of the query that is chosen |
| **Import dialog** (`content/list-import.ts`) | file, mapping, dry run | pick, map, check, import | a check that ends after another file was picked | what is imported was checked |
| **Content-type builder** (`builder/`) | schema, draft, plan | draft, plan, apply, remove | a plan on the screen that is of an older draft | edits go with a question |
| **Edit pages of settings** (`settings/*-edit.ts`) | a thing held in plain signals | load, edit, save, delete, navigate | the page turns to another id during a save | an update goes to what was edited |
| **Tree of a menu** (`core/menu-tree.ts`) | lists of children, the selection | add, remove, indent, drag | a drop computed from rows that are gone | a move moves one subtree |
| **Roles page** (`settings/roles.ts`) | permissions of a role, dialogs | matrix, limits, convert, save | wildcards against lists of types | converting grants nothing new |
| **Media library page** (`media/`) | listing, selection, dialogs, uploads | list, select, delete, move, save, upload | what a deletion takes is read again when it is confirmed | a listing at rest is the shelf; nothing selected goes whose usage was not shown |
| **Lists of settings and releases** (`core/paging.ts`, `settings/*.ts`) | rows of a page, search box | load, turn, search, change, remove | answers of loads and of changes in any order | rows are the server's |
| **Deployments** (`core/deploy.ts`, `settings/deployments.ts`) | the last deployment, watched targets | start, poll | polls that cross a start | a deployment in progress is followed |
| Dashboard, features, accounts, field widgets, client packages | see `PROJECT.json` | | | |

The hazards, each at the line where it bites and with the properties aimed at it, are in `PROJECT.json`. Of the parts that
have no module yet, four are the most pressing: search texts read after the commit and queued in another order (`verdin-search/src/lib.rs:398`; a rebuild, `:214`, does the same, and a schema that changes back during one finds the index marked as its own, `:156`);
a cache fill that outlives a clear (`cache.rs:220`); the last-Super-Admin check under READ COMMITTED (`verdin-auth/service.rs:1553`); and folder moves checked outside
their transaction (`verdin-upload/service.rs:808`). Behind them wait the heartbeats of other instances (`realtime.rs:203`), `update_entry` of the review workflow, which writes back the stage it read (`review.rs:510`),
single-choice polls (`engagement.rs:652`) and deploy throttling (`deploy.rs:375`), both check-then-insert, and a MySQL migration stopped between DDL and journal (`apply.rs:205`).

## 2. The modules and the code

```
 Server      Documents     Webhooks     Sessions --refines--> RefreshFamily      Releases     TwoFactor     ClusterBus --refines--> EventFeed
 run by      MCDocuments   MCWebhooks   MCSessions                               MCReleases   MCTwoFactor   MCClusterBus

 Panel       EntryCollab (EXTENDS Realtime) --refines--> LiveView          MediaLibrary
 run by      MCEntryCollab                                                 itself

             AdminPanel  =  EntryEditor | ContentList | ContentImport | AuthTabs | Builder | SettingsForms
 run by      MCAdminPanel   | RolesPage | Presence | MenuTree | PagedLists | Deployments

 Proofs      DocumentsProofs  WebhooksProofs  AdminAuthProofs (Sessions, TwoFactor)  ReleasesProofs  ClusterBusProofs
             PanelProofs (AdminPanel)  PanelPartsProofs (AdminPanel, EntryCollab, MediaLibrary)  MenuTreeProofs (MenuTree)
```

Some conventions hold everywhere. On the server a transaction that runs alone (`BEGIN IMMEDIATE`, or a single statement) is one action; where the
code sends several statements outside a transaction each is an action, and the other processes run in between. A local variable
that lives across two statements is state: `worker`, `admin`, `req`, `run`, `request`, `due`, `batch`, `running`. In the panel an action is what runs between two `await`s or callbacks:
a request is sent in one step, reaches the server in another and is answered, or fails, in a third, and what the code keeps in a closure or a local variable is kept with the request (`calls`, `loading`, `lookups`, `jobs`, `saves`).
A `{}`-or-`{x}` set stands for an `Option`. Every bound is a constant named `Max...` (or `Filled`, `Serving`), used only in guards; in the panel it counts what the admin, others and failures begin, so answers are never cut off by it.
Definitions called a mutant or variant in their comment are broken versions of the one after them; no specification uses them.
The names of EntryCollab and MediaLibrary are set apart from those of AdminPanel (`collabEntry` for `entry`, `MediaSpec`), and those of MenuTree too (`MenuSpec`), so that one module can speak of all of them,
and those of TwoFactor from those of Sessions (`FactorsSpec`, `FactorRequests`).
Variables that no guard reads and that only remember what happened for a property say so (`outcome`, `taken`, `used`, `raced`, `disturbed`, `excused`, `slipped`, `doubt`).

### The server

**Documents** (`service.rs`, `morph.rs`, `input.rs`, `locales_admin.rs`). `rows[state][doc][locale]` is the table of one content type. A row has one attribute of each
kind the code treats differently: a localized column, a shared column, a shared owning relation, a shared polymorphic relation.
`Write` is `write_columns` with `write_relations` and `write_morphs`, `Steal` is `steal_targets`, `Publication` is `publish_in` with `share_published`,
`Unlinked` is the clean-up of `delete`, `Finish` the end of `create` and `update` (required values and rules, publication when asked).
The kind of relation and the draft & publish option are constants; requests come from `OwnInputs`, `SharedInputs`, `RelationOps` and `MorphSets`.
It is the Document Service as SQLite runs it, one transaction at a time.

**Webhooks** (`webhooks.rs`, `webhooks_admin.rs`). `Load`/`Loaded` fill an instance's cache in two steps; `Enqueue` and `InsertDelivery` queue an event;
`ReadDue`, `Claim`, `Send`, `Record` are `deliver_due`; `Maintain` is `maintain`; `Redeliver`, `Trigger`, `RecordManual` the log's buttons;
`AbandonBatch` a statement that fails, `Crash` a process that stops. Time is what the code compares: due or not, over a minute old or not, past the retention or not.

**Sessions** (`service.rs`, `account.rs`, `admin.rs`). `tokens` is `vd_sessions`, `req` what each concurrent request is at. The database is a variable that never
changes: on SQLite `MayWrite` is the one write lock; on PostgreSQL an UPDATE picks the rows it sees (`RevokeStart`), waits for locked ones and writes (`RevokeFinish`).
**RefreshFamily** is what a sign-in promises: a chain of tokens of which at most the last one works, until it is ended. The mapping numbers a family's tokens as they are issued.

**TwoFactor** (`two_factor.rs`, `passkeys.rs`, `two_factor_admin.rs`). `row` is the admin's row, `running` what each concurrent request has read. `PresentCode`/`SpendCode` and `PresentRecovery`/`SpendRecovery` are the second half of a sign-in:
the check of a code that was read, then the statement that spends it if it is still new. `Setup`, `Enable`, `Disable`, `Regenerate`, `AddPasskey`, `RemovePasskey` are the changes, each split where the code goes to the database again;
`Reset` is another admin's, `Tick` the clock of the codes. A code is its secret and its step.

**EventFeed** is the abstract specification: what a consumer of the bus (trait `Backend`) may rely on. **ClusterBus** (`cluster.rs`) is the one on the database:
`Publish`, `Insert`, `Commit`, `InsertFails` on the sending side; `Read` is one turn of the loop in `read`, with `Reader::accept` and `Reader::advance`; `GraceEnds`, `ReadFails`,
`Prune`, `Restart`. The refinement mapping is the identity on `said` and `heard`; everything else is the implementation's own.

**Releases** (`releases.rs`, `releases_admin.rs`). `Check...` is `pending()`, the statement before the one that changes anything, so `request` holds a request between
the two. `Claim`, `TakeActions`, `Perform`, `Record`, `Finish`, `Announce` are the statements of `run`; `FindDue` and `RunDue` those of `run_due`; `RunFails` is any `?`
among them. What an action does to its document is Documents' business: here it succeeds or fails.

### The admin panel

**Realtime** (`core/realtime.ts`) is the stream alone: who holds it, the loop (`connecting`, `open`, `waiting`, aborted or not), and what is said while it is open; its actions take what a listener does with a message as a conjunct.
**EntryCollab** (`collab/entry-collab.ts`, `core/comments.ts`) extends it with a component that listens: `Refresh` numbers the loads, `Load` asks for each kind with its own request, `Loaded` applies the answer if no later one was started;
`Changed`, `Answered` are the admin's own changes. **LiveView** is what such a component promises: it shows the thing it is about, or nothing yet, and never an older state of it.

**AdminPanel** (`app.routes.ts`) composes the pages. The router shows one at a time and destroys what it leaves, so `page` picks one and a step is one of that page; its properties are those of the pages, each where the page is open.

* **EntryEditor** (`content/edit.ts`, `editor/document-form.ts`, `entry-loader.ts`, `entry-toolbar.ts`, `confirm.ts`). `StartLoad` to `LoadShown` are the loader with its request number; `form` is the form component, born with a load and destroyed by the next;
  `Send`, `Serve` and `Answer...` a save, publication, translation, copy or deletion; `Ask`, `Accept`, `Decline` the modal question; `Heard` is the handler of events, `Missed` a gap of the stream or a message that `isOwn` takes for the echo of this tab's writes.
  `LeavePage` and `SwitchLocale` ask before edits go; `FollowLink` is a link with another `?locale=`, or the browser's way back over a switch of the locale: the routes set `canDeactivate` alone, which the router does not run again when only the query changes, so nobody asks.
  A discard is two requests, and what the second has read (`ReadDiscarded`) is shown when it is answered (`AnswerDiscard`), whatever happened between. `Written` is a write with its shared fields: they go to the entry's other locales too, while the event names one.
* **ContentList** (`content/list-state.ts`, `list-bulk.ts`, `list-live.ts`). A load is two requests (rows, then published flags); `Run`, `TaskStarts`, `TaskSettles`, `BulkEnds` the pool of bulk requests; `OthersChange` with `Refresh` the notice.
* **ContentImport** (`content/list-import.ts`), **Builder** (`builder-store.ts`), **SettingsForms** (`webhook-edit.ts`, `form-edit.ts`, `menu-edit.ts`, `review-workflow-edit.ts`; `kind` tells the four apart), **RolesPage** (`settings/roles.ts`, `role-locales.ts`):
  one action per handler, request and answer.
* **AuthTabs** (`core/auth.ts` with its interceptor). Tabs of one browser share the cookie; `RefreshIn` joins a refresh that is under way in the same tab. The server is the promise of RefreshFamily.
* **Presence** (`core/presence.ts` and `realtime.rs` together). `Beat`, `Serve`, `Answer`: a heartbeat, what the server does with it, and its answer; `Announce`/`Deliver` the announcement, which may overtake another; `Tick` the clock.
  A heartbeat that is answered by a 404 turns presence off for the entry; this is left out, as it comes from an instance without realtime, or for a content type that is gone.
* **PagedLists** (`core/paging.ts` and eleven lists: users, tokens, webhooks, menus, forms, redirects, end users, audit logs, submissions, deliveries, releases). A list is a record of how it differs: by an Angular resource or by hand, searched or not, what is done to a row,
  whether an answer patches the row or loads the list again. `Load` and `Ask` are the resource's rules (a load of other parameters replaces the one under way, a reload is refused while such a load runs).
* **Deployments** (`core/deploy.ts`, `settings/deployments.ts`, `deploy-button.ts`, `deploy.rs`). `builds` is the server's list of a target's deployments, `row` what the panel shows of the last one, `entry` what the poller watches; `Watch`, `Tick`, `PollEnds`, `Unwatch` are the poller's; `late` is a watch that has run for half an hour.

**MediaLibrary** (`media/library.ts`, `media-listing.ts`, `file-sheet.ts`, `folder-dialog.ts`) has a run and proofs of its own. `LoadListing`, `ServerReads`, `Arrives` are a listing with its number and its selection; `RequestBulkDelete`, `DeleteSelected`, `BatchSettles`, `BatchEnds` a bulk deletion,
`MoveFiles` one of moving; `OpenSheet`, `SheetSends`, `SheetServed`, `SheetSettles` the sheet of a file, whose save, replacement and deletion may each be under way, and may be done by the server without the sheet hearing of it (`SheetFails`); `Upload`, `UploadEnds` an upload.

**MenuTree** (`core/menu-tree.ts`, `menu-edit.ts`) is the page of a menu between its load and its save; AdminPanel extends it, so that its theorems hold for the panel as they stand. `children` maps an item, and the menu itself, to its list; `AddNode`, `RemoveNode`, `MoveNode`, `Indent`, `Outdent` and `MoveRow` are the functions of the same name, which change these lists, and `MoveRow` is where
a row lands when it is dragged from one row to another. The code walks the tree by recursion; the module says what a walk finds, without one: `Below`, the nodes under a node, is the least set closed under children; `Depth` counts the nodes an item is under; `Order` is the order in which `flatten` meets the items, and the number of a row counts those before it.
`Init` is any menu the server may hold, read from its list of rows with their depths as `fromItems` does.

## 3. What is checked

| Run | Distinct states | Question |
|---|---|---|
| `documents_columns` | 15,672 | two locales, columns with NULLs, every write and publication: drafts under publications, required values, who may split shared attributes, what readers see |
| `documents_links` | 11,644 | two documents, a oneToOne relation: dangling links, agreement of published versions, one owner per target |
| `webhooks_queue` | 195,497 | two instances, a crash, a redelivery, a change of a webhook: claims, retries, final states, every delivery ends |
| `sessions` | 214,684 | two concurrent requests on SQLite and PostgreSQL: one working token, families are chains (refinement of RefreshFamily), what was ended stays ended (SQLite), no request waits for ever |
| `two_factor` | 2,478,216 | two concurrent requests of one admin: a code signs in once, what was shown last works, the last factor stays |
| `cluster` | 106,716 | two instances, queue and batch of one, two failures, one pruned row: nothing skipped in silence, refinement of EventFeed, everything is read |
| `releases` | 731,103 | two releases, one of them with actions, two instances, one upset of any kind: once, truthful, announced afterwards, due releases run |
| `admin_panel` | 279,574 | every page: shows and sends what was asked for, asks before edits go (but for links to another locale), announces the others' changes it can hear of, keeps the sign-in, settles on who is present, gives its buttons back; a move in a menu takes one subtree to where it was dropped |
| `entry_collab` | 91,052 | two entries, a stream that closes, lags and is held by two components: nothing shown goes back (refinement of LiveView), the stream runs while it is needed |
| `media_library` | 461,276 | listings, selections, dialogs, sheets and uploads in any order, with answers that are lost: a listing at rest is the server's, unless a sheet's answer was lost; a deletion of several files takes none whose usage was not shown |

and two runs that show a disagreement, section 4. Each property has a mutant (`PROJECT.json`): a definition changed the way a slip in the code would change it, which TLC must catch
with the run's own configuration. Of the panel's states presence has 55,219, the entry editor 53,013, the session 47,818, the roles page 34,210, the lists 31,292, the settings 23,002, the deployments 11,495, the content list 8,833,
the builder 8,416, the import 5,053 and the menu 1,223.

**Bounds and why they are enough.**
*Documents*: two locales are what sharing needs, two values and NULL tell kept from copied from missing; the link run uses two documents as owners and as targets of each other, which is what stealing needs.
*Webhooks*: the races are between two instances; one retry gives a first and a last attempt; one event, one manual action, one change and one failure can fall anywhere between the statements.
*Sessions*: two requests, three tokens (a sign-in and two rotations), one password change or deactivation, one crash, one expiry.
*TwoFactor*: two requests, two passkeys (one stays when one is removed), lists of two recovery codes, four changes: enrol, confirm, and two more that may replace or remove what they set up. Requests and passkeys are symmetric, and the run has no liveness property.
*ClusterBus*: a queue and a batch of one make *full* ordinary; three events from two instances give a gap with a row behind it; two failures a gap next to a failed read or a restart.
*Releases*: a second release without actions shows what a stuck one does to the others; requests reach one instance, the worker of the other competes with it; one rescheduling, deletion, switch, failure or crash at any point.
*Panel*: races here are between two requests, or a request and a change from elsewhere, so each page has two of whatever it distinguishes (locales, tabs, files, ids, roles, admins, things) and two to five beginnings. Three entries with pages of two, two things with pages of one, give a last page that empties;
two sign-ins an older and a newer cookie. In the entry editor two contents are written after the first: what the admin typed and what somebody else saved, or what was typed before and during a save.
*MenuTree*: four items at two levels are two items with one under each, so that a subtree is dragged where it does not fit, next to one that does; with three levels the same takes five items, and the trees become too many. The theorems are for all limits.
*EntryCollab*, *MediaLibrary*: three beginnings each (for instance a navigation, a change and an answer that comes last).
The theorems of section 5 need none of these bounds.

**Fairness.** *Webhooks*: a worker's loop, the cache fill, the inserts of an event and an admin's request go on (weak); a delay passes; `maintain` runs again. Nothing is asked of crashes, of the admin or of events. `EveryDeliveryEnds` excuses the time when the feature is off everywhere.
*Sessions*: requests go on (weak), and the waiting UPDATE gets the row (strong), because a lock goes to the statement that has waited longest.
*ClusterBus*: the sending task, its statements, the readers and the clock go on. *Releases*: the worker looks every 30 s, what runs goes on.
*AdminPanel*: a request that was sent is served and answered or fails, and a timer that was set fires (weak, on each page's `Progress`); nothing is asked of the admin, so `PagesComeBack` says that a page is at rest again and again without help. Fairness is stated per page: with one condition for the whole panel a page could wait for another's.
*TwoFactor* and *MediaLibrary* state no fairness, and *EntryCollab* uses none of it in its properties. `documents_*` have safety properties only: a request may always be the last one.

`CHECK_DEADLOCK FALSE` is set in every run but `documents_*`, `cluster` and `cluster_backlog`: once the bounds are used up and everything is done the bounded model stops, as an idle server or an idle page does.

## 4. Where the code and its documentation disagree

Each is a run with one property that TLC must violate; the quotations are in `PROJECT.json`.

* `sessions_postgres`: a sign-out that races a refresh on PostgreSQL misses the successor token, and the session lives on.
* `cluster_backlog`: a read that fails after its first batch drops what it had read while the cursor has moved.

Other behaviour a reader might not expect is part of the models, and left out of a property by name where it would break it:

* *Documents*: discarding a draft in one locale leaves a shared field with two values (`OnlyDiscardSplitsShared` says that nothing else does); publishing carries shared columns and relations to the other locales, but not polymorphic relations.
* *Webhooks*: a webhook that is switched off goes on being served by the instances that have it cached. *Releases*: a release that is put off after the worker listed it is run nevertheless.
* *TwoFactor*: of two removals at once each sees the other's factor, and both go, although `guides/auth/two-factor.mdx:98` says that the last one stays; a set-up that overlaps a confirmation replaces the secret that is confirmed.
* *EntryEditor*: what is copied from another locale, kept from a translation or typed during a save is no unsaved change for the form, and goes without a question. A link to another locale, or the browser's way back over a switch of the locale, drops a dirty form without a question (`app.routes.ts:72`), although `CHANGELOG.md:168` says that leaving asks first, also on locale switches.
  An event that arrives while a save, discard or load is under way leaves no notice. Nor does a change of shared fields that another locale's update makes in this one (`service.rs:897`): `document-form.ts:619` says that the other changes concern one locale only, and the editor hears only of its own.
  For five seconds after a write of this tab, changes of the entry by the same admin's other tab, or by nobody in particular, count as the tab's own (`realtime.ts:212`).
* *Builder*: a removal that was planned for one type and is applied when another is open removes that one; edits made while a plan is applied count as saved.
* *ContentImport*: a check, or the reading of a file, that ends after another file was picked passes for the new one. *RolesPage*: converting a wildcard drops its limit to fields.
* *AuthTabs*: two tabs that refresh at once, or an answer that is lost, do end the sign-in.
* *EntryCollab*: a refresh of one kind during the first load leaves the other kind unloaded.
* *MediaLibrary*: the listing does not step back when its last page empties; a sheet's late answer opens the earlier file again; a file saved into a folder that was opened before the answer is not shown; and a save or a deletion of the sheet that the server has done, but whose answer is lost, is reported as failed, with nothing loaded again (`file-sheet.ts:469`): the listing shows a file that is gone or elsewhere.
* *PagedLists*: a reload is refused while another page loads, so a change answered then does not show; two removals in quick succession can leave an empty last page; a reload that fails once rows are there says nothing; in the lists that load by hand an older answer may come last.
* *Deployments*: a poll that was sent before a deployment started and answers after it makes the row fall back to the earlier one, and the new one is not followed; a provider's late report goes to the last deployment, and may reopen it.

## 5. What is proved

**DocumentsProofs** (for all documents, locales, values, request data and kinds of relation). The inductive invariant is `TypeOK /\ RowsOK(rows, Existing(rows) \cup lost) /\ RequiredIn(rows)`; its parts
are stated for an arbitrary value `R` of the rows rather than for the variable, because a write followed by a publication in the same transaction passes through
a value that is never stored, and the second half needs the invariant of that one. The lemmas first say what a single row is after each transformer (`Put`, `Steal`, `Write`, `Publication`, `Unlinked`), then that each keeps the parts, then that each action does.
Theorems: `TypeCorrect`, `LinkedDocumentsExist`, `TargetsHaveOneOwner`, `DraftsStay`, `PublicationsAgree`, `PublicationsAreRequired`, `OnlyDiscardingSplits`, `ReadersOnlySeePublications`. They rest on `ConstantsAssumption` only.

**ReleasesProofs** (any number of instances, releases, entries, and no bound on actions or upsets). `RunsOnce` is not inductive: that no action is performed twice depends on who owns an action's id.
`Inv` adds that an unclaimed release has taken nothing (`Fresh`), that ids are never shared between releases (`Owned`), and for every run how the ids it has left relate to what it took and what came of them (`Standing`, `Untaken`, `Underway`).
Each action has a lemma `...Keeps`; what several actions have in common is shared through `QuietKeeps`, `GivenUpKeeps`, `PendingRowKeeps` and `ClaimKeeps`. Theorems: `TypeCorrect`, `RunOnce`, `EndTruthfully`, `AnnouncedAfterEnd`. They rest on `ReleasesAssumption`.

**AdminAuthProofs**, first Sessions (any number of users, requests and tokens, both databases). A family never has two working tokens because the request that rotates one holds its row:
until it commits nobody else takes the row and no revocation or expiry touches it, so the token it uses up is the one that works. `Inv` states this in parts: `Rotating` (a family is of one user,
has one working token, and used-up tokens have a later one), `Knows` (what a request knows of its token, and that its UPDATE looks for every token of the families it is to end), `Held` (a row has one holder) and, for SQLite only,
`Queued` (one open transaction, whose UPDATE still picks what it should). On PostgreSQL `Queued` is false, which is the disagreement the run `sessions_postgres` shows.
`FamiliesAreChains` is a refinement: each family implements RefreshFamily, whose working token is the last of the chain or none. Theorems: `TypeCorrect`, `OneTokenLives`, `EndedForGood`, `FamiliesAreChains`. They rest on no assumption about the constants.

Then TwoFactor (any number of requests, passkeys, codes and changes). A code finishes one sign-in because the statement that spends it compares again: `UsedOK` counts sign-ins by the codes they used and says that a used code of the present enrolment is not newer than the stored step, and a used recovery code not in the list.
`ChangeOK` holds while no two changes overlap: what a running change has read (`ReadOK`) is still so when it writes, the enabled secret is the confirmed one, and the recovery codes are those shown last without the used ones (`CodesOK`). Theorems: `FactorsTypeCorrect`, `CodesWorkOnce`, `FactorsKeepWorking`, `LastFactorIsKept`. They rest on no assumption about the constants.

**WebhooksProofs** (any number of instances, webhooks, deliveries and retries). That a delivery has one sender is not inductive: a claim succeeds on whatever is pending, so `InHand` says that what is held is not
pending (and, until an admin sends a delivery again, still `sending`), and `Issued` that nobody knows an id before it is given out. `Counted` says that the attempts remembered by a waiting row, a batch and a sender are requests that were made,
which is why a stale batch cannot use up retries. Theorems: `TypeCorrect`, `SentByOne`, `RetriesUsedUp`, `FinishedIsFinal`. They rest on `ConstantsAssumption` (the retries are a number).

**ClusterBusProofs** (any number of instances, any size of queue and batch, no bound on failures). `Inv` is `TypeOK`, `Numbered` (an id is of one row, and a sender's rows have ids in the order of its events, whether committed or not), `Waiting` (what waits in a queue is later than all its instance has inserted), and for each reader
`ReaderOK` (cursor and seen set are ids that were given out and are visible), `Listening` (what it heard and holds is what others said, in each sender's order, and earlier than every row it has not read) and `AccountedFor`. A turn of the loop reads a batch: the proof needs that the batch is a *lower part* of the rows after the cursor, whatever its order of arrival, and that a finite
set of ids has a least and a greatest one (`Least`, `Greatest`, from the well-foundedness of finite sets). Theorems: `TypeCorrect`, `EveryRowIsAccounted`, `OnlyGapsAreGivenUp`, and `BusImplementsFeed`, the refinement of EventFeed. They rest on `BusAssumption`.

**PanelProofs** (any locales, contents, tabs, files, types, fields, roles, admins and lists; no bound on what happens). A step of AdminPanel is of one page and leaves the variables of the others alone (`Only`), so each page has an inductive invariant of its own, proved for the composed specification. What each invariant says, beyond the types:

* `EntryInv`: the load, call or question with the latest number is about the locale of the URL (`LatestIsOfTheRoute`), so an answer that is applied is; what differs from the server shows in the flags the route's guard asks (`EditsShow`); and what the form is based on is the server's draft, or a notice shows, or a message or an own answer is on its way, or the form is one of those the property leaves out (`ChangesAreTold`).
  The second part gives `EditsGoWithTheAdminsWord` only together with the step: of the actions that take a form away (`SwitchLocale`, `LeavePage` and `ReloadRemote` when they do not ask, `Accept`, `AnswerRemove`, `FollowLink`) each finds no flag set, has been answered to, is a deletion, or marks what it takes (`lost`). For the third, an answer that is shown is compared with the server and with the messages still to come (`Noted`), and a write to this locale or to a field it shares either keeps the base, is announced, or marks the form (`WrittenIs` says what a write leaves alone).
* `ListInv`: the latest load is of the query, what a bulk action has sent is a part of what it was started for and within its limit.
* `SessionInv`: of a sign-in that was just made its answer alone knows the token (`FreshSignIns`); of a calm one (no two tabs refresh at once, no answer is lost) the newest token works, is in the cookie or in the one refresh under way, and that refresh was sent it (`NewestTokens`).
* `ImportInv` and `SettingsInv`: a check that passed is of what would be sent unless something was replaced meanwhile; what a save would go to is the thing that shows (`ShownIsItsOwn`).
* `RolesInv`: permissions, wherever they are held, lie within the attributes and locales there are; the lemmas before it say what one conversion grants, type by type and field by field.
* `BuilderInv`: what shows is of the type of the route, and a draft that has not slipped was last saved as its baseline.
* `DeployInv`: who follows a target has a timer or a poll (`FollowedIsPolled`), what shows in progress is followed, and an answer that was not overtaken is how the last deployment stands or stood before it ended (`AnswersAreRecent`).
* `PresenceInv`: those who edit have distinct numbers, so exactly one of them is first and holds the lock.

Theorems: `ChangesAreSaid`, `EditsGoWithTheAdminsWord`, `WhatIsSentWasShown`, `SignInsLast`, `ConversionsStayWithin`. They rest on `PanelAssumption`, the assumptions of the pages' modules:
sizes, limits and bounds are numbers, the default locale and what exists at first are among what there is, the markers for "none" are no contents, and a type has attributes (a wildcard over a type without any has nothing to convert).

**PanelPartsProofs** (extends PanelProofs). The lists of the settings, in the same way:

* `PagedInv`: what a load has read, or the page shows, is what the server has but for rows whose switch is not answered, or a change that loads again is unanswered (`RowsComeRight`, `LoadsAreTrue`); the page that is chosen exists, or a removal that steps back is (`PagesComeRight`, with the pages counted by cardinalities); the search is that of the box once its timer is done (`SearchIsOfTheBox`).

With the invariants of PanelProofs this gives what is said of all pages at once: `WhatShowsWasAsked`, `PagesAreTyped`, the type invariant, and, with MenuTreeProofs, `MenuMovesAreSound`.

Then the two parts of the panel that run by themselves.

*EntryCollab* (any entries, kinds answered in any order, no bound on changes). `StreamOK` says that the stream's users are those who hold it, that it is not idle while it has any, and that what was missed once it was open is announced on the wire. `LoadsOK` that no two loads share a number, and that comments which the latest load has read are no newer than the server's and no older than those shown (`Bounded`).
Theorems: `CollabTypeCorrect`, `StreamStaysUp`, and `CommentsStayLive`, the refinement of LiveView. They rest on `CollabAssumption`.

*MediaLibrary* (any files, folders and size of a page). What a confirmed deletion sends is read from rows and selection at that moment; `LibraryInv` says that a selected file is listed, or cannot be listed again because it is deleted and in no answer still to be shown (`Kept`, with `Dropped`), that a deletion the sheet has not heard of yet is of a file that is gone (`DeletedAreGone`), and that while a confirmation is open what else is selected is what it is about (`Covered`); `Uploading` keeps what is uploaded apart from what is stored.
`ShelfInv` says that the latest load and what shows are of the place that is open, and that but for a batch under way, for a request of the sheet that has changed the shelf and is not answered (one that is not `Harmless`), and for what the page does not look at (`unsure`), both are the shelf: every other step that changes a file loads again in the same step, and so does the answer of such a request, or it sets `unsure`.
Theorems: `LibraryTypeCorrect`, `NothingElseIsDeleted`, `ListingIsTheShelf`. They rest on `MediaAssumption`.

**MenuTreeProofs** (any limits, any number of items). A tree that is changed by splices has no invariant to strengthen: `MenuTypeOK` is inductive, and the work is in what the walks find after a splice. Where one would do an induction over the tree, the proofs exhibit a closed set and use that `Below` is the least one. In order:

* What is under a node is known from above and from below (`BelowTop`, `BelowBottom`). In a tree nothing is under itself (`NoCycles`), and the nodes above an item are a chain (`Chain`), so depths count along one path.
* `Order` is a strict total order of the items (`BeforeAsymmetric`, `BeforeTransitive`, `BeforeTotal`), and a finite strict order numbers its elements through (`Ranks`, `RowsAreNumbered`).
* A move takes an item out of one list and puts it into one outside its subtree (`Reparents`). From that alone follow what is under every node afterwards (`MovedBelow`), the order of the rows among the moved and among the others (`MovedOrder`), and the depths, which for the moved ones all shift by the same (`MovedDepth`, `MovedFits`).
  `TakenIs`, `PutIs`, `PushIs` and `SwapIs` show that what the code does to the lists is such a move, and `IndentMoves`, `OutdentMoves`, `MoveNodeMoves` and `DropIs` that every operation is made of them; the limits the code tests are what `MovedFits` needs.
* A subtree's rows are consecutive (`RowWithin`), and an item that stands right between two others has the row their numbers say (`BetweenNeighbours`), so a dropped item takes the row of its target (`DropLands`).
* The rows a menu is loaded from give a tree (`StartIsTree`), and adding and removing keep one (`AddedTree`, `RemovedTree`).

Theorems: `MenuIsATree` and `MovesAreSound` of MenuTree alone; in PanelPartsProofs, which extends this module, `MenuMovesAreSound` says the second of the panel, and `PagesAreTyped` includes the first. They rest on `MenuAssumption`: the limits and the number of items are positive numbers.

The type invariants of Documents, Webhooks, Sessions, TwoFactor, ClusterBus, Releases, EntryCollab and MediaLibrary are proved rather than run.

Only model-checked:

* Every liveness property: `EveryDeliveryEnds`, `RequestsEnd`, `EverythingIsRead`, `DueAreRun`, `PagesComeBack`, `PresenceSettles`. Liveness under fairness and ENABLED are outside TLAPS' reach.
* The two disagreements of section 4, which are counterexamples.

## 6. What is not covered

The tables of section 1 name the parts without a module; `PROJECT.json` gives the reason for each. Most of the lines of this repository are in no module, and most of them are not the kind a state machine is for: the templates, styles, field widgets and formatting of the panel,
its generated translations and client code, request handlers that translate one format to another, and SQL generation. The modules take the code whose state lives through more than one step. Within the modelled parts:

* Documents leaves out media fields (copied where links are), blocks, unique columns, hooks and events, the order of links, and concurrency on PostgreSQL and MySQL (planned as DocumentTx).
* Webhooks leaves out what is in a delivery, its headers and signature, and the filter on events: a webhook wants an event or not.
* Sessions leaves out the lockout, rehashing, roles and the access token; TwoFactor passwords, challenges and the sign-in with a passkey.
* ClusterBus leaves out NOTIFY (a reader is woken or polls: `Read` may always happen) and what consumers do with an event. Presence leaves out the heartbeats of other instances.
* Releases leaves out lists and permissions.
* EntryEditor leaves out new entries, duplicating, previews, the widgets of fields, and the browser's history while a question is open (the dialog is modal to the page, not to the browser); a message of the tab's own write that comes after `isOwn`'s five seconds, which gives a needless notice; Presence a 404; ContentList review stages, exports and saved views; Builder accepted renames; SettingsForms secrets, deliveries and submissions; RolesPage settings and media permissions.
* MediaLibrary leaves out searching and filtering (which list as a page does), changes of folders, cropping, uploads from a URL and the picker; PagedLists what the dialogs edit and links that are shown once; Deployments the history, the targets' own changes and the throttle.

## 7. Plan

Done in this order: Documents, Webhooks, Sessions and their proofs; EventFeed and ClusterBus; Releases and its proofs; the panel (entry editor, list, import, session, builder, settings, roles, presence, menus, lists, deployments); EntryCollab and TwoFactor with their proofs; the proofs of ClusterBus and its refinement, and of
RefreshFamily; MediaLibrary with its proofs; the proofs of the pages of the panel; MenuTree as a module of its own, with its proofs.

Next, the most important behaviour first:

1. **SearchIndex**: commit of a document, reading its texts, queueing, the writer, rebuilds with generations, a crash before the index commit; abstract promise: the index converges to the rows.
2. **Admins**: last Super Admin, lockout, rehash, one-time links; composed with Sessions and TwoFactor.
3. **Consumers**: composed with EventFeed in place of ClusterBus: read cache (fill and clear), presence (heartbeats of two instances), the webhooks cache of Webhooks as it would be with the bus.
4. **Folders**: the folder tree and its paths under concurrent moves, next to MediaLibrary.
5. **DocumentTx**: the transactions of the Document Service statement by statement, on SQLite (refines Documents) and at READ COMMITTED (which promises of Documents survive).
6. **Migrations**: plan, journal, crash and resume on the three databases.
7. **Review**, **RateLimiter**, **Engagement**, and in the panel the dashboard's widgets and the history of deployments.
8. **Query compiler**: evaluation of compiled filters against a reference semantics over small tables.

Proofs to add: every safety property that a passing run checks has a theorem now. What is left is to prove more than the runs ask: that the sign-ins of AuthTabs refine RefreshFamily as the server's do, that Presence's announcements never name an admin who was not there, and whatever the next modules promise.
As runs are few by design, a new module takes the place of a run whose question a theorem has answered for every instance.
