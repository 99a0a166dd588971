----------------------------- MODULE AdminPanel -----------------------------
(***************************************************************************)
(* The admin panel: the pages whose state lives through requests, each as a *)
(* module of its own.  The router shows one page at a time and destroys the *)
(* signals of the page it leaves, so a behaviour here is that of one page;  *)
(* what a page does when the admin leaves it and comes back is in its own   *)
(* module.  Presence stands for the part of the entry editor that talks to  *)
(* the other admins, AuthTabs for the session under every page.  The tree     *)
(* of a menu asks nothing of anybody: MenuTree is extended.                 *)
(***************************************************************************)
EXTENDS Integers, Sequences, FiniteSets, MenuTree

CONSTANTS Locales, Home, NoVersion, Away, MaxValue, MaxEvents,
          ListLocales, FirstLocale, ListEntries, FirstLive, PageSize, BulkConcurrency, MaxListed,
          Files, Mappings, FirstMapping, NoFile, MaxImports,
          Tabs, MaxSignIns, MaxAuth,
          SchemaTypes, NoName, NewType, Absent, MaxContents, MaxBuilt,
          Ids, NewId, ListPage, Gone, MaxTexts, MaxSettings,
          RoleIds, Uids, RoleLocales, Attributes, AllTypes, NoRole, NotGranted, MaxRoleEdits,
          Admins, NotThere, Ttl, MaxPresence,
          Things, FirstThings, Found, ListSize, MaxLists,
          NoBuild, MaxDeploys

VARIABLES
    page,       \* the page that is open
    server, fresh, url, loading, requests, form, calls, question, inbox, writes, remotes,
    content, query, documents, published, listing, listError, listRequests, listLoads,
    selection, confirming, bulk, outdated, listed,
    open, import, reading, busy, checked, final, reads, runs, raced, imports,
    issued, live, signedOut, cookie, tab, posts, apiCalls, disturbed, authed,
    schema, builderUrl, sources, draft, removal, plan, working, asked, discard, contents, built,
    kind, stored, at, visit, fetching, held, shown, saving, saves, texts, settled,
    roles, roleList, selected, permissions, dialog, roleCalls, edited,
    presence, editor, beats, news, inboxes, due, occurred,
    which, things, spot, box, typing, table, status, lookups, jobs, excused, counted,
    where, builds, known, row, entry, pending, late, asks, deploying, doubt, deployed

Entry     == INSTANCE EntryEditor
List      == INSTANCE ContentList
Import    == INSTANCE ContentImport
Session   == INSTANCE AuthTabs
Schema    == INSTANCE Builder
Settings  == INSTANCE SettingsForms
Roles     == INSTANCE RolesPage
Others    == INSTANCE Presence
Lists     == INSTANCE PagedLists
Deploys   == INSTANCE Deployments

ASSUME PanelAssumption ==
    /\ Entry!EditorAssumption /\ List!ListAssumption /\ Import!ImportAssumption
    /\ Session!AuthAssumption /\ Schema!BuilderAssumption /\ Settings!SettingsAssumption
    /\ Roles!RolesAssumption /\ Others!PresenceAssumption
    /\ Lists!ListsAssumption /\ Deploys!DeploysAssumption

Pages == {"entry", "list", "import", "session", "builder", "settings", "roles", "presence",
          "menu", "lists", "deploys"}

entryVars ==
    <<server, fresh, url, loading, requests, form, calls, question, inbox, writes,
      remotes>>
listVars ==
    <<content, query, documents, published, listing, listError, listRequests, listLoads,
      selection, confirming, bulk, outdated, listed>>
importVars == <<open, import, reading, busy, checked, final, reads, runs, raced, imports>>
sessionVars == <<issued, live, signedOut, cookie, tab, posts, apiCalls, disturbed, authed>>
builderVars ==
    <<schema, builderUrl, sources, draft, removal, plan, working, asked, discard,
      contents, built>>
settingsVars ==
    <<kind, stored, at, visit, fetching, held, shown, saving, saves, texts, settled>>
rolesVars == <<roles, roleList, selected, permissions, dialog, roleCalls, edited>>
presenceVars == <<presence, editor, beats, news, inboxes, due, occurred>>
listsVars ==
    <<which, things, spot, box, typing, table, status, lookups, jobs, excused, counted>>
deploysVars ==
    <<where, builds, known, row, entry, pending, late, asks, deploying, doubt, deployed>>

vars == <<page, entryVars, listVars, importVars, sessionVars, builderVars, settingsVars,
          rolesVars, presenceVars, menuVars, listsVars, deploysVars>>

\* Every way a page can start, on the page that is open.
Init ==
    /\ page \in Pages
    /\ IF page = "entry" THEN Entry!Init ELSE Entry!Starts(Locales)
    /\ List!Init /\ Import!Init /\ Session!Init /\ Schema!Init /\ Others!Init
    /\ IF page = "settings" THEN Settings!Init ELSE Settings!Starts("menu", CHOOSE id \in Ids : TRUE)
    /\ IF page = "roles" THEN Roles!Init ELSE Roles!Starts(Roles!Editor, CHOOSE r \in RoleIds : TRUE)
    /\ IF page = "menu" THEN MenuInit ELSE Starts(<<>>)
    /\ IF page = "lists" THEN Lists!Init ELSE Lists!Starts(Lists!UsersPage)
    /\ IF page = "deploys" THEN Deploys!Init ELSE Deploys!Starts("page")

\* The page that is open is `p`: only its own state changes.
Only(p) ==
    /\ UNCHANGED page
    /\ p # "entry" => UNCHANGED entryVars
    /\ p # "list" => UNCHANGED listVars
    /\ p # "import" => UNCHANGED importVars
    /\ p # "session" => UNCHANGED sessionVars
    /\ p # "builder" => UNCHANGED builderVars
    /\ p # "settings" => UNCHANGED settingsVars
    /\ p # "roles" => UNCHANGED rolesVars
    /\ p # "presence" => UNCHANGED presenceVars
    /\ p # "menu" => UNCHANGED menuVars
    /\ p # "lists" => UNCHANGED listsVars
    /\ p # "deploys" => UNCHANGED deploysVars

Next ==
    \/ page = "entry" /\ Entry!Next /\ Only("entry")
    \/ page = "list" /\ List!Next /\ Only("list")
    \/ page = "import" /\ Import!Next /\ Only("import")
    \/ page = "session" /\ Session!Next /\ Only("session")
    \/ page = "builder" /\ Schema!Next /\ Only("builder")
    \/ page = "settings" /\ Settings!Next /\ Only("settings")
    \/ page = "roles" /\ Roles!Next /\ Only("roles")
    \/ page = "presence" /\ Others!Next /\ Only("presence")
    \/ page = "menu" /\ MenuNext /\ Only("menu")
    \/ page = "lists" /\ Lists!Next /\ Only("lists")
    \/ page = "deploys" /\ Deploys!Next /\ Only("deploys")

\* What was asked of the server, the browser or a timer is answered or fails in the end;
\* an admin need not do anything.
Fairness ==
    /\ WF_entryVars(page = "entry" /\ Entry!Progress)
    /\ WF_listVars(page = "list" /\ List!Progress)
    /\ WF_importVars(page = "import" /\ Import!Progress)
    /\ WF_sessionVars(page = "session" /\ Session!Progress)
    /\ WF_builderVars(page = "builder" /\ Schema!Progress)
    /\ WF_settingsVars(page = "settings" /\ Settings!Progress)
    /\ WF_rolesVars(page = "roles" /\ Roles!Progress)
    /\ WF_presenceVars(page = "presence" /\ Others!Progress)
    /\ WF_listsVars(page = "lists" /\ Lists!Progress)
    /\ WF_deploysVars(page = "deploys" /\ Deploys!Progress)

Spec == Init /\ [][Next]_vars /\ Fairness

----------------------------------------------------------------------------
(* Properties. *)

\* The state of every page has the shapes the code gives it.
PanelTypeOK ==
    /\ page \in Pages
    /\ page = "entry" => Entry!TypeOK
    /\ page = "list" => List!TypeOK
    /\ page = "import" => Import!TypeOK
    /\ page = "session" => Session!TypeOK
    /\ page = "builder" => Schema!BuilderTypeOK
    /\ page = "settings" => Settings!SettingsTypeOK
    /\ page = "roles" => Roles!RolesTypeOK
    /\ page = "presence" => Others!PresenceTypeOK
    /\ page = "menu" => MenuTypeOK
    /\ page = "lists" => Lists!ListsTypeOK
    /\ page = "deploys" => Deploys!DeploysTypeOK

\* What a page shows and acts on is what it was asked for last: the form is the one of
\* the URL, the rows are those of the locale, search and page that are chosen and those
\* the server has, in whatever order the answers of older loads and of the changes come;
\* and a deployment that shows in progress is followed.
ShownIsAsked ==
    /\ page = "entry" => Entry!FormOfTheRoute
    /\ page = "list" => List!RowsAreOfTheQuery
    /\ page = "lists" => Lists!RowsAreTheServers
    /\ page = "deploys" => Deploys!DeploymentsAreFollowed

\* Edits of an entry, or of a content type, go only when the admin said so, as far as
\* the page's own flags can know of them.
KnownEditsAreAskedAbout == Entry!KnownEditsAreAskedAbout /\ Schema!DraftEditsAreAskedAbout

\* A form that is open, waits for nothing and says nothing shows the draft the server has.
ChangesAreAnnounced == page = "entry" => Entry!ChangesAreAnnounced

\* What is sent is what the page had checked or loaded: an import is the one its dry run
\* passed, an update of a webhook, workflow, form or menu goes to the one that was edited.
SentIsWhatWasShown == Import!UnracedImportsAreChecked /\ Settings!UpdatesAreOfTheirOwn

\* No tab presents a refresh token it has used up: a sign-in lives until somebody ends it.
SignInsLive == page = "session" => Session!SignInsLive

\* Converting a wildcard gives a role nothing it did not have.
ConversionsNeverWiden == Roles!ConversionsNeverWiden

\* A move of a menu item moves it and what is under it to where it is shown, nothing else.
MovesKeepTheTree == page = "menu" => MovesTakeOneSubtree

\* Every page gives its buttons back, again and again, and a deployment's row comes to
\* what the deployment has come to.
PagesComeBack ==
    []<>(/\ page = "entry" => Entry!EditorAtRest
         /\ page = "list" => List!ListAtRest
         /\ page = "import" => Import!ImportAtRest
         /\ page = "session" => Session!AuthAtRest
         /\ page = "builder" => Schema!BuilderAtRest
         /\ page = "settings" => Settings!SettingsAtRest
         /\ page = "roles" => Roles!RolesAtRest
         /\ page = "lists" => Lists!ListAtRest
         /\ page = "deploys" => Deploys!DeploysAtRest)

\* Everybody ends up seeing exactly those who have the entry open.
PresenceSettles == Others!PresenceSettles
=============================================================================
