---------------------------- MODULE SettingsForms ----------------------------
(***************************************************************************)
(* The edit pages of the settings: webhooks, review workflows, forms and    *)
(* menus (settings/*-edit.ts).  The route's id is loaded into plain         *)
(* signals, which are edited in place and sent as a whole; nothing asks     *)
(* before edits are dropped.  The four differ in what an answer does to the *)
(* signals.  A text stands for everything a page edits.                     *)
(***************************************************************************)
EXTENDS Naturals, FiniteSets

CONSTANTS Ids,          \* the ids things can have
          NewId,        \* the route of a new one
          ListPage,     \* the router shows the list, or any other page
          Gone,         \* the text of a thing there is not
          MaxTexts,     \* bound: how many texts are ever written
          MaxSettings   \* bound: navigations, saves and changes from elsewhere together

SettingsAssumption ==
    /\ NewId \notin Ids /\ ListPage \notin Ids \union {NewId}
    /\ MaxTexts \in Nat \ {0} /\ MaxSettings \in Nat

VARIABLES
    kind,     \* which of the four pages this is
    stored,   \* the server's things
    at,       \* the router: an id, `new`, or another page
    visit,    \* how often the page was opened: an answer may outlive it
    fetching, \* the resource is loading
    held,     \* `webhook` and `workflow`: what an update is sent to
    shown,    \* `ready` or `loaded`, and the signals: text, and whose it is
    saving,   \* `saving`
    saves,    \* the requests under way
    texts,    \* how many texts were written
    settled   \* how much has happened, for the bound

vars == <<kind, stored, at, visit, fetching, held, shown, saving, saves, texts, settled>>

Kinds   == {"webhook", "workflow", "form", "menu"}
ByHeld  == {"webhook", "workflow"}  \* they update what they hold, forms and menus the route's id
Nobody  == ListPage                 \* nothing is held
Filled(id, text) == [ready |-> TRUE, of |-> id, text |-> text]
Blank   == [ready |-> FALSE, of |-> NewId, text |-> 0]

Happen == settled < MaxSettings /\ settled' = settled + 1

\* One id is free.
Starts(k, free) ==
    /\ kind = k /\ stored = [id \in Ids |-> IF id = free THEN Gone ELSE 0]
    /\ at = ListPage /\ visit = 0 /\ fetching = FALSE
    /\ held = Nobody /\ shown = Blank /\ saving = FALSE
    /\ saves = {} /\ texts = 0 /\ settled = 0

Init == \E k \in Kinds, free \in Ids : Starts(k, free)

----------------------------------------------------------------------------
(* The route. *)

\* A new page, or none.
Opens(to) ==
    /\ at' = to /\ visit' = visit + 1
    /\ held' = Nobody /\ saving' = FALSE
    /\ shown' = IF kind = "webhook" /\ to = NewId THEN Filled(NewId, 0) ELSE Blank
    /\ fetching' = (to # ListPage /\ ~(kind = "webhook" /\ to = NewId))

\* Mutant of Unloads: what was loaded stays on the page until the next load.
UnloadsLate(to) == shown

\* Without a value of the resource, forms, menus and workflows are not ready; only forms
\* and menus also hide their Save button then.
Unloads(to) ==
    CASE kind = "webhook" -> IF to = NewId THEN Filled(NewId, 0) ELSE shown
      [] OTHER -> [shown EXCEPT !.ready = FALSE]

\* The same page turns to another id: the browser's history, or a created thing's route.
\* A webhook that is held already, as after its creation, is not loaded.
Turns(to) ==
    /\ at' = to
    /\ held' = IF kind = "webhook" /\ to = NewId THEN Nobody ELSE held
    /\ shown' = Unloads(to)
    /\ fetching' = ~(kind = "webhook" /\ (to = NewId \/ held = to))
    /\ UNCHANGED visit

GoTo(to) ==
    /\ to # at /\ Happen
    /\ IF at = ListPage \/ to = ListPage THEN Opens(to) ELSE Turns(to) /\ UNCHANGED saving
    /\ UNCHANGED <<kind, stored, saves, texts>>

\* The signals are filled from each load.
Loads ==
    /\ fetching /\ fetching' = FALSE
    /\ IF at = NewId
       THEN /\ held' = Nobody /\ shown' = Filled(NewId, 0)
       ELSE /\ stored[at] # Gone
            /\ held' = at /\ shown' = Filled(at, stored[at])
    /\ UNCHANGED <<kind, stored, at, visit, saving, saves, texts, settled>>

\* Not found, or unreachable: the page says so, its signals stay.
LoadFails ==
    /\ fetching /\ fetching' = FALSE
    /\ UNCHANGED <<kind, stored, at, visit, held, shown, saving, saves, texts, settled>>

----------------------------------------------------------------------------
(* Edits and requests. *)

Edit ==
    /\ at # ListPage /\ shown.ready /\ texts < MaxTexts
    /\ texts' = texts + 1 /\ shown' = [shown EXCEPT !.text = texts + 1]
    /\ UNCHANGED <<kind, stored, at, visit, fetching, held, saving, saves, settled>>

Sent(op, id) ==
    [visit |-> visit, op |-> op, id |-> id, of |-> shown.of, text |-> shown.text, done |-> FALSE]

\* The header's Save button of a webhook or a workflow is there while it loads; what it
\* sends must be valid, which a new thing is not before it is edited.
MaySave ==
    /\ at # ListPage /\ ~saving
    /\ kind \in ByHeld \/ shown.ready
    /\ shown.of = NewId => shown.text # 0

Target ==
    IF kind = "webhook" /\ at = NewId THEN Nobody
    ELSE IF kind \in ByHeld THEN held
    ELSE IF at = NewId THEN Nobody ELSE at

Save ==
    /\ MaySave /\ Happen
    /\ saving' = TRUE
    /\ saves' = saves \union {IF Target = Nobody THEN Sent("create", NewId)
                              ELSE Sent("update", Target)}
    /\ UNCHANGED <<kind, stored, at, visit, fetching, held, shown, texts>>

\* Only a workflow is deleted from its own page; its dialog is modal.
Remove ==
    /\ kind = "workflow" /\ at # ListPage /\ held # Nobody /\ Happen
    /\ saves' = saves \union {Sent("delete", held)}
    /\ UNCHANGED <<kind, stored, at, visit, fetching, held, shown, saving, texts>>

Serve(s) ==
    /\ s \in saves /\ ~s.done
    /\ \E id \in Ids :
         /\ IF s.op = "create" THEN stored[id] = Gone ELSE id = s.id /\ stored[id] # Gone
         /\ stored' = [stored EXCEPT ![id] = IF s.op = "delete" THEN Gone ELSE s.text]
         /\ saves' = (saves \ {s}) \union {[s EXCEPT !.done = TRUE, !.id = id]}
    /\ UNCHANGED <<kind, at, visit, fetching, held, shown, saving, texts, settled>>

Alive(s) == at # ListPage /\ s.visit = visit

\* A created thing gets its route, wherever the admin is by then; a webhook is held, and
\* its edits are reset, before that.
AnswerCreate(s) ==
    /\ s \in saves /\ s.op = "create" /\ s.done
    /\ saves' = saves \ {s}
    /\ IF Alive(s)
       THEN /\ saving' = FALSE /\ UNCHANGED visit /\ at' = s.id
            /\ IF kind = "webhook"
               THEN held' = s.id /\ shown' = Filled(s.id, s.text) /\ fetching' = FALSE
               ELSE /\ IF at = s.id THEN UNCHANGED <<shown, fetching>>
                       ELSE shown' = Unloads(s.id) /\ fetching' = TRUE
                    /\ UNCHANGED held
       ELSE IF at = s.id THEN UNCHANGED <<at, visit, held, shown, saving, fetching>>
       ELSE IF at = ListPage THEN Opens(s.id)
       ELSE Turns(s.id) /\ UNCHANGED saving
    /\ UNCHANGED <<kind, stored, texts, settled>>

\* Forms and menus keep what was typed meanwhile; webhooks and workflows are set to what
\* was saved, whatever their page has turned to.
AnswerUpdate(s) ==
    /\ s \in saves /\ s.op = "update" /\ s.done
    /\ saves' = saves \ {s}
    /\ IF ~Alive(s) THEN UNCHANGED <<held, shown, saving>>
       ELSE /\ saving' = FALSE
            /\ IF kind \in ByHeld
               THEN held' = s.id /\ shown' = [Filled(s.id, s.text) EXCEPT !.ready = shown.ready]
               ELSE UNCHANGED <<held, shown>>
    /\ UNCHANGED <<kind, stored, at, visit, fetching, texts, settled>>

AnswerDelete(s) ==
    /\ s \in saves /\ s.op = "delete" /\ s.done
    /\ saves' = saves \ {s}
    /\ IF at = ListPage THEN UNCHANGED <<at, visit, held, shown, saving, fetching>>
       ELSE Opens(ListPage)
    /\ UNCHANGED <<kind, stored, texts, settled>>

\* Mutant of Fails: the button is not given back.
FailsForGood(s) ==
    /\ s \in saves /\ saves' = saves \ {s}
    /\ UNCHANGED <<kind, stored, at, visit, fetching, held, shown, saving, texts, settled>>

Fails(s) ==
    /\ s \in saves /\ saves' = saves \ {s}
    /\ saving' = (saving /\ ~(Alive(s) /\ s.op # "delete"))
    /\ UNCHANGED <<kind, stored, at, visit, fetching, held, shown, texts, settled>>

\* Another admin, or the list's delete button in another tab.
OthersStore(id) ==
    /\ Happen
    /\ \/ stored[id] # Gone /\ stored' = [stored EXCEPT ![id] = Gone] /\ UNCHANGED texts
       \/ /\ texts < MaxTexts /\ texts' = texts + 1
          /\ stored' = [stored EXCEPT ![id] = texts + 1]
    /\ UNCHANGED <<kind, at, visit, fetching, held, shown, saving, saves>>

----------------------------------------------------------------------------
Progress ==
    \/ Loads \/ LoadFails
    \/ \E s \in saves :
         Serve(s) \/ AnswerCreate(s) \/ AnswerUpdate(s) \/ AnswerDelete(s) \/ Fails(s)

Next ==
    \/ Progress \/ Edit \/ Save \/ Remove
    \/ \E to \in Ids \union {NewId, ListPage} : GoTo(to)
    \/ \E id \in Ids : OthersStore(id)

\* Requests are answered or fail.
Spec == Init /\ [][Next]_vars /\ WF_vars(Progress)

----------------------------------------------------------------------------
(* Properties. *)

\* The form, its route and its saves have the shapes the code gives them.
SettingsTypeOK ==
    /\ stored \in [Ids -> 0 .. MaxTexts \union {Gone}]
    /\ at \in Ids \union {NewId, ListPage} /\ held \in Ids \union {Nobody}
    /\ shown.of \in Ids \union {NewId} /\ shown.text \in 0 .. MaxTexts
    /\ \A s \in saves : s.visit \in 1 .. visit

\* An update goes to the thing whose text was edited, however the route, the loads and
\* the answers of earlier saves interleave: no form is saved under the id of another.
UpdatesAreOfTheirOwn ==
    [][ \A s \in saves' \ saves : s.op = "update" /\ ~s.done => s.id = s.of ]_vars

\* Nothing is loading, and the Save button can be pressed.
SettingsAtRest == ~fetching /\ ~saving
=============================================================================
