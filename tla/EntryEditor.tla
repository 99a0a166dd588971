---------------------------- MODULE EntryEditor ----------------------------
(***************************************************************************)
(* The entry editor of the admin panel: the route that loads an entry      *)
(* (edit.ts, entry-loader.ts), the form it shows (document-form.ts), the   *)
(* question asked before edits are dropped (confirm.ts) and the notice of  *)
(* other admins' changes (realtime.ts), over one localized entry that      *)
(* other admins change too.  A request reaches the server in one step and  *)
(* is answered in a later one, or fails; the admin goes on meanwhile.      *)
(***************************************************************************)
EXTENDS Naturals, Sequences, FiniteSets

CONSTANTS Locales,    \* the locales of the entry's type
          Home,       \* the locale the editor opens first
          NoVersion,  \* a locale has no such version, a form no translation
          Away,       \* the router shows another page
          MaxValue,   \* bound: how many contents are ever written
          MaxEvents   \* bound: loads, requests and changes from elsewhere together

EditorAssumption ==
    /\ Home \in Locales /\ Away \notin Locales
    /\ MaxValue \in Nat \ {0} /\ MaxEvents \in Nat /\ NoVersion \notin 0 .. MaxValue

VARIABLES
    server,     \* the entry: draft and published content of each locale, shared content
    fresh,      \* how many contents have been written
    url,        \* the router: the editor with a locale, or another page
    loading,    \* the loads under way (an outdated one runs on, see `stale`)
    requests,   \* `requests`: the number of the latest load
    form,       \* the form shown, or NoForm
    calls,      \* the requests the forms wait for
    question,   \* the open question of Confirm, or NoQuestion
    inbox,      \* realtime events on their way to this tab
    writes,     \* how many requests this tab has sent
    remotes     \* how many changes came from elsewhere

vars == <<server, fresh, url, loading, requests, form, calls, question,
          inbox, writes, remotes>>

\* `lost` is for the properties only: a link to another locale took unsaved edits along.
NoForm     == [shown |-> FALSE, lost |-> FALSE]
NoQuestion == [why |-> "none"]

Contents == 0 .. MaxValue      \* of all the fields of a version
Empty    == 0
Reasons == {"switch", "reload", "leave", "unpublish", "discard-draft"}
Events  == {"entry.update", "entry.publish", "entry.unpublish",
            "entry.discard-draft", "entry.delete"}

Happened == requests + writes + remotes

Exists(s) == \E l \in Locales : s.draft[l] # NoVersion

----------------------------------------------------------------------------
(* What a form keeps.  Three fields are for the properties only: `base`,    *)
(* what the server was last known to hold; `slipped`, content came into the *)
(* form in a way `dirty` does not record; `excused`, a change came that the  *)
(* editor does not hear of, that it took for its own, or that was dismissed. *)

\* Mutant of HasUnsavedChanges: a translation that is not kept yet is no edit.
HasTypedChanges(f) == f.shown /\ f.dirty

HasUnsavedChanges(f) ==
    /\ f.shown
    /\ f.dirty \/ f.ai # NoVersion

\* Mutant of Heard: only of its own locale.
HeardUpdates(message, f) ==
    f.shown /\ ~f.missing /\ message.event # "entry.delete" /\ message.locale = f.locale

\* A message reaches the form: about its entry and its locale (a deletion: any).
Heard(message, f) ==
    /\ f.shown /\ ~f.missing
    /\ message.event = "entry.delete" \/ message.locale = f.locale

\* The server went on while its answer was on the way, and no message will tell.
Overtaken(f) ==
    /\ server.draft[f.locale] # f.base
    /\ \A i \in 1 .. Len(inbox) : ~Heard(inbox[i], f)

Noted(f) == [f EXCEPT !.excused = Overtaken(f)]

\* A locale the entry lacks starts with empty localized fields (`prefillShared`).
Form(n, l, doc, published, missing) ==
    LET model == IF missing THEN Empty ELSE doc
    IN  [shown |-> TRUE, key |-> n, locale |-> l, missing |-> missing,
         model |-> model, base |-> model, dirty |-> FALSE, ai |-> NoVersion,
         published |-> published, remote |-> "none", busy |-> FALSE,
         translating |-> FALSE, slipped |-> FALSE, excused |-> FALSE]

Alive(c)  == form.shown /\ form.key = c.key
\* `sent`: what a save carries, or what the second request of a discard has read.
Call(op)  == [key |-> form.key, op |-> op, locale |-> form.locale,
              from |-> form.locale, sent |-> form.model, at |-> "sent"]

----------------------------------------------------------------------------
(* The route: every change of its entry or locale, and every reload, starts *)
(* a load and drops the form.                                               *)

LoadStarts(l) ==
    /\ Happened < MaxEvents
    /\ requests' = requests + 1
    /\ loading' = loading \union {[n |-> requests + 1, locale |-> l, at |-> "versions",
                                   doc |-> Empty, missing |-> FALSE]}

StartLoad(l) == LoadStarts(l) /\ form' = NoForm

Starts(ls) ==
    /\ server = [draft |-> [l \in Locales |-> IF l \in ls THEN 1 ELSE NoVersion],
                 live  |-> [l \in Locales |-> NoVersion]]
    /\ fresh = 1 /\ url = Home
    /\ requests = 1
    /\ loading = {[n |-> 1, locale |-> Home, at |-> "versions", doc |-> Empty,
                   missing |-> FALSE]}
    /\ form = NoForm /\ calls = {} /\ question = NoQuestion
    /\ inbox = <<>> /\ writes = 0 /\ remotes = 0

\* The entry has every locale, or lacks the first.
Init == Starts(Locales) \/ Starts(Locales \ {Home})

\* Mutant of Stale: a load does not look whether it is the latest.
StaleNever(ld) == FALSE

Stale(ld) == ld.n # requests

\* The document's versions, then the draft, or the version that prefills a
\* missing locale.  Two requests: the entry may change in between.
LoadVersions(ld) ==
    /\ ld \in loading /\ ld.at = "versions"
    /\ loading' = (loading \ {ld}) \union
         (IF Exists(server)
          THEN {[ld EXCEPT !.at = "document", !.missing = server.draft[ld.locale] = NoVersion]}
          ELSE {})
    /\ UNCHANGED <<server, fresh, url, requests, form, calls, question,
                   inbox, writes, remotes>>

LoadDocument(ld) ==
    /\ ld \in loading /\ ld.at = "document"
    /\ \E l \in Locales :
         /\ IF ld.missing THEN l # ld.locale ELSE l = ld.locale
         /\ loading' = (loading \ {ld}) \union
              (IF server.draft[l] # NoVersion
               THEN {[ld EXCEPT !.at = "shown", !.doc = server.draft[l]]}
               ELSE {})                       \* a 404: the page says so
    /\ UNCHANGED <<server, fresh, url, requests, form, calls, question,
                   inbox, writes, remotes>>

\* The answer of the latest load opens a fresh form; an older one is dropped.
LoadShown(ld) ==
    /\ ld \in loading /\ ld.at = "shown"
    /\ loading' = loading \ {ld}
    /\ form' = IF Stale(ld) \/ url = Away THEN form
               ELSE Noted(Form(ld.n, ld.locale, ld.doc, server.live[ld.locale] # NoVersion,
                               ld.missing))
    /\ UNCHANGED <<server, fresh, url, requests, calls, question, inbox, writes, remotes>>

----------------------------------------------------------------------------
(* Leaving and asking.  `leave` lets the router go without asking again;    *)
(* going and the end of `leaving` are one step here.                        *)

Ask(why, to) == question' = [why |-> why, to |-> to, key |-> form.key]

GoTo(to) ==
    /\ url' = to
    /\ IF to = Away
       THEN /\ form' = NoForm /\ UNCHANGED <<requests, loading>>
       ELSE StartLoad(to)

Idle == question = NoQuestion      \* the dialog is modal

SwitchLocale(l) ==
    /\ Idle /\ form.shown /\ l # form.locale /\ url # Away
    /\ IF HasUnsavedChanges(form)
       THEN /\ Ask("switch", l) /\ UNCHANGED <<url, form, requests, loading>>
       ELSE /\ GoTo(l) /\ UNCHANGED question
    /\ UNCHANGED <<server, fresh, calls, inbox, writes, remotes>>

\* Any link or the browser's history, to another page: `unsavedChangesGuard`.
LeavePage ==
    /\ Idle /\ url # Away
    /\ IF HasUnsavedChanges(form)
       THEN /\ Ask("leave", Away) /\ UNCHANGED <<url, form, requests, loading>>
       ELSE /\ GoTo(Away) /\ UNCHANGED question
    /\ UNCHANGED <<server, fresh, calls, inbox, writes, remotes>>

\* A link with another `?locale=`, or the browser's way back over a switch of the locale:
\* the router keeps the page and asks no guard, and the page loads another form.
FollowLink(l) ==
    /\ Idle /\ url # Away /\ l # url /\ url' = l
    /\ LoadStarts(l) /\ form' = [shown |-> FALSE, lost |-> HasUnsavedChanges(form)]
    /\ UNCHANGED <<server, fresh, calls, question, inbox, writes, remotes>>

\* The admin opens the entry again.
OpenEntry(l) ==
    /\ Idle /\ url = Away
    /\ GoTo(l)
    /\ UNCHANGED <<server, fresh, calls, question, inbox, writes, remotes>>

ReloadRemote ==
    /\ Idle /\ form.shown /\ form.remote \notin {"none", "entry.delete"}
    /\ IF HasUnsavedChanges(form)
       THEN /\ Ask("reload", form.locale) /\ UNCHANGED <<form, requests, loading>>
       ELSE /\ StartLoad(form.locale) /\ UNCHANGED question
    /\ UNCHANGED <<server, fresh, url, calls, inbox, writes, remotes>>

ConfirmAction(action) ==
    /\ Idle /\ form.shown /\ ~form.missing /\ ~form.busy
    /\ action = "unpublish" => form.published
    /\ action = "discard-draft" => form.published
    /\ Ask(action, form.locale)
    /\ UNCHANGED <<server, fresh, url, loading, requests, form, calls, inbox,
                   writes, remotes>>

Decline ==
    /\ ~Idle
    /\ question' = NoQuestion
    /\ UNCHANGED <<server, fresh, url, loading, requests, form, calls, inbox,
                   writes, remotes>>

\* "Yes": what had asked goes on, unless its form is gone.
Accept ==
    /\ ~Idle
    /\ question' = NoQuestion
    /\ CASE question.why \in {"switch", "leave"} ->
              /\ GoTo(question.to)
              /\ UNCHANGED calls
         [] question.why = "reload" ->
              /\ IF form.shown /\ form.key = question.key
                 THEN StartLoad(question.to)
                 ELSE UNCHANGED <<form, requests, loading>>
              /\ UNCHANGED <<url, calls>>
         [] OTHER ->
              /\ IF form.shown /\ form.key = question.key
                 THEN /\ calls' = calls \union {Call(question.why)}
                      /\ form' = [form EXCEPT !.busy = TRUE]
                 ELSE UNCHANGED <<calls, form>>
              /\ UNCHANGED <<url, requests, loading>>
    /\ UNCHANGED <<server, fresh, inbox, writes, remotes>>

----------------------------------------------------------------------------
(* Edits. *)

Edit(f) ==
    /\ Idle /\ form.shown
    /\ form' = f
    /\ UNCHANGED <<server, url, loading, requests, calls, question, inbox, writes, remotes>>

Type ==
    /\ fresh < MaxValue /\ fresh' = fresh + 1
    /\ form.shown
    /\ Edit([form EXCEPT !.model = fresh + 1, !.dirty = TRUE])

\* The banner of a translation: keep it, or put back what was there before.
KeepTranslation ==
    /\ form.shown /\ form.ai # NoVersion
    /\ Edit([form EXCEPT !.ai = NoVersion, !.slipped = @ \/ ~form.dirty])
    /\ UNCHANGED fresh

UndoTranslation ==
    /\ form.shown /\ form.ai # NoVersion
    /\ Edit([form EXCEPT !.ai = NoVersion, !.model = form.ai,
                       !.slipped = @ \/ (~form.dirty /\ form.ai # form.base)])
    /\ UNCHANGED fresh

Dismiss ==
    /\ form.shown /\ form.remote # "none"
    /\ Edit([form EXCEPT !.remote = "none", !.excused = TRUE])
    /\ UNCHANGED fresh

----------------------------------------------------------------------------
(* Requests of the form.  Each is sent, done by the server, and answered.   *)

Send(c, f) ==
    /\ Idle /\ form.shown
    /\ calls' = calls \union {c}
    /\ form' = f
    /\ Happened < MaxEvents /\ writes' = writes + 1
    /\ UNCHANGED <<server, fresh, url, loading, requests, question, inbox, remotes>>

\* The buttons wait while the form is busy; the Enter key (a plain save) does not.
Save(publish) ==
    /\ form.shown
    /\ publish => ~form.busy
    /\ ~ \E c \in calls : Alive(c) /\ c.op \in {"save", "publish"} /\ c.sent = form.model
    /\ Send([Call(IF publish THEN "publish" ELSE "save") EXCEPT !.sent = form.model],
            [form EXCEPT !.busy = TRUE])

Fill(source) ==
    /\ form.shown /\ form.missing /\ ~form.busy /\ source # form.locale
    /\ Send([Call("fill") EXCEPT !.from = source], [form EXCEPT !.busy = TRUE])

Translate(source) ==
    /\ form.shown /\ ~form.busy /\ ~form.translating /\ source # form.locale
    /\ Send([Call("translate") EXCEPT !.from = source], [form EXCEPT !.translating = TRUE])

\* Its own dialog asks first; nothing else waits for it.
Remove ==
    /\ form.shown /\ ~form.missing
    /\ Send(Call("delete"), form)

\* A version is written, and with it the others of its state, if a field that is shared
\* between the locales changes: they count as holding what was written.
Written(versions, l, content, shared) ==
    [m \in Locales |-> IF m = l \/ (shared /\ versions[m] # NoVersion) THEN content
                       ELSE versions[m]]

\* What the server makes of a request.
Served(c, s, shared) ==
    CASE c.op \in {"save", "publish"} /\ c.at = "sent" ->
           [s EXCEPT !.draft = Written(@, c.locale, c.sent, shared)]
      [] c.op = "publish" /\ c.at = "publishing" ->
           [s EXCEPT !.live = Written(@, c.locale, s.draft[c.locale], shared)]
      [] c.op = "unpublish"     -> [s EXCEPT !.live[c.locale] = NoVersion]
      [] c.op = "discard-draft" -> [s EXCEPT !.draft[c.locale] = s.live[c.locale]]
      [] c.op = "delete"        -> [s EXCEPT !.draft[c.locale] = NoVersion,
                                             !.live[c.locale] = NoVersion]

\* The server accepts it: the entry, or the version it is about, is there.
Acceptable(c, s) ==
    CASE c.op \in {"save", "publish"} /\ c.at = "sent" -> Exists(s)
      [] c.op = "unpublish" \/ c.op = "discard-draft" ->
           s.live[c.locale] # NoVersion /\ s.draft[c.locale] # NoVersion
      [] OTHER -> s.draft[c.locale] # NoVersion

Serve(c) ==
    /\ c \in calls /\ c.op \notin {"fill", "translate"} /\ c.at \in {"sent", "publishing"}
    /\ Acceptable(c, server)
    /\ \E shared \in BOOLEAN : server' = Served(c, server, shared)
    /\ calls' = (calls \ {c}) \union {[c EXCEPT !.at = IF @ = "sent" THEN "done" ELSE "published"]}
    /\ form' = IF form.shown /\ ~Alive(c) THEN [form EXCEPT !.excused = TRUE] ELSE form
    /\ UNCHANGED <<fresh, url, loading, requests, question, inbox, writes, remotes>>

\* Mutant of Failed: the buttons are not given back.
FailedBusy(c, f) == [f EXCEPT !.translating = @ /\ c.op # "translate",
                              !.excused = @ \/ c.at # "sent"]

Failed(c, f) == [f EXCEPT !.translating = @ /\ c.op # "translate",
                          !.busy = @ /\ c.op \in {"translate", "delete"},
                          !.excused = @ \/ c.at # "sent"]

\* Refused, unreachable, or an answer that never came: the form says so and stays.
Fail(c) ==
    /\ c \in calls
    /\ calls' = calls \ {c}
    /\ form' = IF Alive(c) THEN Failed(c, form) ELSE form
    /\ UNCHANGED <<server, fresh, url, loading, requests, question, inbox, writes, remotes>>

----------------------------------------------------------------------------
(* Answers.  A form that is gone takes none, but its save still navigates.  *)

Answered(c, f) ==
    /\ calls' = calls \ {c}
    /\ form' = IF Alive(c) THEN f ELSE form

Saved(c, f) ==
    Noted([f EXCEPT !.missing = FALSE, !.base = c.sent, !.ai = NoVersion, !.dirty = FALSE,
                    !.remote = "none", !.busy = FALSE, !.published = @ \/ c.op = "publish",
                    !.slipped = f.model # c.sent])

\* The draft is saved; `publish` is a second request.
SavedDraft(c) ==
    /\ c \in calls /\ c.op = "publish" /\ c.at = "done"
    /\ calls' = (calls \ {c}) \union {[c EXCEPT !.at = "publishing"]}
    /\ form' = IF Alive(c)
               THEN [form EXCEPT !.missing = FALSE, !.base = c.sent,
                       !.slipped = @ \/ (~HasUnsavedChanges(form) /\ form.model # c.sent)]
               ELSE form
    /\ UNCHANGED <<server, fresh, url, loading, requests, question, inbox, writes, remotes>>

AnswerSave(c) ==
    /\ c \in calls
    /\ \/ c.op = "save" /\ c.at = "done"
       \/ c.op = "publish" /\ c.at = "published"
    /\ IF url = Away             \* the URL is not the entry's: it is opened
       THEN /\ calls' = calls \ {c} /\ GoTo(c.locale)
       ELSE /\ Answered(c, Saved(c, form)) /\ UNCHANGED <<url, requests, loading>>
    /\ UNCHANGED <<server, fresh, question, inbox, writes, remotes>>

AnswerFill(c) ==
    /\ c \in calls /\ c.op = "fill" /\ server.draft[c.from] # NoVersion
    /\ Answered(c, [form EXCEPT !.model = server.draft[c.from],
                                !.ai = NoVersion, !.busy = FALSE,
                                !.slipped = @ \/ ~form.dirty])
    /\ UNCHANGED <<server, fresh, url, loading, requests, question, inbox, writes, remotes>>

\* The translated fields are new content; what was there first can come back.
AnswerTranslate(c) ==
    /\ c \in calls /\ c.op = "translate" /\ server.draft[c.from] # NoVersion
    /\ fresh < MaxValue /\ fresh' = fresh + 1
    /\ Answered(c, [form EXCEPT !.model = fresh + 1, !.translating = FALSE,
                                !.ai = IF @ = NoVersion THEN form.model ELSE @])
    /\ UNCHANGED <<server, url, loading, requests, question, inbox, writes, remotes>>

AnswerUnpublish(c) ==
    /\ c \in calls /\ c.op = "unpublish" /\ c.at = "done"
    /\ Answered(c, [form EXCEPT !.published = FALSE, !.busy = FALSE])
    /\ UNCHANGED <<server, fresh, url, loading, requests, question, inbox, writes, remotes>>

\* A discard is followed by a second request, which reads the draft; what the form shows
\* then is what was read, whatever the entry has become and whatever notice came meanwhile.
ReadDiscarded(c) ==
    /\ c \in calls /\ c.op = "discard-draft" /\ c.at = "done"
    /\ server.draft[c.locale] # NoVersion
    /\ calls' = (calls \ {c}) \union {[c EXCEPT !.at = "read", !.sent = server.draft[c.locale]]}
    /\ UNCHANGED <<server, fresh, url, loading, requests, form, question, inbox, writes, remotes>>

AnswerDiscard(c) ==
    /\ c \in calls /\ c.op = "discard-draft" /\ c.at = "read"
    /\ Answered(c, Noted([form EXCEPT !.model = c.sent, !.base = c.sent, !.ai = NoVersion,
                                      !.dirty = FALSE, !.slipped = FALSE, !.remote = "none",
                                      !.busy = FALSE]))
    /\ UNCHANGED <<server, fresh, url, loading, requests, question, inbox, writes, remotes>>

AnswerRemove(c) ==
    /\ c \in calls /\ c.op = "delete" /\ c.at = "done"
    /\ calls' = calls \ {c}
    /\ url' = Away /\ form' = NoForm
    /\ UNCHANGED <<server, fresh, loading, requests, question, inbox, writes, remotes>>

----------------------------------------------------------------------------
(* Others, and the events that tell of them.  The events of the form's own *)
(* writes come back within OWN_WRITE_WINDOW and are dropped (`isOwn`).      *)

\* Another admin, or another tab or a program, changes the entry.  The event names the
\* locale that was written, even if a shared field changed in the others.
RemoteChange ==
    /\ Happened < MaxEvents /\ remotes' = remotes + 1
    /\ \E l \in Locales :
         \/ /\ Exists(server) /\ fresh < MaxValue /\ fresh' = fresh + 1
            /\ \E shared \in BOOLEAN :
                 /\ server' = [server EXCEPT !.draft = Written(@, l, fresh + 1, shared)]
                 /\ form' = IF form.shown /\ shared /\ form.locale # l
                            THEN [form EXCEPT !.excused = TRUE] ELSE form
            /\ inbox' = Append(inbox, [event |-> "entry.update", locale |-> l])
         \/ /\ server.draft[l] # NoVersion /\ UNCHANGED <<fresh, form>>
            /\ server' = [server EXCEPT !.draft[l] = NoVersion, !.live[l] = NoVersion]
            /\ inbox' = Append(inbox, [event |-> "entry.delete", locale |-> l])
    /\ UNCHANGED <<url, loading, requests, calls, question, writes>>

Deliver ==
    /\ inbox # <<>>
    /\ LET message == Head(inbox) IN
         form' = IF ~form.shown THEN form
                 ELSE IF Heard(message, form) THEN [form EXCEPT !.remote = message.event]
                 ELSE [form EXCEPT !.excused = @ \/ form.missing]
    /\ inbox' = Tail(inbox)
    /\ UNCHANGED <<server, fresh, url, loading, requests, calls, question, writes, remotes>>

\* The stream was not open, and the editor does not listen to its resync; or `isOwn` took
\* the message of another tab of the same admin, or one that names nobody, for the echo of
\* what this tab wrote a moment ago.
Missed ==
    /\ inbox # <<>> /\ inbox' = Tail(inbox)
    /\ form' = IF form.shown THEN [form EXCEPT !.excused = TRUE] ELSE form
    /\ UNCHANGED <<server, fresh, url, loading, requests, calls, question, writes, remotes>>

----------------------------------------------------------------------------
Progress ==
    \/ \E ld \in loading : LoadVersions(ld) \/ LoadDocument(ld) \/ LoadShown(ld)
    \/ \E c \in calls :
         \/ Serve(c) \/ Fail(c) \/ SavedDraft(c) \/ AnswerSave(c) \/ AnswerFill(c)
         \/ AnswerTranslate(c) \/ AnswerUnpublish(c) \/ AnswerRemove(c)
         \/ ReadDiscarded(c) \/ AnswerDiscard(c)
    \/ Deliver

Admin ==
    \/ \E l \in Locales :
         SwitchLocale(l) \/ FollowLink(l) \/ OpenEntry(l) \/ Fill(l) \/ Translate(l)
    \/ LeavePage \/ ReloadRemote \/ Decline \/ Accept \/ Type \/ Dismiss \/ Remove
    \/ KeepTranslation \/ UndoTranslation
    \/ \E action \in {"unpublish", "discard-draft"} : ConfirmAction(action)
    \/ \E publish \in BOOLEAN : Save(publish)

Next ==
    Progress \/ Admin \/ RemoteChange \/ Missed

\* A request is answered or fails in the end; the admin need not do anything.
Spec == Init /\ [][Next]_vars /\ WF_vars(Progress)

----------------------------------------------------------------------------
(* Properties. *)

\* The route, the form and its requests have the shapes the code gives them.
TypeOK ==
    /\ server.draft \in [Locales -> Contents \union {NoVersion}]
    /\ server.live \in [Locales -> Contents \union {NoVersion}]
    /\ url \in Locales \union {Away}
    /\ form.shown => /\ form.key \in 1 .. requests /\ form.locale \in Locales
                     /\ {form.model, form.base} \subseteq Contents
                     /\ form.ai \in Contents \union {NoVersion}
    /\ \A c \in calls : c.key \in 1 .. requests /\ c.locale \in Locales

\* The form on the screen is the one of the URL: whatever loads were started and
\* answered out of order, what the admin edits and saves is the locale they see.
FormOfTheRoute == form.shown => form.locale = url /\ form.key = requests

\* A form goes with its unsaved edits only when the admin said so, or has deleted the entry
\* (document-form.ts:510), or a link or the browser's history brings the entry in another
\* locale: of that no guard is asked, and the edits are lost.  Of the edits the form's flags
\* can know: not those typed while a save was under way, and not those of a copied locale or
\* a translation that was kept.
KnownEditsAreAskedAbout ==
    [][ form.shown /\ form.model # form.base /\ ~form.slipped /\ form' # form /\ ~form'.shown =>
          \/ question.why \in {"switch", "leave", "reload"} /\ question' = NoQuestion
          \/ \E c \in calls \ calls' : c.op = "delete"
          \/ form'.lost ]_vars

\* An open form that waits for nothing shows the draft it started from as long as the
\* server has it, or tells that somebody changed it; except for changes of which the message
\* came before the load, save or discard that they overtook was answered, changes of shared
\* fields through another locale, those missed while the stream was closed or taken for this
\* tab's own (its own lost answers among them), and those the admin has dismissed.
ChangesAreAnnounced ==
    form.shown /\ ~form.missing /\ ~form.excused /\ calls = {} /\ inbox = <<>> =>
        server.draft[form.locale] = form.base \/ form.remote # "none"

\* The form's buttons can be pressed.
EditorAtRest == ~(form.shown /\ form.busy)
=============================================================================
