------------------------------ MODULE Builder ------------------------------
(***************************************************************************)
(* The content-type builder of the admin panel (builder/builder-store.ts):  *)
(* it drafts a type of the schema, asks the server for the migration plan   *)
(* of the draft, or of the type's removal, shows it, and applies it.  The   *)
(* schema files are others' too.  A draft stands for the type's settings,   *)
(* its fields and the inverse fields it adds to other types (what           *)
(* `snapshot` compares); the renames accepted in a plan are left out.       *)
(***************************************************************************)
EXTENDS Naturals, FiniteSets

CONSTANTS SchemaTypes,   \* the names a content type can have
          NoName,        \* the route `/builder`, which goes on to the first type
          NewType,       \* the route of a type that is being created
          Absent,        \* the content of a type that there is not
          MaxContents,   \* bound: how many contents are ever written
          MaxBuilt       \* bound: plans, navigations and changes from elsewhere together

BuilderAssumption ==
    /\ NewType \notin SchemaTypes /\ NoName \notin SchemaTypes \union {NewType}
    /\ MaxContents \in Nat \ {0} /\ MaxBuilt \in Nat

VARIABLES
    schema,     \* the schema on the server
    builderUrl, \* the route's `name`
    sources,    \* `sources`: the schema as last loaded
    draft,      \* `draft` with its `baseline` and `openedName`, or NoDraft
    removal,    \* `pendingRemoval`
    plan,       \* `planResult`: the plan under review, or NoPlan
    working,    \* `busy`
    asked,      \* the requests under way
    discard,    \* the open question of Confirm, or NoDiscard
    contents,   \* how many contents were written
    built       \* how much has happened, for the bound

vars == <<schema, builderUrl, sources, draft, removal, plan, working, asked, discard,
          contents, built>>

NoSources == [t \in {} |-> Absent]
NoDraft   == [shown |-> FALSE, of |-> NewType]
NoPlan    == [shown |-> FALSE]
NoDiscard == [why |-> "none"]

Routes == SchemaTypes \union {NewType}

Happen == built < MaxBuilt /\ built' = built + 1

\* `baseline` is what `hasUnsavedChanges` compares with; `saved`, for the properties, what
\* the server was last known to hold, and `slipped`: edits were counted as saved.
Opened(name, content) ==
    [shown |-> TRUE, of |-> name, type |-> name, content |-> content, baseline |-> content,
     saved |-> content, slipped |-> FALSE]

HasUnsavedChanges(d) == d.shown /\ d.content # d.baseline

SourcesRequest == [kind |-> "sources", change |-> NoPlan]

Init ==
    /\ schema = [t \in SchemaTypes |-> 0]
    /\ builderUrl = NoName /\ sources = NoSources /\ draft = NoDraft /\ removal = FALSE
    /\ plan = NoPlan /\ working = FALSE /\ asked = {SourcesRequest}
    /\ discard = NoDiscard /\ contents = 0 /\ built = 0

----------------------------------------------------------------------------
(* Opening a type. *)

Contained(name, files) ==
    IF name = NewType THEN Opened(name, 0)
    ELSE IF files[name] = Absent THEN NoDraft ELSE Opened(name, files[name])

\* `reopen` and `open`: fresh sources for the type that is open would drop its edits, and
\* ask first; another type was asked about by the router.
Reopen(name, files) ==
    IF name = draft.of /\ HasUnsavedChanges(draft)
    THEN /\ discard' = [why |-> "sources", to |-> name, files |-> files]
         /\ UNCHANGED draft
    ELSE draft' = Contained(name, files) /\ UNCHANGED discard

First(files) ==
    LET there == {t \in SchemaTypes : files[t] # Absent}
    IN  IF there = {} THEN NewType ELSE CHOOSE t \in there : TRUE

SourcesArrive(r) ==
    /\ r \in asked /\ r.kind = "sources"
    /\ sources' = schema
    /\ builderUrl' = IF builderUrl = NoName THEN First(schema) ELSE builderUrl
    /\ Reopen(builderUrl', schema)
    /\ asked' = asked \ {r}
    /\ UNCHANGED <<schema, removal, plan, working, contents, built>>

\* The dialogs of the plan and of Confirm are modal.
Free == discard = NoDiscard /\ ~plan.shown

\* A link, or the history: `unsavedChangesGuard` asks.
Navigate(name) ==
    /\ Free /\ name # builderUrl /\ sources # NoSources
    /\ name # NewType => sources[name] # Absent
    /\ Happen
    /\ IF HasUnsavedChanges(draft)
       THEN /\ discard' = [why |-> "leave", to |-> name, files |-> sources]
            /\ UNCHANGED <<builderUrl, draft>>
       ELSE /\ builderUrl' = name
            /\ draft' = Contained(name, sources)
            /\ UNCHANGED discard
    /\ UNCHANGED <<schema, sources, removal, plan, working, asked, contents>>

\* `/builder`: a page, and a store, of its own.
NewStore ==
    /\ builderUrl' = NoName /\ sources' = NoSources /\ draft' = NoDraft
    /\ removal' = FALSE /\ plan' = NoPlan /\ asked' = {SourcesRequest}

Discarded(yes) ==
    /\ discard # NoDiscard /\ discard' = NoDiscard
    /\ IF yes /\ discard.to = NoName THEN NewStore
       ELSE /\ IF yes THEN /\ builderUrl' = discard.to
                           /\ draft' = Contained(discard.to, discard.files)
               ELSE UNCHANGED <<builderUrl, draft>>
            /\ UNCHANGED <<sources, removal, plan, asked>>
    /\ UNCHANGED <<schema, working, contents, built>>

\* The settings and fields; a new type gets its name with them.
EditDraft ==
    /\ Free /\ draft.shown /\ contents < MaxContents
    /\ contents' = contents + 1
    /\ \E t \in (IF draft.of = NewType THEN SchemaTypes ELSE {draft.type}) :
         draft' = [draft EXCEPT !.type = t, !.content = contents + 1]
    /\ UNCHANGED <<schema, builderUrl, sources, removal, plan, working, asked, discard, built>>

----------------------------------------------------------------------------
(* The plan. *)

\* `change`: of the draft as it is now.
Change(remove) ==
    [shown |-> TRUE, type |-> draft.type, remove |-> remove,
     content |-> IF remove THEN Absent ELSE draft.content]

\* `plan`: of the removal if it is asked for, or if it was before.
AskForPlan(remove) ==
    /\ Happen
    /\ removal' = remove /\ working' = TRUE
    /\ asked' = asked \union {[kind |-> "plan", change |-> Change(remove)]}
    /\ UNCHANGED <<schema, builderUrl, sources, draft, plan, discard, contents>>

SavePressed   == Free /\ draft.shown /\ ~working /\ AskForPlan(removal)
DeletePressed == Free /\ draft.shown /\ draft.of # NewType /\ ~working /\ AskForPlan(TRUE)

\* With renames accepted; it does not wait for `busy`.
Replan == discard = NoDiscard /\ plan.shown /\ draft.shown /\ AskForPlan(removal)

PlanArrives(r) ==
    /\ r \in asked /\ r.kind = "plan"
    /\ asked' = asked \ {r}
    /\ working' = FALSE
    /\ plan' = r.change
    /\ UNCHANGED <<schema, builderUrl, sources, draft, removal, discard, contents, built>>

ClosePlan ==
    /\ plan.shown /\ plan' = NoPlan
    /\ UNCHANGED <<schema, builderUrl, sources, draft, removal, working, asked, discard,
                   contents, built>>

\* `apply`: the change is made anew.  A plan of a type without a name is not valid.
Apply ==
    /\ discard = NoDiscard /\ plan.shown /\ plan.type \in SchemaTypes
    /\ draft.shown /\ draft.type \in SchemaTypes /\ ~working
    /\ working' = TRUE
    /\ asked' = asked \union {[kind |-> "apply", change |-> Change(removal)]}
    /\ UNCHANGED <<schema, builderUrl, sources, draft, removal, plan, discard, contents, built>>

\* The server migrates and writes the files.
ServeApply(r) ==
    /\ r \in asked /\ r.kind = "apply"
    /\ schema' = [schema EXCEPT ![r.change.type] = r.change.content]
    /\ asked' = (asked \ {r}) \union {[r EXCEPT !.kind = "applied"]}
    /\ UNCHANGED <<builderUrl, sources, draft, removal, plan, working, discard, contents, built>>

\* "Applied: the draft is what the schema now holds", whatever was typed meanwhile.
Rebased(d, content) ==
    [d EXCEPT !.baseline = d.content, !.saved = content,
              !.slipped = d.content # content]

\* The schema and its sources are loaded again.
Applied(r) ==
    /\ r \in asked /\ r.kind = "applied"
    /\ draft' = IF draft.shown THEN Rebased(draft, r.change.content) ELSE draft
    /\ asked' = (asked \ {r}) \union
                {SourcesRequest,
                 [kind |-> "reloaded", change |-> [r.change EXCEPT !.remove = removal]]}
    /\ removal' = FALSE /\ plan' = NoPlan
    /\ UNCHANGED <<schema, builderUrl, sources, working, discard, contents, built>>

\* Both are there: on to the type, or with a new store to the first one if this one was
\* removed.  The question this may lead to is modal, so `busy` can end with it.
GoesOn(r) ==
    /\ r \in asked /\ r.kind = "reloaded" /\ SourcesRequest \notin asked
    /\ working' = FALSE
    /\ IF r.change.remove
       THEN IF HasUnsavedChanges(draft)
            THEN /\ discard' = [why |-> "leave", to |-> NoName, files |-> sources]
                 /\ asked' = asked \ {r}
                 /\ UNCHANGED <<builderUrl, sources, draft, removal, plan>>
            ELSE NewStore /\ discard' = NoDiscard
       ELSE /\ asked' = asked \ {r}
            /\ UNCHANGED <<sources, removal, plan>>
            /\ IF ~draft.shown \/ draft.type = builderUrl \/ draft.type \notin SchemaTypes
               THEN UNCHANGED <<builderUrl, draft, discard>>
               ELSE IF HasUnsavedChanges(draft)
               THEN /\ discard' = [why |-> "leave", to |-> draft.type, files |-> sources]
                    /\ UNCHANGED <<builderUrl, draft>>
               ELSE /\ builderUrl' = draft.type
                    /\ draft' = Contained(draft.type, sources)
                    /\ UNCHANGED discard
    /\ UNCHANGED <<schema, contents, built>>

\* Refused, unreachable, or the answer was lost.
RequestFails(r) ==
    /\ r \in asked /\ asked' = asked \ {r}
    /\ working' = (working /\ r.kind = "sources")
    /\ UNCHANGED <<schema, builderUrl, sources, draft, removal, plan, discard, contents, built>>

\* Another admin, or a hand edit of the files.
OthersBuild(t) ==
    /\ Happen
    /\ \/ /\ schema[t] # Absent /\ schema' = [schema EXCEPT ![t] = Absent] /\ UNCHANGED contents
       \/ /\ contents < MaxContents /\ contents' = contents + 1
          /\ schema' = [schema EXCEPT ![t] = contents + 1]
    /\ UNCHANGED <<builderUrl, sources, draft, removal, plan, working, asked, discard>>

----------------------------------------------------------------------------
Progress ==
    \E r \in asked :
        \/ SourcesArrive(r) \/ PlanArrives(r) \/ ServeApply(r) \/ Applied(r) \/ GoesOn(r)
        \/ RequestFails(r)

Next ==
    \/ Progress
    \/ \E name \in Routes : Navigate(name)
    \/ \E yes \in BOOLEAN : Discarded(yes)
    \/ \E t \in SchemaTypes : OthersBuild(t)
    \/ EditDraft \/ SavePressed \/ DeletePressed \/ Replan \/ ClosePlan \/ Apply

\* Requests are answered or fail.
Spec == Init /\ [][Next]_vars /\ WF_vars(Progress)

----------------------------------------------------------------------------
(* Properties. *)

\* The draft, the sources and the schema have the shapes the code gives them.
BuilderTypeOK ==
    /\ schema \in [SchemaTypes -> 0 .. MaxContents \union {Absent}]
    /\ builderUrl \in Routes \union {NoName} /\ removal \in BOOLEAN /\ working \in BOOLEAN
    /\ sources # NoSources => sources \in [SchemaTypes -> 0 .. MaxContents \union {Absent}]
    /\ draft.shown => draft.of \in Routes /\ draft.type \in Routes

\* A draft goes with its edits only when the admin said so; those made while the plan
\* is being applied are counted as saved.
DraftEditsAreAskedAbout ==
    [][ /\ draft.shown /\ draft.content # draft.saved /\ ~draft.slipped
        /\ ~draft'.shown \/ (draft'.content # draft.content /\ contents' = contents)
        => discard # NoDiscard /\ discard' = NoDiscard ]_vars

\* Nothing is under way any more.
BuilderAtRest == ~working
=============================================================================
