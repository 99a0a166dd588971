------------------------------ MODULE Documents ------------------------------
(***************************************************************************)
(* The Document Service (crates/verdin-content/src/service.rs) for one     *)
(* content type, one transaction at a time: what SQLite's BEGIN IMMEDIATE  *)
(* gives, and what the guides promise whatever the database.               *)
(*                                                                         *)
(* A document has a row per locale and publication state.  Its attributes  *)
(* are cut down to one of each kind the service treats differently:        *)
(*   own     a column with one value per locale,                           *)
(*   shared  a column that is not localized,                               *)
(*   links   an owning relation that is not localized (a set: the order of *)
(*           the links is left out),                                       *)
(*   morphs  a polymorphic relation that is not localized.                 *)
(* Both columns are `required`, and Rule is the type's cross-field         *)
(* validation.  A type that is not localized has a single locale, one      *)
(* without draft & publish has DraftAndPublish = FALSE.                    *)
(*                                                                         *)
(* Left out: hooks (they run before the transaction), actors, timestamps,  *)
(* media (copied where links are), unique columns, and the events, which   *)
(* follow the commit.                                                      *)
(***************************************************************************)
EXTENDS FiniteSets

CONSTANTS
    Docs,             \* document ids (ULIDs: never used twice)
    Locales,          \* locale codes
    DefaultLocale,    \* the locale of the first start
    Values,           \* values of a column
    Nil,              \* the column is NULL
    Keep,             \* the write does not name the attribute
    NoRow,            \* there is no row for this key
    Rule,             \* <<own, shared>> pairs the type's validations accept
    OwnInputs,        \* what a request may hold for each column
    SharedInputs,
    RelationOps,      \* changes of the relation a request may ask for
    MorphSets,        \* targets of the polymorphic relation a request may set
    DraftAndPublish,  \* options.draftAndPublish of the type
    ToMany,           \* the relation links several documents
    UniqueTarget      \* oneToOne or oneToMany

Draft     == "draft"
Published == "published"
States    == {Draft, Published}
Columns   == Values \cup {Nil}
Row       == [own: Columns, shared: Columns, links: SUBSET Docs, morphs: SUBSET Docs]

ASSUME ConstantsAssumption ==
    /\ DefaultLocale \in Locales
    /\ Nil \notin Values
    /\ Keep \notin Columns
    /\ NoRow \notin Row
    /\ OwnInputs \cup SharedInputs \subseteq Columns \cup {Keep}
    /\ RelationOps \subseteq [disconnect: SUBSET Docs, connect: SUBSET Docs]
    /\ MorphSets \subseteq SUBSET Docs
    /\ {DraftAndPublish, ToMany, UniqueTarget} \subseteq BOOLEAN
    \* relation_op refuses to connect several documents to a to-one relation
    /\ ~ToMany => \A op \in RelationOps, x, y \in Docs :
                     x \in op.connect /\ y \in op.connect => x = y

\* The data of a request: a value for the attributes it names.  The targets of
\* the polymorphic relation, when it is named, are the only element of morphs.
Writes == [own: OwnInputs, shared: SharedInputs,
           links: RelationOps, morphs: {{}} \cup {{S} : S \in MorphSets}]

VARIABLES
    rows,      \* rows[s][d][l]: the row of document d, locale l, state s
    locales,   \* the locales of the project (vd_locales)
    default,   \* the default one
    created,   \* documents that were ever created
    lost       \* documents whose last rows went with a removed locale

vars == <<rows, locales, default, created, lost>>

-----------------------------------------------------------------------------
(* What a transaction does to the rows. *)

\* The state a write touches: the draft, or the only version.
WriteState == IF DraftAndPublish THEN Draft ELSE Published

Has(R, s, d, l) == R[s][d][l] # NoRow

\* missing_documents: a target exists when any of its versions does.
Existing(R) == {d \in Docs : \E s \in States, l \in Locales : Has(R, s, d, l)}

\* check_required and check_rules on one row.  (Variant for the mutation checks:
\* the attributes that are not localized are not looked at.)
CompleteOwn(row) == row.own # Nil
Complete(row) ==
    /\ row.own # Nil
    /\ row.shared # Nil
    /\ <<row.own, row.shared>> \in Rule

\* An attribute the request does not name keeps its value.
Assign(old, new) == IF new = Keep THEN old ELSE new

\* next_links, without the positions.  Setting the targets is the change that
\* disconnects every document first; connecting to a to-one relation replaces.
NextLinks(current, op) ==
    IF ~ToMany /\ op.connect # {}
    THEN op.connect
    ELSE (current \ op.disconnect) \cup op.connect

\* A row after a write in its own locale, and in another locale of the document.
Shared(row, w) ==
    [row EXCEPT !.shared = Assign(@, w.shared),
                !.links  = NextLinks(@, w.links),
                !.morphs = IF w.morphs = {} THEN @ ELSE UNION w.morphs]
Edited(row, w) == [Shared(row, w) EXCEPT !.own = Assign(@, w.own)]

\* steal_targets: rows of other documents in the same state let go of targets.
Without(row, targets) ==
    IF row = NoRow \/ ~UniqueTarget THEN row ELSE [row EXCEPT !.links = @ \ targets]

\* Every target document d links in state s, in some locale.
Targets(R, s, d) ==
    UNION {R[s][d][l].links : l \in {k \in Locales : Has(R, s, d, k)}}

\* The rows with those of one state replaced by f[d][l].
InState(R, s, f) == [R EXCEPT ![s] = f]

Put(R, s, d, l, row) == [R EXCEPT ![s][d][l] = row]

Steal(R, s, d, targets) ==
    InState(R, s, [e \in Docs |-> [k \in Locales |->
        IF e = d THEN R[s][e][k] ELSE Without(R[s][e][k], targets)]])

\* The columns, relations and morphs of a write, on the row and on its siblings.
\* (Variant: the siblings are left alone.)
WriteAlone(R, s, d, l, w) ==
    LET W == Put(R, s, d, l, Edited(R[s][d][l], w))
    IN  Steal(W, s, d, Targets(W, s, d))
Write(R, s, d, l, w) ==
    LET W == InState(R, s, [R[s] EXCEPT ![d] =
                 [k \in Locales |-> IF R[s][d][k] = NoRow THEN NoRow
                                    ELSE IF k = l THEN Edited(R[s][d][k], w)
                                    ELSE Shared(R[s][d][k], w)]])
    IN  Steal(W, s, d, Targets(W, s, d))

\* create: the new row before its links are written.
BlankRow == [own |-> Nil, shared |-> Nil, links |-> {}, morphs |-> {}]

\* create_locale_version: a row that takes the shared attributes of a version.
TranslationOf(source) == [source EXCEPT !.own = Nil]

\* share_published takes the columns and relations along, not the polymorphic ones.
\* (Variants: everything, and nothing.)
FollowWhole(row, draft) == draft
FollowNothing(row, draft) == row
Follow(row, draft) == [row EXCEPT !.shared = draft.shared, !.links = draft.links]

\* publish_in: the draft over the published row, then share_published.
Publication(R, d, l) ==
    LET draft == R[Draft][d][l]
        P == InState(R, Published, [R[Published] EXCEPT ![d] =
                 [k \in Locales |->
                     IF k = l THEN draft
                     ELSE IF R[Published][d][k] = NoRow THEN NoRow
                     ELSE Follow(R[Published][d][k], draft)]])
    IN  Steal(P, Published, d, draft.links)

\* The rows once no row points at d any more.
Forget(row, d) == [row EXCEPT !.links = @ \ {d}, !.morphs = @ \ {d}]
Unlinked(R, d) ==
    [s \in States |-> [e \in Docs |-> [l \in Locales |->
        IF R[s][e][l] = NoRow THEN NoRow ELSE Forget(R[s][e][l], d)]]]

\* The end of a write: publish when asked to, or hold the rules of a type that
\* is always published.  A failed check rolls the transaction back.
Finish(R, d, l, publish) ==
    IF DraftAndPublish
    THEN IF publish
         THEN Complete(R[Draft][d][l]) /\ rows' = Publication(R, d, l)
         ELSE rows' = R
    ELSE Complete(R[Published][d][l]) /\ rows' = R

\* write_relations and write_morphs refuse documents that do not exist.
References(w) == w.links.connect \cup UNION w.morphs

-----------------------------------------------------------------------------
(* The operations. *)

\* The first start: the default locale and no content.
Init ==
    /\ rows = [s \in States |-> [d \in Docs |-> [l \in Locales |-> NoRow]]]
    /\ locales = {DefaultLocale}
    /\ default = DefaultLocale
    /\ created = {}
    /\ lost = {}

\* The caller cannot name the new document: its id is drawn by the call.
Create(d, l, w, publish) ==
    /\ d \notin created
    /\ l \in locales
    /\ References(w) \subseteq Existing(rows)
    /\ LET R == Put(rows, WriteState, d, l, BlankRow)
       IN  Finish(Write(R, WriteState, d, l, w), d, l, publish)
    /\ created' = created \cup {d}
    /\ UNCHANGED <<locales, default, lost>>

\* A write in a locale the document has no version in creates that version
\* from the oldest row in the lowest state; the model lets it be any of them.
UpdateRow(d, l, w, publish) ==
    /\ Has(rows, WriteState, d, l)
    /\ References(w) \subseteq Existing(rows)
    /\ Finish(Write(rows, WriteState, d, l, w), d, l, publish)

AddTranslation(d, l, w, publish) ==
    /\ ~Has(rows, WriteState, d, l)
    /\ \E k \in Locales :
         /\ Has(rows, WriteState, d, k)
         /\ References(w) \subseteq Existing(rows)
         /\ LET R == Put(rows, WriteState, d, l, TranslationOf(rows[WriteState][d][k]))
            IN  Finish(Write(R, WriteState, d, l, w), d, l, publish)

Update(d, l, w, publish) ==
    /\ l \in locales
    /\ UpdateRow(d, l, w, publish) \/ AddTranslation(d, l, w, publish)
    /\ UNCHANGED <<locales, default, created, lost>>

\* Removes the versions of one locale; links to the document go with its last row.
\* (Variants: the links stay; only the version that is written goes.)
DeleteKeepingLinks(d, l) ==
    /\ l \in locales
    /\ \E s \in States : Has(rows, s, d, l)
    /\ rows' = [s \in States |-> [rows[s] EXCEPT ![d][l] = NoRow]]
    /\ UNCHANGED <<locales, default, created, lost>>

DeleteWriteState(d, l) ==
    /\ l \in locales
    /\ Has(rows, WriteState, d, l)
    /\ LET R == Put(rows, WriteState, d, l, NoRow)
       IN  rows' = IF d \in Existing(R) THEN R ELSE Unlinked(R, d)
    /\ UNCHANGED <<locales, default, created, lost>>

Delete(d, l) ==
    /\ l \in locales
    /\ \E s \in States : Has(rows, s, d, l)
    /\ LET R == [s \in States |-> [rows[s] EXCEPT ![d][l] = NoRow]]
       IN  rows' = IF d \in Existing(R) THEN R ELSE Unlinked(R, d)
    /\ UNCHANGED <<locales, default, created, lost>>

Publish(d, l) ==
    /\ DraftAndPublish
    /\ l \in locales
    /\ Has(rows, Draft, d, l)
    /\ Complete(rows[Draft][d][l])
    /\ rows' = Publication(rows, d, l)
    /\ UNCHANGED <<locales, default, created, lost>>

Unpublish(d, l) ==
    /\ DraftAndPublish
    /\ l \in locales
    /\ Has(rows, Draft, d, l)
    /\ rows' = Put(rows, Published, d, l, NoRow)
    /\ UNCHANGED <<locales, default, created, lost>>

\* Only the draft of this locale changes: its siblings keep their shared fields.
\* (Variant: other documents keep the targets that come back.)
DiscardWithoutSteal(d, l) ==
    /\ DraftAndPublish
    /\ l \in locales
    /\ Has(rows, Draft, d, l)
    /\ Has(rows, Published, d, l)
    /\ rows' = Put(rows, Draft, d, l, rows[Published][d][l])
    /\ UNCHANGED <<locales, default, created, lost>>

DiscardDraft(d, l) ==
    /\ DraftAndPublish
    /\ l \in locales
    /\ Has(rows, Draft, d, l)
    /\ Has(rows, Published, d, l)
    /\ LET published == rows[Published][d][l]
       IN  rows' = Steal(Put(rows, Draft, d, l, published), Draft, d, published.links)
    /\ UNCHANGED <<locales, default, created, lost>>

\* Settings -> Internationalization.
AddLocale(l) ==
    /\ l \notin locales
    /\ locales' = locales \cup {l}
    /\ UNCHANGED <<rows, default, created, lost>>

SetDefaultLocale(l) ==
    /\ l \in locales
    /\ default' = l
    /\ UNCHANGED <<rows, locales, created, lost>>

\* Deletes the rows written in the locale, and nothing that points at them.
RemoveLocale(l) ==
    /\ l \in locales
    /\ l # default
    /\ locales' = locales \ {l}
    /\ rows' = [s \in States |-> [d \in Docs |-> [rows[s][d] EXCEPT ![l] = NoRow]]]
    /\ lost' = lost \cup (Existing(rows) \ Existing(rows'))
    /\ UNCHANGED <<default, created>>

Next ==
    \/ \E d \in Docs, l \in Locales, w \in Writes, publish \in BOOLEAN :
         Create(d, l, w, publish) \/ Update(d, l, w, publish)
    \/ \E d \in Docs, l \in Locales :
         Delete(d, l) \/ Publish(d, l) \/ Unpublish(d, l) \/ DiscardDraft(d, l)
    \/ \E l \in Locales : AddLocale(l) \/ SetDefaultLocale(l) \/ RemoveLocale(l)

Spec == Init /\ [][Next]_vars
-----------------------------------------------------------------------------
(* Properties. *)

\* Every variable keeps its type; a row is only ever one of a created document.
TypeOK ==
    /\ rows \in [States -> [Docs -> [Locales -> Row \cup {NoRow}]]]
    /\ locales \subseteq Locales
    /\ default \in locales
    /\ created \subseteq Docs
    /\ lost \subseteq created
    /\ Existing(rows) \subseteq created

\* A document that is deleted takes every link to it along, in every state and
\* locale, and no write links one that does not exist: the targets of a row are
\* documents, or documents that disappeared with their locale.
LinksOutliveOnlyLocales ==
    \A s \in States, d \in Docs, l \in Locales :
        Has(rows, s, d, l) =>
            rows[s][d][l].links \cup rows[s][d][l].morphs \subseteq Existing(rows) \cup lost

\* oneToOne and oneToMany: within a state, no two documents hold one target,
\* whatever locales their rows are in (steal_targets runs on writes, on
\* publishing and on discarding).
OneOwnerPerTarget ==
    UniqueTarget =>
        \A s \in States, d, e \in Docs, l, k \in Locales :
            d # e /\ Has(rows, s, d, l) /\ Has(rows, s, e, k) =>
                rows[s][d][l].links \cap rows[s][e][k].links = {}

\* A published version never stands without its draft: whatever readers see,
\* an editor can find, unpublish and edit.
PublishedHasDraft ==
    DraftAndPublish =>
        \A d \in Docs, l \in Locales : Has(rows, Published, d, l) => Has(rows, Draft, d, l)

\* After any sequence of publications in any locales, the published versions of
\* a document agree on the shared column and relation (share_published).
PublishedVersionsAgree ==
    DraftAndPublish =>
        \A d \in Docs, l, k \in Locales :
            Has(rows, Published, d, l) /\ Has(rows, Published, d, k) =>
                /\ rows[Published][d][l].shared = rows[Published][d][k].shared
                /\ rows[Published][d][l].links  = rows[Published][d][k].links

\* No published row misses a required value, the rows that another locale's
\* publication or write reaches included.
PublishedIsRequired ==
    \A d \in Docs, l \in Locales :
        Has(rows, Published, d, l) =>
            rows[Published][d][l].own # Nil /\ rows[Published][d][l].shared # Nil

\* The shared attributes of the rows that writes touch have one value.
SharedAgree(d) ==
    \A l, k \in Locales :
        Has(rows, WriteState, d, l) /\ Has(rows, WriteState, d, k) =>
            /\ rows[WriteState][d][l].shared = rows[WriteState][d][k].shared
            /\ rows[WriteState][d][l].links  = rows[WriteState][d][k].links
            /\ rows[WriteState][d][l].morphs = rows[WriteState][d][k].morphs

\* Only discarding a draft makes the locales of a document disagree on a shared
\* attribute: no write, translation, publication, deletion or steal does.
OnlyDiscardSplitsShared ==
    [][\A d \in Docs : SharedAgree(d) /\ ~SharedAgree(d)' =>
            \E l \in Locales : DiscardDraft(d, l)]_vars

\* Readers see what was published and nothing else.  A published row that
\* appears or changes is the draft it was published from, or follows the shared
\* attributes of another locale published by the same step, or gives up links.
ReadersSeePublications ==
    [][DraftAndPublish => \A d \in Docs, l \in Locales :
        LET old == rows[Published][d][l]
            new == rows'[Published][d][l]
        IN  new \notin {old, NoRow} =>
              \/ new = rows'[Draft][d][l]
              \/ /\ old # NoRow
                 /\ new.own = old.own
                 /\ new.morphs \subseteq old.morphs
                 /\ \/ new.shared = old.shared /\ new.links \subseteq old.links
                    \/ \E k \in Locales \ {l} :
                         LET other == rows'[Published][d][k]
                         IN  /\ other # NoRow
                             /\ other = rows'[Draft][d][k]
                             /\ new.shared = other.shared
                             /\ new.links = other.links]_vars
=============================================================================
