--------------------------- MODULE ContentImport ---------------------------
(***************************************************************************)
(* The import dialog of the content list (list-import.ts): a file is picked *)
(* and read, its columns are mapped, a dry run checks it, and the import    *)
(* itself waits for a dry run in which some row passed.  Closing the dialog *)
(* does not end what is under way; opening it again starts over.            *)
(***************************************************************************)
EXTENDS Naturals, FiniteSets

CONSTANTS Files,      \* the files one can pick
          Mappings,   \* column mappings: the first a file gets, and edited ones
          FirstMapping, NoFile,
          MaxImports  \* bound: openings, picks and requests together

ImportAssumption ==
    NoFile \notin Files /\ FirstMapping \in Mappings /\ MaxImports \in Nat

VARIABLES
    open,      \* `open`: the dialog shows
    import,    \* `file`, `mapping` and `publish`: what a request would send
    reading,   \* `reading`
    busy,      \* `busy`: "no", "check" or "import"
    checked,   \* `checked`: none, or what a dry run was about and whether a row passed
    final,     \* `final`: the report of the import is shown
    reads,     \* the files being read
    runs,     \* the requests under way
    raced,     \* for the properties: a read or a dry run outlived its file or its opening
    imports    \* how much has happened, for the bound

vars == <<open, import, reading, busy, checked, final, reads, runs, raced, imports>>

NoReport == [passed |-> FALSE]
Nothing  == [file |-> NoFile, mapping |-> FirstMapping, publish |-> FALSE]
Happen   == imports < MaxImports /\ imports' = imports + 1

Init ==
    /\ open = FALSE /\ import = Nothing /\ reading = FALSE /\ busy = "no"
    /\ checked = NoReport /\ final = FALSE /\ reads = {} /\ runs = {}
    /\ raced = FALSE /\ imports = 0

\* `reset`: each opening starts over.
Open ==
    /\ ~open /\ Happen
    /\ open' = TRUE /\ import' = Nothing /\ reading' = FALSE /\ busy' = "no"
    /\ checked' = NoReport /\ final' = FALSE
    /\ UNCHANGED <<reads, runs, raced>>

Close ==
    /\ open /\ open' = FALSE
    /\ UNCHANGED <<import, reading, busy, checked, final, reads, runs, raced, imports>>

\* `pick`: a file of a known format and size is read.
Pick(f) ==
    /\ open /\ ~final /\ busy = "no" /\ Happen
    /\ import' = [import EXCEPT !.file = NoFile] /\ checked' = NoReport
    /\ reading' = TRUE
    /\ reads' = reads \union {[n |-> imports, file |-> f]}
    /\ UNCHANGED <<open, busy, final, runs, raced>>

\* Its text is there, with a fresh mapping; or it cannot be read.
ReadEnds(r) ==
    /\ r \in reads /\ reads' = reads \ {r}
    /\ reading' = FALSE
    /\ \/ import' = [import EXCEPT !.file = r.file, !.mapping = FirstMapping]
       \/ UNCHANGED import
    /\ raced' = (raced \/ checked.passed \/ busy # "no" \/ runs # {})
    /\ UNCHANGED <<open, busy, checked, final, runs, imports>>

Ready == open /\ ~final /\ import.file # NoFile /\ busy = "no"

\* Mutant of SetTarget: the report of the dry run is kept.
SetTargetOnly(mapping) ==
    /\ Ready /\ mapping # import.mapping
    /\ import' = [import EXCEPT !.mapping = mapping]
    /\ UNCHANGED <<open, reading, busy, checked, final, reads, runs, raced, imports>>

\* `setTarget` and `setPublish`: another import than the one that was checked.
SetTarget(mapping) ==
    /\ Ready /\ mapping # import.mapping
    /\ import' = [import EXCEPT !.mapping = mapping]
    /\ checked' = NoReport
    /\ UNCHANGED <<open, reading, busy, final, reads, runs, raced, imports>>

SetPublish ==
    /\ Ready /\ import' = [import EXCEPT !.publish = ~@]
    /\ checked' = NoReport
    /\ UNCHANGED <<open, reading, busy, final, reads, runs, raced, imports>>

\* `run`: a dry run, or the import once one has passed.
Run(kind) ==
    /\ Ready /\ (kind = "import" => checked.passed) /\ Happen
    /\ busy' = kind
    /\ runs' = runs \union {[n |-> imports, kind |-> kind, of |-> import]}
    /\ UNCHANGED <<open, import, reading, checked, final, reads, raced>>

\* Some row passes, none does, or the request fails.
PostEnds(p, passed) ==
    /\ p \in runs /\ runs' = runs \ {p}
    /\ busy' = "no"
    /\ \/ p.kind = "check" /\ UNCHANGED final
          /\ checked' = IF passed THEN [passed |-> TRUE, of |-> p.of] ELSE NoReport
       \/ p.kind = "import" /\ final' = TRUE /\ UNCHANGED checked
       \/ UNCHANGED <<checked, final>>
    /\ raced' = (raced \/ p.of # import)
    /\ UNCHANGED <<open, import, reading, reads, imports>>

Progress ==
    \/ \E r \in reads : ReadEnds(r)
    \/ \E p \in runs, passed \in BOOLEAN : PostEnds(p, passed)

Next ==
    \/ Progress \/ Open \/ Close \/ SetPublish
    \/ \E f \in Files : Pick(f)
    \/ \E mapping \in Mappings : SetTarget(mapping)
    \/ \E kind \in {"check", "import"} : Run(kind)

\* Reads and requests end.
Spec == Init /\ [][Next]_vars /\ WF_vars(Progress)

----------------------------------------------------------------------------
(* Properties. *)

\* The dialog's state has the shapes the code gives it.
TypeOK ==
    /\ import \in [file : Files \union {NoFile}, mapping : Mappings, publish : BOOLEAN]
    /\ checked.passed => checked.of.file \in Files
    /\ busy \in {"no", "check", "import"} /\ \A p \in runs : p.of.file \in Files

\* What is imported - the file, its mapping and whether it publishes - is what the dry
\* run checked, as long as no read and no dry run answers for a file that was replaced.
UnracedImportsAreChecked ==
    [][ \A p \in runs' \ runs : p.kind = "import" /\ ~raced => checked.of = p.of ]_vars

\* The dialog's buttons can be pressed.
ImportAtRest == busy = "no"
=============================================================================
