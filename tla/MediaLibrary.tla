---------------------------- MODULE MediaLibrary ----------------------------
(***************************************************************************)
(* The media library of the admin panel: the listing of a folder's files    *)
(* (media/media-listing.ts), the selection and what is done with it          *)
(* (library.ts, folder-dialog.ts), the sheet of one file (file-sheet.ts),    *)
(* and uploads (upload-panel.ts).  A search, a kind and a sort are listed    *)
(* the way a page is, and left out, as are the folders' own changes; all     *)
(* files may be changed by the admin.                                      *)
(***************************************************************************)
EXTENDS Integers, FiniteSets

CONSTANTS MediaFiles,    \* the files, numbered in the order they are listed in
          FirstStored,   \* those there are at first, in the root
          MediaFolders, Root,
          MediaPageSize, \* `PAGE_SIZE`
          NoSheet,
          MaxMedia       \* bound: navigations, changes and uploads together

ASSUME MediaAssumption ==
    /\ FirstStored \subseteq MediaFiles /\ MediaFiles \subseteq Nat /\ IsFiniteSet(MediaFiles)
    /\ Root \in MediaFolders /\ MediaFolders \cap {"new", "gone"} = {}
    /\ MediaPageSize \in Nat \ {0} /\ MaxMedia \in Nat

VARIABLES
    shelf,        \* the server: the folder of each file, or "new" or "gone"
    place,        \* the route's folder, and `page`
    files,        \* `files` and `pageCount`, and the place they are of
    mediaState,   \* `loading`, `error` or neither
    mediaRequests,\* `requestId`
    mediaLoads,   \* the loads under way
    picked,       \* `selection`
    warned,       \* the files whose deletion is to be confirmed: whose usage is shown
    moving,       \* the files the move dialog is about
    batches,      \* deletions and moves of several files
    uploads,      \* uploads under way, and the folder each goes to
    sheet,        \* `openedFile`
    sheetCalls,   \* the sheet's requests
    unsure,       \* something changed that the page does not look at
    mediaHappened \* how much has happened, for the bound

mediaVars == <<shelf, place, files, mediaState, mediaRequests, mediaLoads, picked, warned, moving,
               batches, uploads, sheet, sheetCalls, unsure, mediaHappened>>

mediaListing == <<place, files, mediaState, mediaRequests, mediaLoads>>
dialogs == <<warned, moving, sheet>>
mediaCalls   == <<batches, uploads, sheetCalls>>

MediaHappens == mediaHappened < MaxMedia /\ mediaHappened' = mediaHappened + 1

FilesIn(folder) == {f \in MediaFiles : shelf[f] = folder}
Rank(f) == Cardinality({g \in FilesIn(shelf[f]) : g <= f})
PageOf(p) ==
    {f \in FilesIn(p.folder) : (p.page - 1) * MediaPageSize < Rank(f) /\ Rank(f) <= p.page * MediaPageSize}
PageCount(p) == (Cardinality(FilesIn(p.folder)) + MediaPageSize - 1) \div MediaPageSize

Loading(p, n) == [n |-> n, of |-> p, read |-> FALSE, rows |-> {}, pages |-> 0]

MediaInit ==
    /\ shelf = [f \in MediaFiles |-> IF f \in FirstStored THEN Root ELSE "new"]
    /\ place = [folder |-> Root, page |-> 1]
    /\ files = [of |-> place, rows |-> {}, pages |-> 1]
    /\ mediaState = "loading" /\ mediaRequests = 1 /\ mediaLoads = {Loading(place, 1)}
    /\ picked = {} /\ warned = {} /\ moving = {} /\ sheet = NoSheet
    /\ batches = {} /\ uploads = {} /\ sheetCalls = {} /\ unsure = FALSE /\ mediaHappened = 0

----------------------------------------------------------------------------
(* The listing. *)

\* `load`: of the page that is wanted now.
LoadListing(p) ==
    /\ place' = p /\ mediaState' = "loading"
    /\ mediaRequests' = mediaRequests + 1
    /\ mediaLoads' = mediaLoads \union {Loading(p, mediaRequests + 1)}

Reload == LoadListing(place)

\* A folder's link, or the browser's history; a new folder starts with no selection.
OpenFolder(folder) ==
    /\ folder # place.folder /\ MediaHappens
    /\ LoadListing([folder |-> folder, page |-> 1]) /\ picked' = {}
    /\ UNCHANGED <<shelf, files, dialogs, mediaCalls, unsure>>

Modal == warned # {} \/ moving # {} \/ sheet # NoSheet

TurnPage(p) ==
    /\ ~Modal /\ p # place.page /\ p <= files.pages /\ MediaHappens
    /\ LoadListing([place EXCEPT !.page = p])
    /\ UNCHANGED <<shelf, files, picked, dialogs, mediaCalls, unsure>>

ServerReads(ld) ==
    /\ ~ld.read
    /\ mediaLoads' = (mediaLoads \ {ld}) \union
         {[ld EXCEPT !.read = TRUE, !.rows = PageOf(ld.of), !.pages = PageCount(ld.of)]}
    /\ UNCHANGED <<shelf, place, files, mediaState, mediaRequests, picked, dialogs, mediaCalls, unsure,
                   mediaHappened>>

\* Mutant of Overtaken: an answer does not look whether a later load was started.
OvertakenNever(ld) == FALSE

Overtaken(ld) == ld.n # mediaRequests

\* Mutant of StillPicked: the selection keeps files of other pages.
StillPickedAll(rows) == picked

\* A selection only keeps the files still shown.
StillPicked(rows) == picked \intersect rows

Arrives(ld) ==
    /\ ld.read /\ mediaLoads' = mediaLoads \ {ld}
    /\ IF Overtaken(ld) THEN UNCHANGED <<files, mediaState, picked>>
       ELSE /\ files' = [of |-> ld.of, rows |-> ld.rows, pages |-> ld.pages]
            /\ mediaState' = "ready" /\ picked' = StillPicked(ld.rows)
    /\ UNCHANGED <<shelf, place, mediaRequests, dialogs, mediaCalls, unsure, mediaHappened>>

ListingFails(ld) ==
    /\ mediaLoads' = mediaLoads \ {ld}
    /\ IF Overtaken(ld) THEN UNCHANGED <<files, mediaState>>
       ELSE files' = [files EXCEPT !.rows = {}] /\ mediaState' = "error"
    /\ UNCHANGED <<shelf, place, mediaRequests, picked, dialogs, mediaCalls, unsure, mediaHappened>>

----------------------------------------------------------------------------
(* The selection.  While the listing loads there are no tiles to press.     *)

Toggle(f) ==
    /\ ~Modal /\ mediaState = "ready" /\ f \in files.rows
    /\ picked' = IF f \in picked THEN picked \ {f} ELSE picked \union {f}
    /\ UNCHANGED <<shelf, mediaListing, dialogs, mediaCalls, unsure, mediaHappened>>

SelectAll ==
    /\ ~Modal /\ mediaState = "ready"
    /\ picked' = IF files.rows \subseteq picked THEN {} ELSE files.rows
    /\ UNCHANGED <<shelf, mediaListing, dialogs, mediaCalls, unsure, mediaHappened>>

Selected == files.rows \intersect picked

RequestBulkDelete ==
    /\ ~Modal /\ Selected # {} /\ warned' = Selected
    /\ UNCHANGED <<shelf, mediaListing, picked, moving, sheet, mediaCalls, unsure, mediaHappened>>

Batch(op, ids, to) == [n |-> mediaHappened, op |-> op, left |-> ids, to |-> to]

\* Confirmed, it deletes what is selected by then.
DeleteSelected ==
    /\ warned # {} /\ warned' = {}
    /\ IF Selected = {} THEN UNCHANGED <<batches, mediaHappened>>
       ELSE MediaHappens /\ batches' = batches \union {Batch("delete", Selected, "gone")}
    /\ UNCHANGED <<shelf, mediaListing, picked, moving, sheet, uploads, sheetCalls, unsure>>

OpenMoveFiles ==
    /\ ~Modal /\ Selected # {} /\ moving' = Selected
    /\ UNCHANGED <<shelf, mediaListing, picked, warned, sheet, mediaCalls, unsure, mediaHappened>>

\* `submit`, when the dialog is not busy.
MoveFiles(to) ==
    /\ moving # {} /\ \A b \in batches : b.op # "move"
    /\ MediaHappens /\ batches' = batches \union {Batch("move", moving, to)}
    /\ UNCHANGED <<shelf, mediaListing, picked, dialogs, uploads, sheetCalls, unsure>>

CloseDialog ==
    /\ Modal /\ warned' = {} /\ moving' = {} /\ sheet' = NoSheet
    /\ UNCHANGED <<shelf, mediaListing, picked, mediaCalls, unsure, mediaHappened>>

Stored(f) == shelf[f] \in MediaFolders

\* One request of a batch is done, or refused.
BatchSettles(b, f) ==
    /\ f \in b.left
    /\ batches' = (batches \ {b}) \union {[b EXCEPT !.left = @ \ {f}]}
    /\ \/ Stored(f) /\ shelf' = [shelf EXCEPT ![f] = b.to]
       \/ UNCHANGED shelf
    /\ UNCHANGED <<mediaListing, picked, dialogs, uploads, sheetCalls, unsure, mediaHappened>>

\* All are settled, whatever the outcome; the end of a move closes its dialog.
BatchEnds(b) ==
    /\ b.left = {} /\ batches' = batches \ {b}
    /\ picked' = {} /\ Reload
    /\ moving' = IF b.op = "move" THEN {} ELSE moving
    /\ UNCHANGED <<shelf, files, warned, sheet, uploads, sheetCalls, unsure, mediaHappened>>

----------------------------------------------------------------------------
(* The sheet of a file, and uploads. *)

OpenSheet(f) ==
    /\ ~Modal /\ mediaState = "ready" /\ f \in files.rows /\ sheet' = f
    /\ UNCHANGED <<shelf, mediaListing, picked, warned, moving, mediaCalls, unsure, mediaHappened>>

\* `save` and `replace`, each unless one of its kind is under way, and `remove`.
SheetSends(op, to) ==
    /\ sheet # NoSheet
    /\ op = "delete" \/ \A c \in sheetCalls : c.op # op
    /\ MediaHappens
    /\ sheetCalls' = sheetCalls \union
         {[op |-> op, file |-> sheet, to |-> to, at |-> "sent", changed |-> FALSE]}
    /\ UNCHANGED <<shelf, mediaListing, picked, dialogs, batches, uploads, unsure>>

\* The server's part; other content leaves a file where it is.
SheetServed(c) ==
    /\ c.at = "sent" /\ Stored(c.file)
    /\ LET to == IF c.op = "replace" THEN shelf[c.file] ELSE c.to IN
         /\ shelf' = [shelf EXCEPT ![c.file] = to]
         /\ sheetCalls' = (sheetCalls \ {c}) \union
              {[c EXCEPT !.at = "done", !.to = to, !.changed = shelf[c.file] # to]}
    /\ UNCHANGED <<mediaListing, picked, dialogs, batches, uploads, unsure, mediaHappened>>

\* `fileSaved` opens the sheet again; the listing is loaded again if the file is not in
\* the folder shown.
SheetSaved(c) ==
    /\ c.op # "delete" /\ c.at = "done" /\ sheet' = c.file
    /\ IF c.to # place.folder THEN Reload /\ UNCHANGED <<files, unsure>>
       ELSE unsure' = (unsure \/ c.changed) /\ UNCHANGED mediaListing

\* `fileDeleted`
SheetDeleted(c) ==
    /\ c.op = "delete" /\ c.at = "done" /\ sheet' = NoSheet
    /\ files' = [files EXCEPT !.rows = @ \ {c.file}] /\ Reload /\ UNCHANGED unsure

\* Refused, or the answer was lost: a toast, and nothing is loaded again.
SheetFails(c) ==
    unsure' = (unsure \/ c.changed) /\ UNCHANGED <<sheet, mediaListing>>

SheetSettles(c) ==
    /\ sheetCalls' = sheetCalls \ {c}
    /\ SheetSaved(c) \/ SheetDeleted(c) \/ SheetFails(c)
    /\ UNCHANGED <<shelf, picked, warned, moving, batches, uploads, mediaHappened>>

\* `upload`: to the folder that is open when the files are picked or dropped; `acceptsDrag`
\* does not look at the confirmation of a deletion.
Upload(f) ==
    /\ moving = {} /\ sheet = NoSheet /\ shelf[f] = "new" /\ f \notin {u.file : u \in uploads}
    /\ MediaHappens /\ uploads' = uploads \union {[file |-> f, to |-> place.folder]}
    /\ UNCHANGED <<shelf, mediaListing, picked, dialogs, batches, sheetCalls, unsure>>

UploadEnds(u) ==
    /\ uploads' = uploads \ {u} /\ Reload
    /\ shelf' = [shelf EXCEPT ![u.file] = u.to] \/ UNCHANGED shelf
    /\ UNCHANGED <<files, picked, dialogs, batches, sheetCalls, unsure, mediaHappened>>

\* Another admin moves or deletes a file: nothing tells the page.
OthersChangeFiles(f, to) ==
    /\ Stored(f) /\ to # shelf[f] /\ MediaHappens
    /\ shelf' = [shelf EXCEPT ![f] = to] /\ unsure' = TRUE
    /\ UNCHANGED <<mediaListing, picked, dialogs, mediaCalls>>

----------------------------------------------------------------------------
Progress ==
    \/ \E ld \in mediaLoads : ServerReads(ld) \/ Arrives(ld) \/ ListingFails(ld)
    \/ \E b \in batches : BatchEnds(b) \/ \E f \in b.left : BatchSettles(b, f)
    \/ \E c \in sheetCalls : SheetServed(c) \/ SheetSettles(c)
    \/ \E u \in uploads : UploadEnds(u)

MediaNext ==
    \/ Progress
    \/ \E folder \in MediaFolders :
         \/ OpenFolder(folder) \/ MoveFiles(folder) \/ SheetSends("save", folder)
         \/ \E f \in MediaFiles : OthersChangeFiles(f, folder)
    \/ \E p \in 1 .. Cardinality(MediaFiles) : TurnPage(p)
    \/ \E f \in MediaFiles : Toggle(f) \/ OpenSheet(f) \/ Upload(f) \/ OthersChangeFiles(f, "gone")
    \/ SelectAll \/ RequestBulkDelete \/ DeleteSelected \/ OpenMoveFiles \/ CloseDialog
    \/ SheetSends("delete", "gone") \/ SheetSends("replace", Root)

MediaSpec == MediaInit /\ [][MediaNext]_mediaVars

----------------------------------------------------------------------------
(* Properties. *)

\* The library's state has the shapes the code gives it; no load is newer than the last.
Place == [folder: MediaFolders, page: Nat \ {0}]
Where == MediaFolders \union {"new", "gone"}
MediaTypeOK ==
    /\ shelf \in [MediaFiles -> Where] /\ place \in Place
    /\ files \in [of: Place, rows: SUBSET MediaFiles, pages: Nat]
    /\ mediaState \in {"loading", "ready", "error"} /\ mediaRequests \in Nat
    /\ mediaLoads \subseteq [n: Nat, of: Place, read: BOOLEAN, rows: SUBSET MediaFiles, pages: Nat]
    /\ \A ld \in mediaLoads : ld.n <= mediaRequests
    /\ {picked, warned, moving} \subseteq SUBSET MediaFiles
    /\ batches \subseteq [n: Nat, op: {"delete", "move"}, left: SUBSET MediaFiles, to: Where]
    /\ uploads \subseteq [file: MediaFiles, to: MediaFolders]
    /\ sheet \in MediaFiles \union {NoSheet}
    /\ sheetCalls \subseteq [op: {"save", "replace", "delete"}, file: MediaFiles, to: Where,
                         at: {"sent", "done"}, changed: BOOLEAN]
    /\ unsure \in BOOLEAN /\ mediaHappened \in Nat

\* A listing that waits for nothing shows what the server has in the folder and on the page
\* that are open, whatever the admin deleted, moved, saved and uploaded meanwhile; but for
\* others' changes, for a file saved into a folder that is only opened before the answer,
\* and for a save or a deletion of the sheet that the server has done and whose answer is lost.
ShelfIsShown ==
    mediaState = "ready" /\ batches = {} /\ uploads = {} /\ sheetCalls = {} /\ ~unsure =>
        files.of = place /\ files.rows = PageOf(place)

\* A deletion of several files takes none whose usage the confirmation did not show, though
\* listings change while it is open.
DeletionsAreWarned ==
    [][ \A b \in batches' : b.op = "delete" /\ b.n \notin {c.n : c \in batches}
                            => b.left \subseteq warned ]_mediaVars
=============================================================================
