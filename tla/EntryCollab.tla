---------------------------- MODULE EntryCollab ----------------------------
(***************************************************************************)
(* The comments and tasks of the entry an editor has open                  *)
(* (collab/entry-collab.ts): loaded when the editor turns to an entry,      *)
(* loaded again when the stream tells of a change or of a gap, and after    *)
(* the admin's own changes.  A load asks for each kind with a request of    *)
(* its own and is applied as a whole, if no later load was started.         *)
(***************************************************************************)
EXTENDS Realtime

CONSTANTS Entries,    \* the entries of the type (in their locales)
          NoEntry,    \* the editor is on none: a new entry, or a missing locale
          Unloaded,   \* `null`: a kind that was not loaded, or not asked for
          MaxHappenings  \* bound: binds, changes, gaps and own requests together

ASSUME CollabAssumption ==
    /\ NoEntry \notin Entries /\ Unloaded \notin Nat \union Entries
    /\ MaxHappenings \in Nat

Kinds == {"comments", "tasks"}

VARIABLES
    truth,         \* how often the comments and the tasks of each entry changed
    collabEntry,   \* `entry`
    collabShown,   \* `threads` and `tasks`
    failed,        \* `error`
    collabPending, \* `pending`: the kinds the next refresh reloads
    timer,         \* its timer is set
    refreshes,     \* `requests`
    loads,         \* the refreshes under way
    sends,         \* the admin's own changes under way
    heldElsewhere, \* another component of the page retains the stream
    happened       \* how much has happened, for the bound

collabVars ==
    <<truth, collabEntry, collabShown, failed, collabPending, timer, refreshes, loads, sends>>
liveVars == <<streamVars, collabVars, heldElsewhere, happened>>

None == [k \in Kinds |-> Unloaded]

Happen == happened < MaxHappenings /\ happened' = happened + 1

CollabInit ==
    /\ StreamInit
    /\ truth = [e \in Entries |-> [k \in Kinds |-> 0]]
    /\ collabEntry = NoEntry /\ collabShown = None /\ failed = FALSE
    /\ collabPending = {} /\ timer = FALSE
    /\ refreshes = 0 /\ loads = {} /\ sends = {}
    /\ heldElsewhere = FALSE /\ happened = 0

----------------------------------------------------------------------------
Load(what) == [n |-> refreshes + 1, entry |-> collabEntry', due |-> what, what |-> what,
               got |-> None]

\* `refresh`: of the entry that is followed now, if any.
Refresh(what) ==
    IF collabEntry' = NoEntry THEN UNCHANGED <<refreshes, loads>>
    ELSE /\ refreshes' = refreshes + 1
         /\ loads' = loads \union {Load(what)}

\* `bind`: drops what was shown, moves the subscription, and loads both kinds.
Bind(e) ==
    /\ e # collabEntry /\ Happen
    /\ collabEntry' = e /\ collabShown' = None /\ failed' = FALSE /\ timer' = FALSE
    /\ Hold(IF collabEntry = NoEntry THEN 0 ELSE 1, IF e = NoEntry THEN 0 ELSE 1)
    /\ Refresh(Kinds)
    /\ UNCHANGED <<wire, missed, truth, collabPending, sends, heldElsewhere>>

\* The list, the dashboard or presence retains or releases the stream too.
HoldElsewhere ==
    /\ Happen /\ heldElsewhere' = ~heldElsewhere
    /\ Hold(IF heldElsewhere THEN 1 ELSE 0, IF heldElsewhere THEN 0 ELSE 1)
    /\ UNCHANGED <<collabVars, wire, missed>>

\* `scheduleRefresh`, of what it is asked for and what was pending.
Schedule(kinds) ==
    IF collabEntry = NoEntry THEN UNCHANGED <<collabPending, timer>>
    ELSE collabPending' = collabPending \union kinds /\ timer' = TRUE

TimerFires ==
    /\ timer /\ timer' = FALSE
    /\ collabPending' = {} /\ UNCHANGED collabEntry
    /\ Refresh(collabPending)
    /\ UNCHANGED <<streamVars, truth, collabShown, failed, sends, heldElsewhere, happened>>

StreamOpens ==
    \E resync \in BOOLEAN :
        /\ Open(resync)
        /\ IF resync THEN Schedule(Kinds) ELSE UNCHANGED <<collabPending, timer>>
        /\ UNCHANGED <<truth, collabEntry, collabShown, failed, refreshes, loads, sends,
                       heldElsewhere, happened>>

ReadMessage ==
    /\ Read
    /\ LET message == Head(wire) IN
         IF message = Lagged THEN Schedule(Kinds)
         ELSE IF message[1] = collabEntry THEN Schedule({message[2]})
         ELSE UNCHANGED <<collabPending, timer>>
    /\ UNCHANGED <<truth, collabEntry, collabShown, failed, refreshes, loads, sends,
                   heldElsewhere, happened>>

----------------------------------------------------------------------------
(* The requests of a load, and what becomes of it. *)

Serve(ld, k) ==
    /\ ld \in loads /\ k \in ld.due
    /\ loads' = (loads \ {ld}) \union
                {[ld EXCEPT !.due = @ \ {k}, !.got[k] = truth[ld.entry][k]]}
    /\ UNCHANGED <<streamVars, truth, collabEntry, collabShown, failed, collabPending, timer,
                   refreshes, sends, heldElsewhere, happened>>

\* Mutant of Outdated: the number of the load is not compared.
OutdatedByEntryOnly(ld) == collabEntry # ld.entry

Outdated(ld) == ld.n # refreshes \/ collabEntry # ld.entry

Loaded(ld) ==
    /\ ld \in loads /\ ld.due = {}
    /\ loads' = loads \ {ld}
    /\ IF Outdated(ld) THEN UNCHANGED <<collabShown, failed>>
       ELSE /\ collabShown' = [k \in Kinds |-> IF k \in ld.what THEN ld.got[k] ELSE collabShown[k]]
            /\ failed' = FALSE
    /\ UNCHANGED <<streamVars, truth, collabEntry, collabPending, timer, refreshes, sends,
                   heldElsewhere, happened>>

LoadFails(ld) ==
    /\ ld \in loads /\ ld.due # {}
    /\ loads' = loads \ {ld}
    /\ failed' = (failed \/ ld.n = refreshes)
    /\ UNCHANGED <<streamVars, truth, collabEntry, collabShown, collabPending, timer,
                   refreshes, sends, heldElsewhere, happened>>

----------------------------------------------------------------------------
(* Changes, by this admin and by others. *)

Changed(e, k) ==
    /\ truth' = [truth EXCEPT ![e][k] = @ + 1]
    /\ Announced(<<e, k>>)
    /\ UNCHANGED <<users, stream>>

OthersChange(e, k) ==
    /\ Happen /\ Changed(e, k)
    /\ UNCHANGED <<collabEntry, collabShown, failed, collabPending, timer, refreshes, loads,
                   sends, heldElsewhere>>

\* `addComment`, `addTask` and the like (of the entry on the screen); `updateTask` and
\* `removeTask` put the answer into the list themselves.
Send(op) ==
    /\ collabEntry # NoEntry /\ collabShown[IF op = "comments" THEN "comments" ELSE "tasks"] # Unloaded
    /\ Happen
    /\ sends' = sends \union {[op |-> op, entry |-> collabEntry, done |-> Unloaded]}
    /\ UNCHANGED <<streamVars, truth, collabEntry, collabShown, failed, collabPending, timer,
                   refreshes, loads, heldElsewhere>>

Done(sd) ==
    /\ sd \in sends /\ sd.done = Unloaded
    /\ LET k == IF sd.op = "comments" THEN "comments" ELSE "tasks" IN
         /\ Changed(sd.entry, k)
         /\ sends' = (sends \ {sd}) \union {[sd EXCEPT !.done = truth[sd.entry][k] + 1]}
    /\ UNCHANGED <<collabEntry, collabShown, failed, collabPending, timer, refreshes, loads,
                   heldElsewhere, happened>>

\* The reload is of the entry that is followed by then.
Answered(sd) ==
    /\ sd \in sends /\ sd.done # Unloaded
    /\ sends' = sends \ {sd} /\ UNCHANGED collabEntry
    /\ IF sd.op = "task in place"
       THEN /\ collabShown' = IF sd.entry = collabEntry /\ collabShown["tasks"] # Unloaded
                        THEN [collabShown EXCEPT !["tasks"] = sd.done] ELSE collabShown
            /\ UNCHANGED <<refreshes, loads>>
       ELSE /\ Refresh({sd.op})
            /\ UNCHANGED collabShown
    /\ UNCHANGED <<streamVars, truth, failed, collabPending, timer, heldElsewhere, happened>>

Refused(sd) ==
    /\ sd \in sends /\ sd.done = Unloaded
    /\ sends' = sends \ {sd}
    /\ UNCHANGED <<streamVars, truth, collabEntry, collabShown, failed, collabPending, timer,
                   refreshes, loads, heldElsewhere, happened>>

----------------------------------------------------------------------------
\* The stream alone; a gap counts for the bound.
StreamRuns ==
    /\ \/ Wakes /\ UNCHANGED happened
       \/ Ends /\ UNCHANGED happened
       \/ OpenFails /\ Happen
       \/ Closes /\ Happen
    /\ UNCHANGED <<collabVars, heldElsewhere>>

Requests ==
    \/ \E ld \in loads : Loaded(ld) \/ LoadFails(ld) \/ \E k \in Kinds : Serve(ld, k)
    \/ \E sd \in sends : Done(sd) \/ Answered(sd) \/ Refused(sd)

CollabNext ==
    \/ \E e \in Entries \union {NoEntry} : Bind(e)
    \/ HoldElsewhere \/ TimerFires \/ StreamOpens \/ ReadMessage \/ StreamRuns
    \/ Requests
    \/ \E e \in Entries, k \in Kinds : OthersChange(e, k)
    \/ \E op \in {"comments", "tasks", "task in place"} : Send(op)

\* Requests are answered or fail.
CollabSpec == CollabInit /\ [][CollabNext]_liveVars /\ WF_liveVars(Requests)

----------------------------------------------------------------------------
(* Properties. *)

\* The stream, the loads and the shown versions have the shapes the code gives them.
CollabTypeOK ==
    /\ users \in 0 .. 2 /\ stream.at \in {"idle", "connecting", "open", "waiting"}
    /\ collabEntry \in Entries \union {NoEntry}
    /\ collabShown \in [Kinds -> Nat \union {Unloaded}]
    /\ collabPending \subseteq Kinds /\ timer \in BOOLEAN /\ failed \in BOOLEAN
    /\ \A ld \in loads : ld.n \in 1 .. refreshes /\ ld.entry \in Entries

\* The comments are those of the entry on the screen and never go back to an older
\* state of them, whichever loads answer first.  (`LiveView`)
View == INSTANCE LiveView WITH
            Things <- Entries, Nothing <- Unloaded,
            truth  <- [e \in Entries |-> truth[e]["comments"]],
            about  <- IF collabEntry = NoEntry THEN Unloaded ELSE collabEntry,
            shown  <- collabShown["comments"]

CommentsAreLive == View!Spec

\* As long as a component retains the stream it runs, however quickly the last user left
\* and the next one came; and once it is open again after a gap, whoever listens is told:
\* nothing that was missed since it was first open is left unannounced.
StreamKeepsUp ==
    /\ users > 0 => stream.at # "idle"
    /\ stream.at = "open" /\ missed => \E i \in 1 .. Len(wire) : wire[i] = Lagged
=============================================================================
