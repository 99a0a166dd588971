------------------------------ MODULE Realtime ------------------------------
(***************************************************************************)
(* The admin panel's one event stream (core/realtime.ts): opened while     *)
(* something retains it, reopened when it ends or fails.  What is announced *)
(* while it is not open is missed; a reopened stream says so (`resync`).   *)
(* A component that listens extends this module: its actions say what they *)
(* do with a message (`Read`) and with a resync (`Open`, `ReadLagged`).    *)
(***************************************************************************)
EXTENDS Naturals, Sequences, FiniteSets

VARIABLES
    users,      \* `users`: how many retain the stream
    stream,     \* `run`: where its loop is, `first`, and the abort of its controller
    wire,       \* what the server wrote to the open stream, unread
    missed      \* for the property: events were missed since the stream was first open

streamVars == <<users, stream, wire, missed>>

Lagged == <<"lagged">>     \* the server's word that it dropped messages

StreamInit ==
    /\ users = 0 /\ wire = <<>> /\ missed = FALSE
    /\ stream = [at |-> "idle", first |-> TRUE, aborted |-> FALSE]

Started == [at |-> "connecting", first |-> TRUE, aborted |-> FALSE]

\* `retain`: the first user starts a run, unless one is still ending.
Retained(s) == IF s.at = "idle" THEN Started ELSE s

\* `stop`, when the last user is gone: an open or opening stream is aborted, a waiting
\* one is woken (`Wakes`).
Stopped(s) == [s EXCEPT !.aborted = s.at \in {"connecting", "open"}]

\* The users change by one component: it releases what it held, then retains again.
Hold(held, holds) ==
    LET left == users - held
        released == IF held > 0 /\ left = 0 THEN Stopped(stream) ELSE stream
    IN  /\ users' = left + holds
        /\ stream' = IF holds > 0 /\ left = 0 THEN Retained(released) ELSE released

\* The server opened the stream; its answer before a gap is followed by a resync.
Open(resync) ==
    /\ stream.at = "connecting" /\ ~stream.aborted
    /\ resync = ~stream.first
    /\ stream' = [stream EXCEPT !.at = "open", !.first = FALSE]
    /\ wire' = <<>> /\ missed' = (missed /\ ~resync)
    /\ UNCHANGED users

\* Refused or unreachable.
OpenFails ==
    /\ stream.at = "connecting" /\ ~stream.aborted
    /\ stream' = [stream EXCEPT !.at = "waiting"]
    /\ UNCHANGED <<users, wire, missed>>

\* The server closes it after 15 minutes, or the network does; what was not read is lost.
Closes ==
    /\ stream.at = "open" /\ ~stream.aborted
    /\ stream' = [stream EXCEPT !.at = "waiting"]
    /\ missed' = (wire # <<>>)
    /\ wire' = <<>>
    /\ UNCHANGED users

\* Mutant of Wakes: `first` is set anew in every round of the loop.
WakesAfresh ==
    /\ stream.at = "waiting"
    /\ stream' = IF users > 0 THEN Started ELSE [Started EXCEPT !.at = "idle"]
    /\ missed' = (missed /\ users > 0)
    /\ UNCHANGED <<users, wire>>

\* The delay is over, or `stop` woke it.
Wakes ==
    /\ stream.at = "waiting"
    /\ stream' = [stream EXCEPT !.at = IF users > 0 THEN "connecting" ELSE "idle",
                                !.first = IF users > 0 THEN @ ELSE TRUE]
    /\ missed' = (missed /\ users > 0)
    /\ UNCHANGED <<users, wire>>

\* Mutant of Ends: the run does not look at the users again.
EndsForGood ==
    /\ stream.aborted
    /\ stream' = [Started EXCEPT !.at = "idle"]
    /\ wire' = <<>> /\ missed' = FALSE
    /\ UNCHANGED users

\* The aborted run ends.  Retained again while stopping: it starts over.
Ends ==
    /\ stream.aborted
    /\ stream' = IF users > 0 THEN Started ELSE [Started EXCEPT !.at = "idle"]
    /\ wire' = <<>> /\ missed' = FALSE
    /\ UNCHANGED users

\* The server announces a message; a subscriber that lags has lost what it had not read.
Announced(message) ==
    \/ /\ stream.at = "open"
       /\ wire' = Append(wire, message) /\ UNCHANGED missed
    \/ /\ stream.at = "open" /\ wire # <<>>
       /\ wire' = <<Lagged, message>> /\ missed' = TRUE
    \/ /\ stream.at # "open"
       /\ missed' = (missed \/ ~stream.first) /\ UNCHANGED wire

\* The next message, which the listener takes as Head(wire).
Read ==
    /\ stream.at = "open" /\ ~stream.aborted /\ wire # <<>>
    /\ wire' = Tail(wire)
    /\ missed' = (missed /\ Head(wire) # Lagged)
    /\ UNCHANGED <<users, stream>>
=============================================================================
