------------------------------ MODULE Presence ------------------------------
(***************************************************************************)
(* Who else has an entry open (core/presence.ts of the admin panel, and     *)
(* crates/verdin-api/src/realtime.rs of the instance they talk to): each    *)
(* editor sends heartbeats while it is open and a leave when it closes; the *)
(* server answers with the viewers, announces changes, and forgets who has  *)
(* not been heard of for a while.  An admin has the entry open in one tab.  *)
(***************************************************************************)
EXTENDS Naturals, Sequences, FiniteSets

CONSTANTS Admins,
          NotThere,      \* no entry in the server's map
          Ttl,           \* `PRESENCE_TTL`, in heartbeat intervals
          MaxPresence    \* bound: openings, edits, closings, crashes and losses together

PresenceAssumption == Ttl \in Nat \ {0} /\ MaxPresence \in Nat

VARIABLES
    presence,   \* the server's map: what it knows of each admin on the entry
    editor,     \* the tab: `entry` (open, and the opening's number), `editing`, `viewers`
    beats,      \* the heartbeats under way, and their answers
    news,       \* announcements computed under the lock, and not sent yet
    inboxes,    \* what the streams carry, unread
    due,        \* whose timer has not fired in this interval
    occurred    \* how much has happened, for the bound

vars == <<presence, editor, beats, news, inboxes, due, occurred>>

Happen == occurred < MaxPresence /\ occurred' = occurred + 1
On == {u \in Admins : editor[u].open}

Init ==
    /\ presence = [u \in Admins |-> NotThere]
    /\ editor = [u \in Admins |-> [open |-> FALSE, n |-> 0, editing |-> FALSE, viewers |-> {}]]
    /\ beats = {} /\ news = {} /\ inboxes = [u \in Admins |-> <<>>]
    /\ due = {} /\ occurred = 0

----------------------------------------------------------------------------
(* The server: `apply_heartbeat`. *)

There(ps) == {u \in Admins : ps[u] # NotThere}

\* Mutant of Pruned: only a leave removes an admin.
PrunedNever(ps) == ps

Pruned(ps) == [u \in Admins |-> IF u \in There(ps) /\ ps[u].age >= Ttl THEN NotThere ELSE ps[u]]

\* `since` orders those who edit; whoever starts queues behind them.
Last(ps) == CHOOSE n \in {0} \union {ps[u].since : u \in There(ps)} :
                \A u \in There(ps) : ps[u].since <= n

Noted(ps, b) ==
    LET known == ps[b.who] # NotThere /\ ps[b.who].editing
        since == IF ~b.editing THEN 0 ELSE IF known THEN ps[b.who].since ELSE Last(ps) + 1
    IN  [ps EXCEPT ![b.who] = IF b.leave THEN NotThere
                              ELSE [editing |-> b.editing, since |-> since, age |-> 0]]

Snapshot(ps) == {<<u, ps[u].editing>> : u \in There(ps)}

Viewers(ps) ==
    {[who |-> u, editing |-> ps[u].editing,
      lock |-> ps[u].editing /\ \A w \in There(ps) : ps[w].editing => ps[u].since <= ps[w].since] :
     u \in There(ps)}

\* Who expired is no change to announce: the others learn of it from their own answers.
Serve(b) ==
    /\ b \in beats /\ ~b.served
    /\ presence' = Noted(Pruned(presence), b)
    /\ beats' = (beats \ {b}) \union {[b EXCEPT !.served = TRUE, !.viewers = Viewers(presence')]}
    /\ news' = IF Snapshot(Pruned(presence)) = Snapshot(presence') THEN news
               ELSE news \union {Viewers(presence')}
    /\ UNCHANGED <<editor, inboxes, due, occurred>>

\* Sent after the lock is released, so two of them may change places.
Announce(vs) ==
    /\ vs \in news /\ news' = news \ {vs}
    /\ inboxes' = [u \in Admins |-> IF u \in On THEN Append(inboxes[u], vs) ELSE inboxes[u]]
    /\ UNCHANGED <<presence, editor, beats, due, occurred>>

----------------------------------------------------------------------------
(* The editors. *)

Beat(u, editing, leave) ==
    [who |-> u, n |-> editor[u].n, editing |-> editing /\ ~leave, leave |-> leave,
     served |-> FALSE, viewers |-> {}]

\* `track`: nobody is shown before the first answer.
Open(u) ==
    /\ u \notin On /\ Happen
    /\ editor' = [editor EXCEPT ![u] = [open |-> TRUE, n |-> @.n + 1, editing |-> FALSE,
                                        viewers |-> {}]]
    /\ beats' = beats \union {[Beat(u, FALSE, FALSE) EXCEPT !.n = @ + 1]}
    /\ UNCHANGED <<presence, news, inboxes, due>>

Closed(u) ==
    /\ editor' = [editor EXCEPT ![u] = [@ EXCEPT !.open = FALSE, !.editing = FALSE, !.viewers = {}]]
    /\ inboxes' = [inboxes EXCEPT ![u] = <<>>]
    /\ due' = due \ {u}

\* The editor closes, or turns to another entry; `leaveOnUnload` when the page goes.
Leave(u) ==
    /\ u \in On /\ Happen /\ Closed(u)
    /\ beats' = beats \union {Beat(u, FALSE, TRUE)}
    /\ UNCHANGED <<presence, news>>

\* The browser dies, or the machine is asleep.
Crash(u) ==
    /\ u \in On /\ Happen /\ Closed(u)
    /\ UNCHANGED <<presence, beats, news>>

\* `setEditing`: sent at once.
SetEditing(u) ==
    /\ u \in On /\ Happen
    /\ editor' = [editor EXCEPT ![u].editing = ~@]
    /\ beats' = beats \union {Beat(u, ~editor[u].editing, FALSE)}
    /\ UNCHANGED <<presence, news, inboxes, due>>

TimerBeat(u) ==
    /\ u \in due /\ due' = due \ {u}
    /\ beats' = beats \union {Beat(u, editor[u].editing, FALSE)}
    /\ UNCHANGED <<presence, editor, news, inboxes, occurred>>

\* The answer counts if the same entry is still open.
Answer(b) ==
    /\ b \in beats /\ b.served /\ beats' = beats \ {b}
    /\ editor' = IF b.who \in On /\ editor[b.who].n = b.n /\ ~b.leave
                 THEN [editor EXCEPT ![b.who].viewers = b.viewers] ELSE editor
    /\ UNCHANGED <<presence, news, inboxes, due, occurred>>

\* A heartbeat that is not served, or whose answer is lost, is not sent again.  A 404 would
\* also turn the heartbeats off: it comes from an instance without realtime, which has no
\* presence at all, or for a type that is gone, and is left out.
BeatFails(b) ==
    /\ b \in beats /\ Happen /\ beats' = beats \ {b}
    /\ UNCHANGED <<presence, editor, news, inboxes, due>>

Deliver(u) ==
    /\ inboxes[u] # <<>>
    /\ inboxes' = [inboxes EXCEPT ![u] = Tail(@)]
    /\ editor' = [editor EXCEPT ![u].viewers = Head(inboxes[u])]
    /\ UNCHANGED <<presence, beats, news, due, occurred>>

\* A gap of the stream; the reopened one sends a heartbeat (`resync`).
StreamGap(u) ==
    /\ u \in On /\ inboxes[u] # <<>> /\ Happen
    /\ inboxes' = [inboxes EXCEPT ![u] = <<>>]
    /\ beats' = beats \union {Beat(u, editor[u].editing, FALSE)}
    /\ UNCHANGED <<presence, editor, news, due>>

\* An interval passes: requests and messages take less than that.
Tick ==
    /\ due = {} /\ beats = {} /\ news = {} /\ \A u \in Admins : inboxes[u] = <<>>
    /\ due' = On
    /\ presence' = [u \in Admins |-> IF presence[u] # NotThere /\ presence[u].age < Ttl
                                     THEN [presence[u] EXCEPT !.age = @ + 1] ELSE presence[u]]
    /\ UNCHANGED <<editor, beats, news, inboxes, occurred>>

----------------------------------------------------------------------------
Progress ==
    \/ \E b \in beats : Serve(b) \/ Answer(b)
    \/ \E vs \in news : Announce(vs)
    \/ \E u \in Admins : TimerBeat(u) \/ Deliver(u)
    \/ Tick

Next ==
    \/ Progress
    \/ \E u \in Admins : Open(u) \/ Leave(u) \/ Crash(u) \/ SetEditing(u) \/ StreamGap(u)
    \/ \E b \in beats : BeatFails(b)

\* Timers fire and requests end; the interval bounds how long they take.
Spec == Init /\ [][Next]_vars /\ WF_vars(Progress)

----------------------------------------------------------------------------
(* Properties. *)

\* An entry is pruned by its age, an editor's lock is with one viewer at most.
PresenceTypeOK ==
    /\ \A u \in There(presence) : presence[u].age \in 0 .. Ttl
    /\ \A u \in Admins : editor[u].editing => editor[u].open
    /\ due \subseteq On
    /\ \A u \in Admins : \A v, w \in editor[u].viewers : v.lock /\ w.lock => v = w

\* What an open editor shows is who has the entry open, and who edits.
ShownAreThere ==
    \A u \in On : {<<v.who, v.editing>> : v \in editor[u].viewers}
                    = {<<w, editor[w].editing>> : w \in On}

\* When nobody comes or goes any more, every editor ends up showing exactly those who are
\* there: whatever heartbeats and announcements were lost, late or swapped, and whoever
\* went without a leave.
PresenceSettles == <>[]ShownAreThere
=============================================================================
