---------------------------- MODULE Deployments ----------------------------
(***************************************************************************)
(* The last deployment of a target as an admin follows it: the page of the  *)
(* settings and the button of the top bar, over the poller both have        *)
(* (core/deploy.ts).  The server knows the target's deployments; a provider *)
(* reports how they end, and the panel asks every few seconds while the     *)
(* last one it knows is in progress, for at most half an hour.              *)
(***************************************************************************)
EXTENDS Integers, Sequences, FiniteSets

CONSTANTS NoBuild,   \* `null`: there is no deployment
          MaxDeploys \* bound: deployments, late reports, refreshes, failed polls

DeploysAssumption == NoBuild \notin Nat \X {"going", "ended"} /\ MaxDeploys \in Nat

VARIABLES
    where,    \* the "page" of the settings or the "button" of the top bar
    builds,   \* the server: how each deployment of the target stands
    known,    \* whether the target is listed
    row,      \* its `lastDeployment`: which one, and how it stands
    entry,    \* the poller's `timers`: the timer of the target, or 0
    pending,  \* the timers that run
    late,     \* the target is followed for longer than `limit`
    asks,     \* the polls, and the loads of the targets, under way
    deploying,\* `deploying`, or `busy`: nothing, sent, or what the server started
    doubt,    \* for the properties: the row may be another's, or was given up
    deployed  \* how much has happened, for the bound

vars == <<where, builds, known, row, entry, pending, late, asks, deploying, doubt, deployed>>

Happen == deployed < MaxDeploys /\ deployed' = deployed + 1

Latest == IF builds = <<>> THEN NoBuild ELSE <<Len(builds), builds[Len(builds)]>>
Unread == <<>>
Idle   == <<>>
Sent   == <<"sent">>
Started == Len(deploying) = 2

\* `inProgress`.
InProgress(build) == build # NoBuild /\ build[2] = "going"

Polls == {a \in asks : a.kind = "poll"}

\* What is on its way was read before the last deployment, or before it opened again.
Older(loads) == {IF a.got = Unread THEN a ELSE [a EXCEPT !.old = TRUE] : a \in loads}

----------------------------------------------------------------------------
(* DeploymentPoller. *)

\* `schedule`: a new timer takes the place of the target's.
Schedule(polls) ==
    LET taken == pending \union {a.n : a \in polls}
        timer == CHOOSE n \in 1..(Cardinality(taken) + 1) : n \notin taken
    IN  pending' = pending \union {timer} /\ entry' = timer

Unwatch == pending' = pending \ {entry} /\ entry' = 0 /\ late' = FALSE

\* `watch`: follows a deployment that is in progress, unless the target is followed.
Watch(build) ==
    IF ~InProgress(build) THEN Unwatch
    ELSE IF entry # 0 THEN UNCHANGED <<entry, pending, late>>
    ELSE Schedule(Polls) /\ UNCHANGED late

\* `tick`, when a timer ends: nothing for a target that is not followed any more.
Tick(timer) ==
    /\ timer \in pending /\ pending' = pending \ {timer}
    /\ asks' = IF entry = 0 THEN asks
               ELSE asks \union {[kind |-> "poll", n |-> timer, got |-> Unread, old |-> FALSE]}
    /\ UNCHANGED <<where, builds, known, row, entry, late, deploying, doubt, deployed>>

\* The server reads the latest deployment.
IsRead(a) ==
    /\ a \in asks /\ a.got = Unread
    /\ asks' = (asks \ {a}) \union {[a EXCEPT !.got = <<Latest>>]}
    /\ UNCHANGED <<where, builds, known, row, entry, pending, late, deploying, doubt, deployed>>

\* A deployment that was started after the answer was read is not the one it shows, and
\* only the answer of the start can still correct that.
Overtaken(a) == a.old /\ ~Started

\* The answer of a poll: shown, and the last one when the deployment has settled or the
\* limit has passed.
PollEnds(a) ==
    /\ a \in Polls /\ a.got # Unread /\ asks' = asks \ {a}
    /\ IF entry = 0 THEN UNCHANGED <<row, entry, pending, late, doubt>>
       ELSE LET build == a.got[1]
                again == InProgress(build) /\ ~late
            IN  /\ row' = build
                /\ IF again THEN Schedule(Polls \ {a}) /\ UNCHANGED late ELSE Unwatch
                /\ doubt' = (~again /\ (Overtaken(a) \/ InProgress(build) \/ (a.old /\ doubt)))
    /\ UNCHANGED <<where, builds, known, deploying, deployed>>

\* A failed poll is retried at the next tick.
PollFails(a) ==
    /\ a \in Polls /\ asks' = asks \ {a} /\ Happen
    /\ IF entry = 0 THEN UNCHANGED <<entry, pending>> ELSE Schedule(Polls \ {a})
    /\ UNCHANGED <<where, builds, known, row, late, deploying, doubt>>

LimitPasses ==
    /\ entry # 0 /\ ~late /\ late' = TRUE
    /\ UNCHANGED <<where, builds, known, row, entry, pending, asks, deploying, doubt, deployed>>

----------------------------------------------------------------------------
(* The page and the button. *)

Ask(n) == [kind |-> "load", n |-> n, got |-> Unread, old |-> FALSE]

\* `refresh`, when the menu of the button opens; the page loads its targets once.
Refresh ==
    /\ where = "button" /\ Happen /\ asks' = asks \union {Ask(deployed')}
    /\ UNCHANGED <<where, builds, known, row, entry, pending, late, deploying, doubt>>

LoadEnds(a) ==
    /\ a \in asks \ Polls /\ a.got # Unread /\ asks' = asks \ {a}
    /\ known' = TRUE /\ row' = a.got[1] /\ Watch(a.got[1])
    /\ doubt' = (~InProgress(a.got[1]) /\ (Overtaken(a) \/ (a.old /\ doubt)))
    /\ UNCHANGED <<where, builds, deploying, deployed>>

LoadFails(a) ==
    /\ a \in asks \ Polls /\ asks' = asks \ {a}
    /\ UNCHANGED <<where, builds, known, row, entry, pending, late, deploying, doubt, deployed>>

\* `deploy`, one at a time.
Deploy ==
    /\ known /\ deploying = Idle /\ Happen
    /\ deploying' = Sent
    /\ UNCHANGED <<where, builds, known, row, entry, pending, late, asks, doubt>>

\* The server calls the hook: the deployment is under way, or failed at once.
HookIsCalled(how) ==
    /\ deploying = Sent
    /\ builds' = Append(builds, how) /\ deploying' = <<Len(builds'), how>>
    /\ asks' = Older(asks)
    /\ UNCHANGED <<where, known, row, entry, pending, late, doubt, deployed>>

\* Its answer is shown, and followed while it is in progress.  One that failed at once
\* leaves the poller alone.
DeployEnds ==
    /\ Started /\ deploying' = Idle
    /\ row' = deploying
    /\ IF InProgress(deploying) THEN Watch(deploying) ELSE UNCHANGED <<entry, pending, late>>
    /\ doubt' = (deploying[1] # Len(builds) \/ (InProgress(Latest) /\ ~InProgress(deploying)))
    /\ UNCHANGED <<where, builds, known, asks, deployed>>

\* It was refused, too soon after another, or its answer is lost.
DeployFails ==
    /\ deploying # Idle /\ deploying' = Idle
    /\ doubt' = (doubt \/ Started)
    /\ UNCHANGED <<where, builds, known, row, entry, pending, late, asks, deployed>>

\* The provider calls back: the report goes to the last deployment, whichever it is about,
\* and a late one may open again what had ended.
ProviderReports(how) ==
    LET reopens == how = "going" /\ ~InProgress(Latest)
    IN  /\ builds # <<>> /\ how # builds[Len(builds)]
        /\ builds' = [builds EXCEPT ![Len(builds)] = how]
        /\ asks' = IF reopens THEN Older(asks) ELSE asks
        /\ doubt' = (doubt \/ reopens)
        /\ IF reopens THEN Happen ELSE UNCHANGED deployed
        /\ UNCHANGED <<where, known, row, entry, pending, late, deploying>>

\* Another admin deploys.
OthersDeploy ==
    /\ Happen /\ builds' = Append(builds, "going")
    /\ asks' = Older(asks) /\ doubt' = TRUE
    /\ UNCHANGED <<where, known, row, entry, pending, late, deploying>>

----------------------------------------------------------------------------

\* The page or the button shows, and loads the targets; one was deployed before.
Starts(place) ==
    /\ where = place /\ builds = <<"going">>
    /\ known = FALSE /\ row = NoBuild
    /\ entry = 0 /\ pending = {} /\ late = FALSE
    /\ asks = {Ask(0)} /\ deploying = Idle /\ doubt = FALSE /\ deployed = 0

Init == \E place \in {"page", "button"} : Starts(place)

Progress ==
    \/ \E timer \in pending : Tick(timer)
    \/ \E a \in asks : IsRead(a) \/ PollEnds(a) \/ PollFails(a) \/ LoadEnds(a) \/ LoadFails(a)
    \/ DeployEnds \/ DeployFails \/ \E how \in {"going", "ended"} : HookIsCalled(how)

Next ==
    \/ Progress \/ LimitPasses \/ Refresh \/ Deploy \/ OthersDeploy
    \/ \E how \in {"going", "ended"} : ProviderReports(how)

\* Timers end, and requests are answered or fail.
Spec == Init /\ [][Next]_vars /\ WF_vars(Progress)

----------------------------------------------------------------------------
(* Properties. *)

\* The poller's state has the shapes the code gives it.
DeploysTypeOK ==
    /\ where \in {"page", "button"} /\ builds \in Seq({"going", "ended"})
    /\ row = NoBuild \/ row[1] \in DOMAIN builds
    /\ pending \subseteq Nat \ {0} /\ entry \in Nat
    /\ deploying \in {Idle, Sent} \/ Started

\* A deployment that shows in progress is followed - a timer runs for it, or a poll is
\* under way - unless it was given up after the limit; and once nothing is under way, the
\* row is that of the last deployment, as long as nobody else deployed, no report opened
\* an ended one again, no answer of a start was lost, and no answer that was read before a
\* start came after that of the start.
DeploymentsAreFollowed ==
    /\ InProgress(row) => doubt \/ entry \in pending \/ Polls # {}
    /\ known /\ asks = {} /\ entry = 0 /\ deploying = Idle => doubt \/ row = Latest

\* What the row shows is what the last deployment has come to.
DeploysAtRest == known => doubt \/ row = Latest
=============================================================================
