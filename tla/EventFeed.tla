----------------------------- MODULE EventFeed -----------------------------
(***************************************************************************)
(* What the shared event bus promises its consumers, whatever carries the  *)
(* events (the `Backend` trait of crates/verdin-api/src/cluster.rs): an    *)
(* instance hears the others' events, never its own, each at most once,    *)
(* nothing that was not said, and each sender's events in the order that   *)
(* sender said them.  It may miss events: a full queue, a failed insert, a *)
(* start after the event.  What it may miss is stated in ClusterBus.       *)
(***************************************************************************)
EXTENDS Naturals, Sequences, SequencesExt

CONSTANT Instances

VARIABLES
    said,   \* how many events each instance has announced
    heard   \* the events each instance has applied since it started

feedVars == <<said, heard>>

Event == [from: Instances, n: Nat \ {0}]

Init ==
    /\ said = [i \in Instances |-> 0]
    /\ heard = [i \in Instances |-> <<>>]

Say(i) ==
    /\ said' = [said EXCEPT ![i] = @ + 1]
    /\ UNCHANGED heard

\* Events that one instance reads together are heard in one step.
Proper(i, events) ==
    \A k \in DOMAIN events :
        /\ events[k].from # i
        /\ events[k].n \in 1..said[events[k].from]
        /\ \A l \in 1..(k - 1) :
               events[l].from = events[k].from => events[l].n < events[k].n

Hear(i) ==
    /\ heard' = [heard EXCEPT ![i] = heard'[i]]
    /\ IsPrefix(heard[i], heard'[i])
    /\ Proper(i, heard'[i])
    /\ UNCHANGED said

\* A restarted instance starts with the next event.
Start(i) ==
    /\ heard' = [heard EXCEPT ![i] = <<>>]
    /\ UNCHANGED said

Next == \E i \in Instances : Say(i) \/ Hear(i) \/ Start(i)

Spec == Init /\ [][Next]_feedVars
=============================================================================
