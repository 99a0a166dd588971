------------------------------ MODULE LiveView ------------------------------
(***************************************************************************)
(* What a part of a page promises that shows a changing thing of the       *)
(* server: it shows the thing it is about, or nothing yet, and once it     *)
(* shows it, never an older state of it.                                   *)
(***************************************************************************)
EXTENDS Naturals

CONSTANTS Things,   \* what can be shown
          Nothing   \* no thing and no number: the page is about none, or shows nothing yet

VARIABLES
    truth,   \* how often each thing has changed
    about,   \* the thing the page is about
    shown    \* the state of it that is shown

vars == <<truth, about, shown>>

Init ==
    /\ truth = [t \in Things |-> 0]
    /\ about = Nothing /\ shown = Nothing

Change(t) ==
    /\ truth' = [truth EXCEPT ![t] = @ + 1]
    /\ UNCHANGED <<about, shown>>

Follow(t) ==
    /\ about' = t /\ shown' = Nothing
    /\ UNCHANGED truth

Show(n) ==
    /\ about # Nothing /\ n <= truth[about]
    /\ shown # Nothing => shown <= n
    /\ shown' = n
    /\ UNCHANGED <<truth, about>>

Next ==
    \/ \E t \in Things : Change(t)
    \/ \E t \in Things \union {Nothing} : Follow(t)
    \/ about # Nothing /\ \E n \in 0 .. truth[about] : Show(n)

Spec == Init /\ [][Next]_vars
=============================================================================
