--------------------------- MODULE RefreshFamily ---------------------------
(***************************************************************************)
(* What a sign-in promises: a chain of refresh tokens, numbered as they are *)
(* issued, of which at most one works: the last one, until the sign-in is   *)
(* ended.  `Sessions` implements it, and the browser's side (`AuthTabs`)    *)
(* counts on it.                                                            *)
(***************************************************************************)
EXTENDS Naturals

VARIABLES
    issued,   \* the tokens issued so far
    live      \* those that work

vars == <<issued, live>>

Init == issued = {} /\ live = {}

\* A token later than all before it, and the only one that works.
Issue ==
    \E n \in issued' :
        /\ \A m \in issued : m < n
        /\ issued' = issued \union {n} /\ live' = {n}

SignIn == issued = {} /\ Issue

\* The token that works is used up for its successor.
Rotate == live # {} /\ Issue

\* Reuse of an older token, sign-out, expiry: no token works any more.
End == live # {} /\ live' = {} /\ UNCHANGED issued

Next == SignIn \/ Rotate \/ End

Spec == Init /\ [][Next]_vars
=============================================================================
