------------------------------ MODULE AuthTabs ------------------------------
(***************************************************************************)
(* The admin panel's session in the browser (core/auth.ts): the tabs of one *)
(* admin, each with an access token of its own, and the refresh cookie they *)
(* share.  A request that is refused with 401 refreshes the session once    *)
(* and is sent again; in a tab, callers share one refresh.  The server      *)
(* rotates the cookie's token and ends the sign-in when an older one is     *)
(* presented.                                                               *)
(***************************************************************************)
EXTENDS Naturals, FiniteSets

CONSTANTS Tabs,
          MaxSignIns,  \* bound: sign-ins
          MaxAuth      \* bound: tabs opened, calls, sign-outs and expiries together

AuthAssumption == MaxSignIns \in Nat \ {0} /\ MaxAuth \in Nat

SignIns == 1 .. MaxSignIns

VARIABLES
    issued,    \* the server: the tokens issued for each sign-in,
    live,      \*   and those that work
    signedOut, \* the sign-ins an admin has ended
    cookie,    \* the refresh cookie: a sign-in and its token; sign-in 0: no cookie
    tab,       \* each tab: its access token, the shared refresh, the session it had
    posts,     \* requests about the session: refresh, login and logout
    apiCalls,  \* other requests, which the interceptor looks after
    disturbed, \* for the property: sign-ins with a lost answer, or two tabs at once
    authed     \* how much has happened, for the bound

vars == <<issued, live, signedOut, cookie, tab, posts, apiCalls, disturbed, authed>>

server == <<issued, live, signedOut>>

Happen == authed < MaxAuth /\ authed' = authed + 1

Closed == [open |-> FALSE, token |-> "none", refreshing |-> FALSE, loggingIn |-> FALSE]

Init ==
    /\ issued = [f \in SignIns |-> IF f = 1 THEN 1 ELSE 0]
    /\ live = [f \in SignIns |-> IF f = 1 THEN {1} ELSE {}]
    /\ signedOut = {}
    /\ cookie = [of |-> 1, n |-> 1]
    /\ tab = [t \in Tabs |-> Closed]
    /\ posts = {} /\ apiCalls = {} /\ disturbed = {} /\ authed = 0

----------------------------------------------------------------------------
Post(t, op) == [tab |-> t, op |-> op, sent |-> cookie, n |-> authed, at |-> "sent",
                got |-> [of |-> 0, n |-> 0]]

Refreshes(f) == {p \in posts : p.op = "refresh" /\ p.sent.of = f /\ p.at \in {"sent", "served"}}

\* Mutant of Joined: every caller sends a refresh of its own.
JoinedNever(t) == FALSE

\* `refresh`: callers in the tab share the one under way.
Joined(t) == tab[t].refreshing
RefreshIn(t) ==
    IF Joined(t) THEN UNCHANGED <<tab, posts, disturbed>>
    ELSE /\ tab' = [tab EXCEPT ![t].refreshing = TRUE, ![t].open = TRUE]
         /\ posts' = posts \union {Post(t, "refresh")}
         /\ disturbed' = disturbed \union
              (IF \E p \in Refreshes(cookie.of) : p.tab # t THEN {cookie.of} ELSE {})

\* `restore`: a page that opens first asks for its session, once.
OpenTab(t) ==
    /\ ~tab[t].open /\ Happen
    /\ RefreshIn(t)
    /\ UNCHANGED <<server, cookie, apiCalls>>

\* Closing or reloading the page: nobody waits for its answers, the cookie is taken.
CloseTab(t) ==
    /\ tab[t].open /\ Happen
    /\ tab' = [tab EXCEPT ![t] = Closed]
    /\ apiCalls' = {c \in apiCalls : c.tab # t}
    /\ posts' = {p \in posts : p.tab # t}
    /\ disturbed' = disturbed \union {p.sent.of : p \in {q \in posts : q.tab = t}}
    /\ UNCHANGED <<server, cookie>>

\* The server takes the token of the cookie that was sent: the one that works is rotated,
\* an older one ends the sign-in.
ServeRefresh(p) ==
    /\ p \in posts /\ p.op = "refresh" /\ p.at = "sent"
    /\ LET f == p.sent.of IN
         IF f # 0 /\ p.sent.n \in live[f]
         THEN /\ issued' = [issued EXCEPT ![f] = @ + 1]
              /\ live' = [live EXCEPT ![f] = {issued[f] + 1}]
              /\ posts' = (posts \ {p}) \union
                            {[p EXCEPT !.at = "served", !.got = [of |-> f, n |-> issued[f] + 1]]}
         ELSE /\ live' = IF f = 0 THEN live ELSE [live EXCEPT ![f] = {}]
              /\ posts' = (posts \ {p}) \union {[p EXCEPT !.at = "refused"]}
              /\ UNCHANGED issued
    /\ UNCHANGED <<signedOut, cookie, tab, apiCalls, disturbed, authed>>

\* `clear`.
Cleared(t) == [tab EXCEPT ![t].token = "none", ![t].refreshing = FALSE]

\* `open`: the answer's cookie and access token are taken, then `/me` is asked.
TakeRefresh(p) ==
    /\ p \in posts /\ p.op \in {"refresh", "login"} /\ p.at = "served"
    /\ cookie' = p.got
    /\ tab' = [tab EXCEPT ![p.tab].token = "good"]
    /\ posts' = (posts \ {p}) \union {[p EXCEPT !.at = "me"]}
    /\ UNCHANGED <<server, apiCalls, disturbed, authed>>

\* `/me` has answered: the permissions are there, and the session is.
SessionOpens(p) ==
    /\ p \in posts /\ p.at = "me"
    /\ tab' = IF p.op = "refresh" THEN [tab EXCEPT ![p.tab].refreshing = FALSE]
              ELSE [tab EXCEPT ![p.tab].loggingIn = FALSE]
    /\ posts' = posts \ {p}
    /\ UNCHANGED <<server, cookie, apiCalls, disturbed, authed>>

\* Refused, or the answer never came (`/me` failing counts): a refresh clears the session,
\* a sign-in says so.
SessionFails(p) ==
    /\ p \in posts /\ p.op \in {"refresh", "login"}
    /\ posts' = posts \ {p}
    /\ tab' = IF p.op = "refresh" THEN Cleared(p.tab)
              ELSE [tab EXCEPT ![p.tab].loggingIn = FALSE]
    /\ disturbed' = disturbed \union (IF p.at = "served" THEN {p.sent.of, p.got.of} ELSE {})
    /\ UNCHANGED <<server, cookie, apiCalls, authed>>

----------------------------------------------------------------------------
(* Signing in and out. *)

LogIn(t) ==
    /\ tab[t].open /\ tab[t].token = "none" /\ ~tab[t].refreshing /\ ~tab[t].loggingIn
    /\ Happen
    /\ tab' = [tab EXCEPT ![t].loggingIn = TRUE]
    /\ posts' = posts \union {Post(t, "login")}
    /\ UNCHANGED <<server, cookie, apiCalls, disturbed>>

ServeLogIn(p) ==
    /\ p \in posts /\ p.op = "login" /\ p.at = "sent"
    /\ \E f \in SignIns :
         /\ issued[f] = 0 /\ \A g \in 1 .. f - 1 : issued[g] # 0
         /\ issued' = [issued EXCEPT ![f] = 1]
         /\ live' = [live EXCEPT ![f] = {1}]
         /\ posts' = (posts \ {p}) \union {[p EXCEPT !.at = "served", !.got = [of |-> f, n |-> 1]]}
    /\ UNCHANGED <<signedOut, cookie, tab, apiCalls, disturbed, authed>>

LogOut(t) ==
    /\ tab[t].open /\ tab[t].token # "none" /\ Happen
    /\ ~ \E p \in posts : p.tab = t /\ p.op = "logout"
    /\ posts' = posts \union {Post(t, "logout")}
    /\ UNCHANGED <<server, cookie, tab, apiCalls, disturbed>>

\* The sign-in of the cookie ends, unless the request is lost; the tab forgets it either
\* way, and a refresh that is under way goes on.
LogOutEnds(p) ==
    /\ p \in posts /\ p.op = "logout"
    /\ posts' = posts \ {p}
    /\ tab' = [tab EXCEPT ![p.tab].token = "none"]
    /\ \/ /\ p.sent.of # 0
          /\ live' = [live EXCEPT ![p.sent.of] = {}]
          /\ signedOut' = signedOut \union {p.sent.of}
          /\ cookie' = [of |-> 0, n |-> 0]
       \/ UNCHANGED <<live, signedOut, cookie>>
    /\ UNCHANGED <<issued, apiCalls, disturbed, authed>>

----------------------------------------------------------------------------
(* The interceptor, and `fetch`: a 401 waits for a refresh and retries once. *)

Call(t) ==
    /\ tab[t].open /\ tab[t].token # "none" /\ Happen
    /\ apiCalls' = apiCalls \union {[tab |-> t, n |-> authed, at |-> "sent"]}
    /\ UNCHANGED <<server, cookie, tab, posts, disturbed>>

\* Access tokens are good for minutes, whatever becomes of the sign-in.
TokenExpires(t) ==
    /\ tab[t].token = "good" /\ Happen
    /\ tab' = [tab EXCEPT ![t].token = "expired"]
    /\ UNCHANGED <<server, cookie, posts, apiCalls, disturbed>>

Refused(c) ==
    /\ c \in apiCalls /\ c.at = "sent" /\ tab[c.tab].token # "good"
    /\ apiCalls' = (apiCalls \ {c}) \union {[c EXCEPT !.at = "waiting"]}
    /\ RefreshIn(c.tab)
    /\ UNCHANGED <<server, cookie, authed>>

\* The refresh it waited for is over: it is sent again, or fails and the panel asks to
\* sign in.
RefreshOver(c) ==
    /\ c \in apiCalls /\ c.at = "waiting" /\ ~tab[c.tab].refreshing
    /\ apiCalls' = (apiCalls \ {c}) \union
                   (IF tab[c.tab].token = "none" THEN {} ELSE {[c EXCEPT !.at = "again"]})
    /\ UNCHANGED <<server, cookie, tab, posts, disturbed, authed>>

\* An answer, or any other failure; a second 401 is one.
CallEnds(c) ==
    /\ c \in apiCalls /\ (c.at = "sent" => tab[c.tab].token = "good") /\ c.at # "waiting"
    /\ apiCalls' = apiCalls \ {c}
    /\ UNCHANGED <<server, cookie, tab, posts, disturbed, authed>>

----------------------------------------------------------------------------
Progress ==
    \/ \E p \in posts :
         \/ ServeRefresh(p) \/ TakeRefresh(p) \/ SessionOpens(p) \/ SessionFails(p)
         \/ ServeLogIn(p) \/ LogOutEnds(p)
    \/ \E c \in apiCalls : Refused(c) \/ RefreshOver(c) \/ CallEnds(c)

Next ==
    \/ Progress
    \/ \E t \in Tabs :
         OpenTab(t) \/ CloseTab(t) \/ LogIn(t) \/ LogOut(t) \/ Call(t) \/ TokenExpires(t)

\* Requests are answered or fail.
Spec == Init /\ [][Next]_vars /\ WF_vars(Progress)

----------------------------------------------------------------------------
(* Properties. *)

\* The tabs and the server's sign-ins have the shapes the code gives them; a tab has one
\* refresh under way.
TypeOK ==
    /\ issued \in [SignIns -> Nat] /\ live \in [SignIns -> SUBSET Nat]
    /\ cookie.of \in 0 .. MaxSignIns
    /\ \A t \in Tabs : tab[t].token \in {"none", "good", "expired"}
    /\ \A p \in posts : p.op = "refresh" => tab[p.tab].refreshing
    /\ \A t \in Tabs : Cardinality({p \in posts : p.tab = t /\ p.op = "refresh"}) <= 1

\* A sign-in nobody ended lives on, however many requests of a tab are refused at the
\* same time: no tab ever presents a token it has used up, which the server takes for
\* theft.  Two tabs that refresh at once, and an answer that is lost, do.
SignInsLive ==
    \A f \in SignIns : issued[f] # 0 /\ live[f] = {} => f \in signedOut \union disturbed

\* No request waits for a session.
AuthAtRest == apiCalls = {} /\ \A t \in Tabs : ~tab[t].refreshing
=============================================================================
