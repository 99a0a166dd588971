---------------------------- MODULE PanelProofs ----------------------------
(***************************************************************************)
(* Theorems about the admin panel: for any locales, contents, tabs, files,  *)
(* types, roles, admins and lists, and any bounds on what happens, as far   *)
(* as PanelAssumption asks.  A step is of one page and leaves the variables *)
(* of the others alone, so each page has an inductive invariant of its own  *)
(* that the steps of the others keep.  What each says beyond the types:     *)
(*                                                                         *)
(*  SessionInv    a tab has one refresh at most; only its answer knows the  *)
(*                token of a sign-in just made; the newest token of a calm  *)
(*                sign-in works and is in the cookie or in that refresh     *)
(*  ImportInv     a check that passed is of what would be sent              *)
(*  SettingsInv   what a save would go to is the thing that shows           *)
(*  RolesInv      what is granted lies within the type's attributes         *)
(*  BuilderInv    what shows is of the type of the route; a draft that did  *)
(*                not slip was last saved as its baseline                   *)
(*  EntryInv      the latest load is of the URL; edits show in the flags    *)
(*                the guard asks; a change from elsewhere shows, or its     *)
(*                message or own answer is on its way                       *)
(*  ListInv       the latest load is of the query; a bulk action has no     *)
(*                more requests under way than its limit                    *)
(*  DeployInv     who follows a target has a timer or a poll; an answer is  *)
(*                how the last deployment stands, or stood before it ended  *)
(*  PresenceInv   the admins who edit have distinct numbers, so one is      *)
(*                first                                                     *)
(*                                                                         *)
(* The lists of the settings, and what is said of all pages at once, are in *)
(* PanelPartsProofs.                                                        *)
(***************************************************************************)
EXTENDS AdminPanel, FiniteSetTheorems, TLAPS
-----------------------------------------------------------------------------
(* The session in the browser. *)

Tokens == [of: 0 .. MaxSignIns, n: Nat]

Posted == [tab: Tabs, op: {"refresh", "login", "logout"}, sent: Tokens, n: Nat,
           at: {"sent", "served", "refused", "me"}, got: Tokens]

SessionTypes ==
    /\ issued \in [Session!SignIns -> Nat] /\ live \in [Session!SignIns -> SUBSET Nat]
    /\ cookie \in Tokens /\ posts \subseteq Posted /\ authed \in Nat
    /\ tab \in [Tabs -> [open: BOOLEAN, token: {"none", "good", "expired"},
                         refreshing: BOOLEAN, loggingIn: BOOLEAN]]
    /\ apiCalls \subseteq [tab: Tabs, n: Nat, at: {"sent", "waiting", "again"}]

\* A tab has one refresh under way, and knows of it.
OneRefreshInATab ==
    \A p \in posts : p.op = "refresh" =>
        /\ tab[p.tab].refreshing
        /\ \A q \in posts : q.op = "refresh" /\ q.tab = p.tab => q = p

\* A sign-in that nobody ended, no tab left alone and no two tabs refreshed at once.
Calm(f) == f \in Session!SignIns /\ issued[f] # 0 /\ f \notin signedOut \union disturbed

\* Only sign-ins there are, are spoken of.
SpokenOf ==
    /\ cookie.of # 0 => issued[cookie.of] # 0
    /\ \A p \in posts : /\ p.sent.of # 0 => issued[p.sent.of] # 0
                        /\ p.got.of # 0 => issued[p.got.of] # 0
                        /\ p.op = "refresh" /\ p.at = "served" => p.got.of = p.sent.of

\* Of a sign-in that was just made, its answer alone knows the token.
FreshSignIns ==
    \A p \in posts : p.op = "login" /\ p.at = "served" =>
        /\ p.got.of # 0 /\ p.got.n = 1 /\ issued[p.got.of] = 1 /\ cookie.of # p.got.of
        /\ \A q \in posts : q.sent.of # p.got.of /\ (q # p => q.got.of # p.got.of)

\* The newest token of a calm sign-in works; one refresh of it is under way at most, which
\* was sent the newest token or brings it; and else the cookie has it.
NewestTokens ==
    \A f \in Session!SignIns : Calm(f) =>
        /\ live[f] = {issued[f]}
        /\ cookie.of = f => \/ cookie.n = issued[f]
                            \/ \E p \in Session!Refreshes(f) : p.at = "served"
        /\ \A p \in Session!Refreshes(f) :
              /\ p.at = "sent" => p.sent.n = issued[f]
              /\ p.at = "served" => p.got.n = issued[f]
              /\ \A q \in Session!Refreshes(f) : q = p

SessionInv == SessionTypes /\ OneRefreshInATab /\ SpokenOf /\ FreshSignIns /\ NewestTokens

\* What is asked, answered or dropped, with no post about a session that anybody waits for
\* and no sign-in that changes but those that are signed out.
LEMMA FewerPosts ==
    ASSUME SessionInv, issued' = issued, posts' \subseteq posts,
           cookie' = cookie \/ cookie' = [of |-> 0, n |-> 0],
           signedOut \subseteq signedOut', disturbed \subseteq disturbed',
           \A f \in Session!SignIns : f \in signedOut' \/ live'[f] = live[f],
           \A p \in posts \ posts' :
               p.op = "refresh" /\ p.at = "served" => p.sent.of \in disturbed'
    PROVE  SpokenOf' /\ FreshSignIns' /\ NewestTokens'
<1>1. SessionTypes /\ SpokenOf /\ FreshSignIns /\ NewestTokens /\ 0 \notin Session!SignIns
    BY DEF SessionInv, Session!SignIns
<1>2. SpokenOf'
    BY <1>1 DEF SpokenOf
<1>3. FreshSignIns'
    BY <1>1 DEF FreshSignIns
<1>4. ASSUME NEW f \in Session!SignIns, Calm(f)'
      PROVE  /\ live'[f] = {issued'[f]}
             /\ cookie'.of = f => \/ cookie'.n = issued'[f]
                                  \/ \E p \in Session!Refreshes(f)' : p.at = "served"
             /\ \A p \in Session!Refreshes(f)' :
                   /\ p.at = "sent" => p.sent.n = issued'[f]
                   /\ p.at = "served" => p.got.n = issued'[f]
                   /\ \A q \in Session!Refreshes(f)' : q = p
    <2>1. Calm(f) /\ live'[f] = live[f] /\ f \notin disturbed'
        BY <1>4 DEF Calm
    <2>2. Session!Refreshes(f)' \subseteq Session!Refreshes(f)
        BY DEF Session!Refreshes
    <2>3. \A p \in Session!Refreshes(f) : p.at = "served" => p \in Session!Refreshes(f)'
        BY <2>1 DEF Session!Refreshes
    <2>4. cookie'.of = f => cookie' = cookie
        BY <1>1
    <2> QED BY <1>1, <2>1, <2>2, <2>3, <2>4 DEF NewestTokens
<1> QED BY <1>2, <1>3, <1>4 DEF NewestTokens

\* A post of its own: it tells of the cookie, and is one more refresh of its sign-in only
\* if there was none, or two tabs refresh at once.
LEMMA OneMorePost ==
    ASSUME SessionInv, NEW r \in Posted, posts' = posts \union {r},
           UNCHANGED <<issued, live, signedOut, cookie>>,
           r.sent = cookie, r.at = "sent", r.got = [of |-> 0, n |-> 0],
           disturbed \subseteq disturbed',
           r.op = "refresh" =>
               \A p \in Session!Refreshes(cookie.of) : cookie.of \in disturbed'
    PROVE  SpokenOf' /\ FreshSignIns' /\ NewestTokens'
<1>1. SessionTypes /\ SpokenOf /\ FreshSignIns /\ NewestTokens /\ 0 \notin Session!SignIns
    BY DEF SessionInv, Session!SignIns
<1>2. SpokenOf'
    BY <1>1 DEF SpokenOf
<1>3. FreshSignIns'
    BY <1>1 DEF FreshSignIns
<1>4. ASSUME NEW f \in Session!SignIns, Calm(f)'
      PROVE  /\ live'[f] = {issued'[f]}
             /\ cookie'.of = f => \/ cookie'.n = issued'[f]
                                  \/ \E p \in Session!Refreshes(f)' : p.at = "served"
             /\ \A p \in Session!Refreshes(f)' :
                   /\ p.at = "sent" => p.sent.n = issued'[f]
                   /\ p.at = "served" => p.got.n = issued'[f]
                   /\ \A q \in Session!Refreshes(f)' : q = p
    <2>1. Calm(f) /\ f \notin disturbed'
        BY <1>4 DEF Calm
    <2>2. CASE Session!Refreshes(f)' = Session!Refreshes(f)
        BY <1>1, <2>1, <2>2 DEF NewestTokens
    <2>3. CASE r.op = "refresh" /\ r.sent.of = f
        <3>1. Session!Refreshes(f) = {} /\ cookie.n = issued[f] /\ live[f] = {issued[f]}
            BY <1>1, <2>1, <2>3 DEF NewestTokens
        <3>2. Session!Refreshes(f)' \subseteq {r}
            BY <3>1 DEF Session!Refreshes
        <3> QED BY <3>1, <3>2
    <2>4. Session!Refreshes(f)' = Session!Refreshes(f) \/ (r.op = "refresh" /\ r.sent.of = f)
        BY DEF Session!Refreshes
    <2> QED BY <2>2, <2>3, <2>4
<1> QED BY <1>2, <1>3, <1>4 DEF NewestTokens

LEMMA RefreshInKeeps ==
    ASSUME SessionInv, NEW t \in Tabs, Session!RefreshIn(t),
           UNCHANGED <<issued, live, signedOut, cookie>>
    PROVE  /\ tab' \in [Tabs -> [open: BOOLEAN, token: {"none", "good", "expired"},
                                 refreshing: BOOLEAN, loggingIn: BOOLEAN]]
           /\ posts' \subseteq Posted
           /\ OneRefreshInATab' /\ SpokenOf' /\ FreshSignIns' /\ NewestTokens'
<1>1. SessionTypes /\ OneRefreshInATab
    BY DEF SessionInv
<1>2. CASE Session!Joined(t)
    <2>1. UNCHANGED <<tab, posts, disturbed>>
        BY <1>2 DEF Session!RefreshIn
    <2>2. SpokenOf' /\ FreshSignIns' /\ NewestTokens'
        BY <2>1, FewerPosts
    <2> QED BY <1>1, <2>1, <2>2 DEF SessionTypes, OneRefreshInATab
<1>3. CASE ~Session!Joined(t)
    <2> DEFINE r == Session!Post(t, "refresh")
    <2>1. /\ tab' = [tab EXCEPT ![t].refreshing = TRUE, ![t].open = TRUE]
          /\ posts' = posts \union {r}
          /\ disturbed' = disturbed \union
                (IF \E p \in Session!Refreshes(cookie.of) : p.tab # t THEN {cookie.of} ELSE {})
          /\ ~tab[t].refreshing
        BY <1>3 DEF Session!RefreshIn, Session!Joined
    <2>2. /\ r \in Posted /\ r.sent = cookie /\ r.at = "sent" /\ r.got = [of |-> 0, n |-> 0]
          /\ r.op = "refresh" /\ r.tab = t
        BY <1>1, PanelAssumption
        DEF SessionTypes, Posted, Tokens, Session!Post, PanelAssumption, Session!AuthAssumption
    <2> HIDE DEF r
    <2>3. tab' \in [Tabs -> [open: BOOLEAN, token: {"none", "good", "expired"},
                             refreshing: BOOLEAN, loggingIn: BOOLEAN]]
        BY <1>1, <2>1, ZenonT(40) DEF SessionTypes
    <2>4. tab'[t].refreshing /\ \A s \in Tabs : s # t => tab'[s] = tab[s]
        BY <1>1, <2>1 DEF SessionTypes
    <2>5. \A p \in posts : p.op = "refresh" => p.tab # t /\ p.tab \in Tabs
        BY <1>1, <2>1 DEF OneRefreshInATab, SessionTypes, Posted
    <2>6. OneRefreshInATab'
        <3>1. ASSUME NEW p \in posts', p.op = "refresh", p # r
              PROVE  /\ tab'[p.tab].refreshing
                     /\ \A q \in posts' : q.op = "refresh" /\ q.tab = p.tab => q = p
            <4>1. p \in posts /\ p.tab # t /\ p.tab \in Tabs
                BY <2>1, <2>5, <3>1
            <4> QED BY <1>1, <2>1, <2>2, <2>4, <3>1, <4>1 DEF OneRefreshInATab
        <3>2. tab'[r.tab].refreshing /\ \A q \in posts' : q.op = "refresh" /\ q.tab = r.tab => q = r
            BY <2>1, <2>2, <2>4, <2>5
        <3> QED BY <3>1, <3>2 DEF OneRefreshInATab
    <2>7. \A p \in Session!Refreshes(cookie.of) : cookie.of \in disturbed'
        BY <2>1, <2>5 DEF Session!Refreshes
    <2>8. SpokenOf' /\ FreshSignIns' /\ NewestTokens'
        BY <2>1, <2>2, <2>7, OneMorePost
    <2> QED BY <1>1, <2>1, <2>2, <2>3, <2>6, <2>8 DEF SessionTypes
<1> QED BY <1>2, <1>3

\* A request is sent, closed or dropped: what is asked of the server stays as it was.
LEMMA OpenTabKeeps ==
    ASSUME SessionInv, NEW t \in Tabs, Session!OpenTab(t)
    PROVE  SessionInv'
<1>1. /\ Session!RefreshIn(t) /\ authed' = authed + 1
      /\ UNCHANGED <<issued, live, signedOut, cookie, apiCalls>>
    BY DEF Session!OpenTab, Session!Happen, Session!server
<1> QED BY <1>1, RefreshInKeeps DEF SessionInv, SessionTypes

LEMMA RefusedKeeps ==
    ASSUME SessionInv, NEW c \in apiCalls, Session!Refused(c)
    PROVE  SessionInv'
<1>1. /\ Session!RefreshIn(c.tab)
      /\ apiCalls' = (apiCalls \ {c}) \union {[c EXCEPT !.at = "waiting"]}
      /\ UNCHANGED <<issued, live, signedOut, cookie, authed>>
    BY DEF Session!Refused, Session!server
<1>2. c \in [tab: Tabs, n: Nat, at: {"sent", "waiting", "again"}]
    BY DEF SessionInv, SessionTypes
<1>3. c.tab \in Tabs /\ [c EXCEPT !.at = "waiting"] \in [tab: Tabs, n: Nat, at: {"sent", "waiting", "again"}]
    BY <1>2
<1> QED BY <1>1, <1>3, RefreshInKeeps DEF SessionInv, SessionTypes

LEMMA CloseTabKeeps ==
    ASSUME SessionInv, NEW t \in Tabs, Session!CloseTab(t)
    PROVE  SessionInv'
<1>1. /\ tab' = [tab EXCEPT ![t] = Session!Closed] /\ authed' = authed + 1
      /\ posts' = {p \in posts : p.tab # t} /\ apiCalls' \subseteq apiCalls
      /\ disturbed' = disturbed \union {p.sent.of : p \in {q \in posts : q.tab = t}}
      /\ UNCHANGED <<issued, live, signedOut, cookie>>
    BY DEF Session!CloseTab, Session!Happen, Session!server
<1>2. SessionTypes /\ OneRefreshInATab
    BY DEF SessionInv
<1>3. SessionTypes'
    BY <1>1, <1>2 DEF SessionTypes, Session!Closed
<1>4. \A p \in posts' : p.tab \in Tabs /\ tab'[p.tab] = tab[p.tab]
    BY <1>1, <1>2 DEF SessionTypes, Posted
<1>5. OneRefreshInATab'
    BY <1>1, <1>2, <1>4 DEF OneRefreshInATab
<1>6. SpokenOf' /\ FreshSignIns' /\ NewestTokens'
    BY <1>1, FewerPosts
<1> QED BY <1>3, <1>5, <1>6 DEF SessionInv

\* No call changes what the tabs have asked about the session.
LEMMA CallsKeep ==
    ASSUME SessionInv,
           \/ \E t \in Tabs : Session!Call(t)
           \/ \E c \in apiCalls : Session!RefreshOver(c) \/ Session!CallEnds(c)
    PROVE  SessionInv'
<1>1. SessionTypes /\ OneRefreshInATab
    BY DEF SessionInv
<1>2. UNCHANGED <<issued, live, signedOut, cookie, tab, posts, disturbed>>
    BY DEF Session!Call, Session!RefreshOver, Session!CallEnds, Session!server
<1>3. /\ apiCalls' \subseteq [tab: Tabs, n: Nat, at: {"sent", "waiting", "again"}]
      /\ authed' \in Nat
    <2>1. ASSUME NEW t \in Tabs, Session!Call(t) PROVE <1>3!1 /\ <1>3!2
        BY <1>1, <2>1 DEF Session!Call, Session!Happen, SessionTypes
    <2>2. ASSUME NEW c \in apiCalls, Session!RefreshOver(c) PROVE <1>3!1 /\ <1>3!2
        BY <1>1, <2>2 DEF Session!RefreshOver, SessionTypes
    <2>3. ASSUME NEW c \in apiCalls, Session!CallEnds(c) PROVE <1>3!1 /\ <1>3!2
        BY <1>1, <2>3 DEF Session!CallEnds, SessionTypes
    <2> QED BY <2>1, <2>2, <2>3
<1>4. SpokenOf' /\ FreshSignIns' /\ NewestTokens'
    BY <1>2, FewerPosts
<1> QED BY <1>1, <1>2, <1>3, <1>4 DEF SessionInv, SessionTypes, OneRefreshInATab

LEMMA TokenExpiresKeeps ==
    ASSUME SessionInv, NEW t \in Tabs, Session!TokenExpires(t)
    PROVE  SessionInv'
<1>1. /\ tab' = [tab EXCEPT ![t].token = "expired"] /\ authed' = authed + 1
      /\ UNCHANGED <<issued, live, signedOut, cookie, posts, apiCalls, disturbed>>
    BY DEF Session!TokenExpires, Session!Happen, Session!server
<1>2. SessionTypes /\ OneRefreshInATab
    BY DEF SessionInv
<1>3. SessionTypes'
    BY <1>1, <1>2 DEF SessionTypes
<1>4. \A p \in posts : p.tab \in Tabs /\ tab'[p.tab].refreshing = tab[p.tab].refreshing
    BY <1>1, <1>2 DEF SessionTypes, Posted
<1>5. OneRefreshInATab'
    BY <1>1, <1>2, <1>4 DEF OneRefreshInATab
<1>6. SpokenOf' /\ FreshSignIns' /\ NewestTokens'
    BY <1>1, FewerPosts
<1> QED BY <1>3, <1>5, <1>6 DEF SessionInv

LEMMA SessionOpensKeeps ==
    ASSUME SessionInv, NEW p \in posts, Session!SessionOpens(p)
    PROVE  SessionInv'
<1>1. /\ tab' = IF p.op = "refresh" THEN [tab EXCEPT ![p.tab].refreshing = FALSE]
                ELSE [tab EXCEPT ![p.tab].loggingIn = FALSE]
      /\ posts' = posts \ {p} /\ p.at = "me"
      /\ UNCHANGED <<issued, live, signedOut, cookie, apiCalls, disturbed, authed>>
    BY DEF Session!SessionOpens, Session!server
<1>2. SessionTypes /\ OneRefreshInATab /\ p.tab \in Tabs
    BY DEF SessionInv, SessionTypes, Posted
<1>3. SessionTypes'
    BY <1>1, <1>2, ZenonT(40) DEF SessionTypes
<1>4. \A q \in posts : q.op = "refresh" /\ q # p => q.tab \in Tabs /\ tab'[q.tab].refreshing
    BY <1>1, <1>2 DEF SessionTypes, Posted, OneRefreshInATab
<1>5. OneRefreshInATab'
    BY <1>1, <1>2, <1>4 DEF OneRefreshInATab
<1>6. SpokenOf' /\ FreshSignIns' /\ NewestTokens'
    BY <1>1, FewerPosts
<1> QED BY <1>3, <1>5, <1>6 DEF SessionInv

LEMMA SessionFailsKeeps ==
    ASSUME SessionInv, NEW p \in posts, Session!SessionFails(p)
    PROVE  SessionInv'
<1>1. /\ tab' = IF p.op = "refresh" THEN Session!Cleared(p.tab)
                ELSE [tab EXCEPT ![p.tab].loggingIn = FALSE]
      /\ posts' = posts \ {p}
      /\ disturbed' = disturbed \union (IF p.at = "served" THEN {p.sent.of, p.got.of} ELSE {})
      /\ UNCHANGED <<issued, live, signedOut, cookie, apiCalls, authed>>
    BY DEF Session!SessionFails, Session!server
<1>2. SessionTypes /\ OneRefreshInATab /\ p.tab \in Tabs
    BY DEF SessionInv, SessionTypes, Posted
<1>3. SessionTypes'
    BY <1>1, <1>2, ZenonT(40) DEF SessionTypes, Session!Cleared
<1>4. \A q \in posts : q.op = "refresh" /\ q # p => q.tab \in Tabs /\ tab'[q.tab].refreshing
    BY <1>1, <1>2 DEF SessionTypes, Posted, OneRefreshInATab, Session!Cleared
<1>5. OneRefreshInATab'
    BY <1>1, <1>2, <1>4 DEF OneRefreshInATab
<1>6. SpokenOf' /\ FreshSignIns' /\ NewestTokens'
    BY <1>1, FewerPosts
<1> QED BY <1>3, <1>5, <1>6 DEF SessionInv

LEMMA LogOutEndsKeeps ==
    ASSUME SessionInv, NEW p \in posts, Session!LogOutEnds(p)
    PROVE  SessionInv'
<1>1. /\ tab' = [tab EXCEPT ![p.tab].token = "none"]
      /\ posts' = posts \ {p} /\ p.op = "logout"
      /\ UNCHANGED <<issued, apiCalls, disturbed, authed>>
    BY DEF Session!LogOutEnds
<1>2. SessionTypes /\ OneRefreshInATab /\ p.tab \in Tabs /\ p.sent.of \in 0 .. MaxSignIns
    BY DEF SessionInv, SessionTypes, Posted, Tokens
<1>3. /\ signedOut \subseteq signedOut' /\ cookie' \in {cookie, [of |-> 0, n |-> 0]}
      /\ live' \in [Session!SignIns -> SUBSET Nat]
      /\ \A f \in Session!SignIns : f \in signedOut' \/ live'[f] = live[f]
    <2>1. CASE UNCHANGED <<live, signedOut, cookie>>
        BY <1>2, <2>1 DEF SessionTypes
    <2>2. CASE /\ p.sent.of # 0 /\ live' = [live EXCEPT ![p.sent.of] = {}]
               /\ signedOut' = signedOut \union {p.sent.of} /\ cookie' = [of |-> 0, n |-> 0]
        BY <1>2, <2>2 DEF SessionTypes
    <2> QED BY <2>1, <2>2 DEF Session!LogOutEnds
<1>4. [of |-> 0, n |-> 0] \in Tokens
    BY PanelAssumption DEF Tokens, PanelAssumption, Session!AuthAssumption
<1>5. SessionTypes'
    BY <1>1, <1>2, <1>3, <1>4 DEF SessionTypes
<1>6. \A q \in posts : q.tab \in Tabs /\ tab'[q.tab].refreshing = tab[q.tab].refreshing
    BY <1>1, <1>2 DEF SessionTypes, Posted
<1>7. OneRefreshInATab'
    BY <1>1, <1>2, <1>6 DEF OneRefreshInATab
<1>8. SpokenOf' /\ FreshSignIns' /\ NewestTokens'
    BY <1>1, <1>3, FewerPosts
<1> QED BY <1>5, <1>7, <1>8 DEF SessionInv

LEMMA LogInAndOutKeep ==
    ASSUME SessionInv, NEW t \in Tabs, Session!LogIn(t) \/ Session!LogOut(t)
    PROVE  SessionInv'
<1>1. PICK op \in {"login", "logout"} :
         /\ posts' = posts \union {Session!Post(t, op)} /\ authed' = authed + 1
         /\ tab' = [tab EXCEPT ![t].loggingIn = TRUE] \/ tab' = tab
         /\ UNCHANGED <<issued, live, signedOut, cookie, apiCalls, disturbed>>
    BY DEF Session!LogIn, Session!LogOut, Session!Happen, Session!server
<1> DEFINE r == Session!Post(t, op)
<1>2. SessionTypes /\ OneRefreshInATab
    BY DEF SessionInv
<1>3. /\ r \in Posted /\ r.sent = cookie /\ r.at = "sent" /\ r.got = [of |-> 0, n |-> 0]
      /\ r.op # "refresh"
    BY <1>2, PanelAssumption
    DEF SessionTypes, Posted, Tokens, Session!Post, PanelAssumption, Session!AuthAssumption
<1>a. posts' = posts \union {r}
    BY <1>1
<1> HIDE DEF r
<1>b. tab' \in [Tabs -> [open: BOOLEAN, token: {"none", "good", "expired"},
                        refreshing: BOOLEAN, loggingIn: BOOLEAN]]
    BY <1>1, <1>2, ZenonT(40) DEF SessionTypes
<1>4. SessionTypes'
    BY <1>1, <1>2, <1>3, <1>a, <1>b DEF SessionTypes
<1>5. \A q \in posts : q.tab \in Tabs /\ tab'[q.tab].refreshing = tab[q.tab].refreshing
    BY <1>1, <1>2 DEF SessionTypes, Posted
<1>6. OneRefreshInATab'
    BY <1>2, <1>3, <1>5, <1>a DEF OneRefreshInATab
<1>7. SpokenOf' /\ FreshSignIns' /\ NewestTokens'
    BY <1>1, <1>3, <1>a, OneMorePost
<1> QED BY <1>4, <1>6, <1>7 DEF SessionInv

\* The server rotates the newest token of a calm sign-in, and ends one that is not calm.
LEMMA ServeRefreshKeeps ==
    ASSUME SessionInv, NEW p \in posts, Session!ServeRefresh(p)
    PROVE  SessionInv'
<1> DEFINE f == p.sent.of
<1>1. /\ p.op = "refresh" /\ p.at = "sent"
      /\ UNCHANGED <<signedOut, cookie, tab, apiCalls, disturbed, authed>>
    BY DEF Session!ServeRefresh
<1>2. /\ SessionTypes /\ OneRefreshInATab /\ SpokenOf /\ FreshSignIns /\ NewestTokens
      /\ p \in Posted /\ f \in 0 .. MaxSignIns /\ 0 \notin Session!SignIns
    BY DEF SessionInv, SessionTypes, Posted, Tokens, Session!SignIns
<1>3. p \in Session!Refreshes(f)
    BY <1>1 DEF Session!Refreshes
<1>4. ASSUME f # 0, p.sent.n \in live[f],
             issued' = [issued EXCEPT ![f] = @ + 1],
             live' = [live EXCEPT ![f] = {issued[f] + 1}],
             posts' = (posts \ {p}) \union
                         {[p EXCEPT !.at = "served", !.got = [of |-> f, n |-> issued[f] + 1]]}
      PROVE  SessionInv'
    <2> DEFINE new == issued[f] + 1
               r   == [p EXCEPT !.at = "served", !.got = [of |-> f, n |-> new]]
    <2>1. f \in Session!SignIns /\ issued[f] \in Nat /\ new \in Nat /\ issued[f] # 0 /\ new # 0
        BY <1>2, <1>4 DEF SessionTypes, Session!SignIns, SpokenOf
    <2>2. /\ r \in Posted /\ r.tab = p.tab /\ r.op = "refresh" /\ r.at = "served"
          /\ r.sent = p.sent /\ r.got.of = f /\ r.got.n = new
        BY <1>1, <1>2, <2>1 DEF Posted, Tokens
    <2>3. posts' = (posts \ {p}) \union {r}
        BY <1>4
    <2>4. /\ issued' \in [Session!SignIns -> Nat] /\ live' \in [Session!SignIns -> SUBSET Nat]
          /\ issued'[f] = new /\ live'[f] = {new}
          /\ \A g \in Session!SignIns : g # f => issued'[g] = issued[g] /\ live'[g] = live[g]
        BY <1>2, <1>4, <2>1 DEF SessionTypes
    <2> HIDE DEF new, r
    <2>5. SessionTypes'
        BY <1>1, <1>2, <2>2, <2>3, <2>4 DEF SessionTypes
    <2>6. OneRefreshInATab'
        BY <1>1, <1>2, <2>2, <2>3 DEF OneRefreshInATab
    <2>7. \A g \in 0 .. MaxSignIns : g # 0 /\ issued[g] # 0 => issued'[g] # 0
        BY <2>1, <2>4 DEF Session!SignIns
    <2>8. SpokenOf'
        BY <1>1, <1>2, <2>1, <2>2, <2>3, <2>4, <2>7 DEF SpokenOf, SessionTypes, Posted, Tokens
    <2>9. ASSUME NEW q \in posts', q.op = "login", q.at = "served"
          PROVE  /\ q.got.of # 0 /\ q.got.n = 1 /\ issued'[q.got.of] = 1 /\ cookie'.of # q.got.of
                 /\ \A s \in posts' : s.sent.of # q.got.of /\ (s # q => s.got.of # q.got.of)
        <3>1. q \in posts /\ q # p /\ q.got.of \in Session!SignIns
            <4>1. q \in posts /\ q # p
                BY <1>1, <1>2, <2>2, <2>3, <2>9 DEF SessionTypes, Posted
            <4>2. q.got.of \in Session!SignIns
                BY <1>2, <2>9, <4>1 DEF SessionTypes, Posted, Tokens, Session!SignIns, FreshSignIns
            <4> QED BY <4>1, <4>2
        <3>2. q.got.of # f
            BY <1>2, <2>9, <3>1 DEF FreshSignIns
        <3> QED BY <1>1, <1>2, <2>2, <2>3, <2>4, <2>9, <3>1, <3>2 DEF FreshSignIns
    <2>10. FreshSignIns'
        BY <2>9 DEF FreshSignIns
    <2>11. ASSUME NEW g \in Session!SignIns, Calm(g)', g # f
           PROVE  /\ Calm(g) /\ issued'[g] = issued[g] /\ live'[g] = live[g]
                  /\ Session!Refreshes(g)' = Session!Refreshes(g)
        BY <1>1, <2>2, <2>3, <2>4, <2>11 DEF Calm, Session!Refreshes
    <2>12. Calm(f)' => /\ Session!Refreshes(f) = {p} /\ Session!Refreshes(f)' = {r}
        <3>1. Calm(f)' => Session!Refreshes(f) = {p}
            BY <1>1, <1>2, <1>3, <2>1 DEF Calm, NewestTokens
        <3>2. Session!Refreshes(f) = {p} => Session!Refreshes(f)' = {r}
            BY <2>2, <2>3 DEF Session!Refreshes
        <3> QED BY <3>1, <3>2
    <2>13. ASSUME NEW g \in Session!SignIns, Calm(g)'
           PROVE  /\ live'[g] = {issued'[g]}
                  /\ cookie'.of = g => \/ cookie'.n = issued'[g]
                                       \/ \E q \in Session!Refreshes(g)' : q.at = "served"
                  /\ \A q \in Session!Refreshes(g)' :
                        /\ q.at = "sent" => q.sent.n = issued'[g]
                        /\ q.at = "served" => q.got.n = issued'[g]
                        /\ \A s \in Session!Refreshes(g)' : s = q
        <3>1. CASE g = f
            BY <2>2, <2>4, <2>12, <2>13, <3>1
        <3>2. CASE g # f
            BY <1>1, <1>2, <2>11, <2>13, <3>2 DEF NewestTokens
        <3> QED BY <3>1, <3>2
    <2> QED BY <2>5, <2>6, <2>8, <2>10, <2>13 DEF SessionInv, NewestTokens
<1>5. ASSUME ~(f # 0 /\ p.sent.n \in live[f]),
             live' = IF f = 0 THEN live ELSE [live EXCEPT ![f] = {}],
             posts' = (posts \ {p}) \union {[p EXCEPT !.at = "refused"]},
             UNCHANGED issued
      PROVE  SessionInv'
    <2> DEFINE r == [p EXCEPT !.at = "refused"]
    <2>1. /\ r \in Posted /\ r.tab = p.tab /\ r.op = "refresh" /\ r.at = "refused"
          /\ r.sent = p.sent /\ r.got = p.got
        BY <1>1, <1>2 DEF Posted
    <2>2. posts' = (posts \ {p}) \union {r}
        BY <1>5
    <2> HIDE DEF r
    <2>3. /\ live' \in [Session!SignIns -> SUBSET Nat]
          /\ \A g \in Session!SignIns : g # f => live'[g] = live[g]
        BY <1>2, <1>5 DEF SessionTypes
    <2>4. SessionTypes' /\ OneRefreshInATab'
        BY <1>1, <1>2, <1>5, <2>1, <2>2, <2>3 DEF SessionTypes, OneRefreshInATab
    <2>5. SpokenOf'
        BY <1>1, <1>2, <1>5, <2>1, <2>2 DEF SpokenOf
    <2>6. FreshSignIns'
        BY <1>1, <1>2, <1>5, <2>1, <2>2 DEF FreshSignIns
    <2>7. ASSUME NEW g \in Session!SignIns, Calm(g)'
          PROVE  g # f /\ Calm(g) /\ live'[g] = live[g] /\ Session!Refreshes(g)' = Session!Refreshes(g)
        <3>1. Calm(g)
            BY <1>1, <1>5, <2>7 DEF Calm
        <3>2. g # f
            BY <1>1, <1>2, <1>3, <1>5, <3>1 DEF NewestTokens
        <3> QED BY <1>1, <2>1, <2>2, <2>3, <3>1, <3>2 DEF Session!Refreshes
    <2>8. NewestTokens'
        BY <1>1, <1>2, <1>5, <2>7 DEF NewestTokens
    <2> QED BY <2>4, <2>5, <2>6, <2>8 DEF SessionInv
<1> QED BY <1>4, <1>5 DEF Session!ServeRefresh

\* A new sign-in: nobody knows its token yet.
LEMMA ServeLogInKeeps ==
    ASSUME SessionInv, NEW p \in posts, Session!ServeLogIn(p)
    PROVE  SessionInv'
<1>1. /\ p.op = "login" /\ p.at = "sent"
      /\ UNCHANGED <<signedOut, cookie, tab, apiCalls, disturbed, authed>>
    BY DEF Session!ServeLogIn
<1>2. /\ SessionTypes /\ OneRefreshInATab /\ SpokenOf /\ FreshSignIns /\ NewestTokens
      /\ p \in Posted /\ 0 \notin Session!SignIns
    BY DEF SessionInv, SessionTypes, Posted, Tokens, Session!SignIns
<1>3. PICK f \in Session!SignIns :
         /\ issued[f] = 0
         /\ issued' = [issued EXCEPT ![f] = 1]
         /\ live' = [live EXCEPT ![f] = {1}]
         /\ posts' = (posts \ {p}) \union {[p EXCEPT !.at = "served", !.got = [of |-> f, n |-> 1]]}
    BY DEF Session!ServeLogIn
<1> DEFINE r == [p EXCEPT !.at = "served", !.got = [of |-> f, n |-> 1]]
<1>4. /\ r \in Posted /\ r.tab = p.tab /\ r.op = "login" /\ r.at = "served"
      /\ r.sent = p.sent /\ r.got.of = f /\ r.got.n = 1
    <2>1. [of |-> f, n |-> 1] \in Tokens
        BY PanelAssumption DEF Tokens, Session!SignIns, PanelAssumption, Session!AuthAssumption
    <2> QED BY <1>1, <1>2, <2>1 DEF Posted
<1>5. posts' = (posts \ {p}) \union {r}
    BY <1>3
<1>6. /\ issued' \in [Session!SignIns -> Nat] /\ live' \in [Session!SignIns -> SUBSET Nat]
      /\ issued'[f] = 1 /\ live'[f] = {1}
      /\ \A g \in Session!SignIns : g # f => issued'[g] = issued[g] /\ live'[g] = live[g]
    BY <1>2, <1>3 DEF SessionTypes
<1> HIDE DEF r
<1>7. SessionTypes' /\ OneRefreshInATab'
    BY <1>1, <1>2, <1>4, <1>5, <1>6 DEF SessionTypes, OneRefreshInATab
<1>8. cookie.of # f /\ \A q \in posts : q.sent.of # f /\ q.got.of # f
    BY <1>2, <1>3 DEF SpokenOf
<1>9. SpokenOf'
    <2>1. \A g \in 0 .. MaxSignIns : g # 0 /\ issued[g] # 0 => issued'[g] # 0
        BY <1>6 DEF Session!SignIns
    <2> QED BY <1>1, <1>2, <1>4, <1>5, <1>6, <2>1 DEF SpokenOf, SessionTypes, Posted, Tokens
<1>10. ASSUME NEW q \in posts', q.op = "login", q.at = "served"
       PROVE  /\ q.got.of # 0 /\ q.got.n = 1 /\ issued'[q.got.of] = 1 /\ cookie'.of # q.got.of
              /\ \A s \in posts' : s.sent.of # q.got.of /\ (s # q => s.got.of # q.got.of)
    <2>1. CASE q = r
        BY <1>1, <1>2, <1>4, <1>5, <1>6, <1>8, <2>1
    <2>2. CASE q # r
        <3>1. q \in posts /\ q.got.of \in Session!SignIns /\ q.got.of # f
            BY <1>2, <1>5, <1>8, <1>10, <2>2
            DEF SessionTypes, Posted, Tokens, Session!SignIns, FreshSignIns
        <3> QED BY <1>1, <1>2, <1>4, <1>5, <1>6, <1>10, <3>1 DEF FreshSignIns
    <2> QED BY <2>1, <2>2
<1>11. FreshSignIns'
    BY <1>10 DEF FreshSignIns
<1>12. \A g \in Session!SignIns : Session!Refreshes(g)' = Session!Refreshes(g)
    BY <1>1, <1>4, <1>5 DEF Session!Refreshes
<1>13. Session!Refreshes(f) = {}
    BY <1>8 DEF Session!Refreshes
<1>14. ASSUME NEW g \in Session!SignIns, Calm(g)'
       PROVE  /\ live'[g] = {issued'[g]}
              /\ cookie'.of = g => \/ cookie'.n = issued'[g]
                                   \/ \E q \in Session!Refreshes(g)' : q.at = "served"
              /\ \A q \in Session!Refreshes(g)' :
                    /\ q.at = "sent" => q.sent.n = issued'[g]
                    /\ q.at = "served" => q.got.n = issued'[g]
                    /\ \A s \in Session!Refreshes(g)' : s = q
    <2>1. CASE g = f
        BY <1>1, <1>6, <1>8, <1>12, <1>13, <2>1
    <2>2. CASE g # f
        <3>1. Calm(g)
            BY <1>1, <1>6, <1>14, <2>2 DEF Calm
        <3> QED BY <1>1, <1>2, <1>6, <1>12, <2>2, <3>1 DEF NewestTokens
    <2> QED BY <2>1, <2>2
<1> QED BY <1>7, <1>9, <1>11, <1>14 DEF SessionInv, NewestTokens

\* The answer's token is the newest of its sign-in, and the cookie has it from now on.
LEMMA TakeRefreshKeeps ==
    ASSUME SessionInv, NEW p \in posts, Session!TakeRefresh(p)
    PROVE  SessionInv'
<1> DEFINE r == [p EXCEPT !.at = "me"]
<1>1. /\ p.op \in {"refresh", "login"} /\ p.at = "served" /\ cookie' = p.got
      /\ tab' = [tab EXCEPT ![p.tab].token = "good"]
      /\ posts' = (posts \ {p}) \union {r}
      /\ UNCHANGED <<issued, live, signedOut, apiCalls, disturbed, authed>>
    BY DEF Session!TakeRefresh, Session!server
<1>2. /\ SessionTypes /\ OneRefreshInATab /\ SpokenOf /\ FreshSignIns /\ NewestTokens
      /\ p \in Posted /\ p.tab \in Tabs /\ p.got \in Tokens /\ 0 \notin Session!SignIns
    BY DEF SessionInv, SessionTypes, Posted, Session!SignIns
<1>3. /\ r \in Posted /\ r.tab = p.tab /\ r.op = p.op /\ r.at = "me"
      /\ r.sent = p.sent /\ r.got = p.got
    BY <1>2 DEF Posted
<1> HIDE DEF r
<1>4. SessionTypes'
    BY <1>1, <1>2, <1>3 DEF SessionTypes
<1>5. \A q \in posts : q.tab \in Tabs /\ tab'[q.tab].refreshing = tab[q.tab].refreshing
    BY <1>1, <1>2 DEF SessionTypes, Posted
<1>6. OneRefreshInATab'
    BY <1>1, <1>2, <1>3, <1>5 DEF OneRefreshInATab
<1>7. SpokenOf'
    BY <1>1, <1>2, <1>3 DEF SpokenOf
<1>8. \A q \in posts : q.op = "login" /\ q.at = "served" /\ q # p => q.got.of # p.got.of
    BY <1>2 DEF FreshSignIns
<1>9. FreshSignIns'
    BY <1>1, <1>2, <1>3, <1>8 DEF FreshSignIns
<1>10. \A g \in Session!SignIns : Session!Refreshes(g)' = Session!Refreshes(g) \ {p}
    BY <1>1, <1>3 DEF Session!Refreshes
<1>11. ASSUME NEW g \in Session!SignIns, Calm(g), p.got.of = g
       PROVE  p.got.n = issued[g]
    <2>1. CASE p.op = "login"
        BY <1>1, <1>2, <1>11, <2>1 DEF FreshSignIns
    <2>2. CASE p.op = "refresh"
        <3>1. p \in Session!Refreshes(g)
            BY <1>1, <1>2, <1>11, <2>2 DEF SpokenOf, Session!Refreshes
        <3> QED BY <1>1, <1>2, <1>11, <3>1 DEF NewestTokens
    <2> QED BY <1>1, <2>1, <2>2
<1>12. \A g \in Session!SignIns : Calm(g)' => Calm(g)
    BY <1>1 DEF Calm
<1>13. NewestTokens'
    BY <1>1, <1>2, <1>10, <1>11, <1>12 DEF NewestTokens
<1> QED BY <1>4, <1>6, <1>7, <1>9, <1>13 DEF SessionInv

LEMMA SessionStarts == Session!Init => SessionInv
<1> SUFFICES ASSUME Session!Init PROVE SessionInv
    OBVIOUS
<1>1. MaxSignIns \in Nat \ {0} /\ 1 \in Session!SignIns
    BY PanelAssumption DEF PanelAssumption, Session!AuthAssumption, Session!SignIns
<1>2. SessionTypes
    BY <1>1 DEF Session!Init, SessionTypes, Tokens, Session!Closed, Session!SignIns
<1>3. OneRefreshInATab /\ FreshSignIns
    BY DEF Session!Init, OneRefreshInATab, FreshSignIns
<1>4. SpokenOf /\ NewestTokens
    BY <1>1 DEF Session!Init, SpokenOf, NewestTokens, Calm, Session!Refreshes
<1> QED BY <1>2, <1>3, <1>4 DEF SessionInv

LEMMA SessionStays == SessionInv /\ UNCHANGED sessionVars => SessionInv'
BY DEF sessionVars, SessionInv, SessionTypes, OneRefreshInATab, SpokenOf, FreshSignIns,
       NewestTokens, Calm, Session!Refreshes

LEMMA SessionKeeps ==
    ASSUME SessionInv, Session!Next
    PROVE  SessionInv'
<1>1. ASSUME Session!Progress PROVE SessionInv'
    <2>1. ASSUME NEW p \in posts,
                 \/ Session!ServeRefresh(p) \/ Session!TakeRefresh(p) \/ Session!SessionOpens(p)
                 \/ Session!SessionFails(p) \/ Session!ServeLogIn(p) \/ Session!LogOutEnds(p)
          PROVE  SessionInv'
        BY <2>1, ServeRefreshKeeps, TakeRefreshKeeps, SessionOpensKeeps, SessionFailsKeeps,
           ServeLogInKeeps, LogOutEndsKeeps
    <2>2. ASSUME NEW c \in apiCalls,
                 Session!Refused(c) \/ Session!RefreshOver(c) \/ Session!CallEnds(c)
          PROVE  SessionInv'
        BY <2>2, RefusedKeeps, CallsKeep
    <2> QED BY <1>1, <2>1, <2>2 DEF Session!Progress
<1>2. ASSUME NEW t \in Tabs,
             \/ Session!OpenTab(t) \/ Session!CloseTab(t) \/ Session!LogIn(t)
             \/ Session!LogOut(t) \/ Session!Call(t) \/ Session!TokenExpires(t)
      PROVE  SessionInv'
    BY <1>2, OpenTabKeeps, CloseTabKeeps, LogInAndOutKeep, CallsKeep, TokenExpiresKeeps
<1> QED BY <1>1, <1>2 DEF Session!Next

\* AdminPanel: whichever page is open, the session's state is one its own steps lead to.
LEMMA SessionInvariance == Spec => []SessionInv
<1>1. Init => SessionInv
    BY SessionStarts DEF Init
<1>2. SessionInv /\ [Next]_vars => SessionInv'
    <2> SUFFICES ASSUME SessionInv, [Next]_vars PROVE SessionInv'
        OBVIOUS
    <2>1. CASE Session!Next
        BY <2>1, SessionKeeps
    <2>2. CASE UNCHANGED sessionVars
        BY <2>2, SessionStays
    <2>3. Session!Next \/ UNCHANGED sessionVars
        BY DEF Next, Only, vars
    <2> QED BY <2>1, <2>2, <2>3
<1> QED BY <1>1, <1>2, PTL DEF Spec

\* No tab presents a refresh token it has used up, which the server takes for theft: a
\* sign-in lives until somebody ends it (SignInsLive), for any number of tabs and sign-ins.
THEOREM SignInsLast == Spec => []SignInsLive
<1>1. SessionInv => SignInsLive
    BY DEF SessionInv, NewestTokens, Calm, SignInsLive, Session!SignInsLive
<1> QED BY <1>1, SessionInvariance, PTL
-----------------------------------------------------------------------------
(* The import dialog. *)

\* What a request would send.
Imported == [file: Files \union {NoFile}, mapping: Mappings, publish: BOOLEAN]

ImportTypes ==
    /\ import \in Imported /\ busy \in {"no", "check", "import"} /\ final \in BOOLEAN
    /\ open \in BOOLEAN /\ reading \in BOOLEAN /\ raced \in BOOLEAN /\ imports \in Nat
    /\ reads \subseteq [n: Nat, file: Files]
    /\ runs \subseteq [n: Nat, kind: {"check", "import"}, of: Imported]
    /\ \A r \in runs : r.of.file \in Files
    /\ checked = Import!NoReport \/ (checked \in [passed: {TRUE}, of: Imported] /\ checked.of.file \in Files)

\* What has passed is what would be sent, unless an answer came for something replaced.
ImportIsChecked == ~raced /\ checked.passed => checked.of = import

ImportInv == ImportTypes /\ ImportIsChecked

LEMMA ImportStarts == Import!Init => ImportInv
<1> SUFFICES ASSUME Import!Init PROVE ImportInv
    OBVIOUS
<1>1. FirstMapping \in Mappings
    BY PanelAssumption DEF PanelAssumption, Import!ImportAssumption
<1>2. import \in Imported
    BY <1>1 DEF Import!Init, Imported, Import!Nothing
<1>3. ImportTypes
    BY <1>2 DEF Import!Init, ImportTypes
<1>4. ImportIsChecked
    BY DEF Import!Init, ImportIsChecked, Import!NoReport
<1> QED BY <1>3, <1>4 DEF ImportInv

LEMMA ImportStays == ImportInv /\ UNCHANGED importVars => ImportInv'
<1> SUFFICES ASSUME ImportInv, UNCHANGED importVars PROVE ImportInv'
    OBVIOUS
<1>1. ImportTypes'
    BY DEF importVars, ImportInv, ImportTypes
<1>2. ImportIsChecked'
    BY DEF importVars, ImportInv, ImportIsChecked
<1> QED BY <1>1, <1>2 DEF ImportInv

LEMMA ImportKeeps ==
    ASSUME ImportInv, Import!Next
    PROVE  ImportInv'
<1>1. ImportTypes /\ ImportIsChecked /\ FirstMapping \in Mappings /\ Import!NoReport.passed = FALSE
    BY PanelAssumption DEF ImportInv, PanelAssumption, Import!ImportAssumption, Import!NoReport
<1>2. ASSUME NEW r \in reads, Import!ReadEnds(r) PROVE ImportInv'
    <2>1. /\ reads' = reads \ {r} /\ reading' = FALSE
          /\ import' \in {import, [import EXCEPT !.file = r.file, !.mapping = FirstMapping]}
          /\ raced' = (raced \/ checked.passed \/ busy # "no" \/ runs # {})
          /\ UNCHANGED <<open, busy, checked, final, runs, imports>>
        BY <1>2 DEF Import!ReadEnds
    <2>2. import' \in Imported
        BY <1>1, <2>1 DEF ImportTypes, Imported
    <2>3. ImportTypes'
        BY <1>1, <2>1, <2>2 DEF ImportTypes
    <2>4. ImportIsChecked'
        BY <2>1 DEF ImportIsChecked
    <2> QED BY <2>3, <2>4 DEF ImportInv
<1>3. ASSUME NEW p \in runs, NEW passed \in BOOLEAN, Import!PostEnds(p, passed) PROVE ImportInv'
    <2> DEFINE report == [passed |-> TRUE, of |-> p.of]
    <2>1. /\ runs' = runs \ {p} /\ busy' = "no" /\ raced' = (raced \/ p.of # import)
          /\ UNCHANGED <<open, import, reading, reads, imports>>
        BY <1>3 DEF Import!PostEnds
    <2>2. final' \in {final, TRUE} /\ checked' \in {checked, Import!NoReport, report}
        BY <1>3 DEF Import!PostEnds
    <2>3. /\ report \in [passed: {TRUE}, of: Imported] /\ report.of.file \in Files
          /\ report.of = p.of
        BY <1>1 DEF ImportTypes
    <2> HIDE DEF report
    <2>4. ImportTypes'
        BY <1>1, <2>1, <2>2, <2>3 DEF ImportTypes
    <2>5. ImportIsChecked'
        BY <1>1, <2>1, <2>2, <2>3 DEF ImportIsChecked
    <2> QED BY <2>4, <2>5 DEF ImportInv
<1>4. ASSUME import' \in Imported, checked' = Import!NoReport, imports' \in Nat, busy' \in {busy, "no"},
             open' \in BOOLEAN, reading' \in BOOLEAN, final' \in BOOLEAN,
             reads' \subseteq [n: Nat, file: Files], UNCHANGED <<runs, raced>>
      PROVE  ImportInv'
    <2>1. ImportTypes'
        BY <1>1, <1>4 DEF ImportTypes
    <2>2. ImportIsChecked'
        BY <1>1, <1>4 DEF ImportIsChecked
    <2> QED BY <2>1, <2>2 DEF ImportInv
<1>5. ASSUME Import!Open PROVE ImportInv'
    <2>1. import' \in Imported
        BY <1>1, <1>5 DEF Import!Open, Import!Nothing, Imported
    <2>2. /\ open' = TRUE /\ reading' = FALSE /\ final' = FALSE /\ Import!Happen
          /\ busy' = "no" /\ checked' = Import!NoReport /\ UNCHANGED <<reads, runs, raced>>
        BY <1>5, Zenon DEF Import!Open
    <2>3. imports' \in Nat
        BY <1>1, <2>2 DEF Import!Happen, ImportTypes
    <2>4. open' \in BOOLEAN /\ reading' \in BOOLEAN /\ final' \in BOOLEAN
        BY <2>2
    <2> QED BY <1>1, <1>4, <2>1, <2>2, <2>3, <2>4 DEF ImportTypes
<1>7. ASSUME Import!Close PROVE ImportInv'
    <2>1. ImportTypes'
        BY <1>1, <1>7 DEF Import!Close, ImportTypes
    <2>2. ImportIsChecked'
        BY <1>1, <1>7 DEF Import!Close, ImportIsChecked
    <2> QED BY <2>1, <2>2 DEF ImportInv
<1>8. ASSUME NEW f \in Files, Import!Pick(f) PROVE ImportInv'
    <2>1. import' \in Imported
        BY <1>1, <1>8 DEF Import!Pick, ImportTypes, Imported
    <2>2. reads' \subseteq [n: Nat, file: Files]
        BY <1>1, <1>8 DEF Import!Pick, ImportTypes
    <2> QED BY <1>1, <1>4, <1>8, <2>1, <2>2 DEF Import!Pick, Import!Happen, ImportTypes
<1>9. ASSUME NEW mapping \in Mappings, Import!SetTarget(mapping) PROVE ImportInv'
    <2>1. import' \in Imported
        BY <1>1, <1>9 DEF Import!SetTarget, ImportTypes, Imported
    <2> QED BY <1>1, <1>4, <1>9, <2>1 DEF Import!SetTarget, ImportTypes
<1>10. ASSUME Import!SetPublish PROVE ImportInv'
    <2>1. import' = [import EXCEPT !.publish = ~@]
        BY <1>10, Zenon DEF Import!SetPublish
    <2>2. import' \in Imported
        BY <1>1, <2>1 DEF ImportTypes, Imported
    <2> QED BY <1>1, <1>4, <1>10, <2>2 DEF Import!SetPublish, ImportTypes
<1>6. ASSUME NEW what \in {"check", "import"}, Import!Run(what) PROVE ImportInv'
    <2> DEFINE r == [n |-> imports, kind |-> what, of |-> import]
    <2>1. /\ import.file # NoFile /\ busy' = what /\ imports' = imports + 1
          /\ runs' = runs \union {r}
          /\ UNCHANGED <<open, import, reading, checked, final, reads, raced>>
        BY <1>6 DEF Import!Run, Import!Ready, Import!Happen
    <2>2. r \in [n: Nat, kind: {"check", "import"}, of: Imported] /\ r.of.file \in Files
        BY <1>1, <2>1 DEF ImportTypes, Imported
    <2> HIDE DEF r
    <2>3. ImportTypes'
        <3>1. runs' \subseteq [n: Nat, kind: {"check", "import"}, of: Imported] /\ \A x \in runs' : x.of.file \in Files
            BY <1>1, <2>1, <2>2 DEF ImportTypes
        <3>2. busy' \in {"no", "check", "import"} /\ imports' \in Nat
            BY <1>1, <2>1 DEF ImportTypes
        <3> QED BY <1>1, <2>1, <3>1, <3>2 DEF ImportTypes
    <2>4. ImportIsChecked'
        BY <1>1, <2>1 DEF ImportIsChecked
    <2> QED BY <2>3, <2>4 DEF ImportInv
<1> QED BY <1>2, <1>3, <1>5, <1>6, <1>7, <1>8, <1>9, <1>10 DEF Import!Next, Import!Progress

LEMMA ImportInvariance == Spec => []ImportInv
<1>1. Init => ImportInv
    BY ImportStarts DEF Init
<1>2. ImportInv /\ [Next]_vars => ImportInv'
    <2> SUFFICES ASSUME ImportInv, [Next]_vars PROVE ImportInv'
        OBVIOUS
    <2>1. Import!Next \/ UNCHANGED importVars
        BY DEF Next, Only, vars
    <2> QED BY <2>1, ImportKeeps, ImportStays
<1> QED BY <1>1, <1>2, PTL DEF Spec

\* An import that is sent is the one that passed.
LEMMA ImportsAreChecked == Spec => Import!UnracedImportsAreChecked
<1> DEFINE AsChecked == \A p \in runs' \ runs : p.kind = "import" /\ ~raced => checked.of = p.of
<1>1. ImportInv /\ [Next]_vars => AsChecked
    <2> SUFFICES ASSUME ImportInv, [Next]_vars PROVE AsChecked
        OBVIOUS
    <2>1. CASE runs' \subseteq runs
        BY <2>1
    <2>2. ASSUME NEW what \in {"check", "import"}, Import!Run(what) PROVE AsChecked
        <3> DEFINE r == [n |-> imports, kind |-> what, of |-> import]
        <3>1. runs' = runs \union {r} /\ (what = "import" => checked.passed)
            BY <2>2 DEF Import!Run
        <3>2. r.of = import /\ r.kind = what
            OBVIOUS
        <3> HIDE DEF r
        <3> QED BY <3>1, <3>2 DEF ImportInv, ImportIsChecked
    <2>3. UNCHANGED importVars => runs' \subseteq runs
        BY DEF importVars
    <2>4. ASSUME \/ Import!Progress \/ Import!Open \/ Import!Close \/ Import!SetPublish
                 \/ \E f \in Files : Import!Pick(f)
                 \/ \E mapping \in Mappings : Import!SetTarget(mapping)
          PROVE  runs' \subseteq runs
        BY <2>4 DEF Import!Progress, Import!ReadEnds, Import!PostEnds, Import!Open, Import!Close,
                    Import!SetPublish, Import!Pick, Import!SetTarget
    <2>5. Import!Next \/ UNCHANGED importVars
        BY DEF Next, Only, vars
    <2> QED BY <2>1, <2>2, <2>3, <2>4, <2>5 DEF Import!Next
<1> QED BY <1>1, ImportInvariance, PTL DEF Spec, Import!UnracedImportsAreChecked
-----------------------------------------------------------------------------
(* The edit pages of webhooks, workflows, forms and menus. *)

Texts == 0 .. MaxTexts

SaveRequests == [visit: Nat, op: {"create", "update", "delete"}, id: Ids \union {NewId},
                 of: Ids \union {NewId}, text: Texts, done: BOOLEAN]

SettingsTypes ==
    /\ kind \in Settings!Kinds /\ stored \in [Ids -> Texts \union {Gone}]
    /\ at \in Ids \union {NewId, ListPage} /\ held \in Ids \union {Settings!Nobody}
    /\ shown \in [ready: BOOLEAN, of: Ids \union {NewId}, text: Texts]
    /\ visit \in Nat /\ (at # ListPage => visit # 0) /\ texts \in Texts
    /\ at = ListPage => ~fetching
    /\ saves \subseteq SaveRequests
    /\ \A s \in saves : s.visit \in 1 .. visit /\ (s.done => s.id \in Ids)

\* What an update would go to is what the page shows: the thing that is held, or, on the
\* pages that hold nothing, the one of the route, while they show a value.
ShownIsItsOwn ==
    /\ kind \in Settings!ByHeld /\ held # Settings!Nobody => shown.of = held
    /\ kind \notin Settings!ByHeld /\ shown.ready => shown.of = at

SettingsInv == SettingsTypes /\ ShownIsItsOwn

LEMMA SettingsConstants ==
    /\ NewId \notin Ids /\ ListPage \notin Ids /\ ListPage # NewId
    /\ MaxTexts \in Nat \ {0} /\ 0 \in Texts /\ Settings!Nobody = ListPage
BY PanelAssumption DEF PanelAssumption, Settings!SettingsAssumption, Texts, Settings!Nobody

LEMMA SettingsStartsAny ==
    ASSUME NEW k \in Settings!Kinds, NEW free, Settings!Starts(k, free)
    PROVE  SettingsInv
<1>1. SettingsTypes
    BY SettingsConstants DEF Settings!Starts, SettingsTypes, SaveRequests, Settings!Blank
<1>2. ShownIsItsOwn
    BY SettingsConstants DEF Settings!Starts, ShownIsItsOwn, Settings!Blank
<1> QED BY <1>1, <1>2 DEF SettingsInv

LEMMA SettingsStay == SettingsInv /\ UNCHANGED settingsVars => SettingsInv'
<1> SUFFICES ASSUME SettingsInv, UNCHANGED settingsVars PROVE SettingsInv'
    OBVIOUS
<1>1. SettingsTypes'
    BY DEF settingsVars, SettingsInv, SettingsTypes
<1>2. ShownIsItsOwn'
    BY DEF settingsVars, SettingsInv, ShownIsItsOwn
<1> QED BY <1>1, <1>2 DEF SettingsInv

\* A page, new or turned to another id, shows nothing it would send elsewhere.
LEMMA FilledIs ==
    ASSUME NEW id \in Ids \union {NewId}, NEW text \in Texts
    PROVE  /\ Settings!Filled(id, text) \in [ready: BOOLEAN, of: Ids \union {NewId}, text: Texts]
           /\ Settings!Filled(id, text).of = id
BY DEF Settings!Filled

LEMMA OpensIs ==
    ASSUME SettingsInv, NEW to \in Ids \union {NewId, ListPage}, Settings!Opens(to), kind' = kind
    PROVE  /\ at' = to /\ visit' = visit + 1 /\ held' = Settings!Nobody
           /\ shown' \in [ready: BOOLEAN, of: Ids \union {NewId}, text: Texts]
           /\ ShownIsItsOwn' /\ (to = ListPage => ~fetching')
<1>1. /\ at' = to /\ visit' = visit + 1 /\ held' = Settings!Nobody
      /\ to = ListPage => ~fetching'
    BY DEF Settings!Opens
<1>2. CASE kind = "webhook" /\ to = NewId
    <2>1. shown' = Settings!Filled(NewId, 0)
        BY <1>2 DEF Settings!Opens
    <2>2. shown' \in [ready: BOOLEAN, of: Ids \union {NewId}, text: Texts]
        BY <2>1, SettingsConstants, FilledIs
    <2> QED BY <1>1, <1>2, <2>2 DEF ShownIsItsOwn, Settings!ByHeld
<1>3. CASE ~(kind = "webhook" /\ to = NewId)
    <2>1. shown' = Settings!Blank
        BY <1>3 DEF Settings!Opens
    <2>2. shown' \in [ready: BOOLEAN, of: Ids \union {NewId}, text: Texts] /\ shown'.ready = FALSE
        BY <2>1, SettingsConstants DEF Settings!Blank
    <2> QED BY <1>1, <2>2 DEF ShownIsItsOwn
<1> QED BY <1>2, <1>3

LEMMA UnloadsIs ==
    ASSUME SettingsInv, NEW to
    PROVE  /\ Settings!Unloads(to) \in [ready: BOOLEAN, of: Ids \union {NewId}, text: Texts]
           /\ (kind = "webhook" /\ to = NewId) \/ Settings!Unloads(to).of = shown.of
           /\ kind # "webhook" => Settings!Unloads(to).ready = FALSE
<1>1. shown \in [ready: BOOLEAN, of: Ids \union {NewId}, text: Texts]
    BY DEF SettingsInv, SettingsTypes
<1>2. CASE kind = "webhook"
    BY <1>1, <1>2, SettingsConstants, FilledIs DEF Settings!Unloads
<1>3. CASE kind # "webhook"
    <2>1. Settings!Unloads(to) = [shown EXCEPT !.ready = FALSE]
        BY <1>3 DEF Settings!Unloads
    <2> QED BY <1>1, <1>3, <2>1
<1> QED BY <1>2, <1>3

LEMMA TurnsIs ==
    ASSUME SettingsInv, NEW to \in Ids \union {NewId}, Settings!Turns(to), kind' = kind
    PROVE  /\ at' = to /\ visit' = visit /\ held' \in {held, Settings!Nobody}
           /\ shown' \in [ready: BOOLEAN, of: Ids \union {NewId}, text: Texts]
           /\ ShownIsItsOwn'
<1>1. /\ at' = to /\ visit' = visit /\ shown' = Settings!Unloads(to)
      /\ held' = IF kind = "webhook" /\ to = NewId THEN Settings!Nobody ELSE held
    BY DEF Settings!Turns
<1>2. ShownIsItsOwn'
    BY <1>1, UnloadsIs DEF SettingsInv, ShownIsItsOwn, Settings!ByHeld
<1> QED BY <1>1, <1>2, UnloadsIs

LEMMA GoToKeeps ==
    ASSUME SettingsInv, NEW to \in Ids \union {NewId, ListPage}, Settings!GoTo(to)
    PROVE  SettingsInv'
<1>1. UNCHANGED <<kind, stored, saves, texts>> /\ SettingsTypes
    BY DEF Settings!GoTo, SettingsInv
<1>2. CASE Settings!Opens(to)
    <2>1. SettingsTypes'
        BY <1>1, <1>2, OpensIs DEF SettingsTypes
    <2> QED BY <1>1, <1>2, <2>1, OpensIs DEF SettingsInv
<1>3. CASE at # ListPage /\ to # ListPage /\ Settings!Turns(to)
    <2>1. SettingsTypes'
        BY <1>1, <1>3, TurnsIs DEF SettingsTypes
    <2> QED BY <1>1, <1>3, <2>1, TurnsIs DEF SettingsInv
<1> QED BY <1>2, <1>3 DEF Settings!GoTo

LEMMA LoadsKeep ==
    ASSUME SettingsInv, Settings!Loads \/ Settings!LoadFails
    PROVE  SettingsInv'
<1>1. /\ UNCHANGED <<kind, stored, at, visit, saves, texts>> /\ SettingsTypes
      /\ fetching /\ ~fetching' /\ at # ListPage
    BY DEF Settings!Loads, Settings!LoadFails, SettingsInv, SettingsTypes
<1>2. CASE Settings!LoadFails
    <2>1. UNCHANGED <<held, shown>>
        BY <1>2 DEF Settings!LoadFails
    <2>2. SettingsTypes'
        BY <1>1, <2>1 DEF SettingsTypes
    <2>3. ShownIsItsOwn'
        BY <1>1, <2>1 DEF SettingsInv, ShownIsItsOwn
    <2> QED BY <2>2, <2>3 DEF SettingsInv
<1>3. CASE Settings!Loads /\ at = NewId
    <2>1. held' = Settings!Nobody /\ shown' = Settings!Filled(NewId, 0)
        BY <1>3 DEF Settings!Loads
    <2>2. SettingsTypes'
        BY <1>1, <2>1, SettingsConstants, FilledIs DEF SettingsTypes
    <2>3. ShownIsItsOwn'
        BY <1>1, <1>3, <2>1, SettingsConstants, FilledIs DEF ShownIsItsOwn
    <2> QED BY <2>2, <2>3 DEF SettingsInv
<1>4. CASE Settings!Loads /\ at # NewId /\ at # ListPage
    <2>1. held' = at /\ shown' = Settings!Filled(at, stored[at]) /\ stored[at] # Gone
        BY <1>4 DEF Settings!Loads
    <2>2. at \in Ids /\ stored[at] \in Texts
        BY <1>1, <1>4, <2>1 DEF SettingsTypes
    <2>3. SettingsTypes'
        BY <1>1, <2>1, <2>2, FilledIs DEF SettingsTypes
    <2>4. ShownIsItsOwn'
        BY <1>1, <2>1, <2>2, FilledIs DEF ShownIsItsOwn
    <2> QED BY <2>3, <2>4 DEF SettingsInv
<1> QED BY <1>1, <1>2, <1>3, <1>4

\* What is sent is what is shown, and an update goes to what is shown.
LEMMA SentIs ==
    ASSUME SettingsInv, NEW op \in {"create", "update", "delete"}, NEW id \in Ids \union {NewId},
           at # ListPage
    PROVE  /\ Settings!Sent(op, id) \in SaveRequests
           /\ Settings!Sent(op, id).visit = visit /\ visit \in 1 .. visit
           /\ Settings!Sent(op, id).op = op /\ Settings!Sent(op, id).id = id
           /\ Settings!Sent(op, id).of = shown.of /\ ~Settings!Sent(op, id).done
BY DEF SettingsInv, SettingsTypes, SaveRequests, Settings!Sent

LEMMA TargetIs ==
    ASSUME SettingsInv, Settings!MaySave, Settings!Target # Settings!Nobody
    PROVE  Settings!Target \in Ids /\ Settings!Target = shown.of
<1>1. SettingsTypes /\ ShownIsItsOwn /\ at # ListPage
    BY DEF SettingsInv, Settings!MaySave
<1>2. CASE kind \in Settings!ByHeld
    <2>1. Settings!Target = held
        BY <1>2 DEF Settings!Target
    <2> QED BY <1>1, <1>2, <2>1 DEF SettingsTypes, ShownIsItsOwn
<1>3. CASE kind \notin Settings!ByHeld
    <2>1. Settings!Target = at /\ at # NewId /\ shown.ready
        BY <1>3 DEF Settings!Target, Settings!MaySave, Settings!ByHeld
    <2> QED BY <1>1, <1>3, <2>1 DEF SettingsTypes, ShownIsItsOwn
<1> QED BY <1>2, <1>3

LEMMA OneMoreSave ==
    ASSUME SettingsInv, NEW op \in {"create", "update", "delete"}, NEW id \in Ids \union {NewId},
           at # ListPage, op = "update" => id = shown.of,
           saves' = saves \union {Settings!Sent(op, id)},
           UNCHANGED <<kind, stored, at, visit, fetching, held, shown, texts>>
    PROVE  SettingsInv' /\ \A s \in saves' \ saves : s.op = "update" => s.id = s.of
<1> DEFINE r == Settings!Sent(op, id)
<1>1. SettingsTypes /\ ShownIsItsOwn /\ saves' = saves \union {r}
    BY DEF SettingsInv
<1>2. /\ r \in SaveRequests /\ r.visit = visit /\ visit \in 1 .. visit
      /\ r.op = op /\ r.id = id /\ r.of = shown.of /\ ~r.done
    BY SentIs
<1> HIDE DEF r
<1>3. SettingsTypes'
    BY <1>1, <1>2 DEF SettingsTypes
<1>4. ShownIsItsOwn'
    BY <1>1 DEF ShownIsItsOwn
<1> QED BY <1>1, <1>2, <1>3, <1>4 DEF SettingsInv

LEMMA SaveKeeps ==
    ASSUME SettingsInv, Settings!Save \/ Settings!Remove
    PROVE  SettingsInv' /\ \A s \in saves' \ saves : s.op = "update" => s.id = s.of
<1>1. /\ UNCHANGED <<kind, stored, at, visit, fetching, held, shown, texts>>
      /\ SettingsTypes /\ ShownIsItsOwn /\ at # ListPage
    BY DEF Settings!Save, Settings!Remove, Settings!MaySave, SettingsInv
<1>2. \A op \in {"create", "update", "delete"}, id \in Ids \union {NewId} :
         saves' = saves \union {Settings!Sent(op, id)} /\ (op = "update" => id = shown.of)
            => SettingsInv' /\ \A s \in saves' \ saves : s.op = "update" => s.id = s.of
    BY <1>1, OneMoreSave
<1>3. CASE Settings!Remove
    <2>1. held \in Ids /\ saves' = saves \union {Settings!Sent("delete", held)}
        BY <1>1, <1>3 DEF Settings!Remove, SettingsTypes
    <2> QED BY <1>2, <2>1
<1>4. CASE Settings!Save /\ Settings!Target = Settings!Nobody
    <2>1. saves' = saves \union {Settings!Sent("create", NewId)}
        BY <1>4 DEF Settings!Save
    <2> QED BY <1>2, <2>1
<1>5. CASE Settings!Save /\ Settings!Target # Settings!Nobody
    <2>1. /\ saves' = saves \union {Settings!Sent("update", Settings!Target)}
          /\ Settings!Target \in Ids /\ Settings!Target = shown.of
        BY <1>5, TargetIs DEF Settings!Save
    <2> QED BY <1>2, <2>1
<1> QED BY <1>3, <1>4, <1>5

LEMMA SaveIsServed ==
    ASSUME SettingsInv, NEW s \in saves, Settings!Serve(s)
    PROVE  SettingsInv' /\ \A r \in saves' \ saves : r.done
<1>1. /\ UNCHANGED <<kind, at, visit, fetching, held, shown, texts>>
      /\ SettingsTypes /\ ShownIsItsOwn
    BY DEF Settings!Serve, SettingsInv
<1>2. s \in SaveRequests /\ s.visit \in 1 .. visit
    BY <1>1 DEF SettingsTypes
<1>3. PICK id \in Ids :
         /\ stored' = [stored EXCEPT ![id] = IF s.op = "delete" THEN Gone ELSE s.text]
         /\ saves' = (saves \ {s}) \union {[s EXCEPT !.done = TRUE, !.id = id]}
    BY DEF Settings!Serve
<1> DEFINE r == [s EXCEPT !.done = TRUE, !.id = id]
<1>4. r \in SaveRequests /\ r.visit = s.visit /\ r.done /\ r.id = id
    BY <1>2 DEF SaveRequests
<1>5. saves' = (saves \ {s}) \union {r}
    BY <1>3
<1> HIDE DEF r
<1>6. stored' \in [Ids -> Texts \union {Gone}]
    BY <1>1, <1>2, <1>3 DEF SettingsTypes, SaveRequests
<1>7. SettingsTypes'
    BY <1>1, <1>2, <1>4, <1>5, <1>6 DEF SettingsTypes
<1>8. ShownIsItsOwn'
    BY <1>1 DEF ShownIsItsOwn
<1> QED BY <1>4, <1>5, <1>7, <1>8 DEF SettingsInv

LEMMA AnswerCreateKeeps ==
    ASSUME SettingsInv, NEW s \in saves, Settings!AnswerCreate(s)
    PROVE  SettingsInv'
<1>1. /\ UNCHANGED <<kind, stored, texts>> /\ saves' = saves \ {s}
      /\ SettingsTypes /\ ShownIsItsOwn
    BY DEF Settings!AnswerCreate, SettingsInv
<1>2. s.id \in Ids /\ s.text \in Texts
    BY <1>1 DEF Settings!AnswerCreate, SettingsTypes, SaveRequests
<1>3. CASE Settings!Alive(s) /\ kind = "webhook"
    <2>1. /\ at' = s.id /\ visit' = visit /\ held' = s.id /\ shown' = Settings!Filled(s.id, s.text)
          /\ at # ListPage
        BY <1>3 DEF Settings!AnswerCreate, Settings!Alive
    <2>2. SettingsTypes'
        BY <1>1, <1>2, <2>1, SettingsConstants, FilledIs DEF SettingsTypes
    <2>3. ShownIsItsOwn'
        BY <1>1, <1>2, <1>3, <2>1, FilledIs DEF ShownIsItsOwn, Settings!ByHeld
    <2> QED BY <2>2, <2>3 DEF SettingsInv
<1>4. CASE Settings!Alive(s) /\ kind # "webhook"
    <2>1. /\ at' = s.id /\ UNCHANGED <<visit, held>> /\ at # ListPage
          /\ (at = s.id /\ shown' = shown) \/ shown' = Settings!Unloads(s.id)
        BY <1>4 DEF Settings!AnswerCreate, Settings!Alive
    <2>2. SettingsTypes'
        BY <1>1, <1>2, <2>1, SettingsConstants, UnloadsIs, ZenonT(40) DEF SettingsTypes
    <2>3. ShownIsItsOwn'
        BY <1>1, <1>2, <1>4, <2>1, UnloadsIs DEF ShownIsItsOwn
    <2> QED BY <2>2, <2>3 DEF SettingsInv
<1>5. CASE UNCHANGED <<at, visit, held, shown, fetching>>
    BY <1>1, <1>5 DEF SettingsInv, SettingsTypes, ShownIsItsOwn
<1>6. CASE Settings!Opens(s.id)
    <2>1. SettingsTypes'
        BY <1>1, <1>2, <1>6, SettingsConstants, OpensIs DEF SettingsTypes
    <2> QED BY <1>1, <1>2, <1>6, <2>1, OpensIs DEF SettingsInv
<1>7. CASE at # ListPage /\ Settings!Turns(s.id)
    <2>1. SettingsTypes'
        BY <1>1, <1>2, <1>7, SettingsConstants, TurnsIs DEF SettingsTypes
    <2> QED BY <1>1, <1>2, <1>7, <2>1, TurnsIs DEF SettingsInv
<1> QED BY <1>3, <1>4, <1>5, <1>6, <1>7 DEF Settings!AnswerCreate

LEMMA AnswersKeep ==
    ASSUME SettingsInv, NEW s \in saves,
           Settings!AnswerUpdate(s) \/ Settings!AnswerDelete(s) \/ Settings!Fails(s)
    PROVE  SettingsInv'
<1>1. /\ UNCHANGED <<kind, stored, texts>> /\ saves' = saves \ {s}
      /\ SettingsTypes /\ ShownIsItsOwn
    BY DEF Settings!AnswerUpdate, Settings!AnswerDelete, Settings!Fails, SettingsInv
<1>2. CASE UNCHANGED <<at, visit, held, shown, fetching>>
    BY <1>1, <1>2 DEF SettingsInv, SettingsTypes, ShownIsItsOwn
<1>3. CASE Settings!Opens(ListPage)
    <2>1. SettingsTypes'
        BY <1>1, <1>3, SettingsConstants, OpensIs DEF SettingsTypes
    <2> QED BY <1>1, <1>3, <2>1, OpensIs DEF SettingsInv
<1>4. CASE Settings!AnswerUpdate(s) /\ kind \in Settings!ByHeld /\ Settings!Alive(s)
    <2> DEFINE saved == [Settings!Filled(s.id, s.text) EXCEPT !.ready = shown.ready]
    <2>1. /\ held' = s.id /\ shown' = saved /\ UNCHANGED <<at, visit, fetching>> /\ s.done
        BY <1>4 DEF Settings!AnswerUpdate
    <2>2. s.id \in Ids /\ s.text \in Texts /\ shown.ready \in BOOLEAN
        BY <1>1, <2>1 DEF SettingsTypes, SaveRequests
    <2>3. saved \in [ready: BOOLEAN, of: Ids \union {NewId}, text: Texts] /\ saved.of = s.id
        BY <2>2, FilledIs
    <2> HIDE DEF saved
    <2>4. SettingsTypes'
        BY <1>1, <2>1, <2>2, <2>3 DEF SettingsTypes
    <2>5. ShownIsItsOwn'
        BY <1>1, <1>4, <2>1, <2>3 DEF ShownIsItsOwn
    <2> QED BY <2>4, <2>5 DEF SettingsInv
<1> QED BY <1>2, <1>3, <1>4 DEF Settings!AnswerUpdate, Settings!AnswerDelete, Settings!Fails

LEMMA EditsKeep ==
    ASSUME SettingsInv, Settings!Edit \/ \E id \in Ids : Settings!OthersStore(id)
    PROVE  SettingsInv'
<1>1. UNCHANGED <<kind, at, visit, fetching, held, saves>> /\ SettingsTypes /\ ShownIsItsOwn
    BY DEF Settings!Edit, Settings!OthersStore, SettingsInv
<1>2. texts + 1 \in Texts \/ ~(texts < MaxTexts)
    BY <1>1, SettingsConstants DEF SettingsTypes, Texts
<1>3. CASE Settings!Edit
    <2>1. /\ shown' = [shown EXCEPT !.text = texts + 1] /\ texts' = texts + 1 /\ stored' = stored
          /\ texts + 1 \in Texts
        BY <1>2, <1>3 DEF Settings!Edit
    <2>2. /\ shown' \in [ready: BOOLEAN, of: Ids \union {NewId}, text: Texts]
          /\ shown'.of = shown.of /\ shown'.ready = shown.ready
        BY <1>1, <2>1 DEF SettingsTypes
    <2>3. SettingsTypes'
        BY <1>1, <2>1, <2>2 DEF SettingsTypes
    <2>4. ShownIsItsOwn'
        BY <1>1, <2>2 DEF ShownIsItsOwn
    <2> QED BY <2>3, <2>4 DEF SettingsInv
<1>4. ASSUME NEW id \in Ids, Settings!OthersStore(id) PROVE SettingsInv'
    <2>1. texts' \in Texts /\ stored' \in [Ids -> Texts \union {Gone}] /\ shown' = shown
        BY <1>1, <1>2, <1>4 DEF Settings!OthersStore, SettingsTypes
    <2>2. SettingsTypes'
        BY <1>1, <2>1 DEF SettingsTypes
    <2>3. ShownIsItsOwn'
        BY <1>1, <2>1 DEF ShownIsItsOwn
    <2> QED BY <2>2, <2>3 DEF SettingsInv
<1> QED BY <1>3, <1>4

LEMMA SettingsKeep ==
    ASSUME SettingsInv, Settings!Next
    PROVE  SettingsInv' /\ \A s \in saves' \ saves : s.op = "update" /\ ~s.done => s.id = s.of
<1>1. CASE Settings!Save \/ Settings!Remove
    BY <1>1, SaveKeeps
<1>2. ASSUME NEW s \in saves, Settings!Serve(s)
      PROVE  SettingsInv' /\ \A r \in saves' \ saves : r.op = "update" /\ ~r.done => r.id = r.of
    BY <1>2, SaveIsServed
<1>3. ASSUME \/ Settings!Loads \/ Settings!LoadFails \/ Settings!Edit
             \/ \E s \in saves :
                  Settings!AnswerCreate(s) \/ Settings!AnswerUpdate(s) \/ Settings!AnswerDelete(s) \/ Settings!Fails(s)
             \/ \E to \in Ids \union {NewId, ListPage} : Settings!GoTo(to)
             \/ \E id \in Ids : Settings!OthersStore(id)
      PROVE  SettingsInv' /\ saves' \subseteq saves
    <2>1. SettingsInv'
        BY <1>3, LoadsKeep, AnswerCreateKeeps, AnswersKeep, EditsKeep, GoToKeeps
    <2>2. saves' \subseteq saves
        BY <1>3 DEF Settings!Loads, Settings!LoadFails, Settings!Edit, Settings!AnswerCreate,
                    Settings!AnswerUpdate, Settings!AnswerDelete, Settings!Fails, Settings!GoTo, Settings!OthersStore
    <2> QED BY <2>1, <2>2
<1> QED BY <1>1, <1>2, <1>3 DEF Settings!Next, Settings!Progress

LEMMA SettingsStart == Init => SettingsInv
<1> SUFFICES ASSUME Init PROVE SettingsInv
    OBVIOUS
<1>1. PICK k \in Settings!Kinds : \E free : Settings!Starts(k, free)
    BY DEF Init, Settings!Init, Settings!Kinds
<1> QED BY <1>1, SettingsStartsAny

LEMMA SettingsInvariance == Spec => []SettingsInv
<1>1. SettingsInv /\ [Next]_vars => SettingsInv'
    <2>1. [Next]_vars => Settings!Next \/ UNCHANGED settingsVars
        BY DEF Next, Only, vars
    <2> QED BY <2>1, SettingsKeep, SettingsStay
<1> QED BY <1>1, SettingsStart, PTL DEF Spec

\* An update of a webhook, workflow, form or menu goes to the one that was edited.
LEMMA UpdatesStayAtHome == Spec => Settings!UpdatesAreOfTheirOwn
<1> DEFINE AtHome == \A s \in saves' \ saves : s.op = "update" /\ ~s.done => s.id = s.of
<1>1. SettingsInv /\ [Next]_vars => AtHome
    <2>1. [Next]_vars => Settings!Next \/ UNCHANGED settingsVars
        BY DEF Next, Only, vars
    <2>2. UNCHANGED settingsVars => AtHome
        BY DEF settingsVars
    <2> QED BY <2>1, <2>2, SettingsKeep
<1> QED BY <1>1, SettingsInvariance, PTL DEF Spec, Settings!UpdatesAreOfTheirOwn

\* What is sent is what the page had checked or loaded (SentIsWhatWasShown): an import is
\* the one its dry run passed, and an update goes to the thing whose text was edited.
THEOREM WhatIsSentWasShown == Spec => SentIsWhatWasShown
BY ImportsAreChecked, UpdatesStayAtHome DEF SentIsWhatWasShown
-----------------------------------------------------------------------------
(* The roles page. *)

Granted     == [own: BOOLEAN, fields: SUBSET Attributes, locales: SUBSET RoleLocales]
Permissions == [Roles!Keys -> Granted \union {NotGranted}]

RolesInv ==
    /\ permissions \in Permissions
    /\ roles \in [RoleIds -> Permissions \union {NoRole}]
    /\ roleList \in [RoleIds -> Permissions \union {NoRole}]
    /\ selected \in RoleIds \union {NoRole}
    /\ roleCalls \subseteq [op: {"fetch", "save", "create", "remove"},
                            role: RoleIds \union {NoRole}, body: Permissions]
    /\ \A c \in roleCalls : c.op # "fetch" => c.role \in RoleIds

LEMMA Conversion ==
    ASSUME NEW ps \in Permissions, NEW a \in Roles!FieldActions, ps[<<a, AllTypes>>] # NotGranted
    PROVE  Roles!Converted(ps, a) \in Permissions
<1>1. ps[<<a, AllTypes>>] \in Granted
    BY DEF Permissions, Roles!Keys, Roles!FieldActions, Roles!ContentActions, Roles!Subjects
<1>2. [ps[<<a, AllTypes>>] EXCEPT !.fields = Attributes] \in Granted
    BY <1>1 DEF Granted
<1> HIDE DEF Granted
<1> QED BY <1>2 DEF Roles!Converted, Permissions

\* A conversion grants a type what the wildcard did, in the same locales, to the same users.
LEMMA ConversionGrants ==
    ASSUME NEW ps \in Permissions, NEW a \in Roles!FieldActions, NEW uid \in Uids,
           ps[<<a, AllTypes>>] # NotGranted,
           NEW p \in Roles!Granting(Roles!Converted(ps, a), a, uid)
    PROVE  \E g \in Roles!Granting(ps, a, uid) :
              /\ p.locales = g.locales /\ p.own = g.own
              /\ ps[<<a, AllTypes>>].fields = Attributes => p.fields = g.fields
<1> DEFINE wild == ps[<<a, AllTypes>>]
<1>1. /\ <<a, AllTypes>> \in Roles!Keys /\ <<a, uid>> \in Roles!Keys /\ <<a, uid>> # <<a, AllTypes>>
    BY PanelAssumption
    DEF PanelAssumption, Roles!RolesAssumption, Roles!Keys, Roles!FieldActions,
        Roles!ContentActions, Roles!Subjects
<1>2. wild \in Granted /\ wild \in Roles!Granting(ps, a, uid)
    BY <1>1 DEF Permissions, Roles!Granting
<1>3. Roles!Converted(ps, a)[<<a, AllTypes>>] = NotGranted
    BY <1>1 DEF Roles!Converted
<1>4. p = Roles!Converted(ps, a)[<<a, uid>>] /\ p # NotGranted
    BY <1>3 DEF Roles!Granting
<1>5. CASE ps[<<a, uid>>] = NotGranted
    <2>1. p = [wild EXCEPT !.fields = Attributes]
        BY <1>1, <1>4, <1>5 DEF Roles!Converted
    <2>2. p.locales = wild.locales /\ p.own = wild.own /\ p.fields = Attributes
        BY <1>2, <2>1 DEF Granted
    <2> QED BY <1>2, <2>2
<1>6. CASE ps[<<a, uid>>] # NotGranted
    <2>1. p = ps[<<a, uid>>]
        BY <1>1, <1>4, <1>6 DEF Roles!Converted
    <2>2. p \in Roles!Granting(ps, a, uid)
        BY <1>6, <2>1 DEF Roles!Granting
    <2> QED BY <2>2
<1> QED BY <1>5, <1>6

LEMMA ConversionKeepsAccess ==
    ASSUME NEW ps \in Permissions, NEW a \in Roles!FieldActions, NEW uid \in Uids,
           ps[<<a, AllTypes>>] # NotGranted
    PROVE  /\ Roles!Access(Roles!Converted(ps, a), a, uid) \subseteq Roles!Access(ps, a, uid)
           /\ ps[<<a, AllTypes>>].fields = Attributes =>
                Roles!FieldsOf(Roles!Converted(ps, a), a, uid) \subseteq Roles!FieldsOf(ps, a, uid)
<1>1. \A p \in Roles!Granting(Roles!Converted(ps, a), a, uid) :
         \E g \in Roles!Granting(ps, a, uid) :
              /\ p.locales = g.locales /\ p.own = g.own
              /\ ps[<<a, AllTypes>>].fields = Attributes => p.fields = g.fields
    BY ConversionGrants
<1>2. ASSUME NEW x \in Roles!Access(Roles!Converted(ps, a), a, uid)
      PROVE  x \in Roles!Access(ps, a, uid)
    <2>1. PICK p \in Roles!Granting(Roles!Converted(ps, a), a, uid) :
             x[1] \in p.locales /\ (p.own => x[2])
        BY <1>2 DEF Roles!Access
    <2>2. PICK g \in Roles!Granting(ps, a, uid) : p.locales = g.locales /\ p.own = g.own
        BY <1>1, <2>1
    <2>3. x[1] \in g.locales /\ (g.own => x[2])
        BY <2>1, <2>2
    <2> QED BY <1>2, <2>3 DEF Roles!Access
<1>3. ASSUME ps[<<a, AllTypes>>].fields = Attributes,
             NEW x \in Roles!FieldsOf(Roles!Converted(ps, a), a, uid)
      PROVE  x \in Roles!FieldsOf(ps, a, uid)
    <2>1. PICK p \in Roles!Granting(Roles!Converted(ps, a), a, uid) : x \in p.fields
        BY <1>3 DEF Roles!FieldsOf
    <2>2. PICK g \in Roles!Granting(ps, a, uid) : p.fields = g.fields
        BY <1>1, <1>3, <2>1
    <2> QED BY <2>1, <2>2 DEF Roles!FieldsOf
<1> QED BY <1>2, <1>3

LEMMA RolesStartAny ==
    ASSUME NEW first \in {Roles!Editor, Roles!Author, Roles!Custom}, NEW free,
           Roles!Starts(first, free)
    PROVE  RolesInv
<1>1. Roles!Nothing \in Permissions
    BY DEF Roles!Nothing, Permissions
<1>2. Roles!Everything \in Granted
    BY DEF Roles!Everything, Roles!Permission, Granted
<1>3. [Roles!Everything EXCEPT !.own = TRUE] \in Granted
    BY <1>2 DEF Granted
<1>4. [Roles!Everything EXCEPT !.fields = {CHOOSE f \in Attributes : TRUE}] \in Granted
    <2>1. (CHOOSE f \in Attributes : TRUE) \in Attributes
        BY PanelAssumption DEF PanelAssumption, Roles!RolesAssumption
    <2> QED BY <1>2, <2>1 DEF Granted
<1> HIDE DEF Granted
<1>5. Roles!Editor \in Permissions
    BY <1>2 DEF Roles!Editor, Permissions
<1>6. Roles!Author \in Permissions
    BY <1>3 DEF Roles!Author, Permissions
<1>7. Roles!Custom \in Permissions
    BY <1>3, <1>4 DEF Roles!Custom, Permissions
<1>8. first \in Permissions
    BY <1>5, <1>6, <1>7
<1>9. roles \in [RoleIds -> Permissions \union {NoRole}] /\ roleList \in [RoleIds -> Permissions \union {NoRole}]
    BY <1>8 DEF Roles!Starts
<1>10. roleCalls = {Roles!Fetch(NoRole)} /\ permissions \in Permissions /\ selected = NoRole
    BY <1>1 DEF Roles!Starts
<1>11. /\ Roles!Fetch(NoRole) \in [op: {"fetch", "save", "create", "remove"},
                                   role: RoleIds \union {NoRole}, body: Permissions]
       /\ Roles!Fetch(NoRole).op = "fetch"
    BY <1>1 DEF Roles!Fetch
<1> QED BY <1>9, <1>10, <1>11 DEF RolesInv

LEMMA RolesStay == RolesInv /\ UNCHANGED rolesVars => RolesInv'
BY DEF rolesVars, RolesInv

LEMMA ListArrivesKeeps ==
    ASSUME RolesInv, NEW c \in roleCalls, Roles!ListArrives(c)
    PROVE  RolesInv'
<1>1. roleCalls' = roleCalls \ {c} /\ UNCHANGED roles /\ Roles!Picks(roles, c.role)
    BY DEF Roles!ListArrives
<1>2. roleList' = roles
    BY <1>1 DEF Roles!Picks
<1>3. (selected' = selected /\ permissions' = permissions)
         \/ \E r \in RoleIds : roles[r] # NoRole /\ selected' = r /\ permissions' = roles[r]
    <2> DEFINE there == {r \in RoleIds : roles[r] # NoRole}
    <2>1. CASE there = {}
        BY <1>1, <2>1 DEF Roles!Picks
    <2>2. CASE there # {}
        <3>1. \E r \in there : selected' = r /\ permissions' = roles[r]
            BY <1>1, <2>2 DEF Roles!Picks
        <3> QED BY <3>1
    <2> QED BY <2>1, <2>2
<1>4. permissions' \in Permissions /\ selected' \in RoleIds \union {NoRole}
    BY <1>3 DEF RolesInv
<1> QED BY <1>1, <1>2, <1>4 DEF RolesInv

\* What is edited are the permissions of the selection.
LEMMA EditsAre ==
    ASSUME RolesInv, NEW ps \in Permissions, Roles!Edits(ps)
    PROVE  RolesInv'
BY DEF Roles!Edits, RolesInv

LEMMA CardinalityIs ==
    ASSUME NEW S
    PROVE  Roles!Cardinality(S) = Cardinality(S)
BY DEF Roles!Cardinality, Cardinality

LEMMA InheritedIs ==
    ASSUME RolesInv, NEW s \in Roles!Subjects
    PROVE  Roles!Inherited(s) \in SUBSET RoleLocales
<1>1. Roles!SubjectLocales(s) \subseteq Granted
    <2>1. \A a \in Roles!ContentActions : permissions[<<a, s>>] \in Granted \union {NotGranted}
        BY DEF RolesInv, Permissions, Roles!Keys
    <2> QED BY <2>1 DEF Roles!SubjectLocales
<1> DEFINE lists == {p.locales : p \in Roles!SubjectLocales(s)}
<1>2. lists \subseteq SUBSET RoleLocales
    BY <1>1 DEF Granted
<1>3. CASE Roles!Cardinality(lists) = 1
    <2>1. lists # {}
        BY <1>3, CardinalityIs, FS_EmptySet
    <2>2. Roles!Inherited(s) = CHOOSE ls \in lists : TRUE
        BY <1>3 DEF Roles!Inherited
    <2> QED BY <1>2, <2>1, <2>2
<1>4. CASE Roles!Cardinality(lists) # 1
    BY <1>4 DEF Roles!Inherited
<1> QED BY <1>3, <1>4

LEMMA SetLevelKeeps ==
    ASSUME RolesInv, NEW a \in Roles!ContentActions, NEW s \in Roles!Subjects,
           NEW level \in {"none", "own", "all"}, Roles!SetLevel(a, s, level)
    PROVE  RolesInv'
<1> DEFINE p  == permissions[<<a, s>>]
           fs == IF p = NotGranted THEN Attributes ELSE p.fields
           q  == IF level = "none" THEN NotGranted
                 ELSE Roles!Permission(level = "own", fs, Roles!Inherited(s))
<1>1. Roles!Edits([permissions EXCEPT ![<<a, s>>] = q])
    BY DEF Roles!SetLevel
<1>2. p \in Granted \union {NotGranted} /\ permissions \in Permissions
    BY DEF RolesInv, Permissions, Roles!Keys
<1>3. fs \in SUBSET Attributes /\ Roles!Inherited(s) \in SUBSET RoleLocales
    BY <1>2, InheritedIs DEF Granted
<1>4. q \in Granted \union {NotGranted}
    BY <1>3 DEF Granted, Roles!Permission
<1> HIDE DEF q, Granted
<1>5. [permissions EXCEPT ![<<a, s>>] = q] \in Permissions
    BY <1>2, <1>4 DEF Permissions
<1> QED BY <1>1, <1>5, EditsAre

LEMMA RoleDialogsKeep ==
    ASSUME RolesInv,
           \/ Roles!CloseDialog
           \/ \E uid \in Uids : Roles!OpenFields(uid)
           \/ \E s \in Roles!Subjects : Roles!OpenLocales(s)
           \/ \E ticked \in [Roles!FieldActions -> SUBSET Attributes] : Roles!ApplyFields(ticked)
           \/ \E ls \in SUBSET RoleLocales : Roles!ApplyLocales(ls)
           \/ \E a \in Roles!FieldActions : Roles!ConvertWildcard(a)
    PROVE  RolesInv'
<1>1. permissions \in Permissions
    BY DEF RolesInv
<1>2. CASE Roles!CloseDialog
    BY <1>2 DEF Roles!CloseDialog, RolesInv
<1>3. ASSUME NEW uid \in Uids, Roles!OpenFields(uid) PROVE RolesInv'
    BY <1>1, <1>3, EditsAre DEF Roles!OpenFields
<1>4. ASSUME NEW s \in Roles!Subjects, Roles!OpenLocales(s) PROVE RolesInv'
    BY <1>1, <1>4, EditsAre DEF Roles!OpenLocales
<1>5. ASSUME NEW ticked \in [Roles!FieldActions -> SUBSET Attributes], Roles!ApplyFields(ticked)
      PROVE  RolesInv'
    <2> DEFINE ps == [k \in Roles!Keys |->
                        IF k[1] \in Roles!FieldActions /\ k[2] = dialog.uid /\ permissions[k] # NotGranted
                        THEN [permissions[k] EXCEPT !.fields = ticked[k[1]]] ELSE permissions[k]]
    <2>1. Roles!Edits(ps)
        BY <1>5 DEF Roles!ApplyFields
    <2>2. \A k \in Roles!Keys : k[1] \in Roles!FieldActions /\ permissions[k] # NotGranted =>
             [permissions[k] EXCEPT !.fields = ticked[k[1]]] \in Granted
        BY <1>1 DEF Permissions, Granted
    <2>3. ps \in Permissions
        <3> HIDE DEF Granted
        <3> QED BY <1>1, <2>2 DEF Permissions
    <2> QED BY <2>1, <2>3, EditsAre
<1>6. ASSUME NEW ls \in SUBSET RoleLocales, Roles!ApplyLocales(ls) PROVE RolesInv'
    <2> DEFINE ps == [k \in Roles!Keys |->
                        IF k[2] = dialog.uid /\ permissions[k] # NotGranted
                        THEN [permissions[k] EXCEPT !.locales = ls] ELSE permissions[k]]
    <2>1. Roles!Edits(ps)
        BY <1>6 DEF Roles!ApplyLocales
    <2>2. \A k \in Roles!Keys : permissions[k] # NotGranted =>
             [permissions[k] EXCEPT !.locales = ls] \in Granted
        BY <1>1 DEF Permissions, Granted
    <2>3. ps \in Permissions
        <3> HIDE DEF Granted
        <3> QED BY <1>1, <2>2 DEF Permissions
    <2> QED BY <2>1, <2>3, EditsAre
<1>7. ASSUME NEW a \in Roles!FieldActions, Roles!ConvertWildcard(a) PROVE RolesInv'
    BY <1>1, <1>7, Conversion, EditsAre DEF Roles!ConvertWildcard
<1> QED BY <1>2, <1>3, <1>4, <1>5, <1>6, <1>7

LEMMA RoleRequestsKeep ==
    ASSUME RolesInv,
           \/ Roles!Save \/ Roles!Remove
           \/ \E r \in RoleIds : Roles!Select(r) \/ Roles!Create(r)
    PROVE  RolesInv'
<1> DEFINE Requests == [op: {"fetch", "save", "create", "remove"},
                        role: RoleIds \union {NoRole}, body: Permissions]
<1>1. ASSUME NEW r \in RoleIds, Roles!Select(r) PROVE RolesInv'
    <2>1. permissions' \in Permissions /\ UNCHANGED <<roles, roleList, roleCalls>> /\ selected' = r
        BY <1>1 DEF Roles!Select, RolesInv
    <2> QED BY <2>1 DEF RolesInv
<1>2. ASSUME NEW call \in Requests, call.role \in RoleIds, Roles!Asks(call), UNCHANGED selected
      PROVE  RolesInv'
    BY <1>2 DEF Roles!Asks, RolesInv
<1>3. Roles!Nothing \in Permissions /\ permissions \in Permissions
    BY DEF Roles!Nothing, Permissions, RolesInv
<1>4. CASE Roles!Save \/ Roles!Remove
    <2>1. selected \in RoleIds /\ UNCHANGED selected
        BY <1>4 DEF Roles!Save, Roles!Remove, RolesInv
    <2>2. PICK call \in {[op |-> "save", role |-> selected, body |-> permissions],
                         [op |-> "remove", role |-> selected, body |-> Roles!Nothing]} : Roles!Asks(call)
        BY <1>4 DEF Roles!Save, Roles!Remove
    <2>3. call \in Requests /\ call.role \in RoleIds
        BY <1>3, <2>1, <2>2
    <2> QED BY <1>2, <2>1, <2>2, <2>3
<1>5. ASSUME NEW r \in RoleIds, Roles!Create(r) PROVE RolesInv'
    <2> DEFINE call == [op |-> "create", role |-> r, body |-> Roles!Nothing]
    <2>1. call \in Requests /\ call.role \in RoleIds
        BY <1>3
    <2>2. Roles!Asks(call) /\ UNCHANGED selected
        BY <1>5 DEF Roles!Create
    <2> QED BY <1>2, <2>1, <2>2
<1> QED BY <1>1, <1>4, <1>5

LEMMA RoleAnswersKeep ==
    ASSUME RolesInv, NEW c \in roleCalls, Roles!Done(c) \/ Roles!Fails(c)
    PROVE  RolesInv'
<1>1. CASE Roles!Fails(c)
    BY <1>1 DEF Roles!Fails, RolesInv
<1>2. CASE Roles!Done(c)
    <2> DEFINE next == Roles!Fetch(IF c.op = "remove" THEN NoRole ELSE c.role)
    <2>1. /\ UNCHANGED <<roleList, permissions>> /\ selected' \in {selected,
                         NoRole} /\ c.op # "fetch"
          /\ roles' = [roles EXCEPT ![c.role] = IF c.op = "remove" THEN NoRole ELSE c.body]
          /\ roleCalls' = (roleCalls \ {c}) \union {next}
        BY <1>2 DEF Roles!Done
    <2>2. c.role \in RoleIds /\ c.body \in Permissions /\ Roles!Nothing \in Permissions
        BY <2>1 DEF RolesInv, Roles!Nothing, Permissions
    <2>3. /\ next \in [op: {"fetch", "save", "create", "remove"},
                       role: RoleIds \union {NoRole}, body: Permissions]
          /\ next.op = "fetch"
        BY <2>2 DEF Roles!Fetch
    <2> HIDE DEF next
    <2>4. roles' \in [RoleIds -> Permissions \union {NoRole}]
        BY <2>1, <2>2 DEF RolesInv
    <2> QED BY <2>1, <2>3, <2>4 DEF RolesInv
<1> QED BY <1>1, <1>2

LEMMA RolesKeep ==
    ASSUME RolesInv, Roles!Next
    PROVE  RolesInv'
BY ListArrivesKeeps, SetLevelKeeps, RoleDialogsKeep, RoleRequestsKeep, RoleAnswersKeep
DEF Roles!Next, Roles!Progress

LEMMA RolesInvariance == Spec => []RolesInv
<1>1. Init => RolesInv
    <2> SUFFICES ASSUME Init PROVE RolesInv
        OBVIOUS
    <2>1. PICK first \in {Roles!Editor, Roles!Author, Roles!Custom} : \E free : Roles!Starts(first, free)
        BY DEF Init, Roles!Init
    <2> QED BY <2>1, RolesStartAny
<1>2. RolesInv /\ [Next]_vars => RolesInv'
    <2>1. [Next]_vars => Roles!Next \/ UNCHANGED rolesVars
        BY DEF Next, Only, vars
    <2> QED BY <2>1, RolesKeep, RolesStay
<1> QED BY <1>1, <1>2, PTL DEF Spec

\* Converting a wildcard into permissions of each type gives a role no access to a type
\* that it did not have (ConversionsNeverWiden).
THEOREM ConversionsStayWithin == Spec => ConversionsNeverWiden
<1> DEFINE Within == \A a \in Roles!FieldActions : Roles!ConvertWildcard(a) =>
        \A uid \in Uids :
            /\ Roles!Access(permissions', a, uid) \subseteq Roles!Access(permissions, a, uid)
            /\ permissions[<<a, AllTypes>>].fields = Attributes =>
                 Roles!FieldsOf(permissions', a, uid) \subseteq Roles!FieldsOf(permissions, a, uid)
<1>1. RolesInv => Within
    <2> SUFFICES ASSUME RolesInv, NEW a \in Roles!FieldActions, Roles!ConvertWildcard(a), NEW uid \in Uids
                 PROVE  /\ Roles!Access(permissions', a, uid) \subseteq Roles!Access(permissions, a, uid)
                        /\ permissions[<<a, AllTypes>>].fields = Attributes =>
                             Roles!FieldsOf(permissions', a, uid) \subseteq Roles!FieldsOf(permissions, a, uid)
        OBVIOUS
    <2>1. permissions \in Permissions /\ permissions[<<a, AllTypes>>] # NotGranted
          /\ permissions' = Roles!Converted(permissions, a)
        BY DEF RolesInv, Roles!ConvertWildcard, Roles!Edits
    <2> QED BY <2>1, ConversionKeepsAccess
<1> QED BY <1>1, RolesInvariance, PTL DEF ConversionsNeverWiden, Roles!ConversionsNeverWiden
-----------------------------------------------------------------------------
(* The content-type builder. *)

Contents == 0 .. MaxContents
Schemas  == [SchemaTypes -> Contents \union {Absent}]

Drafts == [shown: {TRUE}, of: Schema!Routes, type: Schema!Routes, content: Contents,
           baseline: Contents, saved: Contents \union {Absent}, slipped: BOOLEAN]

Changes == [shown: {TRUE}, type: Schema!Routes, remove: BOOLEAN, content: Contents \union {Absent}]

BuilderTypes ==
    /\ schema \in Schemas /\ builderUrl \in Schema!Routes \union {NoName}
    /\ removal \in BOOLEAN /\ working \in BOOLEAN /\ contents \in Contents
    /\ sources = Schema!NoSources \/ sources \in Schemas
    /\ draft = Schema!NoDraft \/ draft \in Drafts
    /\ \A r \in asked : r.kind # "sources" => r.change \in Changes

\* What is shown is the type of the route, from sources that are there; so are the ones a
\* question is about.
DraftIsOfTheRoute ==
    /\ draft.shown => draft.of = builderUrl /\ sources \in Schemas
    /\ discard # Schema!NoDiscard =>
         /\ sources \in Schemas /\ discard.to \in Schema!Routes \union {NoName}
         /\ discard.to # NoName => discard.files \in Schemas

\* Edits show: but for those that slipped, the draft's baseline is what was last saved.
BaselineIsSaved == draft.shown /\ ~draft.slipped => draft.baseline = draft.saved

BuilderInv == BuilderTypes /\ DraftIsOfTheRoute /\ BaselineIsSaved

\* A draft with edits of its own is only replaced after a question.
AskedAbout ==
    /\ draft.shown /\ draft.content # draft.saved /\ ~draft.slipped
    /\ ~draft'.shown \/ (draft'.content # draft.content /\ contents' = contents)
    => discard # Schema!NoDiscard /\ discard' = Schema!NoDiscard

LEMMA BuilderConstants ==
    /\ NewType \notin SchemaTypes /\ NoName \notin Schema!Routes /\ NewType \in Schema!Routes
    /\ SchemaTypes \subseteq Schema!Routes /\ MaxContents \in Nat \ {0} /\ 0 \in Contents
BY PanelAssumption DEF PanelAssumption, Schema!BuilderAssumption, Contents, Schema!Routes

LEMMA ShownDraft ==
    ASSUME BuilderTypes, draft.shown
    PROVE  draft \in Drafts
BY DEF BuilderTypes, Schema!NoDraft

LEMMA HiddenDraft == ~Schema!NoDraft.shown
BY DEF Schema!NoDraft

LEMMA OpenedIs ==
    ASSUME NEW name \in Schema!Routes, NEW c \in Contents
    PROVE  /\ Schema!Opened(name, c) \in Drafts
           /\ Schema!Opened(name, c).of = name
           /\ Schema!Opened(name, c).baseline = Schema!Opened(name, c).saved
BY DEF Schema!Opened, Drafts

LEMMA ContainedIs ==
    ASSUME NEW name \in Schema!Routes, NEW sch \in Schemas
    PROVE  \/ Schema!Contained(name, sch) = Schema!NoDraft
           \/ /\ Schema!Contained(name, sch) \in Drafts
              /\ Schema!Contained(name, sch).of = name
              /\ Schema!Contained(name, sch).baseline = Schema!Contained(name, sch).saved
<1>1. CASE name = NewType
    BY <1>1, BuilderConstants, OpenedIs DEF Schema!Contained
<1>2. CASE name # NewType /\ sch[name] # Absent
    <2>1. sch[name] \in Contents /\ Schema!Contained(name, sch) = Schema!Opened(name, sch[name])
        BY <1>2 DEF Schemas, Schema!Routes, Schema!Contained
    <2> QED BY <2>1, OpenedIs
<1>3. CASE name # NewType /\ sch[name] = Absent
    BY <1>3 DEF Schema!Contained
<1> QED BY <1>1, <1>2, <1>3

\* What becomes of the draft: it stays, or it is the one of the route, of fresh sources,
\* which needs a question if there are edits.
LEMMA DraftStays ==
    ASSUME BuilderInv, UNCHANGED <<builderUrl, draft>>,
           sources' = sources \/ sources' \in Schemas
    PROVE  /\ draft' = Schema!NoDraft \/ draft' \in Drafts
           /\ draft'.shown => draft'.of = builderUrl' /\ sources' \in Schemas
           /\ BaselineIsSaved' /\ AskedAbout
BY DEF BuilderInv, BuilderTypes, DraftIsOfTheRoute, BaselineIsSaved, AskedAbout

LEMMA DraftIsReplaced ==
    ASSUME BuilderInv, NEW name \in Schema!Routes, NEW sch \in Schemas,
           draft' = Schema!Contained(name, sch), builderUrl' = name, sources' \in Schemas,
           ~Schema!HasUnsavedChanges(draft) \/ (discard # Schema!NoDiscard /\ discard' = Schema!NoDiscard)
    PROVE  /\ draft' = Schema!NoDraft \/ draft' \in Drafts
           /\ draft'.shown => draft'.of = builderUrl' /\ sources' \in Schemas
           /\ BaselineIsSaved' /\ AskedAbout
<1>1. draft' = Schema!NoDraft \/ (draft' \in Drafts /\ draft'.of = name /\ draft'.baseline = draft'.saved)
    BY ContainedIs
<1>2. draft'.shown => draft'.of = builderUrl' /\ draft'.baseline = draft'.saved
    BY <1>1, HiddenDraft
<1>3. AskedAbout
    BY DEF AskedAbout, Schema!HasUnsavedChanges, BuilderInv, BaselineIsSaved
<1> QED BY <1>1, <1>2, <1>3 DEF BaselineIsSaved

LEMMA SourcesArriveKeeps ==
    ASSUME BuilderInv, NEW r \in asked, Schema!SourcesArrive(r)
    PROVE  BuilderInv' /\ AskedAbout
<1>1. /\ sources' = schema /\ asked' = asked \ {r} /\ schema \in Schemas
      /\ builderUrl' = IF builderUrl = NoName THEN Schema!First(schema) ELSE builderUrl
      /\ Schema!Reopen(builderUrl', schema)
      /\ UNCHANGED <<schema, removal, plan, working, contents>>
    BY DEF Schema!SourcesArrive, BuilderInv, BuilderTypes
<1>2. Schema!First(schema) \in Schema!Routes
    <2> DEFINE there == {t \in SchemaTypes : schema[t] # Absent}
    <2>1. CASE there = {}
        BY <2>1, BuilderConstants DEF Schema!First
    <2>2. CASE there # {}
        <3>1. (CHOOSE t \in there : TRUE) \in there
            BY <2>2
        <3> QED BY <2>2, <3>1, BuilderConstants DEF Schema!First
    <2> QED BY <2>1, <2>2
<1>3. builderUrl' \in Schema!Routes
    BY <1>1, <1>2 DEF BuilderInv, BuilderTypes
<1>4. draft.shown => builderUrl' = builderUrl /\ draft.of = builderUrl
    BY <1>1, ShownDraft, BuilderConstants DEF BuilderInv, DraftIsOfTheRoute, Drafts
<1>5. /\ draft' = Schema!NoDraft \/ draft' \in Drafts
      /\ draft'.shown => draft'.of = builderUrl' /\ sources' \in Schemas
      /\ BaselineIsSaved' /\ AskedAbout
    <2>1. CASE builderUrl' = draft.of /\ Schema!HasUnsavedChanges(draft)
        <3>1. draft' = draft /\ builderUrl' = builderUrl
            BY <1>1, <1>4, <2>1 DEF Schema!Reopen, Schema!HasUnsavedChanges
        <3> QED BY <1>1, <3>1, DraftStays
    <2>2. CASE ~(builderUrl' = draft.of /\ Schema!HasUnsavedChanges(draft))
        <3>1. draft' = Schema!Contained(builderUrl', schema)
            BY <1>1, <2>2 DEF Schema!Reopen
        <3>2. ~Schema!HasUnsavedChanges(draft)
            BY <1>4, <2>2 DEF Schema!HasUnsavedChanges
        <3> QED BY <1>1, <1>3, <3>1, <3>2, DraftIsReplaced
    <2> QED BY <2>1, <2>2
<1>6. discard' = discard \/ discard' = [why |-> "sources", to |-> builderUrl', files |-> schema]
    BY <1>1 DEF Schema!Reopen
<1>7. discard' # Schema!NoDiscard =>
         /\ sources' \in Schemas /\ discard'.to \in Schema!Routes \union {NoName}
         /\ discard'.to # NoName => discard'.files \in Schemas
    BY <1>1, <1>3, <1>6 DEF BuilderInv, DraftIsOfTheRoute
<1>8. BuilderTypes'
    BY <1>1, <1>3, <1>5 DEF BuilderInv, BuilderTypes
<1> QED BY <1>5, <1>7, <1>8 DEF BuilderInv, DraftIsOfTheRoute

LEMMA NavigateKeeps ==
    ASSUME BuilderInv, NEW name \in Schema!Routes, Schema!Navigate(name)
    PROVE  BuilderInv' /\ AskedAbout
<1>1. /\ sources \in Schemas
      /\ UNCHANGED <<schema, sources, removal, plan, working, asked, contents>>
    BY DEF Schema!Navigate, BuilderInv, BuilderTypes
<1>2. CASE Schema!HasUnsavedChanges(draft)
    <2>1. /\ discard' = [why |-> "leave", to |-> name, files |-> sources]
          /\ UNCHANGED <<builderUrl, draft>>
        BY <1>2 DEF Schema!Navigate
    <2>2. discard'.to = name /\ discard'.files = sources
        BY <2>1
    <2>3. BuilderTypes'
        BY <1>1, <2>1 DEF BuilderInv, BuilderTypes
    <2> QED BY <1>1, <2>1, <2>2, <2>3, DraftStays DEF BuilderInv, DraftIsOfTheRoute
<1>3. CASE ~Schema!HasUnsavedChanges(draft)
    <2>1. builderUrl' = name /\ draft' = Schema!Contained(name, sources) /\ UNCHANGED discard
        BY <1>3 DEF Schema!Navigate
    <2>2. /\ draft' = Schema!NoDraft \/ draft' \in Drafts
          /\ draft'.shown => draft'.of = builderUrl' /\ sources' \in Schemas
          /\ BaselineIsSaved' /\ AskedAbout
        BY <1>1, <1>3, <2>1, DraftIsReplaced
    <2>3. BuilderTypes'
        BY <1>1, <2>1, <2>2 DEF BuilderInv, BuilderTypes
    <2> QED BY <1>1, <2>1, <2>2, <2>3 DEF BuilderInv, DraftIsOfTheRoute
<1> QED BY <1>2, <1>3

\* A new store has no draft yet.
LEMMA NewStoreIs ==
    ASSUME BuilderInv, Schema!NewStore, UNCHANGED <<schema, contents>>, working' \in BOOLEAN,
           discard' = Schema!NoDiscard,
           ~Schema!HasUnsavedChanges(draft) \/ discard # Schema!NoDiscard
    PROVE  BuilderInv' /\ AskedAbout
<1>1. /\ builderUrl' = NoName /\ sources' = Schema!NoSources /\ draft' = Schema!NoDraft
      /\ ~removal' /\ asked' = {Schema!SourcesRequest} /\ removal' \in BOOLEAN
    BY DEF Schema!NewStore
<1>2. Schema!SourcesRequest.kind = "sources"
    BY DEF Schema!SourcesRequest
<1>3. BuilderTypes'
    BY <1>1, <1>2 DEF BuilderInv, BuilderTypes
<1>4. DraftIsOfTheRoute' /\ BaselineIsSaved'
    BY <1>1, HiddenDraft DEF DraftIsOfTheRoute, BaselineIsSaved
<1>5. AskedAbout
    BY DEF AskedAbout, Schema!HasUnsavedChanges, BuilderInv, BaselineIsSaved
<1> QED BY <1>3, <1>4, <1>5 DEF BuilderInv

LEMMA DiscardedKeeps ==
    ASSUME BuilderInv, NEW yes \in BOOLEAN, Schema!Discarded(yes)
    PROVE  BuilderInv' /\ AskedAbout
<1>1. /\ discard # Schema!NoDiscard /\ discard' = Schema!NoDiscard
      /\ UNCHANGED <<schema, working, contents>> /\ working' \in BOOLEAN
    BY DEF Schema!Discarded, BuilderInv, BuilderTypes
<1>2. CASE Schema!NewStore
    BY <1>1, <1>2, NewStoreIs
<1>3. CASE UNCHANGED <<builderUrl, draft, sources, removal, plan, asked>>
    <2>1. BuilderTypes'
        BY <1>1, <1>3 DEF BuilderInv, BuilderTypes
    <2> QED BY <1>1, <1>3, <2>1, DraftStays DEF BuilderInv, DraftIsOfTheRoute
<1>4. CASE /\ discard.to # NoName /\ builderUrl' = discard.to
           /\ draft' = Schema!Contained(discard.to, discard.files)
           /\ UNCHANGED <<sources, removal, plan, asked>>
    <2>1. sources \in Schemas /\ discard.to \in Schema!Routes /\ discard.files \in Schemas
        BY <1>1, <1>4 DEF BuilderInv, DraftIsOfTheRoute
    <2>2. /\ draft' = Schema!NoDraft \/ draft' \in Drafts
          /\ draft'.shown => draft'.of = builderUrl' /\ sources' \in Schemas
          /\ BaselineIsSaved' /\ AskedAbout
        BY <1>1, <1>4, <2>1, DraftIsReplaced
    <2>3. BuilderTypes'
        BY <1>1, <1>4, <2>1, <2>2 DEF BuilderInv, BuilderTypes
    <2> QED BY <1>1, <2>2, <2>3 DEF BuilderInv, DraftIsOfTheRoute
<1> QED BY <1>1, <1>2, <1>3, <1>4 DEF Schema!Discarded

LEMMA EditDraftKeeps ==
    ASSUME BuilderInv, Schema!EditDraft
    PROVE  BuilderInv' /\ AskedAbout
<1>1. /\ draft \in Drafts /\ contents' = contents + 1 /\ contents' \in Contents /\ contents' # contents
      /\ UNCHANGED <<schema, builderUrl, sources, removal, plan, working, asked, discard>>
    BY ShownDraft, BuilderConstants DEF Schema!EditDraft, BuilderInv, BuilderTypes, Contents
<1>2. PICK t \in Schema!Routes : draft' = [draft EXCEPT !.type = t, !.content = contents']
    BY <1>1 DEF Schema!EditDraft, Drafts, Schema!Routes
<1>3. /\ draft' \in Drafts /\ draft'.of = draft.of /\ draft'.baseline = draft.baseline
      /\ draft'.saved = draft.saved /\ draft'.slipped = draft.slipped
      /\ draft.shown /\ draft'.shown
    BY <1>1, <1>2 DEF Drafts
<1>4. BuilderTypes'
    BY <1>1, <1>3 DEF BuilderInv, BuilderTypes
<1>5. DraftIsOfTheRoute' /\ BaselineIsSaved' /\ AskedAbout
    BY <1>1, <1>3 DEF BuilderInv, DraftIsOfTheRoute, BaselineIsSaved, AskedAbout
<1> QED BY <1>4, <1>5 DEF BuilderInv

\* What leaves the draft and its route alone.
LEMMA DraftIsLeft ==
    ASSUME BuilderInv, UNCHANGED <<builderUrl, sources, draft, discard>>,
           schema' \in Schemas, removal' \in BOOLEAN, working' \in BOOLEAN, contents' \in Contents,
           \A r \in asked' : r.kind # "sources" => r.change \in Changes
    PROVE  BuilderInv' /\ AskedAbout
<1>1. BuilderTypes'
    BY DEF BuilderInv, BuilderTypes
<1> QED BY <1>1, DraftStays DEF BuilderInv, DraftIsOfTheRoute

LEMMA AskForPlanKeeps ==
    ASSUME BuilderInv, draft.shown, NEW remove \in BOOLEAN, Schema!AskForPlan(remove)
    PROVE  BuilderInv' /\ AskedAbout
<1>1. Schema!Change(remove) \in Changes
    BY ShownDraft DEF Schema!Change, Changes, Drafts, BuilderInv
<1>2. \A r \in asked' : r.kind # "sources" => r.change \in Changes
    BY <1>1 DEF Schema!AskForPlan, BuilderInv, BuilderTypes
<1>3. /\ UNCHANGED <<schema, builderUrl, sources, draft, discard, contents>>
      /\ removal' \in BOOLEAN /\ working' \in BOOLEAN
    BY DEF Schema!AskForPlan
<1> QED BY <1>2, <1>3, DraftIsLeft DEF BuilderInv, BuilderTypes

LEMMA AsksKeep ==
    ASSUME BuilderInv, Schema!SavePressed \/ Schema!DeletePressed \/ Schema!Replan
    PROVE  BuilderInv' /\ AskedAbout
BY AskForPlanKeeps DEF Schema!SavePressed, Schema!DeletePressed, Schema!Replan, BuilderInv,
   BuilderTypes

LEMMA PlanArrivesKeeps ==
    ASSUME BuilderInv, NEW r \in asked, Schema!PlanArrives(r)
    PROVE  BuilderInv' /\ AskedAbout
BY DraftIsLeft DEF Schema!PlanArrives, BuilderInv, BuilderTypes

LEMMA ClosePlanKeeps ==
    ASSUME BuilderInv, Schema!ClosePlan
    PROVE  BuilderInv' /\ AskedAbout
BY DraftIsLeft DEF Schema!ClosePlan, BuilderInv, BuilderTypes

LEMMA ApplyKeeps ==
    ASSUME BuilderInv, Schema!Apply
    PROVE  BuilderInv' /\ AskedAbout
<1>1. Schema!Change(removal) \in Changes
    BY ShownDraft DEF Schema!Apply, Schema!Change, Changes, Drafts, BuilderInv, BuilderTypes
<1>2. \A r \in asked' : r.kind # "sources" => r.change \in Changes
    BY <1>1 DEF Schema!Apply, BuilderInv, BuilderTypes
<1> QED BY <1>2, DraftIsLeft DEF Schema!Apply, BuilderInv, BuilderTypes

LEMMA ServeApplyKeeps ==
    ASSUME BuilderInv, NEW r \in asked, Schema!ServeApply(r)
    PROVE  BuilderInv' /\ AskedAbout
<1>1. r.kind = "apply" /\ r.change \in Changes
    BY DEF Schema!ServeApply, BuilderInv, BuilderTypes
<1>2. schema' \in Schemas
    BY <1>1 DEF Schema!ServeApply, BuilderInv, BuilderTypes, Schemas, Changes
<1>3. [r EXCEPT !.kind = "applied"].change = r.change
    OBVIOUS
<1>4. \A q \in asked' : q.kind # "sources" => q.change \in Changes
    BY <1>1, <1>3 DEF Schema!ServeApply, BuilderInv, BuilderTypes
<1> QED BY <1>2, <1>4, DraftIsLeft DEF Schema!ServeApply, BuilderInv, BuilderTypes

LEMMA AppliedKeeps ==
    ASSUME BuilderInv, NEW r \in asked, Schema!Applied(r)
    PROVE  BuilderInv' /\ AskedAbout
<1> DEFINE follow == [kind |-> "reloaded", change |-> [r.change EXCEPT !.remove = removal]]
<1>1. r.kind = "applied" /\ r.change \in Changes /\ removal \in BOOLEAN
    BY DEF Schema!Applied, BuilderInv, BuilderTypes
<1>2. follow.kind # "sources" => follow.change \in Changes
    BY <1>1 DEF Changes
<1>3. Schema!SourcesRequest.kind = "sources"
    BY DEF Schema!SourcesRequest
<1>4. /\ asked' = (asked \ {r}) \union {Schema!SourcesRequest, follow}
      /\ draft' = IF draft.shown THEN Schema!Rebased(draft, r.change.content) ELSE draft
      /\ removal' \in BOOLEAN
      /\ UNCHANGED <<schema, builderUrl, sources, working, discard, contents>>
    BY DEF Schema!Applied
<1>5. \A q \in asked' : q.kind # "sources" => q.change \in Changes
    <2> HIDE DEF follow
    <2> QED BY <1>2, <1>3, <1>4 DEF BuilderInv, BuilderTypes
<1>6. CASE draft.shown
    <2>1. draft \in Drafts /\ r.change.content \in Contents \union {Absent}
        BY <1>1, <1>6, ShownDraft DEF Changes, BuilderInv
    <2>2. draft' = [draft EXCEPT !.baseline = draft.content, !.saved = r.change.content,
                                 !.slipped = draft.content # r.change.content]
        BY <1>4, <1>6 DEF Schema!Rebased
    <2>3. draft' \in Drafts /\ draft'.of = draft.of /\ draft'.content = draft.content
        BY <2>1, <2>2 DEF Drafts
    <2>4. draft'.baseline = draft.content /\ draft'.saved = r.change.content /\ draft'.shown
        BY <2>1, <2>2 DEF Drafts
    <2>5. draft'.slipped = (draft.content # r.change.content)
        BY <2>1, <2>2 DEF Drafts
    <2>6. BaselineIsSaved'
        BY <2>4, <2>5 DEF BaselineIsSaved
    <2>7. AskedAbout
        BY <2>3, <2>4 DEF AskedAbout
    <2>8. BuilderTypes'
        BY <1>4, <1>5, <2>3 DEF BuilderInv, BuilderTypes
    <2> QED BY <1>4, <1>6, <2>3, <2>6, <2>7, <2>8 DEF BuilderInv, DraftIsOfTheRoute
<1>7. CASE ~draft.shown
    BY <1>4, <1>5, <1>7, DraftIsLeft DEF BuilderInv, BuilderTypes
<1> QED BY <1>6, <1>7

LEMMA GoesOnKeeps ==
    ASSUME BuilderInv, NEW r \in asked, Schema!GoesOn(r)
    PROVE  BuilderInv' /\ AskedAbout
<1>1. /\ UNCHANGED <<schema, contents>> /\ ~working' /\ working' \in BOOLEAN
    BY DEF Schema!GoesOn
<1>2. CASE Schema!NewStore /\ ~Schema!HasUnsavedChanges(draft) /\ discard' = Schema!NoDiscard
    BY <1>1, <1>2, NewStoreIs
<1>3. CASE /\ Schema!HasUnsavedChanges(draft) /\ asked' = asked \ {r}
           /\ UNCHANGED <<builderUrl, sources, draft, removal, plan>>
           /\ \/ discard' = [why |-> "leave", to |-> NoName, files |-> sources]
              \/ /\ draft.type \in SchemaTypes
                 /\ discard' = [why |-> "leave", to |-> draft.type, files |-> sources]
    <2>1. draft.shown /\ sources \in Schemas
        BY <1>3 DEF BuilderInv, DraftIsOfTheRoute, Schema!HasUnsavedChanges
    <2>2. discard'.to \in Schema!Routes \union {NoName} /\ discard'.files = sources
        BY <1>3, BuilderConstants
    <2>3. BuilderTypes'
        BY <1>1, <1>3 DEF BuilderInv, BuilderTypes
    <2> QED BY <1>3, <2>1, <2>2, <2>3, DraftStays DEF BuilderInv, DraftIsOfTheRoute
<1>4. CASE asked' = asked \ {r} /\ UNCHANGED <<builderUrl, sources, draft, removal, plan, discard>>
    BY <1>1, <1>4, DraftIsLeft DEF BuilderInv, BuilderTypes
<1>5. CASE /\ draft.shown /\ draft.type \in SchemaTypes /\ ~Schema!HasUnsavedChanges(draft)
           /\ asked' = asked \ {r} /\ UNCHANGED <<sources, removal, plan, discard>>
           /\ builderUrl' = draft.type /\ draft' = Schema!Contained(draft.type, sources)
    <2>1. sources \in Schemas /\ draft.type \in Schema!Routes
        BY <1>5, BuilderConstants DEF BuilderInv, DraftIsOfTheRoute
    <2>2. /\ draft' = Schema!NoDraft \/ draft' \in Drafts
          /\ draft'.shown => draft'.of = builderUrl' /\ sources' \in Schemas
          /\ BaselineIsSaved' /\ AskedAbout
        BY <1>5, <2>1, DraftIsReplaced
    <2>3. BuilderTypes'
        BY <1>1, <1>5, <2>1, <2>2 DEF BuilderInv, BuilderTypes
    <2> QED BY <1>5, <2>2, <2>3 DEF BuilderInv, DraftIsOfTheRoute
<1> QED BY <1>2, <1>3, <1>4, <1>5 DEF Schema!GoesOn

LEMMA BuilderRestKeeps ==
    ASSUME BuilderInv,
           \/ \E r \in asked : Schema!RequestFails(r)
           \/ \E t \in SchemaTypes : Schema!OthersBuild(t)
    PROVE  BuilderInv' /\ AskedAbout
<1>1. CASE \E r \in asked : Schema!RequestFails(r)
    BY <1>1, DraftIsLeft DEF Schema!RequestFails, BuilderInv, BuilderTypes
<1>2. CASE \E t \in SchemaTypes : Schema!OthersBuild(t)
    <2>1. schema' \in Schemas /\ contents' \in Contents
        BY <1>2, BuilderConstants
        DEF Schema!OthersBuild, BuilderInv, BuilderTypes, Schemas, Contents
    <2> QED BY <1>2, <2>1, DraftIsLeft DEF Schema!OthersBuild, BuilderInv, BuilderTypes
<1> QED BY <1>1, <1>2

LEMMA BuilderStarts == Schema!Init => BuilderInv
<1> SUFFICES ASSUME Schema!Init PROVE BuilderInv
    OBVIOUS
<1>1. schema \in Schemas /\ contents \in Contents
    BY BuilderConstants DEF Schema!Init, Schemas
<1>2. \A r \in asked : r.kind # "sources" => r.change \in Changes
    BY DEF Schema!Init, Schema!SourcesRequest
<1>3. removal \in BOOLEAN /\ working \in BOOLEAN
    BY DEF Schema!Init
<1>4. BuilderTypes
    BY <1>1, <1>2, <1>3 DEF Schema!Init, BuilderTypes
<1> QED BY <1>4, HiddenDraft DEF Schema!Init, BuilderInv, DraftIsOfTheRoute, BaselineIsSaved

LEMMA BuilderStays ==
    ASSUME BuilderInv, UNCHANGED Schema!vars
    PROVE  BuilderInv'
BY DEF Schema!vars, BuilderInv, BuilderTypes, DraftIsOfTheRoute, BaselineIsSaved

LEMMA BuilderKeeps ==
    ASSUME BuilderInv, Schema!Next
    PROVE  BuilderInv' /\ AskedAbout
BY SourcesArriveKeeps, NavigateKeeps, DiscardedKeeps, EditDraftKeeps, AsksKeep, PlanArrivesKeeps,
   ClosePlanKeeps, ApplyKeeps, ServeApplyKeeps, AppliedKeeps, GoesOnKeeps, BuilderRestKeeps
DEF Schema!Next, Schema!Progress

LEMMA BuilderInvariance == Spec => []BuilderInv
<1>1. BuilderInv /\ [Next]_vars => BuilderInv'
    <2>1. [Next]_vars => Schema!Next \/ UNCHANGED builderVars
        BY DEF Next, Only, vars
    <2> QED BY <2>1, BuilderKeeps, BuilderStays DEF builderVars, Schema!vars
<1>2. Init => BuilderInv
    BY BuilderStarts DEF Init
<1> QED BY <1>1, <1>2, PTL DEF Spec

\* A draft goes with its edits only when the admin said so.
LEMMA DraftsAreAskedAbout == Spec => Schema!DraftEditsAreAskedAbout
<1>1. BuilderInv /\ [Next]_vars => [AskedAbout]_(Schema!vars)
    <2>1. [Next]_vars => Schema!Next \/ UNCHANGED Schema!vars
        BY DEF Next, Only, vars, builderVars, Schema!vars
    <2> QED BY <2>1, BuilderKeeps
<1> QED BY <1>1, BuilderInvariance, PTL DEF Spec, Schema!DraftEditsAreAskedAbout, AskedAbout
-----------------------------------------------------------------------------
(* The entry editor. *)

Versions == [Locales -> Entry!Contents \union {NoVersion}]

NoForms == [shown: {FALSE}, lost: BOOLEAN]

EntryForms ==
    [shown: {TRUE}, key: Nat \ {0}, locale: Locales, missing: BOOLEAN,
     model: Entry!Contents, base: Entry!Contents, dirty: BOOLEAN,
     ai: Entry!Contents \union {NoVersion}, published: BOOLEAN,
     remote: Entry!Events \union {"none"}, busy: BOOLEAN, translating: BOOLEAN,
     slipped: BOOLEAN, excused: BOOLEAN]

EntryLoads ==
    [n: Nat \ {0}, locale: Locales, at: {"versions", "document", "shown"},
     doc: Entry!Contents, missing: BOOLEAN]

EntryCalls ==
    [key: Nat \ {0}, op: {"save", "publish", "fill", "translate", "delete", "unpublish", "discard-draft"},
     locale: Locales, from: Locales, sent: Entry!Contents,
     at: {"sent", "done", "read", "publishing", "published"}]

Questions == [why: Entry!Reasons, to: Locales \union {Away}, key: Nat]

Messages == [event: Entry!Events, locale: Locales]

EntryTypes ==
    /\ server \in [draft: Versions, live: Versions] /\ fresh \in Entry!Contents
    /\ requests \in Nat \ {0} /\ url \in Locales \union {Away}
    /\ loading \subseteq EntryLoads /\ calls \subseteq EntryCalls
    /\ form \in NoForms \union EntryForms
    /\ question = Entry!NoQuestion \/ question \in Questions
    /\ inbox \in Seq(Messages)

\* Only a publish has a second request.
PublishesTwice == \A c \in calls : c.at \in {"publishing", "published"} => c.op = "publish"

\* What has the number of the latest load is about the locale of the URL.
LatestIsOfTheRoute ==
    /\ \A ld \in loading : ld.n <= requests /\ (ld.n = requests /\ url # Away => ld.locale = url)
    /\ \A c \in calls : c.key <= requests /\ (c.key = requests /\ url # Away => c.locale = url)
    /\ question # Entry!NoQuestion =>
         /\ question.key <= requests
         /\ question.why = "reload" /\ question.key = requests /\ url # Away => question.to = url

\* What differs from the server shows in the flags that the guard of the route asks, unless
\* it slipped in.
EditsShow ==
    form.shown /\ form.model # form.base /\ ~form.slipped => form.dirty \/ form.ai # NoVersion

\* A change from elsewhere shows, or its message is on its way; the form's own is not
\* answered yet.
OwnChange(c) ==
    Entry!Alive(c) /\ c.at # "sent" /\ c.op \in {"save", "publish", "discard-draft", "delete"}

Told(f) ==
    \/ server.draft[f.locale] = f.base
    \/ f.remote # "none"
    \/ \E i \in 1 .. Len(inbox) : Entry!Heard(inbox[i], f)
    \/ \E c \in calls : OwnChange(c)

ChangesAreTold == form.shown /\ ~form.missing /\ ~form.excused => Told(form)

EntryInv ==
    /\ EntryTypes /\ PublishesTwice /\ LatestIsOfTheRoute /\ Entry!FormOfTheRoute /\ EditsShow
    /\ ChangesAreTold

\* Edits that show go only with the admin's word.
EditsAskedAbout ==
    form.shown /\ form.model # form.base /\ ~form.slipped /\ form' # form /\ ~form'.shown =>
          \/ question.why \in {"switch", "leave", "reload"} /\ question' = Entry!NoQuestion
          \/ \E c \in calls \ calls' : c.op = "delete"
          \/ form'.lost

LEMMA EntryConstants ==
    /\ Home \in Locales /\ Away \notin Locales /\ MaxValue \in Nat \ {0}
    /\ NoVersion \notin Entry!Contents /\ Entry!Empty \in Entry!Contents /\ 1 \in Entry!Contents
BY PanelAssumption
DEF PanelAssumption, Entry!EditorAssumption, Entry!Contents, Entry!Empty

LEMMA NoFormIsHidden == Entry!NoForm \in NoForms /\ \A f \in NoForms : ~f.shown
BY DEF Entry!NoForm, NoForms

LEMMA ShownForm ==
    ASSUME EntryTypes, form.shown
    PROVE  form \in EntryForms
BY NoFormIsHidden DEF EntryTypes

LEMMA FormHides ==
    ASSUME form' \in NoForms
    PROVE  ~form'.shown /\ Entry!FormOfTheRoute' /\ EditsShow' /\ ChangesAreTold'
BY NoFormIsHidden DEF Entry!FormOfTheRoute, EditsShow, ChangesAreTold

\* The route, its loads and its requests, when the route stays.
LEMMA RouteStays ==
    ASSUME EntryInv, UNCHANGED <<url, requests>>,
           \A ld \in loading' : \E old \in loading : ld.n = old.n /\ ld.locale = old.locale,
           \A c \in calls' :
              \/ \E old \in calls : c.key = old.key /\ c.locale = old.locale
              \/ form.shown /\ c.key = form.key /\ c.locale = form.locale,
           question' = question \/ question' = Entry!NoQuestion,
           form'.shown => form.shown /\ form'.key = form.key /\ form'.locale = form.locale
    PROVE  LatestIsOfTheRoute' /\ Entry!FormOfTheRoute'
<1>1. requests \in Nat
    BY DEF EntryInv, EntryTypes
<1>2. \A ld \in loading' : ld.n <= requests' /\ (ld.n = requests' /\ url' # Away => ld.locale = url')
    BY DEF EntryInv, LatestIsOfTheRoute
<1>3. \A c \in calls' : c.key <= requests' /\ (c.key = requests' /\ url' # Away => c.locale = url')
    BY <1>1 DEF EntryInv, LatestIsOfTheRoute, Entry!FormOfTheRoute
<1>4. question' # Entry!NoQuestion =>
         /\ question'.key <= requests'
         /\ question'.why = "reload" /\ question'.key = requests' /\ url' # Away => question'.to = url'
    BY DEF EntryInv, LatestIsOfTheRoute
<1>5. Entry!FormOfTheRoute'
    BY DEF EntryInv, Entry!FormOfTheRoute
<1> QED BY <1>2, <1>3, <1>4, <1>5 DEF LatestIsOfTheRoute

\* A load that starts is the latest.
LEMMA LoadStarts ==
    ASSUME EntryInv, NEW l \in Locales, Entry!LoadStarts(l), url' = l,
           calls' \subseteq calls, question' = question \/ question' = Entry!NoQuestion
    PROVE  LatestIsOfTheRoute' /\ requests' \in Nat \ {0} /\ loading' \subseteq EntryLoads
<1> DEFINE new == [n |-> requests + 1, locale |-> l, at |-> "versions",
                   doc |-> Entry!Empty, missing |-> FALSE]
<1>1. /\ requests \in Nat /\ requests' = requests + 1 /\ loading' = loading \union {new}
    BY DEF Entry!LoadStarts, EntryInv, EntryTypes
<1>2. new \in EntryLoads /\ new.n = requests' /\ new.locale = url'
    BY <1>1, EntryConstants DEF EntryLoads
<1> HIDE DEF new
<1>3. \A ld \in loading' : ld.n <= requests' /\ (ld.n = requests' /\ url' # Away => ld.locale = url')
    <2> SUFFICES ASSUME NEW ld \in loading'
                 PROVE  ld.n <= requests' /\ (ld.n = requests' /\ url' # Away => ld.locale = url')
        OBVIOUS
    <2>1. CASE ld = new
        BY <1>1, <1>2, <2>1
    <2>2. CASE ld \in loading
        <3>1. ld.n \in Nat /\ ld.n <= requests
            BY <2>2 DEF EntryInv, EntryTypes, EntryLoads, LatestIsOfTheRoute
        <3> QED BY <1>1, <3>1
    <2> QED BY <1>1, <2>1, <2>2
<1>4. \A c \in calls' : c.key <= requests' /\ (c.key = requests' /\ url' # Away => c.locale = url')
    <2> SUFFICES ASSUME NEW c \in calls'
                 PROVE  c.key <= requests' /\ c.key # requests'
        OBVIOUS
    <2>1. c.key \in Nat /\ c.key <= requests
        BY DEF EntryInv, EntryTypes, EntryCalls, LatestIsOfTheRoute
    <2> QED BY <1>1, <2>1
<1>5. question' # Entry!NoQuestion =>
         /\ question'.key <= requests'
         /\ question'.why = "reload" /\ question'.key = requests' /\ url' # Away => question'.to = url'
    <2>1. question' # Entry!NoQuestion => question'.key \in Nat /\ question'.key <= requests
        BY DEF EntryInv, EntryTypes, Questions, LatestIsOfTheRoute
    <2> QED BY <1>1, <2>1
<1>6. requests' \in Nat \ {0} /\ loading' \subseteq EntryLoads
    BY <1>1, <1>2 DEF EntryInv, EntryTypes
<1> QED BY <1>1, <1>3, <1>4, <1>5, <1>6 DEF LatestIsOfTheRoute

LEMMA RouteGoes ==
    ASSUME EntryInv, NEW to \in Locales \union {Away}, Entry!GoTo(to),
           calls' \subseteq calls, question' = question \/ question' = Entry!NoQuestion
    PROVE  /\ LatestIsOfTheRoute' /\ form' = Entry!NoForm
           /\ requests' \in Nat \ {0} /\ loading' \subseteq EntryLoads
           /\ url' \in Locales \union {Away}
<1>1. url' = to
    BY DEF Entry!GoTo
<1>2. CASE to = Away
    <2>1. form' = Entry!NoForm /\ UNCHANGED <<requests, loading>>
        BY <1>2 DEF Entry!GoTo
    <2> QED BY <1>1, <1>2, <2>1 DEF EntryInv, EntryTypes, LatestIsOfTheRoute
<1>3. CASE to # Away
    BY <1>1, <1>3, LoadStarts DEF Entry!GoTo, Entry!StartLoad
<1> QED BY <1>2, <1>3

\* What the admin was told of, when neither the entry nor the messages change.
LEMMA ToldStays ==
    ASSUME EntryInv, UNCHANGED <<server, inbox>>,
           \A c \in calls : c \in calls' \/ (~OwnChange(c)) \/ (\E d \in calls' : OwnChange(d)'),
           form'.shown => /\ form.shown /\ form'.key = form.key /\ form'.locale = form.locale
                          /\ form'.missing = form.missing
                          /\ ~form'.excused => /\ ~form.excused
                                               /\ form'.base = form.base /\ form'.remote = form.remote
    PROVE  ChangesAreTold'
<1> SUFFICES ASSUME form'.shown, ~form'.missing, ~form'.excused PROVE Told(form)'
    BY DEF ChangesAreTold
<1>1. /\ form.shown /\ ~form.missing /\ ~form.excused /\ form'.locale = form.locale
      /\ form'.base = form.base /\ form'.remote = form.remote /\ form'.missing = form.missing
      /\ form'.key = form.key
    OBVIOUS
<1>2. Told(form)
    BY <1>1 DEF EntryInv, ChangesAreTold
<1>3. CASE \E c \in calls : OwnChange(c)
    <2>1. PICK c \in calls : OwnChange(c)
        BY <1>3
    <2>2. c \in calls' => OwnChange(c)'
        BY <1>1, <2>1 DEF OwnChange, Entry!Alive
    <2> QED BY <2>1, <2>2 DEF Told
<1>4. CASE \E i \in 1 .. Len(inbox) : Entry!Heard(inbox[i], form)
    BY <1>1, <1>4 DEF Told, Entry!Heard
<1> QED BY <1>1, <1>2, <1>3, <1>4 DEF Told

\* The whole invariant, when the form and all it waits for stay.
LEMMA LoadsGoOn ==
    ASSUME EntryInv, UNCHANGED <<server, fresh, url, requests, form, calls, question, inbox>>,
           loading' \subseteq EntryLoads,
           \A ld \in loading' : \E old \in loading : ld.n = old.n /\ ld.locale = old.locale
    PROVE  EntryInv' /\ EditsAskedAbout
<1>1. EntryTypes'
    BY DEF EntryInv, EntryTypes
<1>2. LatestIsOfTheRoute' /\ Entry!FormOfTheRoute'
    BY RouteStays
<1>3. ChangesAreTold'
    BY ToldStays
<1> QED BY <1>1, <1>2, <1>3 DEF EntryInv, EditsAskedAbout, EditsShow, PublishesTwice

LEMMA LoadVersionsKeeps ==
    ASSUME EntryInv, NEW ld \in loading, Entry!LoadVersions(ld)
    PROVE  EntryInv' /\ EditsAskedAbout
<1> DEFINE next == [ld EXCEPT !.at = "document", !.missing = server.draft[ld.locale] = NoVersion]
<1>1. ld \in EntryLoads
    BY DEF EntryInv, EntryTypes
<1>2. next \in EntryLoads /\ next.n = ld.n /\ next.locale = ld.locale
    BY <1>1 DEF EntryLoads
<1>3. loading' \subseteq (loading \ {ld}) \union {next}
    BY DEF Entry!LoadVersions
<1> HIDE DEF next
<1> QED BY <1>2, <1>3, LoadsGoOn DEF Entry!LoadVersions, EntryInv, EntryTypes

LEMMA LoadDocumentKeeps ==
    ASSUME EntryInv, NEW ld \in loading, Entry!LoadDocument(ld)
    PROVE  EntryInv' /\ EditsAskedAbout
<1>1. ld \in EntryLoads
    BY DEF EntryInv, EntryTypes
<1>2. PICK l \in Locales :
         loading' = (loading \ {ld}) \union
              (IF server.draft[l] # NoVersion
               THEN {[ld EXCEPT !.at = "shown", !.doc = server.draft[l]]} ELSE {})
    BY DEF Entry!LoadDocument
<1> DEFINE next == [ld EXCEPT !.at = "shown", !.doc = server.draft[l]]
<1>3. CASE server.draft[l] # NoVersion
    <2>1. server.draft[l] \in Entry!Contents
        BY <1>3 DEF EntryInv, EntryTypes, Versions
    <2>2. next \in EntryLoads /\ next.n = ld.n /\ next.locale = ld.locale
        BY <1>1, <2>1 DEF EntryLoads
    <2>3. loading' = (loading \ {ld}) \union {next}
        BY <1>2, <1>3
    <2> HIDE DEF next
    <2> QED BY <2>2, <2>3, LoadsGoOn DEF Entry!LoadDocument, EntryInv, EntryTypes
<1>4. CASE server.draft[l] = NoVersion
    BY <1>2, <1>4, LoadsGoOn DEF Entry!LoadDocument, EntryInv, EntryTypes
<1> QED BY <1>3, <1>4

\* A form that the server's answer makes: it has what the server has, or a message is on its
\* way, or it is excused.
LEMMA NotedFormIs ==
    ASSUME NEW f \in EntryForms
    PROVE  LET g == Entry!Noted(f)
           IN  /\ g \in EntryForms /\ g.key = f.key /\ g.locale = f.locale /\ g.base = f.base
               /\ g.model = f.model /\ g.missing = f.missing /\ g.slipped = f.slipped
               /\ g.shown
               /\ \/ g.excused \/ server.draft[g.locale] = g.base
                  \/ \E i \in 1 .. Len(inbox) : Entry!Heard(inbox[i], g)
<1>1. PICK x \in BOOLEAN : x = Entry!Overtaken(f)
    BY DEF Entry!Overtaken
<1> DEFINE g == [f EXCEPT !.excused = x]
<1>2. /\ g \in EntryForms /\ g.key = f.key /\ g.locale = f.locale /\ g.base = f.base
      /\ g.model = f.model /\ g.missing = f.missing /\ g.slipped = f.slipped
      /\ g.shown /\ f.shown /\ g.excused = x
    BY DEF EntryForms
<1>3. Entry!Noted(f) = g
    BY <1>1, Zenon DEF Entry!Noted
<1> HIDE DEF g
<1>4. \A m : Entry!Heard(m, f) <=> Entry!Heard(m, g)
    BY <1>2 DEF Entry!Heard
<1>5. \/ g.excused \/ server.draft[g.locale] = g.base
      \/ \E i \in 1 .. Len(inbox) : Entry!Heard(inbox[i], g)
    BY <1>1, <1>2, <1>4 DEF Entry!Overtaken
<1> QED BY <1>2, <1>3, <1>5

LEMMA LoadShownKeeps ==
    ASSUME EntryInv, NEW ld \in loading, Entry!LoadShown(ld)
    PROVE  EntryInv' /\ EditsAskedAbout
<1> DEFINE opened == Entry!Form(ld.n, ld.locale, ld.doc, server.live[ld.locale] # NoVersion,
                                ld.missing)
           new == Entry!Noted(opened)
<1>1. /\ loading' = loading \ {ld}
      /\ UNCHANGED <<server, fresh, url, requests, calls, question, inbox>>
    BY DEF Entry!LoadShown
<1>2. CASE form' = form
    BY <1>1, <1>2, LoadsGoOn DEF EntryInv, EntryTypes
<1>3. CASE ld.n = requests /\ url # Away /\ form' = new
    <2>1. ld \in EntryLoads /\ ld.locale = url
        BY <1>3 DEF EntryInv, EntryTypes, LatestIsOfTheRoute
    <2>7. /\ opened \in EntryForms /\ opened.key = requests /\ opened.locale = url
          /\ opened.base = opened.model
        BY <1>3, <2>1, EntryConstants DEF EntryForms, EntryLoads, Entry!Form
    <2> HIDE DEF opened
    <2>2. /\ new \in EntryForms /\ new.key = requests /\ new.locale = url /\ new.base = new.model
          /\ \/ new.excused \/ server.draft[new.locale] = new.base
             \/ \E i \in 1 .. Len(inbox) : Entry!Heard(inbox[i], new)
        BY <2>7, NotedFormIs
    <2> HIDE DEF new
    <2>3. EntryTypes'
        BY <1>1, <1>3, <2>2 DEF EntryInv, EntryTypes
    <2>4. LatestIsOfTheRoute' /\ Entry!FormOfTheRoute' /\ PublishesTwice' /\ EditsShow'
        BY <1>1, <1>3, <2>2
        DEF EntryInv, LatestIsOfTheRoute, Entry!FormOfTheRoute, PublishesTwice, EditsShow
    <2>5. ChangesAreTold'
        <3>1. /\ \/ form'.excused \/ server'.draft[form'.locale] = form'.base
                 \/ \E i \in 1 .. Len(inbox') : Entry!Heard(inbox'[i], form')
            BY <1>1, <1>3, <2>2
        <3> QED BY <3>1 DEF ChangesAreTold, Told, Entry!Heard
    <2>6. form'.shown
        BY <1>3, <2>2 DEF EntryForms
    <2> QED BY <2>3, <2>4, <2>5, <2>6 DEF EntryInv, EditsAskedAbout
<1> QED BY <1>2, <1>3 DEF Entry!LoadShown, Entry!Stale

\* A form that goes.
LEMMA FormGoes ==
    ASSUME EntryInv, UNCHANGED <<server, fresh, inbox>>, form' \in NoForms,
           calls' \subseteq calls, LatestIsOfTheRoute',
           requests' \in Nat \ {0}, loading' \subseteq EntryLoads, url' \in Locales \union {Away},
           question' = question \/ question' = Entry!NoQuestion,
           \/ ~form.shown \/ ~Entry!HasUnsavedChanges(form)
           \/ question.why \in {"switch", "leave", "reload"} /\ question' = Entry!NoQuestion
           \/ \E c \in calls \ calls' : c.op = "delete"
           \/ form'.lost
    PROVE  EntryInv' /\ EditsAskedAbout
<1>1. EntryTypes' /\ PublishesTwice'
    BY DEF EntryInv, EntryTypes, PublishesTwice
<1>2. EditsAskedAbout
    BY DEF EntryInv, EditsShow, EditsAskedAbout, Entry!HasUnsavedChanges
<1> QED BY <1>1, <1>2, FormHides DEF EntryInv

\* A form that asks first.
LEMMA AskKeeps ==
    ASSUME EntryInv, UNCHANGED <<server, fresh, url, loading, requests, form, calls, inbox>>,
           form.shown, NEW why \in Entry!Reasons, NEW to \in Locales \union {Away},
           why = "reload" => to = form.locale,
           Entry!Ask(why, to)
    PROVE  EntryInv' /\ EditsAskedAbout
<1>1. form \in EntryForms /\ form.locale = url /\ form.key = requests
    BY ShownForm DEF EntryInv, Entry!FormOfTheRoute
<1>2. question' \in Questions /\ question'.to = to /\ question'.why = why /\ question'.key = requests
    BY <1>1 DEF Entry!Ask, Questions, EntryForms
<1>3. EntryTypes'
    BY <1>2 DEF EntryInv, EntryTypes
<1>4. LatestIsOfTheRoute'
    BY <1>1, <1>2 DEF EntryInv, EntryTypes, LatestIsOfTheRoute
<1>5. ChangesAreTold'
    BY ToldStays
<1> QED BY <1>3, <1>4, <1>5
    DEF EntryInv, EditsAskedAbout, EditsShow, PublishesTwice, Entry!FormOfTheRoute

LEMMA SwitchLocaleKeeps ==
    ASSUME EntryInv, NEW l \in Locales, Entry!SwitchLocale(l)
    PROVE  EntryInv' /\ EditsAskedAbout
<1>1. form.shown /\ UNCHANGED <<server, fresh, calls, inbox>>
    BY DEF Entry!SwitchLocale
<1>2. CASE Entry!HasUnsavedChanges(form)
    BY <1>1, <1>2, AskKeeps DEF Entry!SwitchLocale, Entry!Reasons
<1>3. CASE ~Entry!HasUnsavedChanges(form)
    <2>1. Entry!GoTo(l) /\ UNCHANGED question
        BY <1>3 DEF Entry!SwitchLocale
    <2> QED BY <1>1, <1>3, <2>1, RouteGoes, FormGoes, NoFormIsHidden
<1> QED BY <1>2, <1>3

LEMMA LeavePageKeeps ==
    ASSUME EntryInv, Entry!LeavePage
    PROVE  EntryInv' /\ EditsAskedAbout
<1>1. UNCHANGED <<server, fresh, calls, inbox>>
    BY DEF Entry!LeavePage
<1>2. CASE Entry!HasUnsavedChanges(form)
    <2>1. form.shown
        BY <1>2 DEF Entry!HasUnsavedChanges
    <2> QED BY <1>1, <1>2, <2>1, AskKeeps DEF Entry!LeavePage, Entry!Reasons
<1>3. CASE ~Entry!HasUnsavedChanges(form)
    <2>1. Entry!GoTo(Away) /\ UNCHANGED question
        BY <1>3 DEF Entry!LeavePage
    <2> QED BY <1>1, <1>3, <2>1, RouteGoes, FormGoes, NoFormIsHidden
<1> QED BY <1>2, <1>3

LEMMA FollowLinkKeeps ==
    ASSUME EntryInv, NEW l \in Locales, Entry!FollowLink(l)
    PROVE  EntryInv' /\ EditsAskedAbout
<1>1. /\ url' = l /\ Entry!LoadStarts(l) /\ UNCHANGED <<server, fresh, calls, question, inbox>>
      /\ form' = [shown |-> FALSE, lost |-> Entry!HasUnsavedChanges(form)]
    BY DEF Entry!FollowLink
<1>2. form' \in NoForms /\ (Entry!HasUnsavedChanges(form) => form'.lost)
    <2>1. Entry!HasUnsavedChanges(form) \in BOOLEAN
        BY DEF Entry!HasUnsavedChanges
    <2> QED BY <1>1, <2>1 DEF NoForms
<1>3. LatestIsOfTheRoute' /\ requests' \in Nat \ {0} /\ loading' \subseteq EntryLoads
    BY <1>1, LoadStarts
<1> QED BY <1>1, <1>2, <1>3, FormGoes

LEMMA OpenEntryKeeps ==
    ASSUME EntryInv, NEW l \in Locales, Entry!OpenEntry(l)
    PROVE  EntryInv' /\ EditsAskedAbout
<1>1. ~form.shown
    BY EntryConstants, ShownForm DEF Entry!OpenEntry, EntryInv, Entry!FormOfTheRoute, EntryForms
<1>2. Entry!GoTo(l) /\ UNCHANGED <<server, fresh, calls, question, inbox>>
    BY DEF Entry!OpenEntry
<1> QED BY <1>1, <1>2, RouteGoes, FormGoes, NoFormIsHidden

LEMMA ReloadRemoteKeeps ==
    ASSUME EntryInv, Entry!ReloadRemote
    PROVE  EntryInv' /\ EditsAskedAbout
<1>1. form.shown /\ UNCHANGED <<server, fresh, url, calls, inbox>>
    BY DEF Entry!ReloadRemote
<1>2. form.locale \in Locales /\ form.locale = url
    BY <1>1, ShownForm DEF EntryInv, EntryForms, Entry!FormOfTheRoute
<1>3. CASE Entry!HasUnsavedChanges(form)
    <2>1. Entry!Ask("reload", form.locale) /\ UNCHANGED <<form, requests, loading>>
        BY <1>3 DEF Entry!ReloadRemote
    <2> QED BY <1>1, <1>2, <2>1, AskKeeps DEF Entry!Reasons
<1>4. CASE ~Entry!HasUnsavedChanges(form)
    <2>1. Entry!StartLoad(form.locale) /\ UNCHANGED question
        BY <1>4 DEF Entry!ReloadRemote
    <2>2. /\ LatestIsOfTheRoute' /\ form' \in NoForms
          /\ requests' \in Nat \ {0} /\ loading' \subseteq EntryLoads
        BY <1>1, <1>2, <2>1, LoadStarts, NoFormIsHidden DEF Entry!StartLoad
    <2> QED BY <1>1, <1>2, <1>4, <2>1, <2>2, FormGoes
<1> QED BY <1>3, <1>4

LEMMA ConfirmActionKeeps ==
    ASSUME EntryInv, NEW action \in {"unpublish", "discard-draft"}, Entry!ConfirmAction(action)
    PROVE  EntryInv' /\ EditsAskedAbout
<1>1. form.shown /\ form.locale \in Locales
    BY ShownForm DEF Entry!ConfirmAction, EntryInv, EntryForms
<1> QED BY <1>1, AskKeeps DEF Entry!ConfirmAction, Entry!Reasons

\* A form that stays as it is while its requests and its question change.
LEMMA FormStays ==
    ASSUME EntryInv, UNCHANGED <<server, fresh, url, loading, requests, inbox>>,
           calls' \subseteq EntryCalls, PublishesTwice', form'.shown => form' \in EntryForms,
           ~form'.shown => form' = form,
           \A c \in calls' :
              \/ \E old \in calls : c.key = old.key /\ c.locale = old.locale
              \/ form.shown /\ c.key = form.key /\ c.locale = form.locale,
           \A c \in calls : c \in calls' \/ (~OwnChange(c)) \/ (\E d \in calls' : OwnChange(d)'),
           question' = question \/ question' = Entry!NoQuestion,
           form'.shown => /\ form.shown /\ form'.key = form.key /\ form'.locale = form.locale
                          /\ form'.missing = form.missing
                          /\ ~form'.excused => /\ ~form.excused
                                               /\ form'.base = form.base /\ form'.remote = form.remote,
           form' = form \/ EditsShow'
    PROVE  EntryInv' /\ EditsAskedAbout
<1>1. EntryTypes'
    BY DEF EntryInv, EntryTypes
<1>2. LatestIsOfTheRoute' /\ Entry!FormOfTheRoute'
    BY RouteStays DEF EntryInv, EntryTypes
<1>3. ChangesAreTold'
    BY ToldStays
<1>4. EditsShow' /\ EditsAskedAbout
    BY DEF EntryInv, EditsShow, EditsAskedAbout
<1> QED BY <1>1, <1>2, <1>3, <1>4 DEF EntryInv

LEMMA DeclineKeeps ==
    ASSUME EntryInv, Entry!Decline
    PROVE  EntryInv' /\ EditsAskedAbout
BY FormStays, ShownForm DEF Entry!Decline, EntryInv, EntryTypes, PublishesTwice

\* A call of the form that is shown.
LEMMA CallIs ==
    ASSUME EntryTypes, form.shown,
           NEW op \in {"save", "publish", "fill", "translate", "delete", "unpublish", "discard-draft"}
    PROVE  /\ Entry!Call(op) \in EntryCalls
           /\ Entry!Call(op).key = form.key /\ Entry!Call(op).locale = form.locale
           /\ Entry!Call(op).at = "sent"
BY ShownForm DEF Entry!Call, EntryCalls, EntryForms

LEMMA AcceptKeeps ==
    ASSUME EntryInv, Entry!Accept
    PROVE  EntryInv' /\ EditsAskedAbout
<1>1. /\ question # Entry!NoQuestion /\ question' = Entry!NoQuestion
      /\ UNCHANGED <<server, fresh, inbox>> /\ question \in Questions
    BY DEF Entry!Accept, Entry!Idle, EntryInv, EntryTypes
<1>2. question.to \in Locales \union {Away} /\ question.why \in Entry!Reasons
    BY <1>1 DEF Questions
<1>3. CASE question.why \in {"switch", "leave"}
    <2>1. Entry!GoTo(question.to) /\ UNCHANGED calls
        BY <1>3 DEF Entry!Accept
    <2> QED BY <1>1, <1>2, <1>3, <2>1, RouteGoes, FormGoes, NoFormIsHidden
<1>4. CASE question.why = "reload"
    <2>1. /\ IF form.shown /\ form.key = question.key
             THEN Entry!StartLoad(question.to) ELSE UNCHANGED <<form, requests, loading>>
          /\ UNCHANGED <<url, calls>>
        BY <1>4 DEF Entry!Accept
    <2>2. CASE form.shown /\ form.key = question.key
        <3>1. url \in Locales /\ question.to = url
            BY <1>1, <1>4, <2>2, ShownForm, EntryConstants
            DEF EntryInv, EntryForms, Entry!FormOfTheRoute, LatestIsOfTheRoute
        <3>2. /\ LatestIsOfTheRoute' /\ form' \in NoForms
              /\ requests' \in Nat \ {0} /\ loading' \subseteq EntryLoads
            BY <1>1, <2>1, <2>2, <3>1, LoadStarts, NoFormIsHidden DEF Entry!StartLoad
        <3> QED BY <1>1, <1>4, <2>1, <3>1, <3>2, FormGoes
    <2>3. CASE ~(form.shown /\ form.key = question.key)
        BY <1>1, <2>1, <2>3, FormStays, ShownForm DEF EntryInv, EntryTypes, PublishesTwice
    <2> QED BY <2>2, <2>3
<1>5. CASE question.why \in {"unpublish", "discard-draft"}
    <2>1. /\ IF form.shown /\ form.key = question.key
             THEN /\ calls' = calls \union {Entry!Call(question.why)}
                  /\ form' = [form EXCEPT !.busy = TRUE]
             ELSE UNCHANGED <<calls, form>>
          /\ UNCHANGED <<url, requests, loading>>
        BY <1>5 DEF Entry!Accept
    <2>2. CASE form.shown /\ form.key = question.key
        <3>1. form \in EntryForms
            BY <2>2, ShownForm DEF EntryInv
        <3>2. /\ form' \in EntryForms /\ form'.key = form.key /\ form'.locale = form.locale
              /\ form'.missing = form.missing /\ form'.shown /\ (form.excused => form'.excused)
              /\ form'.base = form.base /\ form'.remote = form.remote /\ form'.model = form.model
              /\ form'.ai = form.ai /\ (form.dirty => form'.dirty) /\ (form.slipped => form'.slipped)
            BY <2>1, <2>2, <3>1, ZenonT(40) DEF EntryForms
        <3>3. /\ Entry!Call(question.why) \in EntryCalls
              /\ Entry!Call(question.why).key = form.key
              /\ Entry!Call(question.why).locale = form.locale
              /\ Entry!Call(question.why).at = "sent"
            BY <1>5, <2>2, CallIs DEF EntryInv
        <3>4. calls' \subseteq EntryCalls /\ PublishesTwice' /\ calls \subseteq calls'
            BY <2>1, <2>2, <3>3 DEF EntryInv, EntryTypes, PublishesTwice
        <3>5. EditsShow'
            BY <2>2, <3>2 DEF EntryInv, EditsShow
        <3>6. \A c \in calls' :
                 \/ \E old \in calls : c.key = old.key /\ c.locale = old.locale
                 \/ form.shown /\ c.key = form.key /\ c.locale = form.locale
            BY <2>1, <2>2, <3>3
        <3> QED BY <1>1, <2>1, <2>2, <3>2, <3>4, <3>5, <3>6, FormStays
    <2>3. CASE ~(form.shown /\ form.key = question.key)
        BY <1>1, <2>1, <2>3, FormStays, ShownForm DEF EntryInv, EntryTypes, PublishesTwice
    <2> QED BY <2>2, <2>3
<1> QED BY <1>2, <1>3, <1>4, <1>5 DEF Entry!Reasons

\* A form that is edited, or waits: what it keeps of its text's history.
FormIsLike(f) ==
    /\ f \in EntryForms /\ f.shown /\ f.key = form.key /\ f.locale = form.locale
    /\ f.missing = form.missing
    /\ f.base = form.base /\ f.remote = form.remote /\ (form.excused => f.excused)

EditsShowIn(f) == f.model # f.base /\ ~f.slipped => f.dirty \/ f.ai # NoVersion

LEMMA EditKeeps ==
    ASSUME EntryInv, NEW f, FormIsLike(f), EditsShowIn(f), fresh' \in Entry!Contents, Entry!Edit(f)
    PROVE  EntryInv' /\ EditsAskedAbout
<1>1. /\ form.shown /\ form' = f
      /\ UNCHANGED <<server, url, loading, requests, calls, question, inbox>>
    BY DEF Entry!Edit
<1>2. EntryTypes' /\ PublishesTwice'
    BY <1>1 DEF EntryInv, EntryTypes, PublishesTwice, FormIsLike
<1>3. LatestIsOfTheRoute' /\ Entry!FormOfTheRoute'
    BY <1>1, RouteStays DEF FormIsLike
<1>4. ChangesAreTold'
    BY <1>1, ToldStays DEF FormIsLike
<1>5. EditsShow' /\ EditsAskedAbout
    BY <1>1 DEF EditsShow, EditsShowIn, EditsAskedAbout, FormIsLike
<1> QED BY <1>2, <1>3, <1>4, <1>5 DEF EntryInv

LEMMA TypeKeeps ==
    ASSUME EntryInv, Entry!Type
    PROVE  EntryInv' /\ EditsAskedAbout
<1> DEFINE f == [form EXCEPT !.model = fresh + 1, !.dirty = TRUE]
<1>1. /\ form \in EntryForms /\ fresh + 1 \in Entry!Contents /\ fresh' = fresh + 1
      /\ Entry!Edit(f)
    BY ShownForm, EntryConstants DEF Entry!Type, EntryInv, EntryTypes, Entry!Contents
<1>2. FormIsLike(f)
    BY <1>1 DEF FormIsLike, EntryForms
<1>3. f.dirty
    BY <1>1 DEF EntryForms
<1>4. EditsShowIn(f)
    BY <1>3 DEF EditsShowIn
<1> HIDE DEF f
<1> QED BY <1>1, <1>2, <1>4, EditKeeps

LEMMA KeepTranslationKeeps ==
    ASSUME EntryInv, Entry!KeepTranslation
    PROVE  EntryInv' /\ EditsAskedAbout
<1> DEFINE f == [form EXCEPT !.ai = NoVersion, !.slipped = @ \/ ~form.dirty]
<1>1. form \in EntryForms /\ fresh' \in Entry!Contents /\ Entry!Edit(f)
    BY ShownForm DEF Entry!KeepTranslation, EntryInv, EntryTypes
<1>2. FormIsLike(f)
    BY <1>1 DEF FormIsLike, EntryForms
<1>3. f.slipped \/ f.dirty
    BY <1>1 DEF EntryForms
<1>4. EditsShowIn(f)
    BY <1>3 DEF EditsShowIn
<1> HIDE DEF f
<1> QED BY <1>1, <1>2, <1>4, EditKeeps

LEMMA UndoTranslationKeeps ==
    ASSUME EntryInv, Entry!UndoTranslation
    PROVE  EntryInv' /\ EditsAskedAbout
<1> DEFINE f == [form EXCEPT !.ai = NoVersion, !.model = form.ai,
                             !.slipped = @ \/ (~form.dirty /\ form.ai # form.base)]
<1>1. /\ form \in EntryForms /\ fresh' \in Entry!Contents /\ Entry!Edit(f) /\ form.ai # NoVersion
    BY ShownForm DEF Entry!UndoTranslation, EntryInv, EntryTypes
<1>2. form.ai \in Entry!Contents
    BY <1>1 DEF EntryForms
<1>3. FormIsLike(f)
    BY <1>1, <1>2 DEF FormIsLike, EntryForms
<1>4. f.model # f.base => f.slipped \/ f.dirty
    BY <1>1 DEF EntryForms
<1>5. EditsShowIn(f)
    BY <1>4 DEF EditsShowIn
<1> HIDE DEF f
<1> QED BY <1>1, <1>3, <1>5, EditKeeps

LEMMA DismissKeeps ==
    ASSUME EntryInv, Entry!Dismiss
    PROVE  EntryInv' /\ EditsAskedAbout
<1>1. /\ form.shown /\ form' = [form EXCEPT !.remote = "none", !.excused = TRUE]
      /\ UNCHANGED <<server, fresh, url, loading, requests, calls, question, inbox>>
    BY DEF Entry!Dismiss, Entry!Edit
<1>2. form \in EntryForms
    BY <1>1, ShownForm DEF EntryInv
<1>3. /\ form' \in EntryForms /\ form'.shown /\ form'.key = form.key /\ form'.locale = form.locale
      /\ form'.missing = form.missing /\ form'.excused
      /\ form'.model = form.model /\ form'.base = form.base /\ form'.ai = form.ai
      /\ (form.slipped => form'.slipped) /\ (form.dirty => form'.dirty)
    BY <1>1, <1>2 DEF EntryForms
<1>4. EntryTypes' /\ PublishesTwice'
    BY <1>1, <1>3 DEF EntryInv, EntryTypes, PublishesTwice
<1>5. LatestIsOfTheRoute' /\ Entry!FormOfTheRoute'
    BY <1>1, <1>3, RouteStays
<1>6. ChangesAreTold' /\ EditsShow' /\ EditsAskedAbout
    BY <1>1, <1>3 DEF EntryInv, ChangesAreTold, EditsShow, EditsAskedAbout
<1> QED BY <1>4, <1>5, <1>6 DEF EntryInv

\* A request that is sent.
LEMMA SendKeeps ==
    ASSUME EntryInv, NEW c \in EntryCalls, NEW f, FormIsLike(f), EditsShowIn(f),
           c.key = form.key, c.locale = form.locale, c.at = "sent", Entry!Send(c, f)
    PROVE  EntryInv' /\ EditsAskedAbout
<1>1. /\ form.shown /\ form' = f /\ calls' = calls \union {c}
      /\ UNCHANGED <<server, fresh, url, loading, requests, question, inbox>>
    BY DEF Entry!Send
<1>2. calls' \subseteq EntryCalls /\ PublishesTwice'
    BY <1>1 DEF EntryInv, EntryTypes, PublishesTwice
<1>3. \A d \in calls' :
         \/ \E old \in calls : d.key = old.key /\ d.locale = old.locale
         \/ form.shown /\ d.key = form.key /\ d.locale = form.locale
    BY <1>1
<1>4. EditsShow'
    BY <1>1 DEF EditsShow, EditsShowIn
<1> QED BY <1>1, <1>2, <1>3, <1>4, FormStays DEF FormIsLike

\* A form of which only the buttons change.
LEMMA ButtonsOnly ==
    ASSUME EntryInv, form.shown, NEW f \in EntryForms, f.key = form.key, f.locale = form.locale,
           f.missing = form.missing, f.base = form.base, f.remote = form.remote,
           form.excused => f.excused, f.model = form.model, f.ai = form.ai,
           form.dirty => f.dirty, form.slipped => f.slipped
    PROVE  FormIsLike(f) /\ EditsShowIn(f)
<1>1. f.shown
    BY DEF EntryForms
<1> QED BY <1>1 DEF EntryInv, EditsShow, EditsShowIn, FormIsLike

LEMMA BusyIs ==
    ASSUME EntryInv, form.shown
    PROVE  /\ FormIsLike(form) /\ EditsShowIn(form)
           /\ FormIsLike([form EXCEPT !.busy = TRUE]) /\ EditsShowIn([form EXCEPT !.busy = TRUE])
           /\ FormIsLike([form EXCEPT !.translating = TRUE])
           /\ EditsShowIn([form EXCEPT !.translating = TRUE])
<1>1. form \in EntryForms
    BY ShownForm DEF EntryInv
<1> DEFINE f == [form EXCEPT !.busy = TRUE]
           g == [form EXCEPT !.translating = TRUE]
<1>2. /\ f \in EntryForms /\ f.key = form.key /\ f.locale = form.locale
      /\ f.missing = form.missing /\ f.base = form.base /\ f.remote = form.remote
      /\ (form.excused => f.excused) /\ f.model = form.model /\ f.ai = form.ai
      /\ (form.dirty => f.dirty) /\ (form.slipped => f.slipped)
    BY <1>1 DEF EntryForms
<1>3. /\ g \in EntryForms /\ g.key = form.key /\ g.locale = form.locale
      /\ g.missing = form.missing /\ g.base = form.base /\ g.remote = form.remote
      /\ (form.excused => g.excused) /\ g.model = form.model /\ g.ai = form.ai
      /\ (form.dirty => g.dirty) /\ (form.slipped => g.slipped)
    BY <1>1 DEF EntryForms
<1>4. FormIsLike(form) /\ EditsShowIn(form)
    BY <1>1, ButtonsOnly
<1> HIDE DEF f, g
<1>5. FormIsLike(f) /\ EditsShowIn(f) /\ FormIsLike(g) /\ EditsShowIn(g)
    BY <1>2, <1>3, ButtonsOnly
<1> QED BY <1>4, <1>5 DEF f, g

LEMMA SendsKeep ==
    ASSUME EntryInv,
           \/ \E publish \in BOOLEAN : Entry!Save(publish)
           \/ \E source \in Locales : Entry!Fill(source) \/ Entry!Translate(source)
           \/ Entry!Remove
    PROVE  EntryInv' /\ EditsAskedAbout
<1>1. form.shown /\ form \in EntryForms /\ form.model \in Entry!Contents
    BY ShownForm DEF Entry!Save, Entry!Fill, Entry!Translate, Entry!Remove, EntryInv, EntryForms
<1>2. ASSUME NEW op \in {"save", "publish"}
      PROVE  LET c == [Entry!Call(op) EXCEPT !.sent = form.model]
             IN  c \in EntryCalls /\ c.key = form.key /\ c.locale = form.locale /\ c.at = "sent"
    BY <1>1, CallIs DEF EntryInv, EntryCalls
<1>3. ASSUME NEW op \in {"fill", "translate"}, NEW source \in Locales
      PROVE  LET c == [Entry!Call(op) EXCEPT !.from = source]
             IN  c \in EntryCalls /\ c.key = form.key /\ c.locale = form.locale /\ c.at = "sent"
    BY <1>1, CallIs DEF EntryInv, EntryCalls
<1>4. CASE \E publish \in BOOLEAN : Entry!Save(publish)
    <2>1. PICK op \in {"save", "publish"} :
             Entry!Send([Entry!Call(op) EXCEPT !.sent = form.model], [form EXCEPT !.busy = TRUE])
        BY <1>4 DEF Entry!Save
    <2> QED BY <1>1, <1>2, <2>1, BusyIs, SendKeeps
<1>5. CASE \E source \in Locales : Entry!Fill(source)
    BY <1>1, <1>3, <1>5, BusyIs, SendKeeps DEF Entry!Fill
<1>6. CASE \E source \in Locales : Entry!Translate(source)
    BY <1>1, <1>3, <1>6, BusyIs, SendKeeps DEF Entry!Translate
<1>7. CASE Entry!Remove
    <2>1. Entry!Send(Entry!Call("delete"), form)
        BY <1>7 DEF Entry!Remove
    <2>2. /\ Entry!Call("delete") \in EntryCalls /\ Entry!Call("delete").key = form.key
          /\ Entry!Call("delete").locale = form.locale /\ Entry!Call("delete").at = "sent"
        BY <1>1, CallIs DEF EntryInv
    <2> QED BY <1>1, <2>1, <2>2, BusyIs, SendKeeps
<1> QED BY <1>4, <1>5, <1>6, <1>7

\* What an answer, or a failure, may make of the form: what it is told of stays, unless the
\* call had changed the entry; then the form has what the server has, or is excused.
Answers(c, f) ==
    /\ f \in EntryForms /\ f.key = form.key /\ f.locale = form.locale
    /\ \/ f.excused
       \/ server.draft[f.locale] = f.base
       \/ \E i \in 1 .. Len(inbox) : Entry!Heard(inbox[i], f)
       \/ /\ ~OwnChange(c) /\ f.missing = form.missing /\ f.base = form.base
          /\ f.remote = form.remote /\ ~form.excused

LEMMA AnswerKeeps ==
    ASSUME EntryInv, NEW c \in calls, NEW f, Entry!Answered(c, f), fresh' \in Entry!Contents,
           UNCHANGED <<server, url, loading, requests, question, inbox>>,
           Entry!Alive(c) => Answers(c, f) /\ EditsShowIn(f)
    PROVE  EntryInv' /\ EditsAskedAbout
<1>1. calls' = calls \ {c} /\ form' = IF Entry!Alive(c) THEN f ELSE form
    BY DEF Entry!Answered
<1>2. /\ form'.shown => form.shown /\ form'.key = form.key /\ form'.locale = form.locale
      /\ form.shown => form'.shown
    BY <1>1 DEF Answers, Entry!Alive, EntryForms
<1>3. EntryTypes' /\ PublishesTwice'
    BY <1>1 DEF EntryInv, EntryTypes, PublishesTwice, Answers
<1>4. LatestIsOfTheRoute' /\ Entry!FormOfTheRoute'
    <2>1. \A ld \in loading' : \E old \in loading : ld.n = old.n /\ ld.locale = old.locale
        OBVIOUS
    <2>2. \A d \in calls' : \E old \in calls : d.key = old.key /\ d.locale = old.locale
        BY <1>1
    <2> QED BY <1>2, <2>1, <2>2, RouteStays
<1>5. EditsShow' /\ EditsAskedAbout
    BY <1>1, <1>2 DEF EntryInv, EditsShow, EditsShowIn, EditsAskedAbout
<1>6. ChangesAreTold'
    <2>1. CASE Entry!Alive(c)
        <3>1. form' = f /\ form.shown
            BY <1>1, <2>1 DEF Entry!Alive
        <3>2. CASE \/ f.excused \/ server.draft[f.locale] = f.base
                   \/ \E i \in 1 .. Len(inbox) : Entry!Heard(inbox[i], f)
            BY <3>1, <3>2 DEF ChangesAreTold, Told, Entry!Heard
        <3>3. CASE /\ ~OwnChange(c) /\ f.missing = form.missing /\ f.base = form.base
                   /\ f.remote = form.remote /\ ~form.excused
            <4>1. \A d \in calls : d \in calls' \/ ~OwnChange(d)
                BY <1>1, <3>3
            <4> QED BY <1>2, <3>1, <3>3, <4>1, ToldStays
        <3> QED BY <2>1, <3>2, <3>3 DEF Answers
    <2>2. CASE ~Entry!Alive(c)
        <3>1. form' = form
            BY <1>1, <2>2
        <3>2. \A d \in calls : d \in calls' \/ ~OwnChange(d)
            BY <1>1, <2>2 DEF OwnChange
        <3> QED BY <3>1, <3>2, ToldStays
    <2> QED BY <2>1, <2>2
<1> QED BY <1>3, <1>4, <1>5, <1>6 DEF EntryInv

LEMMA CallOfTheForm ==
    ASSUME EntryInv, NEW c \in calls
    PROVE  /\ c \in EntryCalls
           /\ Entry!Alive(c) => /\ form.shown /\ form \in EntryForms /\ c.locale = form.locale
                                /\ form.locale \in Locales
<1>1. c \in EntryCalls
    BY DEF EntryInv, EntryTypes
<1>2. ASSUME Entry!Alive(c) PROVE c.locale = form.locale /\ form \in EntryForms /\ form.locale \in Locales
    <2>1. form.shown /\ form.key = c.key /\ form.key = requests /\ form.locale = url
        BY <1>2 DEF Entry!Alive, EntryInv, Entry!FormOfTheRoute
    <2>2. form \in EntryForms /\ form.locale \in Locales
        BY <2>1, ShownForm DEF EntryInv, EntryForms
    <2>3. url # Away
        BY <2>1, <2>2, EntryConstants
    <2> QED BY <2>1, <2>2, <2>3 DEF EntryInv, LatestIsOfTheRoute
<1> QED BY <1>1, <1>2 DEF Entry!Alive

LEMMA FailKeeps ==
    ASSUME EntryInv, NEW c \in calls, Entry!Fail(c)
    PROVE  EntryInv' /\ EditsAskedAbout
<1> DEFINE f == Entry!Failed(c, form)
<1>1. ASSUME Entry!Alive(c) PROVE Answers(c, f) /\ EditsShowIn(f)
    <2>1. c \in EntryCalls /\ form \in EntryForms /\ form.shown
        BY <1>1, CallOfTheForm
    <2> DEFINE g(t, b, x) == [form EXCEPT !.translating = t, !.busy = b, !.excused = x]
    <2>5. \E t, b, x \in BOOLEAN : f = g(t, b, x) /\ x = (form.excused \/ c.at # "sent")
        BY <2>1 DEF Entry!Failed, EntryForms
    <2>6. PICK t, b, x \in BOOLEAN : f = g(t, b, x) /\ x = (form.excused \/ c.at # "sent")
        BY <2>5
    <2> HIDE DEF f
    <2>7. /\ g(t, b, x) \in EntryForms /\ g(t, b, x).key = form.key /\ g(t, b, x).locale = form.locale
          /\ g(t, b, x).missing = form.missing /\ g(t, b, x).base = form.base
          /\ g(t, b, x).remote = form.remote
          /\ g(t, b, x).model = form.model /\ g(t, b, x).ai = form.ai
          /\ (form.dirty => g(t, b, x).dirty) /\ (form.slipped => g(t, b, x).slipped)
          /\ g(t, b, x).excused = x
        BY <2>1, ZenonT(40) DEF EntryForms
    <2> HIDE DEF g
    <2>2. /\ f \in EntryForms /\ f.key = form.key /\ f.locale = form.locale
          /\ f.missing = form.missing /\ f.base = form.base /\ f.remote = form.remote
          /\ f.model = form.model /\ f.ai = form.ai
          /\ (form.dirty => f.dirty) /\ (form.slipped => f.slipped) /\ f.excused = x
        BY <2>6, <2>7
    <2>3. EditsShowIn(f)
        BY <2>1, <2>2 DEF EntryInv, EditsShow, EditsShowIn
    <2>4. Answers(c, f)
        <3>1. f.excused \/ (~form.excused /\ c.at = "sent")
            BY <2>2, <2>6
        <3> QED BY <2>2, <3>1 DEF Answers, OwnChange
    <2> QED BY <2>3, <2>4
<1>2. Entry!Answered(c, f) /\ UNCHANGED <<server, fresh, url, loading, requests, question, inbox>>
    BY DEF Entry!Fail, Entry!Answered
<1>3. fresh' \in Entry!Contents
    BY <1>2 DEF EntryInv, EntryTypes
<1> HIDE DEF f
<1> QED BY <1>1, <1>2, <1>3, AnswerKeeps

LEMMA AnswerFillKeeps ==
    ASSUME EntryInv, NEW c \in calls, Entry!AnswerFill(c)
    PROVE  EntryInv' /\ EditsAskedAbout
<1> DEFINE f == [form EXCEPT !.model = server.draft[c.from], !.ai = NoVersion, !.busy = FALSE,
                             !.slipped = @ \/ ~form.dirty]
<1>1. ASSUME Entry!Alive(c) PROVE Answers(c, f) /\ EditsShowIn(f)
    <2>1. c \in EntryCalls /\ form \in EntryForms /\ form.shown
        BY <1>1, CallOfTheForm
    <2>2. server.draft[c.from] \in Entry!Contents /\ c.op = "fill"
        BY <2>1 DEF Entry!AnswerFill, EntryInv, EntryTypes, Versions, EntryCalls
    <2>3. /\ f \in EntryForms /\ f.key = form.key /\ f.locale = form.locale
          /\ f.missing = form.missing /\ f.base = form.base /\ f.remote = form.remote
          /\ (f.slipped \/ f.dirty) /\ (form.excused => f.excused)
        BY <2>1, <2>2, ZenonT(40) DEF EntryForms
    <2>4. EditsShowIn(f)
        BY <2>3 DEF EditsShowIn
    <2>5. Answers(c, f)
        BY <2>2, <2>3 DEF Answers, OwnChange
    <2> QED BY <2>4, <2>5
<1>2. Entry!Answered(c, f) /\ UNCHANGED <<server, fresh, url, loading, requests, question, inbox>>
    BY DEF Entry!AnswerFill
<1>3. fresh' \in Entry!Contents
    BY <1>2 DEF EntryInv, EntryTypes
<1> HIDE DEF f
<1> QED BY <1>1, <1>2, <1>3, AnswerKeeps

LEMMA AnswerTranslateKeeps ==
    ASSUME EntryInv, NEW c \in calls, Entry!AnswerTranslate(c)
    PROVE  EntryInv' /\ EditsAskedAbout
<1> DEFINE f == [form EXCEPT !.model = fresh + 1, !.translating = FALSE,
                             !.ai = IF @ = NoVersion THEN form.model ELSE @]
<1>0. fresh + 1 \in Entry!Contents /\ fresh' = fresh + 1
    BY EntryConstants DEF Entry!AnswerTranslate, EntryInv, EntryTypes, Entry!Contents
<1>1. ASSUME Entry!Alive(c) PROVE Answers(c, f) /\ EditsShowIn(f)
    <2>1. c \in EntryCalls /\ form \in EntryForms /\ form.shown /\ c.op = "translate"
        BY <1>1, CallOfTheForm DEF Entry!AnswerTranslate
    <2>2. form.model \in Entry!Contents /\ form.model # NoVersion
        BY <2>1, EntryConstants DEF EntryForms
    <2>3. /\ f \in EntryForms /\ f.key = form.key /\ f.locale = form.locale
          /\ f.missing = form.missing /\ f.base = form.base /\ f.remote = form.remote
          /\ f.ai # NoVersion /\ (form.excused => f.excused)
        BY <1>0, <2>1, <2>2, ZenonT(40) DEF EntryForms
    <2>4. EditsShowIn(f)
        BY <2>3 DEF EditsShowIn
    <2>5. Answers(c, f)
        BY <2>1, <2>3 DEF Answers, OwnChange
    <2> QED BY <2>4, <2>5
<1>2. Entry!Answered(c, f) /\ UNCHANGED <<server, url, loading, requests, question, inbox>>
    BY DEF Entry!AnswerTranslate
<1> HIDE DEF f
<1> QED BY <1>0, <1>1, <1>2, AnswerKeeps

LEMMA AnswerUnpublishKeeps ==
    ASSUME EntryInv, NEW c \in calls, Entry!AnswerUnpublish(c)
    PROVE  EntryInv' /\ EditsAskedAbout
<1> DEFINE f == [form EXCEPT !.published = FALSE, !.busy = FALSE]
<1>1. ASSUME Entry!Alive(c) PROVE Answers(c, f) /\ EditsShowIn(f)
    <2>1. c \in EntryCalls /\ form \in EntryForms /\ form.shown /\ c.op = "unpublish"
        BY <1>1, CallOfTheForm DEF Entry!AnswerUnpublish
    <2>2. /\ f \in EntryForms /\ f.key = form.key /\ f.locale = form.locale
          /\ f.missing = form.missing /\ f.base = form.base /\ f.remote = form.remote
          /\ f.model = form.model /\ f.ai = form.ai
          /\ (form.dirty => f.dirty) /\ (form.slipped => f.slipped) /\ (form.excused => f.excused)
        BY <2>1, ZenonT(40) DEF EntryForms
    <2>3. EditsShowIn(f)
        BY <2>1, <2>2 DEF EntryInv, EditsShow, EditsShowIn
    <2>4. Answers(c, f)
        BY <2>1, <2>2 DEF Answers, OwnChange
    <2> QED BY <2>3, <2>4
<1>2. Entry!Answered(c, f) /\ UNCHANGED <<server, fresh, url, loading, requests, question, inbox>>
    BY DEF Entry!AnswerUnpublish
<1>3. fresh' \in Entry!Contents
    BY <1>2 DEF EntryInv, EntryTypes
<1> HIDE DEF f
<1> QED BY <1>1, <1>2, <1>3, AnswerKeeps

\* The draft that the second request of a discard has read.
LEMMA ReadDiscardedKeeps ==
    ASSUME EntryInv, NEW c \in calls, Entry!ReadDiscarded(c)
    PROVE  EntryInv' /\ EditsAskedAbout
<1> DEFINE d == [c EXCEPT !.at = "read", !.sent = server.draft[c.locale]]
<1>1. /\ c \in EntryCalls /\ c.op = "discard-draft" /\ calls' = (calls \ {c}) \union {d}
      /\ server.draft[c.locale] # NoVersion
      /\ UNCHANGED <<server, fresh, url, loading, requests, form, question, inbox>>
    BY CallOfTheForm DEF Entry!ReadDiscarded
<1>2. server.draft[c.locale] \in Entry!Contents
    BY <1>1 DEF EntryInv, EntryTypes, Versions, EntryCalls
<1>3. /\ d \in EntryCalls /\ d.op = "discard-draft" /\ d.key = c.key /\ d.locale = c.locale
      /\ d.at = "read"
    BY <1>1, <1>2 DEF EntryCalls
<1> HIDE DEF d
<1>4. calls' \subseteq EntryCalls /\ PublishesTwice'
    BY <1>1, <1>3 DEF EntryInv, EntryTypes, PublishesTwice
<1>5. \A e \in calls' : \E old \in calls : e.key = old.key /\ e.locale = old.locale
    BY <1>1, <1>3
<1>6. \A e \in calls : e \in calls' \/ ~OwnChange(e) \/ \E k \in calls' : OwnChange(k)'
    BY <1>1, <1>3 DEF OwnChange, Entry!Alive
<1>7. form.shown => form \in EntryForms
    BY ShownForm DEF EntryInv
<1> QED BY <1>1, <1>4, <1>5, <1>6, <1>7, FormStays

LEMMA AnswerDiscardKeeps ==
    ASSUME EntryInv, NEW c \in calls, Entry!AnswerDiscard(c)
    PROVE  EntryInv' /\ EditsAskedAbout
<1> DEFINE read == [form EXCEPT !.model = c.sent, !.base = c.sent, !.ai = NoVersion,
                                !.dirty = FALSE, !.slipped = FALSE, !.remote = "none",
                                !.busy = FALSE]
           f == Entry!Noted(read)
<1>1. ASSUME Entry!Alive(c) PROVE Answers(c, f) /\ EditsShowIn(f)
    <2>1. c.sent \in Entry!Contents /\ form \in EntryForms /\ form.shown
        BY <1>1, CallOfTheForm DEF EntryCalls
    <2>2. /\ read \in EntryForms /\ read.key = form.key /\ read.locale = form.locale
          /\ read.model = read.base
        BY <2>1, ZenonT(40) DEF EntryForms
    <2> HIDE DEF read
    <2>3. /\ f \in EntryForms /\ f.key = form.key /\ f.locale = form.locale /\ f.model = f.base
          /\ \/ f.excused \/ server.draft[f.locale] = f.base
             \/ \E i \in 1 .. Len(inbox) : Entry!Heard(inbox[i], f)
        BY <2>2, NotedFormIs
    <2> HIDE DEF f
    <2> QED BY <2>3 DEF Answers, EditsShowIn
<1>2. Entry!Answered(c, f) /\ UNCHANGED <<server, fresh, url, loading, requests, question, inbox>>
    BY DEF Entry!AnswerDiscard
<1>3. fresh' \in Entry!Contents
    BY <1>2 DEF EntryInv, EntryTypes
<1> HIDE DEF f
<1> QED BY <1>1, <1>2, <1>3, AnswerKeeps

LEMMA AnswerSaveKeeps ==
    ASSUME EntryInv, NEW c \in calls, Entry!AnswerSave(c)
    PROVE  EntryInv' /\ EditsAskedAbout
<1>1. UNCHANGED <<server, fresh, question, inbox>> /\ fresh' \in Entry!Contents /\ c \in EntryCalls
    BY CallOfTheForm DEF Entry!AnswerSave, EntryInv, EntryTypes
<1>2. CASE url = Away
    <2>1. ~form.shown
        BY <1>2, EntryConstants, ShownForm DEF EntryInv, Entry!FormOfTheRoute, EntryForms
    <2>2. calls' = calls \ {c} /\ Entry!GoTo(c.locale) /\ c.locale \in Locales
        BY <1>1, <1>2 DEF Entry!AnswerSave, EntryCalls
    <2> QED BY <1>1, <2>1, <2>2, RouteGoes, FormGoes, NoFormIsHidden
<1>3. CASE url # Away
    <2> DEFINE f == Entry!Saved(c, form)
    <2>1. ASSUME Entry!Alive(c) PROVE Answers(c, f) /\ EditsShowIn(f)
        <3>1. c.sent \in Entry!Contents /\ form \in EntryForms /\ form.shown /\ c.locale = form.locale
            BY <1>1, <2>1, CallOfTheForm DEF EntryCalls
        <3> DEFINE g(p, s) ==
               [form EXCEPT !.missing = FALSE, !.base = c.sent, !.ai = NoVersion, !.dirty = FALSE,
                            !.remote = "none", !.busy = FALSE, !.published = p, !.slipped = s]
        <3>2. \E p, s \in BOOLEAN : f = Entry!Noted(g(p, s)) /\ s = (form.model # c.sent)
            BY <3>1 DEF Entry!Saved, EntryForms
        <3>3. PICK p, s \in BOOLEAN : f = Entry!Noted(g(p, s)) /\ s = (form.model # c.sent)
            BY <3>2
        <3> HIDE DEF f
        <3>4. g(p, s) \in EntryForms
            <4> DEFINE h == [form EXCEPT !.base = c.sent, !.ai = NoVersion, !.remote = "none"]
            <4>1. h \in EntryForms
                BY <3>1 DEF EntryForms
            <4>2. g(p, s) = [h EXCEPT !.missing = FALSE, !.dirty = FALSE, !.busy = FALSE,
                                      !.published = p, !.slipped = s]
                BY <3>1, ZenonT(40) DEF EntryForms
            <4> HIDE DEF h
            <4>3. [h EXCEPT !.missing = FALSE, !.dirty = FALSE, !.busy = FALSE,
                            !.published = p, !.slipped = s] \in EntryForms
                BY <4>1, ZenonT(40) DEF EntryForms
            <4> QED BY <4>2, <4>3
        <3>7. /\ g(p, s).key = form.key /\ g(p, s).locale = form.locale
              /\ g(p, s).base = c.sent /\ g(p, s).model = form.model
            BY <3>1 DEF EntryForms
        <3>8. g(p, s).slipped = s
            BY <3>1 DEF EntryForms
        <3> HIDE DEF g
        <3>6. /\ f \in EntryForms /\ f.key = form.key /\ f.locale = form.locale
              /\ f.base = c.sent /\ f.model = form.model /\ f.slipped = s
              /\ \/ f.excused \/ server.draft[f.locale] = f.base
                 \/ \E i \in 1 .. Len(inbox) : Entry!Heard(inbox[i], f)
            BY <3>3, <3>4, <3>7, <3>8, NotedFormIs
        <3>5. f.slipped \/ f.model = f.base
            BY <3>3, <3>6, ZenonT(40)
        <3> QED BY <3>5, <3>6 DEF Answers, EditsShowIn
    <2>2. Entry!Answered(c, f) /\ UNCHANGED <<url, loading, requests>>
        BY <1>3 DEF Entry!AnswerSave
    <2> HIDE DEF f
    <2> QED BY <1>1, <2>1, <2>2, AnswerKeeps
<1> QED BY <1>2, <1>3

LEMMA AnswerRemoveKeeps ==
    ASSUME EntryInv, NEW c \in calls, Entry!AnswerRemove(c)
    PROVE  EntryInv' /\ EditsAskedAbout
<1>1. /\ calls' = calls \ {c} /\ url' = Away /\ form' = Entry!NoForm /\ c.op = "delete"
      /\ UNCHANGED <<server, fresh, loading, requests, question, inbox>>
    BY DEF Entry!AnswerRemove
<1>2. LatestIsOfTheRoute'
    BY <1>1 DEF EntryInv, LatestIsOfTheRoute
<1>3. \E d \in calls \ calls' : d.op = "delete"
    BY <1>1
<1> QED BY <1>1, <1>2, <1>3, FormGoes, NoFormIsHidden DEF EntryInv, EntryTypes

\* A form that is told of a change it cannot place: it is excused.
LEMMA ExcusedIs ==
    ASSUME form \in EntryForms
    PROVE  LET f == [form EXCEPT !.excused = TRUE]
           IN  /\ f \in EntryForms /\ f.shown /\ f.key = form.key /\ f.locale = form.locale
               /\ f.missing = form.missing /\ f.base = form.base /\ f.remote = form.remote
               /\ f.model = form.model /\ f.ai = form.ai /\ f.excused
               /\ (form.dirty => f.dirty) /\ (form.slipped => f.slipped)
BY DEF EntryForms

\* What is written of a version, and of the others with it.
LEMMA WrittenIs ==
    ASSUME NEW v \in Versions, NEW l \in Locales, NEW text \in Entry!Contents \union {NoVersion},
           NEW shared \in BOOLEAN
    PROVE  /\ Entry!Written(v, l, text, shared) \in Versions
           /\ ~shared => \A k \in Locales : k # l => Entry!Written(v, l, text, shared)[k] = v[k]
BY DEF Entry!Written, Versions

LEMMA ServedIs ==
    ASSUME EntryInv, NEW c \in calls, c.op \notin {"fill", "translate"},
           c.at \in {"sent", "publishing"}, NEW shared \in BOOLEAN
    PROVE  /\ Entry!Served(c, server, shared) \in [draft: Versions, live: Versions]
           /\ c.op = "unpublish" => Entry!Served(c, server, shared).draft = server.draft
<1> DEFINE s == Entry!Served(c, server, shared)
<1>1. /\ c \in EntryCalls /\ server \in [draft: Versions, live: Versions]
      /\ c.at = "publishing" => c.op = "publish"
    BY DEF EntryInv, EntryTypes, PublishesTwice
<1>0. /\ c.locale \in Locales /\ c.sent \in Entry!Contents /\ server.draft \in Versions
      /\ server.live \in Versions /\ server.draft[c.locale] \in Entry!Contents \union {NoVersion}
      /\ server.live[c.locale] \in Entry!Contents \union {NoVersion}
    BY <1>1 DEF Versions, EntryCalls
<1>2. CASE c.op \in {"save", "publish"} /\ c.at = "sent"
    <2> DEFINE v == Entry!Written(server.draft, c.locale, c.sent, shared)
    <2>1. s = [server EXCEPT !.draft = v]
        BY <1>2 DEF Entry!Served
    <2>2. v \in Versions
        BY <1>0, WrittenIs
    <2> HIDE DEF v, s
    <2> QED BY <1>1, <1>2, <2>1, <2>2 DEF s
<1>3. CASE c.op = "publish" /\ c.at = "publishing"
    <2> DEFINE v == Entry!Written(server.live, c.locale, server.draft[c.locale], shared)
    <2>1. s = [server EXCEPT !.live = v]
        BY <1>3 DEF Entry!Served
    <2>2. v \in Versions
        BY <1>0, WrittenIs
    <2> HIDE DEF v, s
    <2> QED BY <1>1, <1>3, <2>1, <2>2 DEF s
<1>4. CASE c.op = "unpublish"
    <2>1. s = [server EXCEPT !.live[c.locale] = NoVersion]
        BY <1>4 DEF Entry!Served
    <2> QED BY <1>1, <1>4, <2>1 DEF Versions, EntryCalls
<1>5. CASE c.op = "discard-draft"
    <2>1. s = [server EXCEPT !.draft[c.locale] = server.live[c.locale]]
        BY <1>5 DEF Entry!Served
    <2> QED BY <1>1, <1>5, <2>1 DEF Versions, EntryCalls
<1>6. CASE c.op = "delete"
    <2>1. s = [server EXCEPT !.draft[c.locale] = NoVersion, !.live[c.locale] = NoVersion]
        BY <1>6 DEF Entry!Served
    <2>2. /\ [server.draft EXCEPT ![c.locale] = NoVersion] \in Versions
          /\ [server.live EXCEPT ![c.locale] = NoVersion] \in Versions
        BY <1>1 DEF Versions, EntryCalls
    <2>3. s = [draft |-> [server.draft EXCEPT ![c.locale] = NoVersion],
               live  |-> [server.live EXCEPT ![c.locale] = NoVersion]]
        BY <1>1, <2>1
    <2> QED BY <1>6, <2>2, <2>3
<1> QED BY <1>1, <1>2, <1>3, <1>4, <1>5, <1>6 DEF EntryCalls

LEMMA ServeKeeps ==
    ASSUME EntryInv, NEW c \in calls, Entry!Serve(c)
    PROVE  EntryInv' /\ EditsAskedAbout
<1> DEFINE d == [c EXCEPT !.at = IF @ = "sent" THEN "done" ELSE "published"]
<1>1. /\ c.op \notin {"fill", "translate"} /\ c.at \in {"sent", "publishing"} /\ c \in EntryCalls
      /\ calls' = (calls \ {c}) \union {d}
      /\ form' = IF form.shown /\ ~Entry!Alive(c) THEN [form EXCEPT !.excused = TRUE] ELSE form
      /\ UNCHANGED <<fresh, url, loading, requests, question, inbox>>
      /\ c.at = "publishing" => c.op = "publish"
    BY CallOfTheForm DEF Entry!Serve, EntryInv, PublishesTwice
<1>2. /\ d \in EntryCalls /\ d.op = c.op /\ d.key = c.key /\ d.locale = c.locale /\ d.at # "sent"
      /\ d.at = "published" => c.op = "publish"
      /\ d.at # "publishing"
    BY <1>1 DEF EntryCalls
<1> HIDE DEF d
<1>3. /\ server' \in [draft: Versions, live: Versions]
      /\ c.op = "unpublish" => server'.draft = server.draft
    <2>1. PICK shared \in BOOLEAN : server' = Entry!Served(c, server, shared)
        BY DEF Entry!Serve
    <2> QED BY <1>1, <2>1, ServedIs
<1>4. form.shown => form \in EntryForms
    BY ShownForm DEF EntryInv
<1>5. /\ form.shown <=> form'.shown
      /\ form.shown => /\ form' \in EntryForms /\ form'.key = form.key /\ form'.locale = form.locale
                       /\ form'.missing = form.missing
                       /\ form'.base = form.base /\ form'.remote = form.remote
                       /\ form'.model = form.model /\ form'.ai = form.ai
                       /\ (form.dirty => form'.dirty) /\ (form.slipped => form'.slipped)
                       /\ (form.excused => form'.excused)
    <2>1. CASE form.shown /\ ~Entry!Alive(c)
        BY <1>1, <1>4, <2>1, ExcusedIs
    <2>2. CASE ~(form.shown /\ ~Entry!Alive(c))
        BY <1>1, <1>4, <2>2
    <2> QED BY <2>1, <2>2
<1>6. EntryTypes' /\ PublishesTwice'
    <2>1. form' \in NoForms \union EntryForms
        BY <1>1, <1>5 DEF EntryInv, EntryTypes
    <2> QED BY <1>1, <1>2, <1>3, <2>1 DEF EntryInv, EntryTypes, PublishesTwice
<1>7. LatestIsOfTheRoute' /\ Entry!FormOfTheRoute'
    <2>1. \A e \in calls' : \E old \in calls : e.key = old.key /\ e.locale = old.locale
        BY <1>1, <1>2
    <2>2. \A ld \in loading' : \E old \in loading : ld.n = old.n /\ ld.locale = old.locale
        BY <1>1
    <2> QED BY <1>1, <1>5, <2>1, <2>2, RouteStays
<1>8. EditsShow' /\ EditsAskedAbout
    BY <1>5 DEF EntryInv, EditsShow, EditsAskedAbout
<1>9. ChangesAreTold'
    <2> SUFFICES ASSUME form'.shown, ~form'.missing, ~form'.excused PROVE Told(form)'
        BY DEF ChangesAreTold
    <2>1. Entry!Alive(c) /\ form' = form /\ form.shown /\ ~form.missing /\ ~form.excused
        BY <1>1, <1>4, <1>5, ExcusedIs
    <2>2. CASE c.op # "unpublish"
        <3>1. OwnChange(d)' /\ d \in calls'
            BY <1>1, <1>2, <2>1, <2>2 DEF OwnChange, Entry!Alive, EntryCalls
        <3> QED BY <3>1 DEF Told
    <2>3. CASE c.op = "unpublish"
        <3>1. Told(form) /\ ~OwnChange(c)
            BY <2>1, <2>3 DEF EntryInv, ChangesAreTold, OwnChange
        <3>2. \A e \in calls : OwnChange(e) => e \in calls' /\ OwnChange(e)'
            BY <1>1, <2>1, <3>1 DEF OwnChange, Entry!Alive
        <3>3. server'.draft = server.draft
            BY <1>3, <2>3
        <3>4. inbox' = inbox
            BY <1>1
        <3> QED BY <2>1, <3>1, <3>2, <3>3, <3>4 DEF Told, Entry!Heard
    <2> QED BY <2>2, <2>3
<1> QED BY <1>6, <1>7, <1>8, <1>9 DEF EntryInv

LEMMA SavedDraftKeeps ==
    ASSUME EntryInv, NEW c \in calls, Entry!SavedDraft(c)
    PROVE  EntryInv' /\ EditsAskedAbout
<1> DEFINE d == [c EXCEPT !.at = "publishing"]
           f == [form EXCEPT !.missing = FALSE, !.base = c.sent,
                   !.slipped = @ \/ (~Entry!HasUnsavedChanges(form) /\ form.model # c.sent)]
<1>1. /\ c \in EntryCalls /\ c.op = "publish" /\ calls' = (calls \ {c}) \union {d}
      /\ form' = IF Entry!Alive(c) THEN f ELSE form
      /\ UNCHANGED <<server, fresh, url, loading, requests, question, inbox>>
    BY CallOfTheForm DEF Entry!SavedDraft
<1>2. /\ d \in EntryCalls /\ d.op = "publish" /\ d.key = c.key /\ d.locale = c.locale
      /\ d.at = "publishing"
    BY <1>1 DEF EntryCalls
<1>3. ASSUME Entry!Alive(c)
      PROVE  /\ f \in EntryForms /\ f.shown /\ f.key = form.key /\ f.locale = form.locale
             /\ EditsShowIn(f)
    <2>1. form \in EntryForms /\ c.sent \in Entry!Contents /\ form.shown
        BY <1>1, <1>3, CallOfTheForm DEF EntryCalls
    <2>2. /\ f \in EntryForms /\ f.shown /\ f.key = form.key /\ f.locale = form.locale
          /\ f.model = form.model /\ f.base = c.sent /\ f.ai = form.ai /\ (form.dirty => f.dirty)
        BY <2>1, ZenonT(40) DEF EntryForms
    <2>3. f.slipped \/ Entry!HasUnsavedChanges(form) \/ form.model = c.sent
        BY <2>1 DEF EntryForms
    <2>4. EditsShowIn(f)
        BY <2>2, <2>3 DEF EditsShowIn, Entry!HasUnsavedChanges
    <2> QED BY <2>2, <2>4
<1> HIDE DEF d, f
<1>4. EntryTypes' /\ PublishesTwice'
    BY <1>1, <1>2, <1>3 DEF EntryInv, EntryTypes, PublishesTwice
<1>5. LatestIsOfTheRoute' /\ Entry!FormOfTheRoute'
    <2>1. \A e \in calls' : \E old \in calls : e.key = old.key /\ e.locale = old.locale
        BY <1>1, <1>2
    <2>2. \A ld \in loading' : \E old \in loading : ld.n = old.n /\ ld.locale = old.locale
        BY <1>1
    <2>3. form'.shown => form.shown /\ form'.key = form.key /\ form'.locale = form.locale
        BY <1>1, <1>3 DEF Entry!Alive
    <2> QED BY <1>1, <2>1, <2>2, <2>3, RouteStays
<1>6. EditsShow' /\ EditsAskedAbout
    BY <1>1, <1>3 DEF EntryInv, EditsShow, EditsShowIn, EditsAskedAbout, Entry!Alive
<1>7. ChangesAreTold'
    <2>1. CASE Entry!Alive(c)
        <3>1. d \in calls' /\ OwnChange(d)'
            BY <1>1, <1>2, <1>3, <2>1 DEF OwnChange, Entry!Alive
        <3> QED BY <3>1 DEF ChangesAreTold, Told
    <2>2. CASE ~Entry!Alive(c)
        <3>1. form' = form /\ \A e \in calls : e \in calls' \/ ~OwnChange(e)
            BY <1>1, <2>2 DEF OwnChange
        <3> QED BY <1>1, <3>1, ToldStays
    <2> QED BY <2>1, <2>2
<1> QED BY <1>4, <1>5, <1>6, <1>7 DEF EntryInv

LEMMA RemoteChangeKeeps ==
    ASSUME EntryInv, Entry!RemoteChange
    PROVE  EntryInv' /\ EditsAskedAbout
<1>1. UNCHANGED <<url, loading, requests, calls, question>>
    BY DEF Entry!RemoteChange
<1>2. PICK l \in Locales, m \in Messages, shared \in BOOLEAN :
         /\ m.event = "entry.delete" \/ m.locale = l
         /\ server' \in [draft: Versions, live: Versions] /\ fresh' \in Entry!Contents
         /\ ~shared => \A k \in Locales : k # l => server'.draft[k] = server.draft[k]
         /\ inbox' = Append(inbox, m)
         /\ form' = IF form.shown /\ shared /\ form.locale # l
                    THEN [form EXCEPT !.excused = TRUE] ELSE form
    <2>1. PICK l \in Locales :
         \/ /\ Entry!Exists(server) /\ fresh < MaxValue /\ fresh' = fresh + 1
            /\ \E shared \in BOOLEAN :
                 /\ server' = [server EXCEPT !.draft = Entry!Written(@, l, fresh + 1, shared)]
                 /\ form' = IF form.shown /\ shared /\ form.locale # l
                            THEN [form EXCEPT !.excused = TRUE] ELSE form
            /\ inbox' = Append(inbox, [event |-> "entry.update", locale |-> l])
         \/ /\ server.draft[l] # NoVersion /\ UNCHANGED <<fresh, form>>
            /\ server' = [server EXCEPT !.draft[l] = NoVersion, !.live[l] = NoVersion]
            /\ inbox' = Append(inbox, [event |-> "entry.delete", locale |-> l])
        BY DEF Entry!RemoteChange
    <2>2. server \in [draft: Versions, live: Versions] /\ fresh \in Entry!Contents
        BY DEF EntryInv, EntryTypes
    <2>3. CASE /\ fresh < MaxValue /\ fresh' = fresh + 1
               /\ \E shared \in BOOLEAN :
                    /\ server' = [server EXCEPT !.draft = Entry!Written(@, l, fresh + 1, shared)]
                    /\ form' = IF form.shown /\ shared /\ form.locale # l
                               THEN [form EXCEPT !.excused = TRUE] ELSE form
               /\ inbox' = Append(inbox, [event |-> "entry.update", locale |-> l])
        <3>1. fresh' \in Entry!Contents
            BY <2>2, <2>3, EntryConstants DEF Entry!Contents
        <3>5. PICK shared \in BOOLEAN :
                 /\ server' = [server EXCEPT !.draft = Entry!Written(@, l, fresh + 1, shared)]
                 /\ form' = IF form.shown /\ shared /\ form.locale # l
                            THEN [form EXCEPT !.excused = TRUE] ELSE form
            BY <2>3
        <3> DEFINE v == Entry!Written(server.draft, l, fresh + 1, shared)
        <3>6. v \in Versions /\ (~shared => \A k \in Locales : k # l => v[k] = server.draft[k])
            BY <2>2, <2>3, <3>1, WrittenIs
        <3>7. server' = [server EXCEPT !.draft = v]
            BY <3>5
        <3> HIDE DEF v
        <3>2. server' \in [draft: Versions, live: Versions] /\ server'.draft = v
            BY <2>2, <3>6, <3>7
        <3>4. [event |-> "entry.update", locale |-> l] \in Messages
            BY DEF Messages, Entry!Events
        <3> QED BY <2>3, <3>1, <3>2, <3>4, <3>5, <3>6
    <2>4. CASE /\ UNCHANGED <<fresh, form>>
               /\ server' = [server EXCEPT !.draft[l] = NoVersion, !.live[l] = NoVersion]
               /\ inbox' = Append(inbox, [event |-> "entry.delete", locale |-> l])
        <3>1. server' \in [draft: Versions, live: Versions]
            BY <2>2, <2>4 DEF Versions
        <3>4. FALSE \in BOOLEAN
            OBVIOUS
        <3>2. \A k \in Locales : k # l => server'.draft[k] = server.draft[k]
            BY <2>2, <2>4 DEF Versions
        <3>3. [event |-> "entry.delete", locale |-> l] \in Messages
            BY DEF Messages, Entry!Events
        <3> QED BY <2>2, <2>4, <3>1, <3>2, <3>3, <3>4
    <2> QED BY <2>1, <2>3, <2>4
<1>3. inbox \in Seq(Messages)
    BY DEF EntryInv, EntryTypes
<1>4. /\ inbox' \in Seq(Messages) /\ Len(inbox') = Len(inbox) + 1 /\ inbox'[Len(inbox) + 1] = m
      /\ \A i \in 1 .. Len(inbox) : i \in 1 .. Len(inbox') /\ inbox'[i] = inbox[i]
      /\ Len(inbox) + 1 \in 1 .. Len(inbox')
    BY <1>2, <1>3
<1>8. /\ form'.shown <=> form.shown
      /\ ~form.shown => form' = form
      /\ form.shown => /\ form' \in EntryForms /\ form'.key = form.key /\ form'.locale = form.locale
                       /\ form'.model = form.model /\ form'.base = form.base /\ form'.ai = form.ai
                       /\ (form.dirty => form'.dirty) /\ (form.slipped => form'.slipped)
                       /\ form' = form \/ form'.excused
      /\ form.shown /\ ~form'.excused => ~shared \/ form.locale = l
    <2>1. form.shown => form \in EntryForms
        BY ShownForm DEF EntryInv
    <2>2. CASE form.shown /\ shared /\ form.locale # l
        BY <1>2, <2>1, <2>2, ExcusedIs
    <2>3. CASE ~(form.shown /\ shared /\ form.locale # l)
        BY <1>2, <2>1, <2>3
    <2> QED BY <2>2, <2>3
<1>5. EntryTypes'
    BY <1>1, <1>2, <1>4, <1>8 DEF EntryInv, EntryTypes
<1>6. LatestIsOfTheRoute' /\ Entry!FormOfTheRoute' /\ EditsShow' /\ PublishesTwice' /\ EditsAskedAbout
    BY <1>1, <1>8
    DEF EntryInv, LatestIsOfTheRoute, Entry!FormOfTheRoute, EditsShow, PublishesTwice, EditsAskedAbout
<1>7. ChangesAreTold'
    <2> SUFFICES ASSUME form'.shown, ~form'.missing, ~form'.excused PROVE Told(form)'
        BY DEF ChangesAreTold
    <2>0. form' = form /\ form.shown /\ ~form.missing /\ ~form.excused
        BY <1>8
    <2>1. form \in EntryForms /\ form.locale \in Locales
        BY <2>0, ShownForm DEF EntryInv, EntryForms
    <2>2. CASE Entry!Heard(m, form)
        BY <2>0, <1>4, <2>2 DEF Told, Entry!Heard
    <2>3. CASE ~Entry!Heard(m, form)
        <3>1. server'.draft[form.locale] = server.draft[form.locale]
            BY <1>2, <1>8, <2>0, <2>1, <2>3 DEF Entry!Heard
        <3>2. Told(form)
            BY <2>0 DEF EntryInv, ChangesAreTold
        <3> QED BY <1>1, <1>4, <2>0, <3>1, <3>2 DEF Told, Entry!Heard, OwnChange, Entry!Alive
    <2> QED BY <2>2, <2>3
<1> QED BY <1>5, <1>6, <1>7 DEF EntryInv

LEMMA TailIs ==
    ASSUME inbox \in Seq(Messages), inbox # <<>>, inbox' = Tail(inbox)
    PROVE  /\ inbox' \in Seq(Messages) /\ Head(inbox) \in Messages /\ Head(inbox) = inbox[1]
           /\ \A i \in 1 .. Len(inbox) : i = 1 \/ (i - 1 \in 1 .. Len(inbox') /\ inbox'[i - 1] = inbox[i])
OBVIOUS

LEMMA DeliveredKeeps ==
    ASSUME EntryInv, Entry!Deliver \/ Entry!Missed
    PROVE  EntryInv' /\ EditsAskedAbout
<1> DEFINE m == Head(inbox)
<1>1. /\ inbox # <<>> /\ inbox' = Tail(inbox)
      /\ UNCHANGED <<server, fresh, url, loading, requests, calls, question>>
    BY DEF Entry!Deliver, Entry!Missed
<1>2. /\ inbox' \in Seq(Messages) /\ m \in Messages /\ m = inbox[1]
      /\ \A i \in 1 .. Len(inbox) : i = 1 \/ (i - 1 \in 1 .. Len(inbox') /\ inbox'[i - 1] = inbox[i])
    BY <1>1, TailIs DEF EntryInv, EntryTypes
<1>3. /\ form.shown <=> form'.shown
      /\ ~form.shown => form' = form
      /\ form.shown => /\ form' \in EntryForms /\ form'.key = form.key /\ form'.locale = form.locale
                       /\ form'.missing = form.missing /\ form'.base = form.base
                       /\ form'.model = form.model /\ form'.ai = form.ai
                       /\ (form.dirty => form'.dirty) /\ (form.slipped => form'.slipped)
                       /\ \/ form'.excused \/ form'.missing
                          \/ form'.remote # "none"
                          \/ ~Entry!Heard(m, form) /\ form'.remote = form.remote /\ ~form.excused
    <2>1. CASE ~form.shown
        BY <2>1 DEF Entry!Deliver, Entry!Missed
    <2>2. CASE form.shown
        <3>1. form \in EntryForms
            BY <2>2, ShownForm DEF EntryInv
        <3>2. CASE Entry!Missed
            BY <2>2, <3>1, <3>2, ExcusedIs DEF Entry!Missed
        <3>3. CASE Entry!Deliver /\ Entry!Heard(m, form)
            <4>1. form' = [form EXCEPT !.remote = m.event]
                BY <2>2, <3>3 DEF Entry!Deliver
            <4>2. m.event \in Entry!Events /\ m.event # "none"
                BY <1>2 DEF Messages, Entry!Events
            <4> QED BY <2>2, <3>1, <4>1, <4>2 DEF EntryForms
        <3>4. CASE Entry!Deliver /\ ~Entry!Heard(m, form)
            <4>1. form' = [form EXCEPT !.excused = @ \/ form.missing]
                BY <2>2, <3>4 DEF Entry!Deliver
            <4>2. /\ form' \in EntryForms /\ form'.key = form.key /\ form'.locale = form.locale
                  /\ form'.missing = form.missing /\ form'.base = form.base
                  /\ form'.model = form.model /\ form'.ai = form.ai /\ form'.remote = form.remote
                  /\ (form.dirty => form'.dirty) /\ (form.slipped => form'.slipped) /\ form'.shown
                  /\ (form.excused => form'.excused)
                BY <3>1, <4>1 DEF EntryForms
            <4> QED BY <2>2, <3>4, <4>2
        <3> QED BY <3>2, <3>3, <3>4
    <2> QED BY <2>1, <2>2
<1>4. EntryTypes' /\ PublishesTwice'
    BY <1>1, <1>2, <1>3 DEF EntryInv, EntryTypes, PublishesTwice
<1>5. LatestIsOfTheRoute' /\ Entry!FormOfTheRoute' /\ EditsShow' /\ EditsAskedAbout
    BY <1>1, <1>3
    DEF EntryInv, LatestIsOfTheRoute, Entry!FormOfTheRoute, EditsShow, EditsAskedAbout
<1>6. ChangesAreTold'
    <2> SUFFICES ASSUME form'.shown, ~form'.missing, ~form'.excused, form'.remote = "none"
                 PROVE  Told(form)'
        BY DEF ChangesAreTold, Told
    <2>1. /\ form.shown /\ ~form.missing /\ ~form.excused /\ form.remote = "none"
          /\ ~Entry!Heard(m, form) /\ form'.locale = form.locale /\ form'.base = form.base
          /\ form'.key = form.key /\ form'.missing = form.missing
        BY <1>3
    <2>2. Told(form)
        BY <2>1 DEF EntryInv, ChangesAreTold
    <2>3. CASE \E c \in calls : OwnChange(c)
        BY <1>1, <2>1, <2>3 DEF Told, OwnChange, Entry!Alive
    <2>4. CASE \E i \in 1 .. Len(inbox) : Entry!Heard(inbox[i], form)
        <3>1. PICK i \in 1 .. Len(inbox) : Entry!Heard(inbox[i], form)
            BY <2>4
        <3>2. i - 1 \in 1 .. Len(inbox') /\ inbox'[i - 1] = inbox[i]
            BY <1>2, <2>1, <3>1
        <3> QED BY <2>1, <3>1, <3>2 DEF Told, Entry!Heard
    <2> QED BY <1>1, <2>1, <2>2, <2>3, <2>4 DEF Told
<1> QED BY <1>4, <1>5, <1>6 DEF EntryInv

LEMMA EntryStarts ==
    ASSUME NEW ls \in SUBSET Locales, Entry!Starts(ls)
    PROVE  EntryInv
<1>1. /\ server.draft \in Versions /\ server.live \in Versions
      /\ server \in [draft: Versions, live: Versions]
    <2>1. /\ [l \in Locales |-> IF l \in ls THEN 1 ELSE NoVersion] \in Versions
          /\ [l \in Locales |-> NoVersion] \in Versions
        BY EntryConstants DEF Versions
    <2> QED BY <2>1 DEF Entry!Starts
<1>2. /\ fresh = 1 /\ url = Home /\ requests = 1 /\ form = Entry!NoForm /\ calls = {}
      /\ question = Entry!NoQuestion /\ inbox = <<>>
      /\ loading = {[n |-> 1, locale |-> Home, at |-> "versions", doc |-> Entry!Empty,
                     missing |-> FALSE]}
    BY DEF Entry!Starts
<1>3. loading \subseteq EntryLoads
    BY <1>2, EntryConstants DEF EntryLoads
<1>4. EntryTypes
    BY <1>1, <1>2, <1>3, EntryConstants, NoFormIsHidden DEF EntryTypes
<1>5. LatestIsOfTheRoute /\ PublishesTwice
    BY <1>2 DEF LatestIsOfTheRoute, PublishesTwice
<1> QED BY <1>2, <1>4, <1>5, NoFormIsHidden
    DEF EntryInv, Entry!FormOfTheRoute, EditsShow, ChangesAreTold

LEMMA EntryStays ==
    ASSUME EntryInv, UNCHANGED Entry!vars
    PROVE  EntryInv'
BY DEF Entry!vars, EntryInv, EntryTypes, PublishesTwice, LatestIsOfTheRoute,
       Entry!FormOfTheRoute, EditsShow, ChangesAreTold, Told, OwnChange, Entry!Heard, Entry!Alive

LEMMA EntryKeeps ==
    ASSUME EntryInv, Entry!Next
    PROVE  EntryInv' /\ EditsAskedAbout
<1>1. CASE Entry!Progress
    BY <1>1, LoadVersionsKeeps, LoadDocumentKeeps, LoadShownKeeps, ServeKeeps, FailKeeps,
       SavedDraftKeeps, AnswerSaveKeeps, AnswerFillKeeps, AnswerTranslateKeeps,
       AnswerUnpublishKeeps, ReadDiscardedKeeps, AnswerDiscardKeeps, AnswerRemoveKeeps, DeliveredKeeps
    DEF Entry!Progress
<1>2. CASE Entry!Admin
    BY <1>2, SwitchLocaleKeeps, FollowLinkKeeps, OpenEntryKeeps, SendsKeep, LeavePageKeeps, ReloadRemoteKeeps,
       DeclineKeeps, AcceptKeeps, TypeKeeps, DismissKeeps, KeepTranslationKeeps,
       UndoTranslationKeeps, ConfirmActionKeeps
    DEF Entry!Admin
<1> QED BY <1>1, <1>2, RemoteChangeKeeps, DeliveredKeeps DEF Entry!Next

LEMMA EntryInvariance == Spec => []EntryInv
<1>1. EntryInv /\ [Next]_vars => EntryInv'
    <2>1. [Next]_vars => Entry!Next \/ UNCHANGED Entry!vars
        BY DEF Next, Only, vars, entryVars, Entry!vars
    <2> QED BY <2>1, EntryKeeps, EntryStays
<1>2. Init => EntryInv
    BY EntryStarts DEF Init, Entry!Init
<1> QED BY <1>1, <1>2, PTL DEF Spec

LEMMA FormEditsAreAskedAbout == Spec => Entry!KnownEditsAreAskedAbout
<1>1. EntryInv /\ [Next]_vars => [EditsAskedAbout]_(Entry!vars)
    <2>1. [Next]_vars => Entry!Next \/ UNCHANGED Entry!vars
        BY DEF Next, Only, vars, entryVars, Entry!vars
    <2> QED BY <2>1, EntryKeeps
<1> QED BY <1>1, EntryInvariance, PTL DEF Spec, Entry!KnownEditsAreAskedAbout, EditsAskedAbout

\* A form that is open, waits for nothing and says nothing shows the draft the server has
\* (ChangesAreAnnounced).
THEOREM ChangesAreSaid == Spec => []ChangesAreAnnounced
<1>1. EntryInv => ChangesAreAnnounced
    BY DEF EntryInv, ChangesAreTold, Told, ChangesAreAnnounced, Entry!ChangesAreAnnounced
<1> QED BY <1>1, EntryInvariance, PTL

LEMMA FormIsOfTheRoute == Spec => []Entry!FormOfTheRoute
BY EntryInvariance, PTL DEF EntryInv

LEMMA EntryTyped == EntryInv => Entry!TypeOK
<1> SUFFICES ASSUME EntryInv PROVE Entry!TypeOK
    OBVIOUS
<1>1. form.shown => form \in EntryForms /\ form.key = requests
    BY ShownForm DEF EntryInv, Entry!FormOfTheRoute
<1>2. form.shown => /\ form.key \in 1 .. requests /\ form.locale \in Locales
                    /\ {form.model, form.base} \subseteq Entry!Contents
                    /\ form.ai \in Entry!Contents \union {NoVersion}
    BY <1>1 DEF EntryForms
<1>3. \A c \in calls : c.key \in 1 .. requests /\ c.locale \in Locales
    BY DEF EntryInv, EntryTypes, EntryCalls, LatestIsOfTheRoute
<1>4. server.draft \in Versions /\ server.live \in Versions /\ url \in Locales \union {Away}
    BY DEF EntryInv, EntryTypes
<1> QED BY <1>2, <1>3, <1>4 DEF Entry!TypeOK, Versions

\* Edits of an entry, or of a content type, go only when the admin said so, as far as the
\* page's own flags can know of them (KnownEditsAreAskedAbout).
THEOREM EditsGoWithTheAdminsWord == Spec => KnownEditsAreAskedAbout
BY FormEditsAreAskedAbout, DraftsAreAskedAbout DEF KnownEditsAreAskedAbout
-----------------------------------------------------------------------------
(* The content list. *)

EntriesOfLocales == [ListLocales -> SUBSET ListEntries]

Listings ==
    [n: Nat \ {0}, query: List!Queries, at: {"page", "published"}, rows: SUBSET ListEntries,
     pages: Int]

Bulks ==
    [action: List!Actions, locale: ListLocales, sent: SUBSET ListEntries,
     done: SUBSET ListEntries, targets: SUBSET ListEntries]

ListTypes ==
    /\ content \in [draft: EntriesOfLocales, published: EntriesOfLocales]
    /\ query \in List!Queries
    /\ documents \in [of: List!Queries, rows: SUBSET ListEntries, pages: Int]
    /\ published \in [of: SUBSET ListEntries, live: SUBSET ListEntries]
    /\ listRequests \in Nat \ {0} /\ listLoads \subseteq Listings
    /\ selection \subseteq ListEntries /\ confirming \in List!Actions \union {"none"}
    /\ bulk = List!NoBulk \/ bulk \in Bulks

\* The latest load is of what is listed.
LatestIsOfTheQuery ==
    \A ld \in listLoads : ld.n <= listRequests /\ (ld.n = listRequests => ld.query = query)

BulkIsLimited ==
    List!Running => bulk.sent \subseteq bulk.targets /\ Cardinality(bulk.sent) <= BulkConcurrency

ListInv == ListTypes /\ LatestIsOfTheQuery /\ BulkIsLimited /\ List!RowsAreOfTheQuery

LEMMA ListConstants ==
    /\ FirstLocale \in ListLocales /\ FirstLive \subseteq ListEntries /\ IsFiniteSet(ListEntries)
    /\ PageSize \in Nat \ {0} /\ BulkConcurrency \in Nat \ {0}
<1>1. \A S : List!IsFiniteSet(S) <=> IsFiniteSet(S)
    BY DEF IsFiniteSet, List!IsFiniteSet
<1> QED BY <1>1, PanelAssumption DEF PanelAssumption, List!ListAssumption

LEMMA ListCardinality == \A S : List!Cardinality(S) = Cardinality(S)
BY DEF Cardinality, List!Cardinality

LEMMA SomeEntries ==
    ASSUME NEW S \in SUBSET ListEntries
    PROVE  IsFiniteSet(S) /\ Cardinality(S) \in Nat
BY ListConstants, FS_Subset, FS_CardinalityType

\* The answer of the server to a query.
LEMMA ListPageIs ==
    ASSUME ListTypes, NEW q \in List!Queries
    PROVE  List!PageOf(q) \subseteq ListEntries /\ List!PageCount(q) \in Int
<1>1. List!Matching(q) \subseteq ListEntries
    BY DEF List!Matching, ListTypes, EntriesOfLocales, List!Queries
<1>2. List!PageOf(q) \subseteq ListEntries
    BY <1>1 DEF List!PageOf
<1>3. Cardinality(List!Matching(q)) \in Nat
    BY <1>1, SomeEntries
<1>4. List!PageCount(q) \in Int
    BY <1>3, ListCardinality, ListConstants DEF List!PageCount
<1> QED BY <1>2, <1>4

LEMMA ListingIs ==
    ASSUME NEW q \in List!Queries, NEW n \in Nat \ {0}
    PROVE  List!Listing(q, n) \in Listings /\ List!Listing(q, n).n = n /\ List!Listing(q, n).query = q
BY DEF List!Listing, Listings

\* Something else is listed, or the same again.
LEMMA ListsAnew ==
    ASSUME ListInv, NEW q \in List!Queries, query' = q, listRequests' = listRequests + 1,
           NEW others \in SUBSET listLoads,
           listLoads' = others \union {List!Listing(q, listRequests + 1)}, listing'
    PROVE  /\ query' \in List!Queries /\ listRequests' \in Nat \ {0} /\ listLoads' \subseteq Listings
           /\ LatestIsOfTheQuery' /\ List!RowsAreOfTheQuery'
<1> DEFINE new == List!Listing(q, listRequests + 1)
<1>1. listRequests \in Nat \ {0} /\ listRequests' \in Nat \ {0}
    BY DEF ListInv, ListTypes
<1>2. new \in Listings /\ new.n = listRequests' /\ new.query = query'
    BY <1>1, ListingIs
<1> HIDE DEF new
<1>3. \A ld \in others : ld \in Listings /\ ld.n <= listRequests /\ ld.n \in Nat
    BY DEF ListInv, ListTypes, Listings, LatestIsOfTheQuery
<1>4. LatestIsOfTheQuery'
    <2> SUFFICES ASSUME NEW ld \in listLoads'
                 PROVE  ld.n <= listRequests' /\ (ld.n = listRequests' => ld.query = query')
        BY DEF LatestIsOfTheQuery
    <2>1. CASE ld = new
        BY <1>1, <1>2, <2>1
    <2>2. CASE ld \in others
        BY <1>1, <1>3, <2>2
    <2> QED BY <2>1, <2>2 DEF new
<1>5. listLoads' \subseteq Listings
    BY <1>2, <1>3 DEF new
<1> QED BY <1>1, <1>4, <1>5 DEF List!RowsAreOfTheQuery

LEMMA ChangeKeeps ==
    ASSUME ListInv, NEW q \in List!Queries, List!Change(q)
    PROVE  ListInv'
<1>1. /\ List!Lists(q) /\ UNCHANGED <<content, confirming, bulk, documents, published>>
    BY DEF List!Change, List!serverAndBulk
<1>2. /\ query' \in List!Queries /\ listRequests' \in Nat \ {0} /\ listLoads' \subseteq Listings
      /\ LatestIsOfTheQuery' /\ List!RowsAreOfTheQuery' /\ selection' = {}
    BY <1>1, ListsAnew DEF List!Lists
<1> QED BY <1>1, <1>2 DEF ListInv, ListTypes, BulkIsLimited, List!Running

LEMMA QueriesChange ==
    ASSUME ListInv,
           \/ \E l \in ListLocales : List!SetLocale(l)
           \/ \E f \in List!Filters : List!SetFilter(f)
           \/ \E p \in 1 .. List!Cardinality(ListEntries) : List!SetPage(p)
           \/ List!Refresh
    PROVE  ListInv'
<1>1. query \in List!Queries
    BY DEF ListInv, ListTypes
<1>2. CASE \E l \in ListLocales : List!SetLocale(l)
    <2>1. PICK l \in ListLocales : List!Change([query EXCEPT !.locale = l, !.page = 1])
        BY <1>2 DEF List!SetLocale
    <2>2. [query EXCEPT !.locale = l, !.page = 1] \in List!Queries
        BY <1>1, 1 \in Nat \ {0} DEF List!Queries
    <2> QED BY <2>1, <2>2, ChangeKeeps
<1>3. CASE \E f \in List!Filters : List!SetFilter(f)
    <2>1. PICK f \in List!Filters : List!Change([query EXCEPT !.filter = f, !.page = 1])
        BY <1>3 DEF List!SetFilter
    <2>2. [query EXCEPT !.filter = f, !.page = 1] \in List!Queries
        BY <1>1, 1 \in Nat \ {0} DEF List!Queries
    <2> QED BY <2>1, <2>2, ChangeKeeps
<1>4. CASE \E p \in 1 .. List!Cardinality(ListEntries) : List!SetPage(p)
    <2>1. List!Cardinality(ListEntries) \in Nat
        BY ListCardinality, SomeEntries
    <2>2. PICK p \in Nat \ {0} : List!Change([query EXCEPT !.page = p])
        BY <1>4, <2>1 DEF List!SetPage
    <2>3. [query EXCEPT !.page = p] \in List!Queries
        BY <1>1, <2>2 DEF List!Queries
    <2> QED BY <2>2, <2>3, ChangeKeeps
<1> QED BY <1>1, <1>2, <1>3, <1>4, ChangeKeeps DEF List!Refresh

LEMMA PageArrivesKeeps ==
    ASSUME ListInv, NEW ld \in listLoads, List!PageArrives(ld)
    PROVE  ListInv'
<1> DEFINE last == List!PageCount(ld.query)
           rows == List!PageOf(ld.query)
           next == [ld EXCEPT !.at = "published", !.rows = rows, !.pages = last]
           q == [query EXCEPT !.page = IF last > 1 THEN last ELSE 1]
<1>1. UNCHANGED <<content, confirming, bulk, documents, published>> /\ ld \in Listings
    BY DEF List!PageArrives, List!serverAndBulk, ListInv, ListTypes
<1>2. rows \subseteq ListEntries /\ last \in Int
    BY <1>1, ListPageIs DEF Listings, ListInv
<1>3. /\ next \in Listings /\ next.n = ld.n /\ next.query = ld.query
      /\ q \in List!Queries
    <2>1. (IF last > 1 THEN last ELSE 1) \in Nat \ {0}
        BY <1>2
    <2> HIDE DEF last, rows
    <2>2. next \in Listings /\ next.n = ld.n /\ next.query = ld.query
        BY <1>1, <1>2 DEF Listings
    <2>3. q \in List!Queries
        BY <2>1 DEF ListInv, ListTypes, List!Queries
    <2> QED BY <2>2, <2>3
<1>4. \/ listLoads' = listLoads \ {ld} /\ UNCHANGED <<query, listRequests, listing, listError,
                                                      selection>>
      \/ /\ query' = q /\ listRequests' = listRequests + 1
         /\ listLoads' = (listLoads \ {ld}) \union {List!Listing(q, listRequests + 1)}
         /\ listing' /\ selection' = {}
      \/ /\ listLoads' = (listLoads \ {ld}) \union {next}
         /\ UNCHANGED <<query, listRequests, listing, listError, selection>>
    BY DEF List!PageArrives
<1> HIDE DEF next, q, last, rows
<1>5. CASE /\ listLoads' \subseteq (listLoads \ {ld}) \union {next}
           /\ UNCHANGED <<query, listRequests, listing, listError, selection>>
    BY <1>1, <1>3, <1>5
    DEF ListInv, ListTypes, LatestIsOfTheQuery, BulkIsLimited, List!RowsAreOfTheQuery, List!Running
<1>6. CASE /\ query' = q /\ listRequests' = listRequests + 1
           /\ listLoads' = (listLoads \ {ld}) \union {List!Listing(q, listRequests + 1)}
           /\ listing' /\ selection' = {}
    <2>1. /\ query' \in List!Queries /\ listRequests' \in Nat \ {0} /\ listLoads' \subseteq Listings
          /\ LatestIsOfTheQuery' /\ List!RowsAreOfTheQuery'
        BY <1>3, <1>6, ListsAnew
    <2> QED BY <1>1, <1>6, <2>1 DEF ListInv, ListTypes, BulkIsLimited, List!Running
<1> QED BY <1>4, <1>5, <1>6

LEMMA PublishedArriveKeeps ==
    ASSUME ListInv, NEW ld \in listLoads, List!PublishedArrive(ld)
    PROVE  ListInv'
<1>1. /\ ld \in Listings /\ listLoads' = listLoads \ {ld}
      /\ UNCHANGED <<content, confirming, bulk, query, listError, listRequests, selection>>
    BY DEF List!PublishedArrive, List!serverAndBulk, ListInv, ListTypes
<1>2. published' \in [of: SUBSET ListEntries, live: SUBSET ListEntries]
    BY <1>1 DEF List!PublishedArrive, Listings
<1>3. CASE UNCHANGED <<documents, listing>>
    BY <1>1, <1>2, <1>3
    DEF ListInv, ListTypes, LatestIsOfTheQuery, BulkIsLimited, List!RowsAreOfTheQuery, List!Running
<1>4. CASE /\ ld.n = listRequests
           /\ documents' = [of |-> ld.query, rows |-> ld.rows, pages |-> ld.pages]
    <2>1. ld.query = query
        BY <1>4 DEF ListInv, LatestIsOfTheQuery
    <2>2. /\ documents' \in [of: List!Queries, rows: SUBSET ListEntries, pages: Int]
          /\ documents'.of = query
        BY <1>1, <1>4, <2>1 DEF Listings
    <2> QED BY <1>1, <1>2, <2>2
        DEF ListInv, ListTypes, LatestIsOfTheQuery, BulkIsLimited, List!RowsAreOfTheQuery, List!Running
<1> QED BY <1>3, <1>4 DEF List!PublishedArrive, List!OutdatedLoad

LEMMA ListingFailsKeeps ==
    ASSUME ListInv, NEW ld \in listLoads, List!LoadFails(ld)
    PROVE  ListInv'
<1>1. /\ listLoads' = listLoads \ {ld}
      /\ UNCHANGED <<content, confirming, bulk, query, documents, published, listRequests,
                     selection>>
      /\ listError' \/ UNCHANGED <<listing, listError>>
    BY DEF List!LoadFails, List!serverAndBulk
<1> QED BY <1>1
    DEF ListInv, ListTypes, LatestIsOfTheQuery, BulkIsLimited, List!RowsAreOfTheQuery, List!Running

LEMMA SelectsKeep ==
    ASSUME ListInv, List!SelectPage \/ \E d \in ListEntries : List!Select(d)
    PROVE  ListInv'
<1>1. /\ UNCHANGED <<content, confirming, bulk, query, documents, published, listing, listError,
                     listRequests, listLoads>>
      /\ selection' \subseteq ListEntries
    BY DEF List!SelectPage, List!Select, List!serverAndBulk, ListInv, ListTypes
<1> QED BY <1>1
    DEF ListInv, ListTypes, LatestIsOfTheQuery, BulkIsLimited, List!RowsAreOfTheQuery, List!Running

\* The bulk action changes, and nothing of what is listed.
LEMMA BulkChanges ==
    ASSUME ListInv, UNCHANGED <<query, documents, published, listing, listError, listRequests,
                                listLoads, selection>>,
           content' \in [draft: EntriesOfLocales, published: EntriesOfLocales],
           confirming' \in List!Actions \union {"none"},
           bulk' = List!NoBulk \/ bulk' \in Bulks, BulkIsLimited'
    PROVE  ListInv'
BY DEF ListInv, ListTypes, LatestIsOfTheQuery, List!RowsAreOfTheQuery

LEMMA RunIs ==
    ASSUME ListInv, NEW action \in List!Actions, List!Run(action)
    PROVE  bulk' \in Bulks /\ BulkIsLimited'
<1>1. List!Targets(action) \subseteq ListEntries
    BY DEF List!Targets, List!Selected, ListInv, ListTypes
<1>2. bulk' \in Bulks /\ bulk'.sent = {}
    BY <1>1 DEF List!Run, Bulks, ListInv, ListTypes, List!Queries
<1>3. Cardinality({}) <= BulkConcurrency
    BY FS_EmptySet, ListConstants
<1> QED BY <1>2, <1>3 DEF BulkIsLimited

LEMMA RequestsKeep ==
    ASSUME ListInv,
           \/ \E action \in List!Actions : List!Request(action)
           \/ \E yes \in BOOLEAN : List!Answer(yes)
    PROVE  ListInv'
<1>1. UNCHANGED <<content, query, documents, published, listing, listError, listRequests,
                  listLoads, selection>>
    BY DEF List!Request, List!Answer
<1>2. confirming' \in List!Actions \union {"none"}
    BY DEF List!Request, List!Answer, ListInv, ListTypes
<1>3. UNCHANGED bulk \/ \E action \in List!Actions : List!Run(action)
    BY DEF List!Request, List!Answer, ListInv, ListTypes
<1>4. (bulk' = List!NoBulk \/ bulk' \in Bulks) /\ BulkIsLimited'
    BY <1>3, RunIs DEF ListInv, ListTypes, BulkIsLimited, List!Running
<1> QED BY <1>1, <1>2, <1>4, BulkChanges DEF ListInv, ListTypes

LEMMA TaskStartsKeeps ==
    ASSUME ListInv, NEW d \in ListEntries, List!TaskStarts(d)
    PROVE  ListInv'
<1>1. /\ bulk \in Bulks /\ d \in bulk.targets /\ bulk' = [bulk EXCEPT !.sent = @ \union {d}]
      /\ Cardinality(bulk.sent) < BulkConcurrency /\ bulk.sent \subseteq bulk.targets
    BY ListCardinality
    DEF List!TaskStarts, List!HasWorker, List!Running, ListInv, ListTypes, BulkIsLimited
<1>2. bulk.sent \subseteq ListEntries
    BY <1>1 DEF Bulks
<1>3. IsFiniteSet(bulk.sent) /\ Cardinality(bulk.sent) \in Nat
    BY <1>2, SomeEntries
<1>4. Cardinality(bulk.sent \union {d}) <= BulkConcurrency
    <2>1. \/ Cardinality(bulk.sent \union {d}) = Cardinality(bulk.sent)
          \/ Cardinality(bulk.sent \union {d}) = Cardinality(bulk.sent) + 1
        BY <1>3, FS_AddElement
    <2> QED BY <1>1, <1>3, <2>1, ListConstants
<1>5. /\ bulk' \in Bulks /\ bulk'.sent = bulk.sent \union {d} /\ bulk'.targets = bulk.targets
    BY <1>1 DEF Bulks
<1>6. BulkIsLimited'
    BY <1>1, <1>4, <1>5 DEF BulkIsLimited
<1> QED BY <1>5, <1>6, BulkChanges DEF List!TaskStarts, ListInv, ListTypes

\* What an action makes of the content.
LEMMA AppliedIs ==
    ASSUME ListTypes, NEW action \in List!Actions, NEW d \in ListEntries, NEW l \in ListLocales
    PROVE  List!Applied(content, action, d, l) \in [draft: EntriesOfLocales, published: EntriesOfLocales]
<1>1. content \in [draft: EntriesOfLocales, published: EntriesOfLocales]
    BY DEF ListTypes
<1>2. CASE action = "delete"
    <2>1. List!Applied(content, action, d, l)
            = [content EXCEPT !.draft[l] = @ \ {d}, !.published[l] = @ \ {d}]
        BY <1>2 DEF List!Applied
    <2>2. /\ [content.draft EXCEPT ![l] = @ \ {d}] \in EntriesOfLocales
          /\ [content.published EXCEPT ![l] = @ \ {d}] \in EntriesOfLocales
        BY <1>1 DEF EntriesOfLocales
    <2>3. List!Applied(content, action, d, l)
            = [draft |-> [content.draft EXCEPT ![l] = @ \ {d}],
               published |-> [content.published EXCEPT ![l] = @ \ {d}]]
        BY <1>1, <2>1
    <2> QED BY <2>2, <2>3
<1>3. CASE action = "publish"
    <2>1. List!Applied(content, action, d, l) = [content EXCEPT !.published[l] = @ \union {d}]
        BY <1>3 DEF List!Applied
    <2> QED BY <1>1, <2>1 DEF EntriesOfLocales
<1>4. CASE action = "unpublish"
    <2>1. List!Applied(content, action, d, l) = [content EXCEPT !.published[l] = @ \ {d}]
        BY <1>4 DEF List!Applied
    <2> QED BY <1>1, <2>1 DEF EntriesOfLocales
<1> QED BY <1>2, <1>3, <1>4 DEF List!Actions

LEMMA TaskSettlesKeeps ==
    ASSUME ListInv, NEW d \in ListEntries, List!TaskSettles(d)
    PROVE  ListInv'
<1>1. /\ bulk \in Bulks /\ bulk' = [bulk EXCEPT !.sent = @ \ {d}, !.done = @ \union {d}]
      /\ Cardinality(bulk.sent) <= BulkConcurrency /\ bulk.sent \subseteq bulk.targets
    BY DEF List!TaskSettles, List!Running, ListInv, ListTypes, BulkIsLimited
<1>2. bulk.sent \subseteq ListEntries
    BY <1>1 DEF Bulks
<1>3. IsFiniteSet(bulk.sent) /\ Cardinality(bulk.sent) \in Nat
    BY <1>2, SomeEntries
<1>4. Cardinality(bulk.sent \ {d}) <= Cardinality(bulk.sent) /\ Cardinality(bulk.sent \ {d}) \in Nat
    <2>1. \/ Cardinality(bulk.sent \ {d}) = Cardinality(bulk.sent)
          \/ Cardinality(bulk.sent \ {d}) = Cardinality(bulk.sent) - 1
        BY <1>3, FS_RemoveElement
    <2>2. Cardinality(bulk.sent \ {d}) \in Nat
        BY <1>2, SomeEntries
    <2> QED BY <1>3, <2>1, <2>2
<1>5. Cardinality(bulk.sent \ {d}) <= BulkConcurrency
    BY <1>1, <1>3, <1>4, ListConstants
<1>6. /\ bulk' \in Bulks /\ bulk'.sent = bulk.sent \ {d} /\ bulk'.targets = bulk.targets
    BY <1>1 DEF Bulks
<1>7. BulkIsLimited'
    BY <1>1, <1>5, <1>6 DEF BulkIsLimited
<1>8. content' \in [draft: EntriesOfLocales, published: EntriesOfLocales]
    <2>1. bulk.action \in List!Actions /\ bulk.locale \in ListLocales
        BY <1>1 DEF Bulks
    <2> QED BY <2>1, AppliedIs DEF List!TaskSettles, ListInv, ListTypes
<1> QED BY <1>6, <1>7, <1>8, BulkChanges DEF List!TaskSettles, ListInv, ListTypes

LEMMA BulkEndsKeeps ==
    ASSUME ListInv, List!BulkEnds
    PROVE  ListInv'
<1>1. List!Lists(query) /\ bulk' = List!NoBulk /\ UNCHANGED <<content, documents, published,
                                                              confirming>>
    BY DEF List!BulkEnds
<1>2. /\ query' \in List!Queries /\ listRequests' \in Nat \ {0} /\ listLoads' \subseteq Listings
      /\ LatestIsOfTheQuery' /\ List!RowsAreOfTheQuery' /\ selection' = {}
    BY <1>1, ListsAnew DEF List!Lists, ListInv, ListTypes
<1> QED BY <1>1, <1>2 DEF ListInv, ListTypes, BulkIsLimited, List!Running

LEMMA OthersListKeeps ==
    ASSUME ListInv, NEW e \in ListEntries, NEW l \in ListLocales, List!OthersChange(e, l)
    PROVE  ListInv'
<1>1. /\ UNCHANGED <<query, documents, published, listing, listError, listRequests, listLoads,
                     selection, confirming, bulk>>
      /\ \/ content' = [content EXCEPT !.draft[l] = @ \union {e}]
         \/ \E action \in List!Actions : content' = List!Applied(content, action, e, l)
    BY DEF List!OthersChange, List!Actions
<1>2. content' \in [draft: EntriesOfLocales, published: EntriesOfLocales]
    <2>1. content \in [draft: EntriesOfLocales, published: EntriesOfLocales]
        BY DEF ListInv, ListTypes
    <2>2. CASE content' = [content EXCEPT !.draft[l] = @ \union {e}]
        BY <2>1, <2>2 DEF EntriesOfLocales
    <2> QED BY <1>1, <2>2, AppliedIs DEF ListInv
<1>3. BulkIsLimited'
    BY <1>1 DEF ListInv, BulkIsLimited, List!Running
<1> QED BY <1>1, <1>2, <1>3, BulkChanges DEF ListInv, ListTypes

LEMMA ListStarts == List!Init => ListInv
<1> SUFFICES ASSUME List!Init PROVE ListInv
    OBVIOUS
<1>1. query \in List!Queries
    BY ListConstants DEF List!Init, List!Queries, List!Filters
<1>2. /\ List!Listing(query, 1) \in Listings /\ List!Listing(query, 1).n = 1
      /\ List!Listing(query, 1).query = query
    BY <1>1, ListingIs
<1>3. content \in [draft: EntriesOfLocales, published: EntriesOfLocales]
    <2>1. /\ [l \in ListLocales |-> ListEntries] \in EntriesOfLocales
          /\ [l \in ListLocales |-> FirstLive] \in EntriesOfLocales
        BY ListConstants DEF EntriesOfLocales
    <2> QED BY <2>1 DEF List!Init
<1>4. /\ documents \in [of: List!Queries, rows: SUBSET ListEntries, pages: Int]
      /\ documents.of = query
      /\ published \in [of: SUBSET ListEntries, live: SUBSET ListEntries]
    BY <1>1 DEF List!Init
<1> QED BY <1>1, <1>2, <1>3, <1>4
    DEF List!Init, ListInv, ListTypes, LatestIsOfTheQuery, BulkIsLimited, List!Running,
        List!RowsAreOfTheQuery

LEMMA ListStays ==
    ASSUME ListInv, UNCHANGED listVars
    PROVE  ListInv'
BY DEF listVars, ListInv, ListTypes, LatestIsOfTheQuery, BulkIsLimited, List!Running,
       List!RowsAreOfTheQuery

LEMMA ListKeeps ==
    ASSUME ListInv, List!Next
    PROVE  ListInv'
<1>1. CASE List!Progress
    BY <1>1, PageArrivesKeeps, PublishedArriveKeeps, ListingFailsKeeps, TaskStartsKeeps,
       TaskSettlesKeeps, BulkEndsKeeps DEF List!Progress
<1> QED BY <1>1, QueriesChange, OthersListKeeps, SelectsKeep, RequestsKeep DEF List!Next

LEMMA ListInvariance == Spec => []ListInv
<1>1. ListInv /\ [Next]_vars => ListInv'
    <2>1. [Next]_vars => List!Next \/ UNCHANGED listVars
        BY DEF Next, Only, vars
    <2> QED BY <2>1, ListKeeps, ListStays
<1>2. Init => ListInv
    BY ListStarts DEF Init
<1> QED BY <1>1, <1>2, PTL DEF Spec

LEMMA ListTyped == ListInv => List!TypeOK
<1> SUFFICES ASSUME ListInv PROVE List!TypeOK
    OBVIOUS
<1>1. \A ld \in listLoads : ld.n \in 1 .. listRequests
    BY DEF ListInv, ListTypes, Listings, LatestIsOfTheQuery
<1> QED BY <1>1, ListCardinality DEF ListInv, ListTypes, BulkIsLimited, List!TypeOK, List!Running

\* A set of numbers has a smallest.
LEMMA SmallestOf ==
    ASSUME NEW T \in SUBSET Nat, T # {}
    PROVE  \E x \in T : \A y \in T : x <= y
<1> DEFINE F == {T \intersect (0 .. y) : y \in T}
<1>1. F \subseteq FiniteSubsetsOf(Nat)
    <2> SUFFICES ASSUME NEW X \in F PROVE X \in FiniteSubsetsOf(Nat)
        OBVIOUS
    <2>1. PICK y \in T : X = T \intersect (0 .. y)
        OBVIOUS
    <2>2. IsFiniteSet(0 .. y) /\ X \subseteq 0 .. y /\ X \in SUBSET Nat
        BY <2>1, FS_Interval
    <2>3. IsFiniteSet(X)
        BY <2>2, FS_Subset
    <2> QED BY <2>2, <2>3 DEF FiniteSubsetsOf
<1>2. F # {}
    OBVIOUS
<1>3. IsWellFoundedOn(StrictSubsetOrdering(Nat), FiniteSubsetsOf(Nat))
    BY FS_StrictSubsetOrderingWellFounded
<1>4. PICK X \in F : \A Y \in F : <<Y, X>> \notin StrictSubsetOrdering(Nat)
    <2> HIDE DEF F
    <2> QED BY <1>1, <1>2, <1>3, WFMin
<1>5. PICK y \in T : X = T \intersect (0 .. y)
    OBVIOUS
<1>6. ASSUME NEW z \in T, z < y PROVE FALSE
    <2> DEFINE Z == T \intersect (0 .. z)
    <2>1. Z \in F /\ y \notin Z /\ y \in X /\ Z \subseteq X /\ Z # X
        BY <1>5, <1>6
    <2>2. <<Z, X>> \in (SUBSET Nat) \X (SUBSET Nat)
        BY <1>5
    <2>3. <<Z, X>> \in StrictSubsetOrdering(Nat)
        BY <2>1, <2>2 DEF StrictSubsetOrdering
    <2> QED BY <1>4, <2>1, <2>3
<1> QED BY <1>6
-----------------------------------------------------------------------------
(* The last deployment of a target. *)

Stands == {"going", "ended"}

\* The deployments there are, by their numbers, and how one was seen to stand.
Seen == (1 .. Len(builds)) \X Stands

Asked == [kind: {"poll", "load"}, n: Nat, got: {Deploys!Unread} \union {<<b>> : b \in Seen},
          old: BOOLEAN]

DeployTypes ==
    /\ where \in {"page", "button"} /\ builds \in Seq(Stands) /\ builds # <<>>
    /\ row = NoBuild \/ row \in Seen
    /\ pending \subseteq Nat \ {0} /\ IsFiniteSet(pending) /\ entry \in Nat
    /\ asks \subseteq Asked /\ IsFiniteSet(asks) /\ late \in BOOLEAN /\ known \in BOOLEAN /\ doubt \in BOOLEAN
    /\ deployed \in Nat
    /\ deploying \in {Deploys!Idle, Deploys!Sent} \/ deploying \in Seen

\* Who follows the target has a timer, or a poll under way.
FollowedIsPolled == entry # 0 => entry \in pending \/ Deploys!Polls # {}

\* What shows in progress is followed.
GoingIsFollowed == Deploys!InProgress(row) => doubt \/ entry # 0

\* What was read since the last start is how the last deployment stands, or stood before
\* it ended.
AnswersAreRecent ==
    \A a \in asks : a.got # Deploys!Unread /\ ~a.old =>
        a.got[1] = Deploys!Latest \/ a.got[1] = <<Len(builds), "going">>

\* A target that is not followed shows its last deployment, but for one just started.
RestIsLatest == known /\ entry = 0 /\ ~Deploys!Started => doubt \/ row = Deploys!Latest

DeployInv == DeployTypes /\ FollowedIsPolled /\ GoingIsFollowed /\ AnswersAreRecent /\ RestIsLatest

LEMMA DeployConstants ==
    /\ NoBuild \notin Nat \X Stands
    /\ \A n \in Nat, how \in Stands : <<n, how>> # NoBuild
BY PanelAssumption DEF PanelAssumption, Deploys!DeploysAssumption, Stands

\* A build that was seen is in progress when it is going.
LEMMA SeenIs ==
    ASSUME DeployTypes, NEW b \in Seen
    PROVE  /\ b[1] \in 1 .. Len(builds) /\ b[2] \in Stands /\ b = <<b[1], b[2]>>
           /\ Deploys!InProgress(b) <=> b[2] = "going"
BY DeployConstants DEF DeployTypes, Seen, Stands, Deploys!InProgress

LEMMA LatestIs ==
    ASSUME DeployTypes
    PROVE  /\ Deploys!Latest = <<Len(builds), builds[Len(builds)]>> /\ Deploys!Latest \in Seen
           /\ Len(builds) \in Nat \ {0} /\ builds[Len(builds)] \in Stands
<1>1. Len(builds) \in Nat \ {0} /\ builds[Len(builds)] \in Stands
    BY DEF DeployTypes
<1> QED BY <1>1 DEF Deploys!Latest, Seen, DeployTypes

LEMMA AskedIs ==
    ASSUME DeployTypes, NEW a \in Asked
    PROVE  /\ a.kind \in {"poll", "load"} /\ a.n \in Nat /\ a.old \in BOOLEAN
           /\ a.got # Deploys!Unread => a.got[1] \in Seen /\ a.got = <<a.got[1]>>
BY DEF Asked, Deploys!Unread

\* There is a number for a new timer.
LEMMA TimerIs ==
    ASSUME NEW taken, IsFiniteSet(taken), taken \subseteq Nat
    PROVE  \E n \in 1 .. (Deploys!Cardinality(taken) + 1) : n \notin taken
<1>1. Deploys!Cardinality(taken) = Cardinality(taken) /\ Cardinality(taken) \in Nat
    BY FS_CardinalityType DEF Deploys!Cardinality, Cardinality
<1>2. SUFFICES ASSUME 1 .. (Cardinality(taken) + 1) \subseteq taken PROVE FALSE
    BY <1>1
<1>3. Cardinality(1 .. (Cardinality(taken) + 1)) = Cardinality(taken) + 1
    BY <1>1, FS_Interval
<1>4. Cardinality(1 .. (Cardinality(taken) + 1)) <= Cardinality(taken)
    BY <1>2, FS_Subset
<1> QED BY <1>1, <1>3, <1>4

\* What a function makes of finitely many is finite.
LEMMA ValuesAreFinite ==
    ASSUME NEW S, IsFiniteSet(S), NEW f, DOMAIN f = S, f = [x \in S |-> f[x]]
    PROVE  IsFiniteSet({f[x] : x \in S})
<1>1. f \in Surjection(S, {f[x] : x \in S})
    BY DEF Surjection
<1> QED BY <1>1, FS_Surjection

LEMMA Scheduled ==
    ASSUME DeployTypes, NEW polls \in SUBSET asks, Deploys!Schedule(polls)
    PROVE  /\ pending' \subseteq Nat \ {0} /\ IsFiniteSet(pending')
           /\ entry' \in Nat \ {0} /\ entry' \in pending'
<1> DEFINE numbers == {a.n : a \in polls}
           taken == pending \union numbers
           unused == CHOOSE n \in 1 .. (Deploys!Cardinality(taken) + 1) : n \notin taken
<1>1. IsFiniteSet(polls) /\ IsFiniteSet(pending)
    BY FS_Subset DEF DeployTypes
<1>2. IsFiniteSet(numbers)
    <2> DEFINE f == [a \in polls |-> a.n]
    <2>1. DOMAIN f = polls /\ f = [a \in polls |-> f[a]] /\ numbers = {f[a] : a \in polls}
        OBVIOUS
    <2> HIDE DEF f, numbers
    <2> QED BY <1>1, <2>1, ValuesAreFinite
<1>3. IsFiniteSet(taken)
    BY <1>1, <1>2, FS_Union
<1>4. taken \subseteq Nat
    BY DEF DeployTypes, Asked
<1>5. Deploys!Cardinality(taken) \in Nat
    BY <1>3, FS_CardinalityType DEF Deploys!Cardinality, Cardinality
<1>6. unused \in 1 .. (Deploys!Cardinality(taken) + 1)
    <2> HIDE DEF taken
    <2> QED BY <1>3, <1>4, TimerIs
<1>7. pending' = pending \union {unused} /\ entry' = unused
    BY DEF Deploys!Schedule
<1>8. unused \in Nat \ {0}
    <2> HIDE DEF unused
    <2> QED BY <1>5, <1>6
<1> HIDE DEF unused
<1>9. IsFiniteSet(pending')
    BY <1>1, <1>7, FS_AddElement
<1> QED BY <1>7, <1>8, <1>9 DEF DeployTypes

LEMMA Unwatched ==
    ASSUME DeployTypes, Deploys!Unwatch
    PROVE  /\ pending' \subseteq Nat \ {0} /\ IsFiniteSet(pending')
           /\ entry' = 0 /\ late' \in BOOLEAN
<1>1. IsFiniteSet(pending \ {entry})
    BY FS_Subset DEF DeployTypes
<1> QED BY <1>1 DEF DeployTypes, Deploys!Unwatch

\* What is watched has a timer, or goes on as before; what has ended is not followed.
LEMMA Watched ==
    ASSUME DeployTypes, NEW b \in Seen, Deploys!Watch(b)
    PROVE  /\ pending' \subseteq Nat \ {0} /\ IsFiniteSet(pending') /\ entry' \in Nat
           /\ late' \in BOOLEAN
           /\ Deploys!InProgress(b) => entry' # 0
           /\ ~Deploys!InProgress(b) => entry' = 0
           /\ entry' = 0 \/ entry' \in pending' \/ (entry' = entry /\ pending' = pending)
<1>1. CASE ~Deploys!InProgress(b)
    BY <1>1, Unwatched DEF Deploys!Watch
<1>2. CASE Deploys!InProgress(b) /\ entry # 0
    BY <1>2 DEF Deploys!Watch, DeployTypes
<1>3. CASE Deploys!InProgress(b) /\ entry = 0
    <2>1. Deploys!Schedule(Deploys!Polls) /\ UNCHANGED late
        BY <1>3 DEF Deploys!Watch
    <2>2. Deploys!Polls \in SUBSET asks
        BY DEF Deploys!Polls
    <2> QED BY <2>1, <2>2, <1>3, Scheduled DEF DeployTypes
<1> QED BY <1>1, <1>2, <1>3

\* What is on its way is old once another deployment is started.
LEMMA OlderAsks ==
    ASSUME DeployTypes
    PROVE  /\ Deploys!Older(asks) \subseteq Asked /\ IsFiniteSet(Deploys!Older(asks))
           /\ \A b \in Deploys!Older(asks) : b.got # Deploys!Unread => b.old
           /\ \A a \in Deploys!Polls : \E b \in Deploys!Older(asks) : b.kind = "poll"
<1> DEFINE f == [a \in asks |-> IF a.got = Deploys!Unread THEN a ELSE [a EXCEPT !.old = TRUE]]
<1>1. \A a \in asks : /\ f[a] \in Asked /\ f[a].kind = a.kind
                      /\ f[a].got # Deploys!Unread => f[a].old
    <2> TAKE a \in asks
    <2>1. a \in Asked
        BY DEF DeployTypes
    <2>2. CASE a.got = Deploys!Unread
        BY <2>1, <2>2
    <2>3. CASE a.got # Deploys!Unread
        BY <2>1, <2>3 DEF Asked
    <2> QED BY <2>2, <2>3
<1>2. Deploys!Older(asks) = {f[a] : a \in asks}
    BY DEF Deploys!Older
<1>3. DOMAIN f = asks /\ f = [a \in asks |-> f[a]]
    OBVIOUS
<1> HIDE DEF f
<1>4. IsFiniteSet(Deploys!Older(asks))
    BY <1>2, <1>3, ValuesAreFinite DEF DeployTypes
<1> QED BY <1>1, <1>2, <1>4 DEF Deploys!Polls

LEMMA DeploysStay == DeployInv /\ UNCHANGED deploysVars => DeployInv'
<1> SUFFICES ASSUME DeployInv, UNCHANGED deploysVars PROVE DeployInv'
    OBVIOUS
<1> QED
    BY DEF deploysVars, DeployInv, DeployTypes, FollowedIsPolled, GoingIsFollowed,
           AnswersAreRecent, RestIsLatest, Seen, Asked, Deploys!Latest, Deploys!Polls,
           Deploys!Started, Deploys!InProgress

LEMMA DeploysStartsAny ==
    ASSUME NEW origin \in {"page", "button"}, Deploys!Starts(origin)
    PROVE  DeployInv
<1>1. IsFiniteSet({}) /\ IsFiniteSet({Deploys!Ask(0)})
    BY FS_EmptySet, FS_Singleton
<1>2. builds = <<"going">> /\ Len(builds) = 1 /\ builds \in Seq(Stands) /\ builds # <<>>
    BY DEF Deploys!Starts, Stands
<1>3. DeployTypes
    <2>1. Deploys!Ask(0) \in Asked
        BY DEF Asked, Deploys!Ask
    <2>2. /\ where = origin /\ row = NoBuild /\ entry = 0 /\ pending = {} /\ deployed = 0
          /\ asks = {Deploys!Ask(0)} /\ deploying = Deploys!Idle
          /\ ~late /\ ~known /\ ~doubt
        BY DEF Deploys!Starts
    <2>3. late \in BOOLEAN /\ known \in BOOLEAN /\ doubt \in BOOLEAN
        BY DEF Deploys!Starts
    <2> QED BY <1>1, <1>2, <2>1, <2>2, <2>3 DEF DeployTypes
<1>4. FollowedIsPolled /\ RestIsLatest
    BY DEF Deploys!Starts, FollowedIsPolled, RestIsLatest
<1>5. GoingIsFollowed
    BY DEF Deploys!Starts, GoingIsFollowed, Deploys!InProgress
<1>6. AnswersAreRecent
    BY DEF Deploys!Starts, AnswersAreRecent, Deploys!Ask
<1> QED BY <1>3, <1>4, <1>5, <1>6 DEF DeployInv

LEMMA DeploysStart == Init => DeployInv
<1> SUFFICES ASSUME Init PROVE DeployInv
    OBVIOUS
<1>1. \E origin \in {"page", "button"} : Deploys!Starts(origin)
    BY DEF Init, Deploys!Init
<1> QED BY <1>1, DeploysStartsAny

\* When no deployment starts or ends, the types are those of the variables that change.
LEMMA SameBuilds ==
    ASSUME UNCHANGED builds
    PROVE  Seen' = Seen /\ Asked' = Asked /\ Deploys!Latest' = Deploys!Latest
BY DEF Seen, Asked, Deploys!Latest

LEMMA TickKeeps ==
    ASSUME DeployInv, NEW fired \in pending, Deploys!Tick(fired)
    PROVE  DeployInv'
<1> DEFINE poll == [kind |-> "poll", n |-> fired, got |-> Deploys!Unread, old |-> FALSE]
<1>1. UNCHANGED <<where, builds, known, row, entry, late, deploying, doubt, deployed>>
    BY DEF Deploys!Tick
<1>2. DeployTypes /\ fired \in Nat \ {0} /\ poll \in Asked /\ poll.kind = "poll"
    BY DEF DeployInv, DeployTypes, Asked
<1>3. IsFiniteSet(pending \ {fired}) /\ IsFiniteSet(asks \union {poll})
    BY <1>2, FS_Subset, FS_AddElement DEF DeployTypes
<1>4. /\ pending' = pending \ {fired}
      /\ asks' = IF entry = 0 THEN asks ELSE asks \union {poll}
    BY DEF Deploys!Tick
<1>5. asks' \subseteq Asked /\ IsFiniteSet(asks')
    BY <1>2, <1>3, <1>4 DEF DeployTypes
<1>6. DeployTypes'
    BY <1>1, <1>2, <1>3, <1>4, <1>5, SameBuilds DEF DeployTypes
<1>7. FollowedIsPolled'
    BY <1>1, <1>2, <1>4 DEF FollowedIsPolled, Deploys!Polls
<1>8. GoingIsFollowed' /\ RestIsLatest'
    BY <1>1, SameBuilds DEF DeployInv, GoingIsFollowed, RestIsLatest, Deploys!InProgress,
                            Deploys!Started
<1>9. AnswersAreRecent'
    BY <1>1, <1>4, SameBuilds DEF DeployInv, AnswersAreRecent
<1> QED BY <1>6, <1>7, <1>8, <1>9 DEF DeployInv

LEMMA IsReadKeeps ==
    ASSUME DeployInv, NEW a \in asks, Deploys!IsRead(a)
    PROVE  DeployInv'
<1> DEFINE b == [a EXCEPT !.got = <<Deploys!Latest>>]
<1>1. UNCHANGED <<where, builds, known, row, entry, pending, late, deploying, doubt, deployed>>
    BY DEF Deploys!IsRead
<1>2. DeployTypes /\ a \in Asked /\ Deploys!Latest \in Seen
    BY LatestIs DEF DeployInv, DeployTypes
<1>3. b \in Asked /\ b.kind = a.kind /\ b.got = <<Deploys!Latest>>
    BY <1>2 DEF Asked
<1>4. asks' = (asks \ {a}) \union {b}
    BY DEF Deploys!IsRead
<1> HIDE DEF b
<1>5. IsFiniteSet((asks \ {a}) \union {b})
    BY <1>2, FS_Subset, FS_AddElement DEF DeployTypes
<1>6. DeployTypes'
    BY <1>1, <1>2, <1>3, <1>4, <1>5, SameBuilds DEF DeployTypes
<1>7. FollowedIsPolled'
    BY <1>1, <1>3, <1>4 DEF DeployInv, FollowedIsPolled, Deploys!Polls
<1>8. GoingIsFollowed' /\ RestIsLatest'
    BY <1>1, SameBuilds DEF DeployInv, GoingIsFollowed, RestIsLatest, Deploys!InProgress,
                            Deploys!Started
<1>9. AnswersAreRecent'
    BY <1>1, <1>3, <1>4, SameBuilds DEF DeployInv, AnswersAreRecent
<1> QED BY <1>6, <1>7, <1>8, <1>9 DEF DeployInv

\* The answer of a poll, of a target that is still followed.
LEMMA PollEndsKeeps ==
    ASSUME DeployInv, NEW a \in asks, Deploys!PollEnds(a)
    PROVE  DeployInv'
<1>1. UNCHANGED <<where, builds, known, deploying, deployed>> /\ asks' = asks \ {a}
    BY DEF Deploys!PollEnds
<1>2. DeployTypes /\ a \in Asked
    BY DEF DeployInv, DeployTypes
<1>3. asks' \subseteq Asked /\ IsFiniteSet(asks')
    BY <1>1, <1>2, FS_Subset DEF DeployTypes
<1>4. AnswersAreRecent'
    BY <1>1, SameBuilds DEF DeployInv, AnswersAreRecent
<1>5. CASE entry = 0
    <2>1. UNCHANGED <<row, entry, pending, late, doubt>>
        BY <1>5 DEF Deploys!PollEnds
    <2>2. DeployTypes'
        BY <1>1, <1>2, <1>3, <2>1, SameBuilds DEF DeployTypes
    <2>3. FollowedIsPolled'
        BY <1>5, <2>1 DEF FollowedIsPolled
    <2>4. GoingIsFollowed' /\ RestIsLatest'
        BY <1>1, <2>1, SameBuilds DEF DeployInv, GoingIsFollowed, RestIsLatest,
                                      Deploys!InProgress, Deploys!Started
    <2> QED BY <1>4, <2>2, <2>3, <2>4 DEF DeployInv
<1>6. CASE entry # 0
    <2> DEFINE build == a.got[1]
               again == Deploys!InProgress(build) /\ ~late
    <2>1. a.got # Deploys!Unread /\ build \in Seen
        BY <1>2, AskedIs DEF Deploys!PollEnds
    <2>2. /\ row' = build
          /\ again => Deploys!Schedule(Deploys!Polls \ {a}) /\ UNCHANGED late
          /\ ~again => Deploys!Unwatch
          /\ doubt' = (~again /\ (\/ Deploys!Overtaken(a) \/ Deploys!InProgress(build)
                                  \/ (a.old /\ doubt)))
        BY <1>6 DEF Deploys!PollEnds
    <2>3. /\ pending' \subseteq Nat \ {0} /\ IsFiniteSet(pending') /\ entry' \in Nat
          /\ late' \in BOOLEAN
          /\ again => entry' # 0 /\ entry' \in pending'
          /\ ~again => entry' = 0
        <3>1. CASE again
            <4>1. (Deploys!Polls \ {a}) \in SUBSET asks
                BY DEF Deploys!Polls
            <4> HIDE DEF build
            <4> QED BY <1>2, <2>2, <3>1, <4>1, Scheduled DEF DeployTypes
        <3>2. CASE ~again
            BY <1>2, <2>2, <3>2, Unwatched
        <3> QED BY <3>1, <3>2
    <2> HIDE DEF build
    <2>4. doubt' \in BOOLEAN
        BY <2>2
    <2>5. DeployTypes'
        BY <1>1, <1>2, <1>3, <2>1, <2>2, <2>3, <2>4, SameBuilds DEF DeployTypes
    <2>6. FollowedIsPolled'
        BY <2>3 DEF FollowedIsPolled
    <2>7. GoingIsFollowed'
        BY <2>2, <2>3 DEF GoingIsFollowed, Deploys!InProgress
    <2>8. RestIsLatest'
        <3> SUFFICES ASSUME known', entry' = 0, ~Deploys!Started', ~doubt' PROVE row' = Deploys!Latest'
            BY DEF RestIsLatest
        <3>1. ~again /\ ~Deploys!Overtaken(a) /\ ~Deploys!InProgress(build)
            BY <2>2, <2>3
        <3>2. ~a.old
            BY <1>1, <3>1 DEF Deploys!Overtaken, Deploys!Started
        <3>3. build = Deploys!Latest \/ build = <<Len(builds), "going">>
            BY <2>1, <3>2 DEF DeployInv, AnswersAreRecent, build
        <3>4. build # <<Len(builds), "going">>
            BY <1>2, <2>1, <3>1, SeenIs
        <3> QED BY <1>1, <2>2, <3>3, <3>4, SameBuilds
    <2> QED BY <1>4, <2>5, <2>6, <2>7, <2>8 DEF DeployInv
<1> QED BY <1>5, <1>6

LEMMA PollFailsKeeps ==
    ASSUME DeployInv, NEW a \in asks, Deploys!PollFails(a)
    PROVE  DeployInv'
<1>1. /\ UNCHANGED <<where, builds, known, row, late, deploying, doubt>>
      /\ asks' = asks \ {a} /\ deployed' = deployed + 1
    BY DEF Deploys!PollFails, Deploys!Happen
<1>2. DeployTypes
    BY DEF DeployInv
<1>3. asks' \subseteq Asked /\ IsFiniteSet(asks') /\ deployed' \in Nat
    BY <1>1, <1>2, FS_Subset DEF DeployTypes
<1>4. /\ pending' \subseteq Nat \ {0} /\ IsFiniteSet(pending') /\ entry' \in Nat
      /\ entry' = 0 <=> entry = 0
      /\ entry' # 0 => entry' \in pending'
    <2>1. CASE entry = 0
        BY <1>2, <2>1 DEF Deploys!PollFails, DeployTypes
    <2>2. CASE entry # 0
        <3>1. Deploys!Schedule(Deploys!Polls \ {a})
            BY <2>2 DEF Deploys!PollFails
        <3>2. (Deploys!Polls \ {a}) \in SUBSET asks
            BY DEF Deploys!Polls
        <3> QED BY <1>2, <2>2, <3>1, <3>2, Scheduled
    <2> QED BY <2>1, <2>2
<1>5. DeployTypes'
    BY <1>1, <1>2, <1>3, <1>4, SameBuilds DEF DeployTypes
<1>6. FollowedIsPolled'
    BY <1>4 DEF FollowedIsPolled
<1>7. GoingIsFollowed' /\ RestIsLatest'
    BY <1>1, <1>4, SameBuilds DEF DeployInv, GoingIsFollowed, RestIsLatest,
                                  Deploys!InProgress, Deploys!Started
<1>8. AnswersAreRecent'
    BY <1>1, SameBuilds DEF DeployInv, AnswersAreRecent
<1> QED BY <1>5, <1>6, <1>7, <1>8 DEF DeployInv

LEMMA TargetsLoadKeeps ==
    ASSUME DeployInv, NEW a \in asks, Deploys!LoadEnds(a)
    PROVE  DeployInv'
<1> DEFINE build == a.got[1]
<1>1. /\ UNCHANGED <<where, builds, deploying, deployed>> /\ asks' = asks \ {a} /\ known'
      /\ a.got # Deploys!Unread /\ row' = build /\ Deploys!Watch(build)
      /\ doubt' = (~Deploys!InProgress(build) /\ (Deploys!Overtaken(a) \/ (a.old /\ doubt)))
      /\ ~(a.kind = "poll")
    BY DEF Deploys!LoadEnds, Deploys!Polls
<1>2. DeployTypes /\ a \in Asked
    BY DEF DeployInv, DeployTypes
<1>3. asks' \subseteq Asked /\ IsFiniteSet(asks')
    BY <1>1, <1>2, FS_Subset DEF DeployTypes
<1>4. build \in Seen
    BY <1>1, <1>2, AskedIs
<1> HIDE DEF build
<1>5. /\ pending' \subseteq Nat \ {0} /\ IsFiniteSet(pending') /\ entry' \in Nat
      /\ late' \in BOOLEAN
      /\ Deploys!InProgress(build) => entry' # 0
      /\ ~Deploys!InProgress(build) => entry' = 0
      /\ entry' = 0 \/ entry' \in pending' \/ (entry' = entry /\ pending' = pending)
    BY <1>1, <1>2, <1>4, Watched
<1>6. known' \in BOOLEAN /\ doubt' \in BOOLEAN
    BY <1>1 DEF Deploys!LoadEnds
<1>7. DeployTypes'
    BY <1>1, <1>2, <1>3, <1>4, <1>5, <1>6, SameBuilds DEF DeployTypes
<1>8. FollowedIsPolled'
    BY <1>1, <1>5 DEF DeployInv, FollowedIsPolled, Deploys!Polls
<1>9. GoingIsFollowed'
    BY <1>1, <1>5 DEF GoingIsFollowed, Deploys!InProgress
<1>10. RestIsLatest'
    <2> SUFFICES ASSUME known', entry' = 0, ~Deploys!Started', ~doubt' PROVE row' = Deploys!Latest'
        BY DEF RestIsLatest
    <2>1. ~Deploys!Overtaken(a) /\ ~Deploys!InProgress(build)
        BY <1>1, <1>5
    <2>2. ~a.old
        BY <1>1, <2>1 DEF Deploys!Overtaken, Deploys!Started
    <2>3. build = Deploys!Latest \/ build = <<Len(builds), "going">>
        BY <1>1, <2>2 DEF DeployInv, AnswersAreRecent, build
    <2>4. build # <<Len(builds), "going">>
        BY <1>2, <1>4, <2>1, SeenIs
    <2> QED BY <1>1, <2>3, <2>4, SameBuilds
<1>11. AnswersAreRecent'
    BY <1>1, SameBuilds DEF DeployInv, AnswersAreRecent
<1> QED BY <1>7, <1>8, <1>9, <1>10, <1>11 DEF DeployInv

\* The steps that only take, or add, a request.
LEMMA DeployRequestsKeep ==
    ASSUME DeployInv,
           \/ \E a \in asks : Deploys!LoadFails(a)
           \/ Deploys!LimitPasses \/ Deploys!Refresh \/ Deploys!Deploy \/ Deploys!DeployFails
    PROVE  DeployInv'
<1>1. UNCHANGED <<where, builds, known, row, entry, pending>>
    BY DEF Deploys!LoadFails, Deploys!LimitPasses, Deploys!Refresh, Deploys!Deploy,
           Deploys!DeployFails
<1>2. DeployTypes
    BY DEF DeployInv
<1>3. deployed' \in Nat /\ late' \in BOOLEAN
    <2>1. UNCHANGED deployed \/ deployed' = deployed + 1
        BY DEF Deploys!LoadFails, Deploys!LimitPasses, Deploys!Refresh, Deploys!Deploy,
               Deploys!DeployFails, Deploys!Happen
    <2>2. UNCHANGED late \/ late' \in BOOLEAN
        BY DEF Deploys!LoadFails, Deploys!LimitPasses, Deploys!Refresh, Deploys!Deploy,
               Deploys!DeployFails
    <2> QED BY <1>2, <2>1, <2>2 DEF DeployTypes
<1>4. /\ asks' \subseteq Asked /\ IsFiniteSet(asks')
      /\ \A a \in Deploys!Polls : a \in asks'
      /\ \A a \in asks' : a \in asks \/ a.got = Deploys!Unread
    <2>1. CASE \E a \in asks : Deploys!LoadFails(a)
        <3>1. PICK a \in asks : Deploys!LoadFails(a)
            BY <2>1
        <3>2. asks' = asks \ {a} /\ a \notin Deploys!Polls
            BY <3>1 DEF Deploys!LoadFails
        <3> QED BY <1>2, <3>2, FS_Subset DEF DeployTypes, Deploys!Polls
    <2>2. CASE Deploys!LimitPasses \/ Deploys!Deploy \/ Deploys!DeployFails
        <3>1. UNCHANGED asks
            BY <2>2 DEF Deploys!LimitPasses, Deploys!Deploy, Deploys!DeployFails
        <3> QED BY <1>2, <3>1 DEF DeployTypes, Deploys!Polls
    <2>3. CASE Deploys!Refresh
        <3>1. asks' = asks \union {Deploys!Ask(deployed')} /\ deployed' \in Nat
            BY <1>3, <2>3 DEF Deploys!Refresh
        <3>2. Deploys!Ask(deployed') \in Asked /\ Deploys!Ask(deployed').got = Deploys!Unread
            BY <3>1 DEF Deploys!Ask, Asked
        <3> QED BY <1>2, <3>1, <3>2, FS_AddElement DEF DeployTypes, Deploys!Polls
    <2> QED BY <2>1, <2>2, <2>3
<1>5. /\ deploying' \in {deploying, Deploys!Idle, Deploys!Sent}
      /\ doubt' \in BOOLEAN /\ (doubt => doubt') /\ (Deploys!Started /\ ~Deploys!Started' => doubt')
    <2>1. CASE Deploys!DeployFails
        BY <2>1 DEF Deploys!DeployFails
    <2>2. CASE Deploys!Deploy
        <3>1. deploying = Deploys!Idle /\ UNCHANGED doubt /\ deploying' = Deploys!Sent
            BY <2>2 DEF Deploys!Deploy
        <3> QED BY <1>2, <3>1 DEF Deploys!Started, Deploys!Idle, DeployTypes
    <2>3. CASE Deploys!LimitPasses \/ Deploys!Refresh \/ \E a \in asks : Deploys!LoadFails(a)
        <3>1. UNCHANGED <<deploying, doubt>>
            BY <2>3 DEF Deploys!LimitPasses, Deploys!Refresh, Deploys!LoadFails
        <3> QED BY <1>2, <3>1 DEF Deploys!Started, DeployTypes
    <2> QED BY <2>1, <2>2, <2>3
<1>6. DeployTypes'
    BY <1>1, <1>2, <1>3, <1>4, <1>5, SameBuilds DEF DeployTypes
<1>7. FollowedIsPolled'
    BY <1>1, <1>4 DEF DeployInv, FollowedIsPolled, Deploys!Polls
<1>8. GoingIsFollowed' /\ RestIsLatest'
    BY <1>1, <1>5, SameBuilds DEF DeployInv, GoingIsFollowed, RestIsLatest, Deploys!InProgress
<1>9. AnswersAreRecent'
    BY <1>1, <1>4, SameBuilds DEF DeployInv, AnswersAreRecent
<1> QED BY <1>6, <1>7, <1>8, <1>9 DEF DeployInv

\* A deployment more: those there were are still there.
LEMMA MoreBuilds ==
    ASSUME DeployTypes, NEW how \in Stands, builds' = Append(builds, how)
    PROVE  /\ builds' \in Seq(Stands) /\ builds' # <<>> /\ Len(builds') = Len(builds) + 1
           /\ Len(builds) \in Nat /\ builds'[Len(builds')] = how
           /\ Seen \subseteq Seen' /\ Asked \subseteq Asked' /\ <<Len(builds'), how>> \in Seen'
           /\ Deploys!Latest' = <<Len(builds'), how>>
<1>1. /\ builds' \in Seq(Stands) /\ builds' # <<>> /\ Len(builds') = Len(builds) + 1
      /\ Len(builds) \in Nat /\ builds'[Len(builds')] = how
    BY DEF DeployTypes
<1>2. Seen \subseteq Seen' /\ <<Len(builds'), how>> \in Seen'
    BY <1>1 DEF Seen
<1>3. Asked \subseteq Asked'
    BY <1>2 DEF Asked
<1>4. Deploys!Latest' = <<Len(builds'), how>>
    BY <1>1 DEF Deploys!Latest
<1> QED BY <1>1, <1>2, <1>3, <1>4

\* What was on its way when a deployment started, or opened again, is old.
LEMMA OlderKeeps ==
    ASSUME DeployInv, asks' = Deploys!Older(asks), UNCHANGED <<pending, entry>>
    PROVE  FollowedIsPolled' /\ AnswersAreRecent'
<1>1. DeployTypes
    BY DEF DeployInv
<1>2. FollowedIsPolled'
    BY <1>1, OlderAsks DEF DeployInv, FollowedIsPolled, Deploys!Polls
<1>3. AnswersAreRecent'
    BY <1>1, OlderAsks DEF AnswersAreRecent
<1> QED BY <1>2, <1>3

LEMMA HookIsCalledKeeps ==
    ASSUME DeployInv, NEW how \in Stands, Deploys!HookIsCalled(how)
    PROVE  DeployInv'
<1>1. /\ UNCHANGED <<where, known, row, entry, pending, late, doubt, deployed>>
      /\ builds' = Append(builds, how) /\ deploying' = <<Len(builds'), how>>
      /\ asks' = Deploys!Older(asks)
    BY DEF Deploys!HookIsCalled
<1>2. DeployTypes
    BY DEF DeployInv
<1>3. asks' \subseteq Asked' /\ IsFiniteSet(asks') /\ deploying' \in Seen'
    BY <1>1, <1>2, OlderAsks, MoreBuilds
<1>4. DeployTypes'
    BY <1>1, <1>2, <1>3, MoreBuilds DEF DeployTypes
<1>5. FollowedIsPolled' /\ AnswersAreRecent'
    BY <1>1, OlderKeeps
<1>6. GoingIsFollowed'
    BY <1>1 DEF DeployInv, GoingIsFollowed, Deploys!InProgress
<1>7. Deploys!Started'
    BY <1>1 DEF Deploys!Started
<1> QED BY <1>4, <1>5, <1>6, <1>7 DEF DeployInv, RestIsLatest

LEMMA OthersDeployKeeps ==
    ASSUME DeployInv, Deploys!OthersDeploy
    PROVE  DeployInv'
<1>1. /\ UNCHANGED <<where, known, row, entry, pending, late, deploying>>
      /\ builds' = Append(builds, "going") /\ asks' = Deploys!Older(asks)
      /\ deployed' = deployed + 1
    BY DEF Deploys!OthersDeploy, Deploys!Happen
<1>2. DeployTypes /\ "going" \in Stands
    BY DEF DeployInv, Stands
<1>3. asks' \subseteq Asked' /\ IsFiniteSet(asks')
    BY <1>1, <1>2, OlderAsks, MoreBuilds
<1>4. doubt' \in BOOLEAN
    BY DEF Deploys!OthersDeploy
<1>5. DeployTypes'
    <2>1. /\ row' = NoBuild \/ row' \in Seen'
          /\ deploying' \in {Deploys!Idle, Deploys!Sent} \/ deploying' \in Seen'
        BY <1>1, <1>2, MoreBuilds DEF DeployTypes
    <2>2. builds' \in Seq(Stands) /\ builds' # <<>>
        BY <1>1, <1>2, MoreBuilds
    <2> QED BY <1>1, <1>2, <1>3, <1>4, <2>1, <2>2 DEF DeployTypes
<1>6. FollowedIsPolled' /\ AnswersAreRecent'
    BY <1>1, OlderKeeps
<1>7. GoingIsFollowed' /\ RestIsLatest'
    BY DEF Deploys!OthersDeploy, GoingIsFollowed, RestIsLatest
<1> QED BY <1>5, <1>6, <1>7 DEF DeployInv

\* A report: what ends, or opens again, is the last deployment.
LEMMA ProviderReportsKeeps ==
    ASSUME DeployInv, NEW how \in Stands, Deploys!ProviderReports(how)
    PROVE  DeployInv'
<1> DEFINE reopens == how = "going" /\ ~Deploys!InProgress(Deploys!Latest)
<1>1. /\ UNCHANGED <<where, known, row, entry, pending, late, deploying>>
      /\ how # builds[Len(builds)] /\ builds' = [builds EXCEPT ![Len(builds)] = how]
      /\ asks' = IF reopens THEN Deploys!Older(asks) ELSE asks
      /\ doubt' = (doubt \/ reopens)
      /\ deployed' = deployed \/ deployed' = deployed + 1
    BY DEF Deploys!ProviderReports, Deploys!Happen
<1>2. DeployTypes
    BY DEF DeployInv
<1>3. /\ builds' \in Seq(Stands) /\ builds' # <<>> /\ Len(builds') = Len(builds)
      /\ Len(builds) \in Nat \ {0} /\ builds'[Len(builds)] = how
    BY <1>1, <1>2 DEF DeployTypes
<1>4. Seen' = Seen /\ Asked' = Asked /\ Deploys!Latest' = <<Len(builds), how>>
    BY <1>3 DEF Seen, Asked, Deploys!Latest
<1>5. /\ Deploys!Latest = <<Len(builds), builds[Len(builds)]>> /\ Deploys!Latest \in Seen
      /\ builds[Len(builds)] \in Stands
    BY <1>2, LatestIs
<1>6. Deploys!InProgress(Deploys!Latest) <=> builds[Len(builds)] = "going"
    BY <1>2, <1>5, SeenIs
<1>7. /\ reopens => how = "going"
      /\ ~reopens => how = "ended" /\ builds[Len(builds)] = "going"
    BY <1>1, <1>5, <1>6 DEF Stands
<1>8. asks' \subseteq Asked /\ IsFiniteSet(asks')
    BY <1>1, <1>2, OlderAsks DEF DeployTypes
<1>9. doubt' \in BOOLEAN /\ deployed' \in Nat
    BY <1>1, <1>2 DEF DeployTypes
<1>10. DeployTypes'
    BY <1>1, <1>2, <1>3, <1>4, <1>8, <1>9 DEF DeployTypes
<1>11. FollowedIsPolled' /\ AnswersAreRecent'
    <2>1. CASE reopens
        BY <1>1, <2>1, OlderKeeps
    <2>2. CASE ~reopens
        <3>1. UNCHANGED asks
            BY <1>1, <2>2
        <3>2. FollowedIsPolled'
            BY <1>1, <3>1 DEF DeployInv, FollowedIsPolled, Deploys!Polls
        <3>3. AnswersAreRecent'
            BY <1>3, <1>5, <1>7, <2>2, <3>1 DEF DeployInv, AnswersAreRecent
        <3> QED BY <3>2, <3>3
    <2> QED BY <2>1, <2>2
<1>12. GoingIsFollowed'
    BY <1>1 DEF DeployInv, GoingIsFollowed, Deploys!InProgress
<1>13. RestIsLatest'
    <2> SUFFICES ASSUME known', entry' = 0, ~Deploys!Started', ~doubt' PROVE FALSE
        BY DEF RestIsLatest
    <2>1. ~doubt /\ ~reopens
        BY <1>1
    <2>2. known /\ entry = 0 /\ ~Deploys!Started
        BY <1>1 DEF Deploys!Started
    <2>3. row = Deploys!Latest
        BY <2>1, <2>2 DEF DeployInv, RestIsLatest
    <2>4. Deploys!InProgress(row)
        BY <1>6, <1>7, <2>1, <2>3
    <2> QED BY <2>1, <2>2, <2>4 DEF DeployInv, GoingIsFollowed
<1> QED BY <1>10, <1>11, <1>12, <1>13 DEF DeployInv

\* The answer of a start: what was started is followed.
LEMMA DeployEndsKeeps ==
    ASSUME DeployInv, Deploys!DeployEnds
    PROVE  DeployInv'
<1>1. /\ UNCHANGED <<where, builds, known, asks, deployed>>
      /\ Deploys!Started /\ deploying' = Deploys!Idle /\ row' = deploying
      /\ Deploys!InProgress(deploying) => Deploys!Watch(deploying)
      /\ ~Deploys!InProgress(deploying) => UNCHANGED <<entry, pending, late>>
    BY DEF Deploys!DeployEnds
<1>2. doubt' = (deploying[1] # Len(builds)
                  \/ (Deploys!InProgress(Deploys!Latest) /\ ~Deploys!InProgress(deploying)))
    BY DEF Deploys!DeployEnds
<1>3. DeployTypes
    BY DEF DeployInv
<1>4. deploying \in Seen
    <2>1. deploying # Deploys!Idle /\ deploying # Deploys!Sent
        BY <1>1 DEF Deploys!Started, Deploys!Idle, Deploys!Sent
    <2> QED BY <1>3, <2>1 DEF DeployTypes
<1>5. /\ pending' \subseteq Nat \ {0} /\ IsFiniteSet(pending') /\ entry' \in Nat
      /\ late' \in BOOLEAN
      /\ Deploys!InProgress(deploying) => entry' # 0
      /\ entry' = 0 \/ entry' \in pending' \/ (entry' = entry /\ pending' = pending)
    BY <1>1, <1>3, <1>4, Watched DEF DeployTypes
<1>6. doubt' \in BOOLEAN
    BY <1>2
<1>7. DeployTypes'
    BY <1>1, <1>3, <1>4, <1>5, <1>6, SameBuilds DEF DeployTypes
<1>8. FollowedIsPolled'
    BY <1>1, <1>5 DEF DeployInv, FollowedIsPolled, Deploys!Polls
<1>9. GoingIsFollowed'
    BY <1>1, <1>5 DEF GoingIsFollowed, Deploys!InProgress
<1>10. RestIsLatest'
    <2> SUFFICES ASSUME entry' = 0, ~doubt' PROVE row' = Deploys!Latest'
        BY DEF RestIsLatest
    <2>1. ~Deploys!InProgress(deploying) /\ deploying[1] = Len(builds)
          /\ ~Deploys!InProgress(Deploys!Latest)
        BY <1>2, <1>5
    <2>2. deploying = <<Len(builds), deploying[2]>> /\ deploying[2] \in Stands
          /\ deploying[2] # "going"
        BY <1>3, <1>4, <2>1, SeenIs
    <2>3. Deploys!Latest = <<Len(builds), builds[Len(builds)]>>
          /\ builds[Len(builds)] \in Stands /\ Deploys!Latest \in Seen
        BY <1>3, LatestIs
    <2>4. builds[Len(builds)] # "going"
        BY <1>3, <2>1, <2>3, SeenIs
    <2>5. deploying = Deploys!Latest
        BY <2>2, <2>3, <2>4 DEF Stands
    <2> QED BY <1>1, <2>5, SameBuilds
<1>11. AnswersAreRecent'
    BY <1>1, SameBuilds DEF DeployInv, AnswersAreRecent
<1> QED BY <1>7, <1>8, <1>9, <1>10, <1>11 DEF DeployInv

LEMMA DeploysKeep == DeployInv /\ Deploys!Next => DeployInv'
<1> SUFFICES ASSUME DeployInv, Deploys!Next PROVE DeployInv'
    OBVIOUS
<1>1. CASE Deploys!Progress
    BY <1>1, TickKeeps, IsReadKeeps, PollEndsKeeps, PollFailsKeeps, TargetsLoadKeeps,
       DeployRequestsKeep, DeployEndsKeeps, HookIsCalledKeeps DEF Deploys!Progress, Stands
<1>2. CASE Deploys!LimitPasses \/ Deploys!Refresh \/ Deploys!Deploy
    BY <1>2, DeployRequestsKeep
<1>3. CASE \E how \in {"going", "ended"} : Deploys!ProviderReports(how)
    BY <1>3, ProviderReportsKeeps DEF Stands
<1> QED BY <1>1, <1>2, <1>3, OthersDeployKeeps DEF Deploys!Next

LEMMA DeploysInvariance == Spec => []DeployInv
<1>1. DeployInv /\ [Next]_vars => DeployInv'
    <2> SUFFICES ASSUME DeployInv, [Next]_vars PROVE DeployInv'
        OBVIOUS
    <2>1. Deploys!Next \/ UNCHANGED deploysVars
        BY DEF Next, Only, vars
    <2> QED BY <2>1, DeploysKeep, DeploysStay
<1> QED BY <1>1, DeploysStart, PTL DEF Spec

\* Types of a deployment and its poller, and what is followed.
LEMMA DeploysAreFollowed ==
    ASSUME DeployInv
    PROVE  Deploys!DeploysTypeOK /\ Deploys!DeploymentsAreFollowed
<1>1. Deploys!DeploysTypeOK
    <2>1. row = NoBuild \/ row[1] \in DOMAIN builds
        BY DEF DeployInv, DeployTypes, Seen
    <2>2. deploying \in {Deploys!Idle, Deploys!Sent} \/ Deploys!Started
        BY DEF DeployInv, DeployTypes, Seen, Deploys!Started
    <2> QED BY <2>1, <2>2 DEF DeployInv, DeployTypes, Deploys!DeploysTypeOK, Stands
<1>2. Deploys!InProgress(row) => doubt \/ entry \in pending \/ Deploys!Polls # {}
    BY DEF DeployInv, GoingIsFollowed, FollowedIsPolled
<1>3. known /\ asks = {} /\ entry = 0 /\ deploying = Deploys!Idle => doubt \/ row = Deploys!Latest
    BY DEF DeployInv, RestIsLatest, Deploys!Started, Deploys!Idle
<1> QED BY <1>1, <1>2, <1>3 DEF Deploys!DeploymentsAreFollowed
-----------------------------------------------------------------------------
(* Who else has the entry open. *)

Viewer == [who: Admins, editing: BOOLEAN, lock: BOOLEAN]

\* The lock is with one of them at most.
OneLock(vs) == \A v, w \in vs : v.lock /\ w.lock => v = w
ViewerSets  == {vs \in SUBSET Viewer : OneLock(vs)}

Known   == [editing: BOOLEAN, since: Nat, age: 0 .. Ttl]
Maps    == [Admins -> Known \union {NotThere}]
Editors == [open: BOOLEAN, n: Nat, editing: BOOLEAN, viewers: ViewerSets]
Beats   == [who: Admins, n: Nat, editing: BOOLEAN, leave: BOOLEAN, served: BOOLEAN,
            viewers: ViewerSets]

\* Those who edit queue: each has a number of its own, and there is a last one.
Queued(ps) ==
    /\ \E m \in Nat : \A u \in Others!There(ps) : ps[u].since <= m
    /\ \A u, w \in Others!There(ps) :
          ps[u].editing /\ ps[w].editing /\ ps[u].since = ps[w].since => u = w

PresenceInv ==
    /\ presence \in Maps /\ Queued(presence)
    /\ editor \in [Admins -> Editors]
    /\ \A u \in Admins : editor[u].editing => editor[u].open
    /\ beats \subseteq Beats /\ news \subseteq ViewerSets
    /\ inboxes \in [Admins -> Seq(ViewerSets)]
    /\ due \subseteq Others!On

LEMMA PresenceConstants == Ttl \in Nat \ {0}
BY PanelAssumption DEF PanelAssumption, Others!PresenceAssumption

LEMMA KnownIs ==
    ASSUME NEW ps \in Maps, NEW u \in Others!There(ps)
    PROVE  u \in Admins /\ ps[u] \in Known /\ ps[u] # NotThere
BY DEF Others!There, Maps

\* `since` of the last one: no one there has a greater one.
LEMMA LastIs ==
    ASSUME NEW ps \in Maps, Queued(ps)
    PROVE  /\ Others!Last(ps) \in Nat
           /\ \A u \in Others!There(ps) : ps[u].since <= Others!Last(ps)
<1> DEFINE T == Others!There(ps)
           S == {0} \union {ps[u].since : u \in T}
           Bounds == {m \in Nat : \A u \in T : ps[u].since <= m}
<1>1. \A u \in T : ps[u].since \in Nat
    BY KnownIs DEF Known
<1>2. PICK m \in Bounds : \A k \in Bounds : m <= k
    <2>1. Bounds \in SUBSET Nat /\ Bounds # {}
        BY DEF Queued
    <2> HIDE DEF Bounds
    <2> QED BY <2>1, SmallestOf
<1>3. m \in S
    <2> SUFFICES ASSUME m \notin S PROVE FALSE
        OBVIOUS
    <2>1. m \in Nat /\ m # 0 /\ \A u \in T : ps[u].since <= m /\ ps[u].since # m
        BY <1>2
    <2>2. m - 1 \in Nat /\ \A u \in T : ps[u].since <= m - 1
        BY <1>1, <2>1
    <2>3. m - 1 \in Bounds
        BY <2>2
    <2> QED BY <1>2, <2>1, <2>3
<1>4. \E n \in S : \A u \in T : ps[u].since <= n
    BY <1>2, <1>3
<1>5. Others!Last(ps) = CHOOSE n \in S : \A u \in T : ps[u].since <= n
    BY DEF Others!Last
<1>6. Others!Last(ps) \in S /\ \A u \in T : ps[u].since <= Others!Last(ps)
    <2> HIDE DEF S, T
    <2> QED BY <1>4, <1>5
<1>7. S \subseteq Nat
    BY <1>1
<1> QED BY <1>6, <1>7

LEMMA PrunedIs ==
    ASSUME NEW ps \in Maps, Queued(ps)
    PROVE  Others!Pruned(ps) \in Maps /\ Queued(Others!Pruned(ps))
<1> PICK qs : qs = Others!Pruned(ps)
    OBVIOUS
<1>1. qs \in Maps
    BY DEF Others!Pruned, Maps
<1>2. \A u \in Others!There(qs) : u \in Others!There(ps) /\ qs[u] = ps[u]
    BY DEF Others!Pruned, Others!There
<1>3. Queued(qs)
    BY <1>2 DEF Queued
<1> QED BY <1>1, <1>3

LEMMA NotedIs ==
    ASSUME NEW ps \in Maps, Queued(ps), NEW b \in Beats
    PROVE  Others!Noted(ps, b) \in Maps /\ Queued(Others!Noted(ps, b))
<1> DEFINE heard == ps[b.who] # NotThere /\ ps[b.who].editing
           since == IF ~b.editing THEN 0 ELSE IF heard THEN ps[b.who].since
                    ELSE Others!Last(ps) + 1
<1> PICK last \in Nat : last = Others!Last(ps) /\ \A u \in Others!There(ps) : ps[u].since <= last
    BY LastIs
<1> PICK u : u = b.who
    OBVIOUS
<1>1. u \in Admins /\ b.editing \in BOOLEAN
    BY DEF Beats
<1>2. since \in Nat
    <2>1. heard => ps[u].since \in Nat
        BY <1>1, KnownIs DEF Others!There, Known
    <2> QED BY <2>1
<1>3. b.editing => /\ since <= last + 1
                   /\ \A w \in Others!There(ps) \ {u} : ps[w].editing => ps[w].since # since
    <2> SUFFICES ASSUME b.editing
                 PROVE  /\ since <= last + 1
                        /\ \A w \in Others!There(ps) \ {u} : ps[w].editing => ps[w].since # since
        OBVIOUS
    <2>1. CASE heard
        <3>1. u \in Others!There(ps) /\ since = ps[u].since /\ ps[u].editing
            BY <1>1, <2>1 DEF Others!There
        <3> QED BY <1>2, <3>1 DEF Queued
    <2>2. CASE ~heard
        <3>1. since = last + 1
            BY <2>2
        <3>2. \A w \in Others!There(ps) : ps[w].since \in Nat
            BY KnownIs DEF Known
        <3> QED BY <3>1, <3>2
    <2> QED BY <2>1, <2>2
<1> PICK k : k = IF b.leave THEN NotThere ELSE [editing |-> b.editing, since |-> since, age |-> 0]
    OBVIOUS
<1> PICK s : s = since
    OBVIOUS
<1>4. Others!Noted(ps, b) = [ps EXCEPT ![u] = k]
    BY DEF Others!Noted
<1>5. s \in Nat /\ s <= last + 1
    BY <1>2, <1>3
<1>6. b.editing => \A w \in Others!There(ps) \ {u} : ps[w].editing => ps[w].since # s
    BY <1>3
<1> HIDE DEF since, heard
<1>7. k = NotThere \/ (k \in Known /\ (k.editing <=> b.editing) /\ k.since = s)
    <2>1. 0 \in 0 .. Ttl
        BY PresenceConstants
    <2>2. k = NotThere \/ k = [editing |-> b.editing, since |-> s, age |-> 0]
        OBVIOUS
    <2> QED BY <1>1, <1>5, <2>1, <2>2 DEF Known
<1> PICK qs : qs = [ps EXCEPT ![u] = k]
    OBVIOUS
<1>8. /\ qs \in Maps /\ (u \in Others!There(qs) => qs[u] = k /\ k # NotThere)
      /\ \A w \in Others!There(qs) : w = u \/ (w \in Others!There(ps) /\ qs[w] = ps[w])
    BY <1>1, <1>7 DEF Maps, Others!There
<1>9. Queued(qs)
    <2>1. \A w \in Others!There(qs) : qs[w].since <= last + 1
        <3>1. \A w \in Others!There(ps) : ps[w].since \in Nat
            BY KnownIs DEF Known
        <3> SUFFICES ASSUME NEW w \in Others!There(qs) PROVE qs[w].since <= last + 1
            OBVIOUS
        <3>2. CASE w = u
            BY <1>5, <1>7, <1>8, <3>2
        <3>3. CASE w # u
            <4>1. qs[w] = ps[w] /\ ps[w].since <= last /\ ps[w].since \in Nat
                BY <1>8, <3>1, <3>3
            <4> QED BY <4>1
        <3> QED BY <3>2, <3>3
    <2> DEFINE T == Others!There(qs)
    <2>2. ASSUME NEW v \in T, NEW w \in T
          PROVE  qs[v].editing /\ qs[w].editing /\ qs[v].since = qs[w].since => v = w
        <3> SUFFICES ASSUME qs[v].editing, qs[w].editing, qs[v].since = qs[w].since PROVE v = w
            OBVIOUS
        <3>1. CASE v = u /\ w # u
            <4>1. qs[v].since = s /\ b.editing
                BY <1>7, <1>8, <3>1
            <4>2. qs[w] = ps[w] /\ w \in Others!There(ps)
                BY <1>8, <3>1
            <4> QED BY <1>6, <3>1, <4>1, <4>2
        <3>2. CASE w = u /\ v # u
            <4>1. qs[w].since = s /\ b.editing
                BY <1>7, <1>8, <3>2
            <4>2. qs[v] = ps[v] /\ v \in Others!There(ps)
                BY <1>8, <3>2
            <4> QED BY <1>6, <3>2, <4>1, <4>2
        <3>3. CASE v # u /\ w # u
            BY <1>8, <3>3, ZenonT(40) DEF Queued
        <3> QED BY <3>1, <3>2, <3>3
    <2>3. last + 1 \in Nat
        OBVIOUS
    <2>4. \E m \in Nat : \A w \in Others!There(qs) : qs[w].since <= m
        BY <2>1, <2>3
    <2>5. \A v, w \in Others!There(qs) :
             qs[v].editing /\ qs[w].editing /\ qs[v].since = qs[w].since => v = w
        BY <2>2
    <2> QED BY <2>4, <2>5, Zenon DEF Queued
<1> QED BY <1>4, <1>8, <1>9

\* Of those who edit, the one who began first has the lock.
LEMMA ViewersHaveOneLock ==
    ASSUME NEW ps \in Maps, Queued(ps)
    PROVE  Others!Viewers(ps) \in ViewerSets
<1> DEFINE T == Others!There(ps)
           First(u) == ps[u].editing /\ \A w \in T : ps[w].editing => ps[u].since <= ps[w].since
           Shows(u) == [who |-> u, editing |-> ps[u].editing, lock |-> First(u)]
<1>1. Others!Viewers(ps) = {Shows(u) : u \in T}
    BY DEF Others!Viewers
<1>2. \A u \in T : u \in Admins /\ ps[u].editing \in BOOLEAN /\ First(u) \in BOOLEAN /\ ps[u].since \in Nat
    BY KnownIs DEF Known
<1>3. \A u \in T : Shows(u).lock <=> First(u)
    BY <1>2
<1>4. \A u, w \in T : First(u) /\ First(w) => u = w
    BY <1>2 DEF Queued
<1> HIDE DEF First
<1>5. \A u \in T : Shows(u) \in Viewer
    BY <1>2 DEF Viewer
<1> HIDE DEF Shows, T
<1>6. OneLock(Others!Viewers(ps))
    BY <1>1, <1>3, <1>4 DEF OneLock
<1> QED BY <1>1, <1>5, <1>6 DEF ViewerSets

LEMMA NoViewers == {} \in ViewerSets
BY DEF ViewerSets, OneLock

LEMMA BeatIs ==
    ASSUME PresenceInv, NEW u \in Admins, NEW editing \in BOOLEAN, NEW leave \in BOOLEAN
    PROVE  Others!Beat(u, editing, leave) \in Beats
<1>1. editor[u].n \in Nat
    BY DEF PresenceInv, Editors
<1>2. (editing /\ ~leave) \in BOOLEAN
    OBVIOUS
<1>3. FALSE \in BOOLEAN
    OBVIOUS
<1> QED BY <1>1, <1>2, <1>3, NoViewers DEF Others!Beat, Beats

LEMMA ServedBeat ==
    ASSUME NEW b \in Beats, NEW served \in BOOLEAN, NEW vs \in ViewerSets
    PROVE  [b EXCEPT !.served = served, !.viewers = vs] \in Beats
BY DEF Beats

LEMMA BeatIsServedKeeps ==
    ASSUME PresenceInv, NEW b \in beats, Others!Serve(b)
    PROVE  PresenceInv'
<1>1. /\ presence' = Others!Noted(Others!Pruned(presence), b)
      /\ UNCHANGED <<editor, inboxes, due>>
      /\ beats' = (beats \ {b}) \union {[b EXCEPT !.served = TRUE, !.viewers = Others!Viewers(presence')]}
      /\ news' \subseteq news \union {Others!Viewers(presence')}
    BY DEF Others!Serve
<1>2. b \in Beats
    BY DEF PresenceInv
<1>3. presence' \in Maps /\ Queued(presence')
    BY <1>1, <1>2, PrunedIs, NotedIs DEF PresenceInv
<1> PICK vs : vs = Others!Viewers(presence')
    OBVIOUS
<1>4. vs \in ViewerSets
    BY <1>3, ViewersHaveOneLock
<1> PICK c : c = [b EXCEPT !.served = TRUE, !.viewers = vs]
    OBVIOUS
<1>5. c \in Beats
    <2>1. TRUE \in BOOLEAN
        OBVIOUS
    <2> QED BY <1>2, <1>4, <2>1, ServedBeat, Zenon
<1>6. beats' \subseteq Beats
    BY <1>1, <1>5 DEF PresenceInv
<1>7. news' \subseteq ViewerSets
    BY <1>1, <1>4 DEF PresenceInv
<1> QED BY <1>1, <1>3, <1>6, <1>7 DEF PresenceInv, Others!On

LEMMA AnnounceKeeps ==
    ASSUME PresenceInv, NEW vs \in news, Others!Announce(vs)
    PROVE  PresenceInv'
<1>1. /\ news' = news \ {vs} /\ UNCHANGED <<presence, editor, beats, due>>
      /\ inboxes' = [u \in Admins |-> IF u \in Others!On THEN Append(inboxes[u], vs) ELSE inboxes[u]]
    BY DEF Others!Announce
<1>2. inboxes' \in [Admins -> Seq(ViewerSets)]
    <2>1. vs \in ViewerSets
        BY DEF PresenceInv
    <2>2. \A u \in Admins : inboxes[u] \in Seq(ViewerSets) /\ Append(inboxes[u], vs) \in Seq(ViewerSets)
        BY <2>1 DEF PresenceInv
    <2> QED BY <1>1, <2>2
<1> QED BY <1>1, <1>2 DEF PresenceInv, Others!On

LEMMA LaterBeat ==
    ASSUME NEW b \in Beats
    PROVE  [b EXCEPT !.n = @ + 1] \in Beats
BY DEF Beats

LEMMA OpensKeep ==
    ASSUME PresenceInv, NEW u \in Admins, Others!Open(u)
    PROVE  PresenceInv'
<1> PICK e : e = [open |-> TRUE, n |-> editor[u].n + 1, editing |-> FALSE, viewers |-> {}]
    OBVIOUS
<1> PICK b : b = Others!Beat(u, FALSE, FALSE)
    OBVIOUS
<1> PICK c : c = [b EXCEPT !.n = @ + 1]
    OBVIOUS
<1>1. /\ UNCHANGED <<presence, news, inboxes, due>> /\ u \notin Others!On
      /\ editor' = [editor EXCEPT ![u] = e] /\ beats' = beats \union {c}
    BY DEF Others!Open
<1>2. editor \in [Admins -> Editors] /\ editor[u].n \in Nat
    BY DEF PresenceInv, Editors
<1>3. b \in Beats
    <2>1. FALSE \in BOOLEAN
        OBVIOUS
    <2> QED BY <2>1, BeatIs
<1>4. c \in Beats
    BY <1>3, LaterBeat, Zenon
<1>5. e \in Editors /\ e.open /\ ~e.editing
    BY <1>2, NoViewers DEF Editors
<1>6. editor' \in [Admins -> Editors] /\ editor'[u] = e /\ \A w \in Admins \ {u} : editor'[w] = editor[w]
    BY <1>1, <1>2, <1>5
<1>7. (\A w \in Admins : editor'[w].editing => editor'[w].open) /\ due' \subseteq Others!On'
    BY <1>1, <1>5, <1>6 DEF PresenceInv, Others!On
<1> QED BY <1>1, <1>4, <1>6, <1>7 DEF PresenceInv

\* An editor that closes.
LEMMA ClosedKeeps ==
    ASSUME PresenceInv, NEW u \in Admins, Others!Closed(u), UNCHANGED presence,
           beats' \subseteq Beats, news' \subseteq ViewerSets
    PROVE  PresenceInv'
<1> PICK e : e = [editor[u] EXCEPT !.open = FALSE, !.editing = FALSE, !.viewers = {}]
    OBVIOUS
<1>1. /\ editor' = [editor EXCEPT ![u] = e] /\ due' = due \ {u}
      /\ inboxes' = [inboxes EXCEPT ![u] = <<>>]
    BY DEF Others!Closed
<1>2. editor \in [Admins -> Editors] /\ editor[u] \in Editors
    BY DEF PresenceInv
<1>3. e \in Editors
    BY <1>2, NoViewers DEF Editors
<1>4. ~e.editing
    BY <1>2 DEF Editors
<1>5. editor' \in [Admins -> Editors] /\ editor'[u] = e /\ \A w \in Admins \ {u} : editor'[w] = editor[w]
    BY <1>1, <1>2, <1>3
<1>6. \A w \in Admins : editor'[w].editing => editor'[w].open
    BY <1>4, <1>5 DEF PresenceInv
<1>7. due' \subseteq Others!On'
    BY <1>1, <1>5 DEF PresenceInv, Others!On
<1>8. inboxes' \in [Admins -> Seq(ViewerSets)]
    <2>1. <<>> \in Seq(ViewerSets)
        OBVIOUS
    <2> QED BY <1>1, <2>1 DEF PresenceInv
<1> QED BY <1>5, <1>6, <1>7, <1>8 DEF PresenceInv

LEMMA GoesKeep ==
    ASSUME PresenceInv, NEW u \in Admins, Others!Leave(u) \/ Others!Crash(u)
    PROVE  PresenceInv'
<1>1. CASE Others!Leave(u)
    <2>1. Others!Beat(u, FALSE, TRUE) \in Beats
        <3>1. FALSE \in BOOLEAN /\ TRUE \in BOOLEAN
            OBVIOUS
        <3> QED BY <3>1, BeatIs
    <2>2. beats' = beats \union {Others!Beat(u, FALSE, TRUE)}
        BY <1>1 DEF Others!Leave
    <2> QED BY <1>1, <2>1, <2>2, ClosedKeeps DEF Others!Leave, PresenceInv
<1>2. CASE Others!Crash(u)
    BY <1>2, ClosedKeeps DEF Others!Crash, PresenceInv
<1> QED BY <1>1, <1>2

LEMMA SetEditingKeeps ==
    ASSUME PresenceInv, NEW u \in Admins, Others!SetEditing(u)
    PROVE  PresenceInv'
<1> PICK edits : edits = ~editor[u].editing
    OBVIOUS
<1> PICK e : e = [editor[u] EXCEPT !.editing = edits]
    OBVIOUS
<1>1. /\ UNCHANGED <<presence, news, inboxes, due>> /\ u \in Others!On
      /\ editor' = [editor EXCEPT ![u] = e]
      /\ beats' = beats \union {Others!Beat(u, edits, FALSE)}
    BY DEF Others!SetEditing
<1>2. editor \in [Admins -> Editors] /\ editor[u] \in Editors
    BY DEF PresenceInv
<1>3. edits \in BOOLEAN
    OBVIOUS
<1>4. Others!Beat(u, edits, FALSE) \in Beats
    <2>1. FALSE \in BOOLEAN
        OBVIOUS
    <2> QED BY <1>3, <2>1, BeatIs
<1>5. e \in Editors /\ e.open = editor[u].open
    BY <1>2, <1>3 DEF Editors
<1>6. e.open
    BY <1>1, <1>5 DEF Others!On
<1>7. editor' \in [Admins -> Editors] /\ editor'[u] = e /\ \A w \in Admins \ {u} : editor'[w] = editor[w]
    BY <1>1, <1>2, <1>5
<1>8. (\A w \in Admins : editor'[w].editing => editor'[w].open) /\ due' \subseteq Others!On'
    BY <1>1, <1>6, <1>7 DEF PresenceInv, Others!On
<1> QED BY <1>1, <1>4, <1>7, <1>8 DEF PresenceInv

\* A heartbeat that is sent.
LEMMA BeatsKeep ==
    ASSUME PresenceInv, NEW u \in Admins, Others!TimerBeat(u) \/ Others!StreamGap(u)
    PROVE  PresenceInv'
<1>1. Others!Beat(u, editor[u].editing, FALSE) \in Beats
    <2>1. FALSE \in BOOLEAN
        OBVIOUS
    <2>2. editor[u].editing \in BOOLEAN
        BY DEF PresenceInv, Editors
    <2> QED BY <2>1, <2>2, BeatIs
<1>2. /\ beats' = beats \union {Others!Beat(u, editor[u].editing, FALSE)}
      /\ UNCHANGED <<presence, editor, news>> /\ due' \subseteq due
      /\ inboxes' = inboxes \/ inboxes' = [inboxes EXCEPT ![u] = <<>>]
    BY DEF Others!TimerBeat, Others!StreamGap
<1>3. inboxes' \in [Admins -> Seq(ViewerSets)]
    <2>1. <<>> \in Seq(ViewerSets)
        OBVIOUS
    <2> QED BY <1>2, <2>1 DEF PresenceInv
<1> QED BY <1>1, <1>2, <1>3 DEF PresenceInv, Others!On

\* What an answer or an announcement brings is shown.
LEMMA ShowsViewers ==
    ASSUME PresenceInv, NEW u \in Admins, NEW vs \in ViewerSets,
           editor' = [editor EXCEPT ![u].viewers = vs], UNCHANGED due
    PROVE  /\ editor' \in [Admins -> Editors]
           /\ \A w \in Admins : editor'[w].editing => editor'[w].open
           /\ due' \subseteq Others!On'
<1> PICK e : e = [editor[u] EXCEPT !.viewers = vs]
    OBVIOUS
<1>1. editor' = [editor EXCEPT ![u] = e]
    OBVIOUS
<1>2. editor \in [Admins -> Editors] /\ editor[u] \in Editors
    BY DEF PresenceInv
<1>3. e \in Editors /\ e.open = editor[u].open /\ e.editing = editor[u].editing
    BY <1>2 DEF Editors
<1>4. e.editing => e.open
    BY <1>3 DEF PresenceInv
<1>5. editor' \in [Admins -> Editors] /\ editor'[u] = e /\ \A w \in Admins \ {u} : editor'[w] = editor[w]
    BY <1>1, <1>2, <1>3
<1>6. \A w \in Admins : editor'[w].editing => editor'[w].open
    BY <1>4, <1>5 DEF PresenceInv
<1>7. \A w \in Others!On : editor'[w].open
    BY <1>3, <1>5 DEF Others!On
<1> QED BY <1>5, <1>6, <1>7 DEF PresenceInv, Others!On

LEMMA BeatAnswerKeeps ==
    ASSUME PresenceInv, NEW b \in beats, Others!Answer(b)
    PROVE  PresenceInv'
<1>1. /\ beats' = beats \ {b} /\ UNCHANGED <<presence, news, inboxes, due>>
      /\ editor' = editor \/ editor' = [editor EXCEPT ![b.who].viewers = b.viewers]
    BY DEF Others!Answer
<1>2. b.who \in Admins /\ b.viewers \in ViewerSets
    BY DEF PresenceInv, Beats
<1>3. CASE editor' = editor
    BY <1>1, <1>3 DEF PresenceInv, Others!On
<1>4. CASE editor' = [editor EXCEPT ![b.who].viewers = b.viewers]
    BY <1>1, <1>2, <1>4, ShowsViewers DEF PresenceInv
<1> QED BY <1>1, <1>3, <1>4

LEMMA DeliverKeeps ==
    ASSUME PresenceInv, NEW u \in Admins, Others!Deliver(u)
    PROVE  PresenceInv'
<1>1. /\ inboxes[u] # <<>> /\ inboxes' = [inboxes EXCEPT ![u] = Tail(@)]
      /\ editor' = [editor EXCEPT ![u].viewers = Head(inboxes[u])]
      /\ UNCHANGED <<presence, beats, news, due>>
    BY DEF Others!Deliver
<1>2. inboxes[u] \in Seq(ViewerSets)
    BY DEF PresenceInv
<1>3. Head(inboxes[u]) \in ViewerSets /\ Tail(inboxes[u]) \in Seq(ViewerSets)
    BY <1>1, <1>2
<1>4. inboxes' \in [Admins -> Seq(ViewerSets)]
    BY <1>1, <1>3 DEF PresenceInv
<1> QED BY <1>1, <1>3, <1>4, ShowsViewers DEF PresenceInv

LEMMA PresenceTickKeeps ==
    ASSUME PresenceInv, Others!Tick
    PROVE  PresenceInv'
<1>1. /\ UNCHANGED <<editor, beats, news, inboxes>> /\ due' = Others!On
      /\ presence' = [u \in Admins |->
            IF presence[u] # NotThere /\ presence[u].age < Ttl
            THEN [presence[u] EXCEPT !.age = @ + 1] ELSE presence[u]]
    BY DEF Others!Tick
<1>2. presence \in Maps /\ Queued(presence)
    BY DEF PresenceInv
<1>3. \A u \in Others!There(presence)' : u \in Others!There(presence)
    BY <1>1 DEF Others!There
<1>4. ASSUME NEW u \in Others!There(presence)
      PROVE  /\ presence'[u] \in Known /\ presence'[u].since = presence[u].since
             /\ presence'[u].editing = presence[u].editing
    <2>1. u \in Admins /\ presence[u] \in Known
        BY <1>2, KnownIs
    <2>2. CASE presence[u].age < Ttl
        <3> PICK k : k = [presence[u] EXCEPT !.age = @ + 1]
            OBVIOUS
        <3>1. presence[u].age + 1 \in 0 .. Ttl
            BY <2>1, <2>2, PresenceConstants DEF Known
        <3>2. k \in Known /\ k.since = presence[u].since /\ k.editing = presence[u].editing
            BY <2>1, <3>1 DEF Known
        <3>3. presence'[u] = k
            BY <1>1, <2>1, <2>2 DEF Others!There
        <3> QED BY <3>2, <3>3
    <2>3. CASE ~(presence[u].age < Ttl)
        BY <1>1, <2>1, <2>3
    <2> QED BY <2>2, <2>3
<1>5. presence' \in Maps
    <2>1. \A u \in Admins \ Others!There(presence) : presence'[u] = NotThere
        BY <1>1 DEF Others!There
    <2>2. \A u \in Admins : presence'[u] \in Known \union {NotThere}
        BY <1>4, <2>1
    <2> QED BY <1>1, <2>2 DEF Maps
<1>6. Queued(presence)'
    <2>1. \E m \in Nat : \A u \in Others!There(presence)' : presence'[u].since <= m
        BY <1>2, <1>3, <1>4 DEF Queued
    <2>2. \A u, w \in Others!There(presence)' :
             presence'[u].editing /\ presence'[w].editing /\ presence'[u].since = presence'[w].since => u = w
        BY <1>2, <1>3, <1>4 DEF Queued
    <2> QED BY <2>1, <2>2 DEF Queued
<1> QED BY <1>1, <1>5, <1>6 DEF PresenceInv, Others!On

LEMMA PresenceKeeps == PresenceInv /\ Others!Next => PresenceInv'
<1> SUFFICES ASSUME PresenceInv, Others!Next PROVE PresenceInv'
    OBVIOUS
<1>1. CASE Others!Progress
    BY <1>1, BeatIsServedKeeps, BeatAnswerKeeps, AnnounceKeeps, BeatsKeep, DeliverKeeps,
       PresenceTickKeeps
    DEF Others!Progress
<1>2. CASE \E b \in beats : Others!BeatFails(b)
    BY <1>2 DEF Others!BeatFails, PresenceInv, Others!On
<1> QED BY <1>1, <1>2, OpensKeep, GoesKeep, SetEditingKeeps, BeatsKeep DEF Others!Next

LEMMA PresenceStarts == Others!Init => PresenceInv
<1> SUFFICES ASSUME Others!Init PROVE PresenceInv
    OBVIOUS
<1>1. /\ presence = [u \in Admins |-> NotThere] /\ beats = {} /\ news = {} /\ due = {}
      /\ inboxes = [u \in Admins |-> <<>>]
      /\ editor = [u \in Admins |-> [open |-> FALSE, n |-> 0, editing |-> FALSE, viewers |-> {}]]
    BY DEF Others!Init
<1> PICK e : e = [open |-> FALSE, n |-> 0, editing |-> FALSE, viewers |-> {}]
    OBVIOUS
<1>2. e \in Editors /\ ~e.editing
    BY NoViewers DEF Editors
<1>3. /\ editor \in [Admins -> Editors] /\ \A u \in Admins : editor[u].editing => editor[u].open
    BY <1>1, <1>2
<1>4. presence \in Maps /\ Others!There(presence) = {}
    BY <1>1 DEF Maps, Others!There
<1>5. Queued(presence)
    BY <1>4 DEF Queued
<1>6. <<>> \in Seq(ViewerSets)
    OBVIOUS
<1> QED BY <1>1, <1>3, <1>4, <1>5, <1>6 DEF PresenceInv

LEMMA PresenceStays == PresenceInv /\ UNCHANGED presenceVars => PresenceInv'
BY DEF presenceVars, PresenceInv, Others!On, Queued, Others!There

LEMMA PresenceInvariance == Spec => []PresenceInv
<1>1. PresenceInv /\ [Next]_vars => PresenceInv'
    <2> SUFFICES ASSUME PresenceInv, [Next]_vars PROVE PresenceInv'
        OBVIOUS
    <2>1. Others!Next \/ UNCHANGED presenceVars
        BY DEF Next, Only, vars
    <2> QED BY <2>1, PresenceKeeps, PresenceStays
<1>2. Init => PresenceInv
    BY PresenceStarts DEF Init
<1> QED BY <1>1, <1>2, PTL DEF Spec

LEMMA PresenceTyped == PresenceInv => Others!PresenceTypeOK
<1> SUFFICES ASSUME PresenceInv PROVE Others!PresenceTypeOK
    OBVIOUS
<1>1. \A u \in Others!There(presence) : presence[u].age \in 0 .. Ttl
    BY KnownIs DEF PresenceInv, Known
<1>2. \A u \in Admins : \A v, w \in editor[u].viewers : v.lock /\ w.lock => v = w
    BY DEF PresenceInv, Editors, ViewerSets, OneLock
<1> QED BY <1>1, <1>2 DEF PresenceInv, Others!PresenceTypeOK
=============================================================================
