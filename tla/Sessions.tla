------------------------------ MODULE Sessions ------------------------------
(***************************************************************************)
(* Admin sessions (crates/verdin-auth/src/service.rs, account.rs): refresh *)
(* tokens that rotate on every use and belong to a family, one family per  *)
(* sign-in, and the operations that end families: sign-out, the reuse of   *)
(* a rotated token, a new password, a deactivation.                        *)
(*                                                                         *)
(* Requests run concurrently.  A transaction that only locks and writes    *)
(* rows of its own is one action at its commit; one that reads, decides    *)
(* and writes is an action per statement.  Two databases behave            *)
(* differently and both are modelled:                                      *)
(*   sqlite    BEGIN IMMEDIATE and every single write queue for one lock,  *)
(*             so nothing else writes while a transaction is open;         *)
(*   postgres  an UPDATE takes the rows it can see when it starts, waits   *)
(*             for those another transaction has locked, looks at these    *)
(*             again, and never sees rows inserted meanwhile.              *)
(*                                                                         *)
(* Left out: the second factor between the password and the session, the   *)
(* lockout, roles, and the access token (a signature with an expiry).      *)
(***************************************************************************)
EXTENDS Integers, FiniteSets, Sequences

CONSTANTS
    Users,
    Requests,     \* concurrent requests
    Databases,    \* the databases an instance may run on
    NoUser,
    MaxTokens,    \* bounds: rows of vd_sessions,
    MaxUpdates,   \*   passwords changed and admins deactivated,
    MaxExpiries,  \*   tokens that expire,
    MaxCrashes    \*   requests cut off

ASSUME ConstantsAssumption ==
    /\ Databases \subseteq {"sqlite", "postgres"}
    /\ NoUser \notin Users
    /\ {MaxTokens, MaxUpdates, MaxExpiries, MaxCrashes} \subseteq Nat

VARIABLES
    database,   \* the database in use
    active,     \* vd_admin_users.is_active
    tokens,     \* vd_sessions, in the order of the inserts
    req,        \* what each request is at
    ended,      \* families a request that has finished was to end
    spent       \* how much of each bound is used

vars == <<database, active, tokens, req, ended, spent>>

Ids    == DOMAIN tokens
Token  == [user: Users, family: Nat, used: BOOLEAN, revoked: BOOLEAN,
           gone: BOOLEAN]
Steps  == {"idle", "admit", "open", "rotate", "reuse", "check", "cut", "revoking"}
Request == [at: Steps, user: Users \cup {NoUser}, token: Nat,
            family: Nat,             \* 0: every session of the user
            targets: SUBSET Nat,     \* rows the running UPDATE has picked
            ends: SUBSET Nat,        \* families the request is to end
            then: {"idle", "open"}]  \* what follows the revocation

Idle == [at |-> "idle", user |-> NoUser, token |-> 0, family |-> 0,
         targets |-> {}, ends |-> {}, then |-> "idle"]

Init ==
    /\ database \in Databases
    /\ active = [u \in Users |-> TRUE]
    /\ tokens = <<>>
    /\ req = [r \in Requests |-> Idle]
    /\ ended = {}
    /\ spent = [updates |-> 0, expiries |-> 0, crashes |-> 0]

Spend(what, max) ==
    /\ spent[what] < max
    /\ spent' = [spent EXCEPT ![what] = @ + 1]

Stored(t) == t \in Ids /\ ~tokens[t].gone
Live(t)   == Stored(t) /\ ~tokens[t].used /\ ~tokens[t].revoked
Families(u) == {tokens[t].family : t \in {x \in Ids : tokens[x].user = u}}

\* Rows a request has locked: the presented token from its SELECT on.
Holds(r, t) == req[r].at \in {"rotate", "reuse", "revoking"} /\ req[r].token = t
\* Mutant: refresh reads the token without FOR UPDATE.
FreeAlways(r, t) == TRUE
Free(r, t)  == \A q \in Requests \ {r} : ~Holds(q, t)
\* SQLite's write lock: refresh holds it from BEGIN to COMMIT.
\* Mutant: update_user and refresh keep it until their sessions are revoked.
InTransactionLong(r) == req[r].at \in {"rotate", "reuse", "cut", "revoking"}
InTransaction(r)     == req[r].at \in {"rotate", "reuse", "revoking"}
MayWrite(r) == database = "sqlite" => \A q \in Requests \ {r} : ~InTransaction(q)
NoneWrites  == database = "sqlite" => \A r \in Requests : ~InTransaction(r)

\* Bound: every request that is to insert a token finds room for it.
Inserting(r) == req[r].at \in {"admit", "open", "rotate"} \/ req[r].then = "open"
Room == Len(tokens) + Cardinality({r \in Requests : Inserting(r)}) < MaxTokens

Goto(r, at)  == req' = [req EXCEPT ![r].at = at]
Finish(r)    == req' = [req EXCEPT ![r] = Idle]
Inserted(u, f) ==
    Append(tokens, [user |-> u, family |-> f, used |-> FALSE, revoked |-> FALSE,
                    gone |-> FALSE])

-----------------------------------------------------------------------------
(* Signing in.                                                             *)

\* login: the password is the current one, and the account is active
LoginCheck(r, u) ==
    /\ req[r] = Idle /\ active[u]
    /\ Room
    /\ req' = [req EXCEPT ![r] = [Idle EXCEPT !.at = "admit", !.user = u]]
    /\ UNCHANGED <<database, active, tokens, ended, spent>>

\* finish_second_step reads the account again
LoginAdmit(r) ==
    /\ req[r].at = "admit"
    /\ IF active[req[r].user] THEN Goto(r, "open") ELSE Finish(r)
    /\ UNCHANGED <<database, active, tokens, ended, spent>>

\* open_session: a family of its own
LoginOpen(r) ==
    /\ req[r].at = "open" /\ MayWrite(r)
    /\ tokens' = Inserted(req[r].user, Len(tokens) + 1)
    /\ Finish(r)
    /\ UNCHANGED <<database, active, ended, spent>>

-----------------------------------------------------------------------------
(* Refreshing.                                                             *)

\* Mutant: refresh does not look at revoked_at.
RefreshReadRevoked(r, t) ==
    /\ req[r] = Idle /\ MayWrite(r) /\ Free(r, t)
    /\ Stored(t)
    /\ tokens[t].used \/ Room
    /\ req' = [req EXCEPT ![r] = [Idle EXCEPT
                  !.at = IF tokens[t].used THEN "reuse" ELSE "rotate",
                  !.user = tokens[t].user, !.token = t, !.family = tokens[t].family,
                  !.ends = IF tokens[t].used THEN {tokens[t].family} ELSE {}]]
    /\ UNCHANGED <<database, active, tokens, ended, spent>>

\* SELECT ... FOR UPDATE of the presented token, and what its row says
RefreshRead(r, t) ==
    /\ req[r] = Idle /\ MayWrite(r) /\ Free(r, t)
    /\ Stored(t) /\ ~tokens[t].revoked
    /\ tokens[t].used \/ Room
    /\ req' = [req EXCEPT ![r] = [Idle EXCEPT
                  !.at = IF tokens[t].used THEN "reuse" ELSE "rotate",
                  !.user = tokens[t].user, !.token = t, !.family = tokens[t].family,
                  !.ends = IF tokens[t].used THEN {tokens[t].family} ELSE {}]]
    /\ UNCHANGED <<database, active, tokens, ended, spent>>

\* The token is used up and its successor inserted; both appear at the commit.
RefreshRotate(r) ==
    /\ req[r].at = "rotate"
    /\ tokens' = [Inserted(req[r].user, req[r].family) EXCEPT ![req[r].token].used = TRUE]
    /\ req' = [req EXCEPT ![r].at = "check", ![r].token = 0]
    /\ UNCHANGED <<database, active, ended, spent>>

\* A deactivated admin loses every session instead of getting this one.
RefreshCheck(r) ==
    /\ req[r].at = "check"
    /\ IF active[req[r].user]
       THEN Finish(r)
       ELSE req' = [req EXCEPT ![r].at = "cut", ![r].family = 0,
                               ![r].ends = Families(req[r].user)]
    /\ UNCHANGED <<database, active, tokens, ended, spent>>

-----------------------------------------------------------------------------
(* Ending sessions: UPDATE vd_sessions SET revoked_at WHERE revoked_at IS  *)
(* NULL AND the family, or the user, is the request's.                     *)

\* Mutant: the presented token instead of its family.
ScopeToken(r) == {t \in Ids : Stored(t) /\ ~tokens[t].revoked /\ t = req[r].token}
Scope(r) ==
    {t \in Ids : /\ Stored(t) /\ ~tokens[t].revoked
                 /\ IF req[r].family # 0 THEN tokens[t].family = req[r].family
                                         ELSE tokens[t].user = req[r].user}

\* logout and revoke_session; without a row to revoke they change nothing
SignOut(r, f) ==
    /\ req[r] = Idle
    /\ \E t \in Ids : Stored(t) /\ tokens[t].family = f /\ ~tokens[t].revoked
    /\ req' = [req EXCEPT ![r] = [Idle EXCEPT !.at = "cut", !.family = f, !.ends = {f}]]
    /\ UNCHANGED <<database, active, tokens, ended, spent>>

\* update_user commits first and revokes afterwards.  An admin who changes the
\* own password gets a new session then.
ChangePassword(r, u) ==
    /\ req[r] = Idle /\ MayWrite(r) /\ active[u]
    /\ Spend("updates", MaxUpdates)
    /\ \E then \in {"idle", "open"} :
          /\ then = "open" => Room
          /\ req' = [req EXCEPT ![r] = [Idle EXCEPT !.at = "cut", !.user = u,
                                                    !.ends = Families(u), !.then = then]]
    /\ UNCHANGED <<database, active, tokens, ended>>

Deactivate(r, u) ==
    /\ req[r] = Idle /\ MayWrite(r) /\ active[u]
    /\ Spend("updates", MaxUpdates)
    /\ active' = [active EXCEPT ![u] = FALSE]
    /\ req' = [req EXCEPT ![r] = [Idle EXCEPT !.at = "cut", !.user = u,
                                              !.ends = Families(u)]]
    /\ UNCHANGED <<database, tokens, ended>>

Activate(u) ==
    /\ ~active[u] /\ NoneWrites
    /\ active' = [active EXCEPT ![u] = TRUE]
    /\ UNCHANGED <<database, tokens, req, ended, spent>>

\* The UPDATE starts: it picks the rows it sees.
RevokeStart(r) ==
    /\ req[r].at \in {"cut", "reuse"} /\ MayWrite(r)
    /\ req' = [req EXCEPT ![r].at = "revoking", ![r].targets = Scope(r)]
    /\ UNCHANGED <<database, active, tokens, ended, spent>>

\* It ends once no other transaction holds one of them.
RevokeFinish(r) ==
    /\ req[r].at = "revoking"
    /\ \A t \in req[r].targets : Free(r, t)
    /\ tokens' = [t \in Ids |-> IF t \in req[r].targets
                                THEN [tokens[t] EXCEPT !.revoked = TRUE] ELSE tokens[t]]
    /\ ended' = ended \cup req[r].ends
    /\ req' = [req EXCEPT ![r] =
                 IF req[r].then = "open"
                 THEN [Idle EXCEPT !.at = "open", !.user = req[r].user] ELSE Idle]
    /\ UNCHANGED <<database, active, spent>>

\* Two reuses that lock each other's rows: the database fails one of them.
Deadlocked(r, q) ==
    /\ r # q /\ req[r].at = "revoking" /\ req[q].at = "revoking"
    /\ req[q].token \in req[r].targets /\ req[r].token \in req[q].targets

DeadlockVictim(r) ==
    /\ \E q \in Requests : Deadlocked(r, q)
    /\ Finish(r)
    /\ UNCHANGED <<database, active, tokens, ended, spent>>

-----------------------------------------------------------------------------
\* A token's 30 days pass.  An unused one stops working at once, a used one is
\* recognized until prune_expired has deleted its row, a day later.
Expire(t) ==
    /\ Stored(t) /\ NoneWrites /\ (\A r \in Requests : ~Holds(r, t))
    /\ Spend("expiries", MaxExpiries)
    /\ tokens' = [tokens EXCEPT ![t].gone = TRUE]
    /\ UNCHANGED <<database, active, req, ended>>

\* The process stops: open transactions roll back, committed steps stay.
Crash(r) ==
    /\ req[r] # Idle
    /\ Spend("crashes", MaxCrashes)
    /\ Finish(r)
    /\ UNCHANGED <<database, active, tokens, ended>>

-----------------------------------------------------------------------------
Proceed(r) ==
    LoginAdmit(r) \/ LoginOpen(r) \/ RefreshRotate(r) \/ RefreshCheck(r)
    \/ RevokeStart(r) \/ RevokeFinish(r) \/ DeadlockVictim(r)

Next ==
    \/ \E r \in Requests :
          \/ LoginAdmit(r) \/ LoginOpen(r) \/ RefreshRotate(r) \/ RefreshCheck(r)
          \/ RevokeStart(r) \/ RevokeFinish(r) \/ DeadlockVictim(r) \/ Crash(r)
          \/ \E u \in Users : LoginCheck(r, u) \/ ChangePassword(r, u) \/ Deactivate(r, u)
          \/ \E t \in Ids : RefreshRead(r, t) \/ SignOut(r, tokens[t].family)
    \/ \E u \in Users : Activate(u)
    \/ \E t \in Ids : Expire(t)

Spec     == Init /\ [][Next]_vars
\* Every request goes on when it can: its statements return.  A locked row goes
\* to the statement that has waited for it longest, hence the strong fairness of
\* the UPDATE that waits; SQLite's lock needs none, nothing competes forever.
FairSpec == Spec /\ \A r \in Requests : WF_vars(Proceed(r)) /\ SF_vars(RevokeFinish(r))

-----------------------------------------------------------------------------
(* Properties.                                                             *)

\* The rows and requests keep their types, and rotation continues its family:
\* a token is only used up by a successor of the same family and user.
TypeOK ==
    /\ database \in Databases
    /\ active \in [Users -> BOOLEAN]
    /\ tokens \in Seq(Token)
    /\ req \in [Requests -> Request]
    /\ ended \subseteq Ids
    /\ spent \in [{"updates", "expiries", "crashes"} -> Nat]
    /\ \A t \in Ids : tokens[t].used =>
          \E s \in Ids : s > t /\ tokens[s].family = tokens[t].family
                             /\ tokens[s].user = tokens[t].user

\* "The refresh token rotates on every use": whatever requests present it at the
\* same time, a family never has two tokens that work.
OneLiveToken ==
    \A s, t \in Ids :
        Live(s) /\ Live(t) /\ tokens[s].family = tokens[t].family => s = t

\* A session that was to end is over: once a sign-out, a reuse, a new password or
\* a deactivation has been carried out, none of the families it covers ever has a
\* token that works again.
SessionsEnd    == \A t \in Ids : tokens[t].family \in ended => ~Live(t)
EndedStayEnded == database = "sqlite" => SessionsEnd

\* Each family is a chain of tokens, of which at most one works, the last one, and none
\* any more once it has ended: whatever the requests do at the same time, the database
\* implements `RefreshFamily`.
IssuedIn(f) == {t \in Ids : tokens[t].family = f}
LiveIn(f)   == {t \in IssuedIn(f) : Live(t)}
Family(f)   == INSTANCE RefreshFamily WITH issued <- IssuedIn(f), live <- LiveIn(f)

FamilyStep(f) == Family(f)!Next \/ UNCHANGED <<IssuedIn(f), LiveIn(f)>>
FamiliesRotate ==
    (\A f \in 1 .. MaxTokens : Family(f)!Init) /\ [][\A f \in 1 .. MaxTokens : FamilyStep(f)]_tokens

\* No request waits for the others forever, whichever locks they hold.
RequestsEnd == \A r \in Requests : req[r] # Idle ~> req[r] = Idle
=============================================================================
