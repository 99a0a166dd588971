-------------------------- MODULE AdminAuthProofs --------------------------
(***************************************************************************)
(* Theorems about Sessions and TwoFactor, the two halves of an admin's      *)
(* sign-in: for every number of users, requests and tokens and both         *)
(* databases, and for any number of passkeys, steps and changes.            *)
(*                                                                         *)
(* Sessions.  A family never has two working tokens because the request     *)
(* that is to rotate one holds its row: while it does, nobody else takes    *)
(* the row, and no revocation or expiry touches it, so the token it uses up *)
(* is the one that works.  Inv therefore says what each request knows of    *)
(* its token (Knows), that a row has one holder (Held), and, for SQLite,    *)
(* that there is one open transaction, whose UPDATE still picks the rows it *)
(* should (Queued).                                                         *)
(*                                                                         *)
(* Second factors.  That no code finishes two sign-ins rests on UsedOK      *)
(* alone: the codes used are older than the last step and no longer in the  *)
(* list, whatever a request has read.  That the factors work, and that the  *)
(* last one stays, rests on ChangeOK: while no two changes overlap, what a  *)
(* change has read still holds when it writes.                             *)
(***************************************************************************)
EXTENDS Sessions, TwoFactor, FiniteSetTheorems, TLAPS

-----------------------------------------------------------------------------
(* Sessions. *)


Locking == {"rotate", "reuse", "revoking"}

Works(T, t) == t \in DOMAIN T /\ ~T[t].gone /\ ~T[t].used /\ ~T[t].revoked

\* The rows a revocation is to pick.
Picks(q, T) ==
    {t \in DOMAIN T : /\ ~T[t].gone /\ ~T[t].revoked
                      /\ IF q.family # 0 THEN T[t].family = q.family ELSE T[t].user = q.user}

\* A family is of one user, named after its first token, and has one token that works;
\* a token is used up by a later one.
Rotating(T) ==
    /\ \A t \in DOMAIN T : T[t].family \in DOMAIN T
    /\ \A s, t \in DOMAIN T : T[s].family = T[t].family => T[s].user = T[t].user
    /\ \A s, t \in DOMAIN T :
         Works(T, s) /\ Works(T, t) /\ T[s].family = T[t].family => s = t
    /\ \A t \in DOMAIN T : T[t].used =>
         \E s \in DOMAIN T : s > t /\ T[s].family = T[t].family /\ T[s].user = T[t].user

\* What a request knows: the token it is to rotate works, and the families it is to
\* end have no other tokens than those its UPDATE looks for.
Knows(q, T) ==
    /\ q.ends \subseteq DOMAIN T
    /\ q.at \in {"admit", "open"} \/ q.then = "open" => q.user \in Users
    /\ q.at \notin Locking => q.token = 0
    /\ q.at = "rotate" =>
         Works(T, q.token) /\ T[q.token].family = q.family /\ T[q.token].user = q.user
    /\ \A f \in q.ends : \A t \in DOMAIN T : T[t].family = f =>
         IF q.family # 0 THEN q.family = f ELSE T[t].user = q.user

\* A row has one holder.
Held(Q) ==
    \A r, p \in Requests :
        /\ Q[r].at \in Locking /\ Q[p].at \in Locking
        /\ Q[r].token = Q[p].token /\ Q[r].token # 0
        => r = p

\* SQLite: one transaction at a time, and nothing changes under its UPDATE.
Queued(Q, T, over) ==
    /\ \A r, p \in Requests : Q[r].at \in Locking /\ Q[p].at \in Locking => r = p
    /\ \A r \in Requests : Q[r].at = "revoking" => Q[r].targets = Picks(Q[r], T)
    /\ \A t \in DOMAIN T : T[t].family \in over => ~Works(T, t)

Typed ==
    /\ database \in Databases
    /\ active \in [Users -> BOOLEAN]
    /\ tokens \in Seq(Token)
    /\ req \in [Requests -> Request]
    /\ ended \subseteq DOMAIN tokens
    /\ spent \in [{"updates", "expiries", "crashes"} -> Nat]

Inv ==
    /\ Typed
    /\ Rotating(tokens)
    /\ \A r \in Requests : Knows(req[r], tokens)
    /\ Held(req)
    /\ database = "sqlite" => Queued(req, tokens, ended)

-----------------------------------------------------------------------------
\* The parts in the words of Sessions.
LEMMA Words ==
    /\ Ids = DOMAIN tokens
    /\ \A t : Live(t) <=> Works(tokens, t)
    /\ \A t : Stored(t) <=> t \in DOMAIN tokens /\ ~tokens[t].gone
    /\ \A r : Scope(r) = Picks(req[r], tokens)
    /\ \A r : InTransaction(r) <=> req[r].at \in Locking
    /\ \A r, t : Holds(r, t) <=> req[r].at \in Locking /\ req[r].token = t
  BY DEF Ids, Live, Works, Stored, Scope, Picks, InTransaction, Holds, Locking

LEMMA IdleKnows ==
    ASSUME NEW T PROVE Knows(Idle, T) /\ Idle \in Request /\ Idle.at = "idle"
  BY DEF Knows, Idle, Request, Steps, Locking

LEMMA InitInv == Init => Inv
  <1> SUFFICES ASSUME Init PROVE Inv
    OBVIOUS
  <1>1. /\ tokens = <<>> /\ DOMAIN tokens = {}
        /\ \A r \in Requests : req[r] = Idle
    BY DEF Init
  <1>2. Typed
    BY <1>1, IdleKnows DEF Init, Typed
  <1>3. Rotating(tokens)
    BY <1>1 DEF Rotating
  <1>4. \A r \in Requests : Knows(req[r], tokens)
    BY <1>1, IdleKnows
  <1>5. Held(req) /\ Queued(req, tokens, ended)
    BY <1>1, IdleKnows DEF Held, Queued, Locking
  <1> QED BY <1>2, <1>3, <1>4, <1>5 DEF Inv

\* One request moves on, no token changes: what its new state must satisfy.
LEMMA RequestMoves ==
    ASSUME Inv, NEW r \in Requests, NEW q \in Request, req' = [req EXCEPT ![r] = q],
           UNCHANGED <<database, tokens, ended>>,
           active' \in [Users -> BOOLEAN],
           spent' \in [{"updates", "expiries", "crashes"} -> Nat],
           Knows(q, tokens),
           q.at \in Locking => \A p \in Requests \ {r} :
               req[p].at \in Locking => req[p].token # q.token \/ q.token = 0,
           database = "sqlite" /\ q.at \in Locking =>
               \A p \in Requests \ {r} : req[p].at \notin Locking,
           database = "sqlite" /\ q.at = "revoking" => q.targets = Picks(q, tokens)
    PROVE  Inv'
  <1>1. /\ req' \in [Requests -> Request] /\ req'[r] = q
        /\ \A p \in Requests : p # r => req'[p] = req[p]
    BY DEF Inv, Typed
  <1>2. Typed'
    BY <1>1 DEF Inv, Typed
  <1>3. Rotating(tokens')
    BY DEF Inv
  <1>4. \A p \in Requests : Knows(req'[p], tokens')
    BY <1>1 DEF Inv
  <1>5. Held(req')
    BY <1>1 DEF Inv, Held
  <1>6. database' = "sqlite" => Queued(req', tokens', ended')
    BY <1>1 DEF Inv, Queued
  <1> QED BY <1>2, <1>3, <1>4, <1>5, <1>6 DEF Inv

\* A request that takes no lock only has to know what it says.
LEMMA FreeRequestMoves ==
    ASSUME Inv, NEW r \in Requests, NEW q \in Request, req' = [req EXCEPT ![r] = q],
           UNCHANGED <<database, tokens, ended>>,
           active' \in [Users -> BOOLEAN],
           spent' \in [{"updates", "expiries", "crashes"} -> Nat],
           Knows(q, tokens), q.at \notin Locking
    PROVE  Inv'
  <1>1. q.at # "revoking"
    BY DEF Locking
  <1> QED BY <1>1, RequestMoves

LEMMA SpendTypes ==
    ASSUME Inv, NEW what \in {"updates", "expiries", "crashes"}, NEW max, Spend(what, max)
    PROVE  spent' \in [{"updates", "expiries", "crashes"} -> Nat]
  BY DEF Inv, Typed, Spend

\* The families of a user are named after tokens, and all their tokens are the user's.
LEMMA FamiliesOf ==
    ASSUME Inv, NEW u
    PROVE  /\ Families(u) \subseteq DOMAIN tokens /\ Families(u) \subseteq Nat
           /\ \A f \in Families(u) : \A t \in DOMAIN tokens :
                tokens[t].family = f => tokens[t].user = u
  <1>1. DOMAIN tokens \subseteq Nat
    BY DEF Inv, Typed
  <1> QED BY <1>1 DEF Inv, Families, Rotating, Ids

-----------------------------------------------------------------------------
LEMMA LoginCheckKeeps ==
    ASSUME Inv, NEW r \in Requests, NEW u \in Users, LoginCheck(r, u)
    PROVE  Inv'
  <1> DEFINE q == [Idle EXCEPT !.at = "admit", !.user = u]
  <1>1. q \in Request /\ Knows(q, tokens) /\ q.at \notin Locking
    BY DEF Idle, Request, Steps, Knows, Locking
  <1>2. req' = [req EXCEPT ![r] = q] /\ UNCHANGED <<database, active, tokens, ended, spent>>
    BY DEF LoginCheck
  <1> HIDE DEF q
  <1> QED BY <1>1, <1>2, FreeRequestMoves DEF Inv, Typed

LEMMA FinishKeeps ==
    ASSUME Inv, NEW r \in Requests, req' = [req EXCEPT ![r] = Idle],
           UNCHANGED <<database, active, tokens, ended>>,
           spent' \in [{"updates", "expiries", "crashes"} -> Nat]
    PROVE  Inv'
  <1>1. Knows(Idle, tokens) /\ Idle \in Request /\ Idle.at \notin Locking
    BY IdleKnows DEF Locking
  <1> QED BY <1>1, FreeRequestMoves DEF Inv, Typed

LEMMA LoginAdmitKeeps ==
    ASSUME Inv, NEW r \in Requests, LoginAdmit(r)
    PROVE  Inv'
  <1>1. CASE Finish(r)
    BY <1>1, FinishKeeps DEF LoginAdmit, Finish, Inv, Typed
  <1>2. CASE Goto(r, "open")
    <2> DEFINE q == [req[r] EXCEPT !.at = "open"]
    <2>1. req[r] \in Request /\ Knows(req[r], tokens) /\ req[r].at = "admit"
      BY DEF Inv, Typed, LoginAdmit
    <2>2. q \in Request /\ Knows(q, tokens) /\ q.at \notin Locking
      BY <2>1 DEF Request, Steps, Knows, Locking
    <2>3. req' = [req EXCEPT ![r] = q]
      BY <1>2 DEF Goto
    <2> HIDE DEF q
    <2> QED BY <2>2, <2>3, FreeRequestMoves DEF LoginAdmit, Inv, Typed
  <1> QED BY <1>1, <1>2 DEF LoginAdmit

\* The row is locked from here on: nobody else holds it.
LEMMA RefreshReadKeeps ==
    ASSUME Inv, NEW r \in Requests, NEW t \in Ids, RefreshRead(r, t)
    PROVE  Inv'
  <1> DEFINE usedUp == tokens[t].used
             q == [Idle EXCEPT !.at = IF usedUp THEN "reuse" ELSE "rotate",
                               !.user = tokens[t].user, !.token = t,
                               !.family = tokens[t].family,
                               !.ends = IF usedUp THEN {tokens[t].family} ELSE {}]
  <1>1. /\ t \in DOMAIN tokens /\ t \in Nat \ {0} /\ DOMAIN tokens \subseteq Nat
        /\ tokens[t] \in Token
    BY DEF Inv, Typed, Ids
  <1>2. tokens[t].user \in Users /\ tokens[t].family \in Nat /\ usedUp \in BOOLEAN
    BY <1>1 DEF Token
  <1>3. tokens[t].family \in DOMAIN tokens
    BY <1>1 DEF Inv, Rotating
  <1>4. /\ q.at = (IF usedUp THEN "reuse" ELSE "rotate") /\ q.user = tokens[t].user
        /\ q.token = t /\ q.family = tokens[t].family /\ q.then = "idle"
        /\ q.ends = (IF usedUp THEN {tokens[t].family} ELSE {})
        /\ q \in Request
    BY <1>1, <1>2 DEF Idle, Request, Steps
  <1>5. req' = [req EXCEPT ![r] = q] /\ UNCHANGED <<database, active, tokens, ended, spent>>
    BY DEF RefreshRead
  <1> HIDE DEF q
  <1>6. ~usedUp => Works(tokens, t)
    BY <1>1 DEF RefreshRead, Stored, Works
  <1>7. Knows(q, tokens)
    <2>1. tokens[t].family # 0
      BY <1>1, <1>3 DEF Inv, Typed
    <2> QED BY <1>2, <1>3, <1>4, <1>6, <2>1 DEF Knows, Locking
  <1>8. \A p \in Requests \ {r} : req[p].at \in Locking => req[p].token # t
    BY Words DEF RefreshRead, Free
  <1>9. database = "sqlite" => \A p \in Requests \ {r} : req[p].at \notin Locking
    BY Words DEF RefreshRead, MayWrite
  <1>10. q.at # "revoking"
    BY <1>4
  <1> QED BY <1>4, <1>5, <1>7, <1>8, <1>9, <1>10, RequestMoves DEF Inv, Typed

LEMMA RefreshCheckKeeps ==
    ASSUME Inv, NEW r \in Requests, RefreshCheck(r)
    PROVE  Inv'
  <1>1. CASE active[req[r].user]
    BY <1>1, FinishKeeps DEF RefreshCheck, Finish, Inv, Typed
  <1>2. CASE ~active[req[r].user]
    <2> DEFINE fs == Families(req[r].user)
               q == [req[r] EXCEPT !.at = "cut", !.family = 0, !.ends = fs]
    <2>1. /\ req[r] \in Request /\ Knows(req[r], tokens) /\ req[r].at = "check"
          /\ req' = [req EXCEPT ![r].at = "cut", ![r].family = 0, ![r].ends = fs]
      BY <1>2 DEF Inv, Typed, RefreshCheck
    <2>2. /\ fs \subseteq DOMAIN tokens /\ fs \subseteq Nat
          /\ \A f \in fs : \A t \in DOMAIN tokens :
               tokens[t].family = f => tokens[t].user = req[r].user
      BY FamiliesOf
    <2> HIDE DEF fs
    <2>3. /\ q \in Request /\ q.at = "cut" /\ q.family = 0 /\ q.ends = fs
          /\ q.user = req[r].user /\ q.token = req[r].token /\ q.then = req[r].then
      BY <2>1, <2>2 DEF Request, Steps
    <2>4. req' = [req EXCEPT ![r] = q]
      BY <2>1 DEF Inv, Typed
    <2> HIDE DEF q
    <2>5. Knows(q, tokens) /\ q.at \notin Locking
      BY <2>1, <2>2, <2>3 DEF Knows, Locking
    <2> QED BY <2>3, <2>4, <2>5, FreeRequestMoves DEF RefreshCheck, Inv, Typed
  <1> QED BY <1>1, <1>2

LEMMA SignOutKeeps ==
    ASSUME Inv, NEW r \in Requests, NEW t \in Ids, SignOut(r, tokens[t].family)
    PROVE  Inv'
  <1> DEFINE f == tokens[t].family
             q == [Idle EXCEPT !.at = "cut", !.family = f, !.ends = {f}]
  <1>1. f \in DOMAIN tokens /\ f \in Nat \ {0}
    BY DEF Inv, Typed, Rotating, Ids
  <1>2. req' = [req EXCEPT ![r] = q] /\ UNCHANGED <<database, active, tokens, ended, spent>>
    BY DEF SignOut
  <1> HIDE DEF f
  <1>3. /\ q \in Request /\ q.at = "cut" /\ q.family = f /\ q.ends = {f}
        /\ q.token = 0 /\ q.then = "idle"
    BY <1>1 DEF Idle, Request, Steps
  <1> HIDE DEF q
  <1>4. Knows(q, tokens) /\ q.at \notin Locking
    BY <1>1, <1>3 DEF Knows, Locking
  <1> QED BY <1>2, <1>3, <1>4, FreeRequestMoves DEF Inv, Typed

\* A new password or a deactivation: every family of the user is to end.
LEMMA UpdateUserKeeps ==
    ASSUME Inv, NEW r \in Requests, NEW u \in Users, NEW then \in {"idle", "open"},
           NEW q, q = [Idle EXCEPT !.at = "cut", !.user = u, !.ends = Families(u),
                                   !.then = then]
                  \/ q = [Idle EXCEPT !.at = "cut", !.user = u, !.ends = Families(u)],
           req' = [req EXCEPT ![r] = q],
           UNCHANGED <<database, tokens, ended>>, active' \in [Users -> BOOLEAN],
           Spend("updates", MaxUpdates)
    PROVE  Inv'
  <1> DEFINE fs == Families(u)
  <1>1. /\ fs \subseteq DOMAIN tokens /\ fs \subseteq Nat
        /\ \A f \in fs : \A t \in DOMAIN tokens :
             tokens[t].family = f => tokens[t].user = u
    BY FamiliesOf
  <1>2. \/ q = [Idle EXCEPT !.at = "cut", !.user = u, !.ends = fs, !.then = then]
        \/ q = [Idle EXCEPT !.at = "cut", !.user = u, !.ends = fs]
    OBVIOUS
  <1> HIDE DEF fs
  <1>3. /\ q \in Request /\ q.at = "cut" /\ q.family = 0 /\ q.ends = fs
        /\ q.user = u /\ q.token = 0
    <2>1. CASE q = [Idle EXCEPT !.at = "cut", !.user = u, !.ends = fs, !.then = then]
      BY <1>1, <2>1 DEF Idle, Request, Steps
    <2>2. CASE q = [Idle EXCEPT !.at = "cut", !.user = u, !.ends = fs]
      BY <1>1, <2>2 DEF Idle, Request, Steps
    <2> QED BY <1>2, <2>1, <2>2
  <1>4. Knows(q, tokens) /\ q.at \notin Locking
    BY <1>1, <1>3 DEF Knows, Locking
  <1>5. spent' \in [{"updates", "expiries", "crashes"} -> Nat]
    BY SpendTypes
  <1> QED BY <1>3, <1>4, <1>5, FreeRequestMoves

LEMMA UpdatesKeep ==
    ASSUME Inv, NEW r \in Requests, NEW u \in Users, ChangePassword(r, u) \/ Deactivate(r, u)
    PROVE  Inv'
  <1>1. CASE ChangePassword(r, u)
    <2>1. PICK then \in {"idle", "open"} :
            req' = [req EXCEPT ![r] = [Idle EXCEPT !.at = "cut", !.user = u,
                                                   !.ends = Families(u), !.then = then]]
      BY <1>1 DEF ChangePassword
    <2>2. active' \in [Users -> BOOLEAN]
      BY <1>1 DEF ChangePassword, Inv, Typed
    <2> QED BY <1>1, <2>1, <2>2, UpdateUserKeeps DEF ChangePassword
  <1>2. CASE Deactivate(r, u)
    <2>1. active' \in [Users -> BOOLEAN]
      BY <1>2 DEF Deactivate, Inv, Typed
    <2>2. "idle" \in {"idle", "open"}
      OBVIOUS
    <2> QED BY <1>2, <2>1, <2>2, UpdateUserKeeps DEF Deactivate
  <1> QED BY <1>1, <1>2

LEMMA ActivateKeeps ==
    ASSUME Inv, NEW u \in Users, Activate(u)
    PROVE  Inv'
  <1>1. active' \in [Users -> BOOLEAN] /\ UNCHANGED <<database, tokens, req, ended, spent>>
    BY DEF Activate, Inv, Typed
  <1> QED BY <1>1 DEF Inv, Typed

\* The UPDATE picks its rows: on SQLite nobody else writes from here to its end.
LEMMA RevokeStartKeeps ==
    ASSUME Inv, NEW r \in Requests, RevokeStart(r)
    PROVE  Inv'
  <1> DEFINE picked == Picks(req[r], tokens)
             q == [req[r] EXCEPT !.at = "revoking", !.targets = picked]
  <1>1. /\ req[r] \in Request /\ Knows(req[r], tokens) /\ req[r].at \in {"cut", "reuse"}
        /\ req' = [req EXCEPT ![r].at = "revoking", ![r].targets = picked]
        /\ UNCHANGED <<database, active, tokens, ended, spent>>
    BY Words DEF Inv, Typed, RevokeStart
  <1>2. picked \subseteq Nat
    BY DEF Inv, Typed, Picks
  <1> HIDE DEF picked
  <1>3. /\ q \in Request /\ q.at = "revoking" /\ q.targets = picked
        /\ q.family = req[r].family /\ q.user = req[r].user /\ q.ends = req[r].ends
        /\ q.token = req[r].token /\ q.then = req[r].then
    BY <1>1, <1>2 DEF Request, Steps
  <1>4. req' = [req EXCEPT ![r] = q]
    BY <1>1 DEF Inv, Typed
  <1> HIDE DEF q
  <1>5. Knows(q, tokens)
    BY <1>1, <1>3 DEF Knows, Locking
  <1>6. Picks(q, tokens) = picked
    BY <1>3 DEF Picks, picked
  <1>7. \A p \in Requests \ {r} :
          req[p].at \in Locking => req[p].token # q.token \/ q.token = 0
    <2>1. CASE req[r].at = "cut"
      BY <1>1, <1>3, <2>1 DEF Knows, Locking
    <2>2. CASE req[r].at = "reuse"
      BY <1>3, <2>2 DEF Inv, Held, Locking
    <2> QED BY <1>1, <2>1, <2>2
  <1>8. database = "sqlite" => \A p \in Requests \ {r} : req[p].at \notin Locking
    BY Words DEF RevokeStart, MayWrite
  <1> QED BY <1>1, <1>3, <1>4, <1>5, <1>6, <1>7, <1>8, RequestMoves DEF Inv, Typed

LEMMA CutOffKeeps ==
    ASSUME Inv, NEW r \in Requests, DeadlockVictim(r) \/ Crash(r)
    PROVE  Inv'
  <1>1. CASE DeadlockVictim(r)
    BY <1>1, FinishKeeps DEF DeadlockVictim, Finish, Inv, Typed
  <1>2. CASE Crash(r)
    BY <1>2, FinishKeeps, SpendTypes DEF Crash, Finish
  <1> QED BY <1>1, <1>2

-----------------------------------------------------------------------------
(* The steps that change tokens. *)

LEMMA AppendedToken ==
    ASSUME NEW T \in Seq(Token), NEW new \in Token, NEW n, n = Len(T) + 1
    PROVE  /\ Append(T, new) \in Seq(Token)
           /\ DOMAIN Append(T, new) = DOMAIN T \cup {n}
           /\ n \notin DOMAIN T /\ n \in Nat \ {0}
           /\ Append(T, new)[n] = new
           /\ \A t \in DOMAIN T : Append(T, new)[t] = T[t] /\ t \in Nat \ {0} /\ n > t
  OBVIOUS

\* What a request knows survives when every token is of a new family or of one its
\* user already had, and the token it is to rotate still works.
LEMMA KnowsStays ==
    ASSUME NEW q, NEW T, NEW U, Knows(q, T), DOMAIN T \subseteq DOMAIN U,
           \A t \in DOMAIN T : U[t].family = T[t].family /\ U[t].user = T[t].user,
           \A t \in DOMAIN U :
               \/ U[t].family \notin DOMAIN T
               \/ \E s \in DOMAIN T : U[t].family = T[s].family /\ U[t].user = T[s].user,
           q.at = "rotate" => Works(U, q.token)
    PROVE  Knows(q, U)
  <1>1. q.at = "rotate" => U[q.token].family = q.family /\ U[q.token].user = q.user
    BY DEF Knows, Works
  <1>2. \A f \in q.ends : \A t \in DOMAIN U : U[t].family = f =>
          IF q.family # 0 THEN q.family = f ELSE U[t].user = q.user
    BY DEF Knows
  <1> QED BY <1>1, <1>2 DEF Knows

\* A sign-in opens a family of its own.
LEMMA LoginOpenKeeps ==
    ASSUME Inv, NEW r \in Requests, LoginOpen(r)
    PROVE  Inv'
  <1> DEFINE n == Len(tokens) + 1
             new == [user |-> req[r].user, family |-> n, used |-> FALSE,
                     revoked |-> FALSE, gone |-> FALSE]
  <1>1. /\ req[r].at = "open" /\ tokens' = Append(tokens, new) /\ req' = [req EXCEPT ![r] = Idle]
        /\ UNCHANGED <<database, active, ended, spent>>
        /\ database = "sqlite" => \A p \in Requests \ {r} : req[p].at \notin Locking
    BY Words DEF LoginOpen, Inserted, Finish, MayWrite
  <1>2. new \in Token /\ new.family = n /\ ~new.used
    BY <1>1 DEF Inv, Typed, Knows, Token
  <1> HIDE DEF new
  <1>3. /\ tokens' \in Seq(Token)
        /\ DOMAIN tokens' = DOMAIN tokens \cup {n}
        /\ n \notin DOMAIN tokens /\ n \in Nat \ {0}
        /\ tokens'[n] = new
        /\ \A t \in DOMAIN tokens : tokens'[t] = tokens[t]
    BY <1>1, <1>2, AppendedToken DEF Inv, Typed
  <1> HIDE DEF n
  <1>4. /\ req' \in [Requests -> Request] /\ req'[r] = Idle /\ Idle.at = "idle"
        /\ \A p \in Requests : p # r => req'[p] = req[p]
    BY <1>1, IdleKnows DEF Inv, Typed
  <1>5. Typed'
    BY <1>1, <1>3, <1>4 DEF Inv, Typed
  <1>6. \A t \in DOMAIN tokens : Works(tokens', t) <=> Works(tokens, t)
    BY <1>3 DEF Works
  <1>7. \A t \in DOMAIN tokens : tokens[t].family # n
    BY <1>3 DEF Inv, Rotating
  <1>8. Rotating(tokens')
    <2>1. \A t \in DOMAIN tokens' : tokens'[t].family \in DOMAIN tokens'
      BY <1>2, <1>3 DEF Inv, Rotating
    <2>2. \A s, t \in DOMAIN tokens' : tokens'[s].family = tokens'[t].family =>
            tokens'[s].user = tokens'[t].user
      BY <1>2, <1>3, <1>7 DEF Inv, Rotating
    <2>3. \A s, t \in DOMAIN tokens' :
            Works(tokens', s) /\ Works(tokens', t) /\ tokens'[s].family = tokens'[t].family
            => s = t
      BY <1>2, <1>3, <1>6, <1>7 DEF Inv, Rotating
    <2>4. \A t \in DOMAIN tokens' : tokens'[t].used =>
            \E s \in DOMAIN tokens' : /\ s > t /\ tokens'[s].family = tokens'[t].family
                                      /\ tokens'[s].user = tokens'[t].user
      BY <1>2, <1>3 DEF Inv, Rotating
    <2> QED BY <2>1, <2>2, <2>3, <2>4 DEF Rotating
  <1>9. \A p \in Requests : Knows(req'[p], tokens')
    <2>1. ASSUME NEW p \in Requests, p # r PROVE Knows(req[p], tokens')
      <3>1. Knows(req[p], tokens)
        BY DEF Inv
      <3>2. req[p].at = "rotate" => Works(tokens', req[p].token)
        BY <3>1, <1>6 DEF Knows, Works
      <3>3. \A t \in DOMAIN tokens' :
               \/ tokens'[t].family \notin DOMAIN tokens
               \/ \E s \in DOMAIN tokens : /\ tokens'[t].family = tokens[s].family
                                           /\ tokens'[t].user = tokens[s].user
        BY <1>2, <1>3
      <3> QED BY <1>3, <3>1, <3>2, <3>3, KnowsStays
    <2> QED BY <1>4, <2>1, IdleKnows
  <1>10. Held(req')
    BY <1>4 DEF Inv, Held, Locking
  <1>11. ASSUME database = "sqlite" PROVE Queued(req', tokens', ended')
    <2>1. \A p \in Requests : req'[p].at \notin Locking
      BY <1>1, <1>4, <1>11 DEF Locking
    <2>2. \A t \in DOMAIN tokens' : tokens'[t].family \in ended => ~Works(tokens', t)
      BY <1>2, <1>3, <1>6, <1>11 DEF Inv, Queued, Typed
    <2> QED BY <1>1, <2>1, <2>2 DEF Queued, Locking
  <1> QED BY <1>1, <1>5, <1>8, <1>9, <1>10, <1>11 DEF Inv

\* The token a request rotates is the one of its family that works: its successor
\* takes that place.
LEMMA RefreshRotateKeeps ==
    ASSUME Inv, NEW r \in Requests, RefreshRotate(r)
    PROVE  Inv'
  <1> DEFINE k == req[r].token
             u == req[r].user
             f == req[r].family
             n == Len(tokens) + 1
             new == [user |-> u, family |-> f, used |-> FALSE, revoked |-> FALSE, gone |-> FALSE]
             U == Append(tokens, new)
             q == [req[r] EXCEPT !.at = "check", !.token = 0]
  <1>1. /\ req[r].at = "rotate" /\ tokens' = [U EXCEPT ![k].used = TRUE]
        /\ req' = [req EXCEPT ![r].at = "check", ![r].token = 0]
        /\ UNCHANGED <<database, active, ended, spent>>
    BY DEF RefreshRotate, Inserted
  <1>2. /\ req[r] \in Request /\ Knows(req[r], tokens)
        /\ Works(tokens, k) /\ k \in DOMAIN tokens
        /\ tokens[k].family = f /\ tokens[k].user = u /\ tokens[k] \in Token
    BY <1>1 DEF Inv, Typed, Knows, Works
  <1>3. new \in Token /\ new.family = f /\ new.user = u /\ ~new.used
    BY <1>2 DEF Token
  <1>4. /\ U \in Seq(Token)
        /\ DOMAIN U = DOMAIN tokens \cup {n}
        /\ n \notin DOMAIN tokens /\ n \in Nat \ {0} /\ U[n] = new
        /\ \A t \in DOMAIN tokens : U[t] = tokens[t] /\ t \in Nat \ {0} /\ n > t
    BY <1>3, AppendedToken DEF Inv, Typed
  <1>5. /\ q \in Request /\ q.at = "check" /\ q.token = 0 /\ q.ends = req[r].ends
        /\ q.family = f /\ q.user = u /\ q.then = req[r].then
    BY <1>2 DEF Request, Steps
  <1>6. req' = [req EXCEPT ![r] = q]
    BY <1>1 DEF Inv, Typed
  <1> HIDE DEF new, U, n, q
  <1>7. /\ tokens' \in Seq(Token)
        /\ DOMAIN tokens' = DOMAIN tokens \cup {n}
        /\ tokens'[n] = new
        /\ \A t \in DOMAIN tokens : t # k => tokens'[t] = tokens[t]
        /\ tokens'[k] = [tokens[k] EXCEPT !.used = TRUE]
    <2> DEFINE kk == [tokens[k] EXCEPT !.used = TRUE]
    <2>1. kk \in Token
      BY <1>2 DEF Token
    <2>2. tokens' = [U EXCEPT ![k] = kk]
      BY <1>1, <1>2, <1>4
    <2> HIDE DEF kk
    <2>3. tokens' \in Seq(Token)
      <3>1. U \in [1 .. Len(U) -> Token] /\ Len(U) \in Nat
        BY <1>4
      <3>2. tokens' \in [1 .. Len(U) -> Token]
        BY <2>1, <2>2, <3>1
      <3> QED BY <3>1, <3>2
    <2> QED BY <1>2, <1>4, <2>2, <2>3 DEF kk
  <1>8. \A t \in DOMAIN tokens : tokens'[t].family = tokens[t].family /\ tokens'[t].user = tokens[t].user
    BY <1>2, <1>7 DEF Token
  <1>9. /\ req' \in [Requests -> Request] /\ req'[r] = q
        /\ \A p \in Requests : p # r => req'[p] = req[p]
    BY <1>5, <1>6 DEF Inv, Typed
  <1>10. Typed'
    BY <1>1, <1>7, <1>9 DEF Inv, Typed
  <1>11. /\ \A t \in DOMAIN tokens : t # k => (Works(tokens', t) <=> Works(tokens, t))
         /\ tokens'[k].used /\ ~Works(tokens', k)
    BY <1>2, <1>7 DEF Works, Token
  <1>12. Rotating(tokens')
    <2>1. \A t \in DOMAIN tokens' : tokens'[t].family \in DOMAIN tokens'
      BY <1>2, <1>3, <1>7, <1>8 DEF Inv, Rotating
    <2>2. \A t \in DOMAIN tokens' : \E s \in DOMAIN tokens :
             tokens'[t].family = tokens[s].family /\ tokens'[t].user = tokens[s].user
      BY <1>2, <1>3, <1>7, <1>8
    <2>3. \A s, t \in DOMAIN tokens' : tokens'[s].family = tokens'[t].family =>
            tokens'[s].user = tokens'[t].user
      BY <2>2 DEF Inv, Rotating
    <2>4. \A t \in DOMAIN tokens : Works(tokens', t) => tokens[t].family # f
      BY <1>2, <1>11 DEF Inv, Rotating
    <2>5. \A s, t \in DOMAIN tokens' :
            Works(tokens', s) /\ Works(tokens', t) /\ tokens'[s].family = tokens'[t].family
            => s = t
      BY <1>3, <1>7, <1>8, <1>11, <2>4 DEF Inv, Rotating
    <2>6. ASSUME NEW t \in DOMAIN tokens', tokens'[t].used
          PROVE  \E s \in DOMAIN tokens' : /\ s > t /\ tokens'[s].family = tokens'[t].family
                                           /\ tokens'[s].user = tokens'[t].user
      <3>1. CASE t = k
        BY <1>2, <1>3, <1>4, <1>7, <1>8, <3>1
      <3>2. CASE t # k
        BY <1>3, <1>7, <1>8, <2>6, <3>2 DEF Inv, Rotating
      <3> QED BY <3>1, <3>2
    <2> QED BY <2>1, <2>3, <2>5, <2>6 DEF Rotating
  <1>13. \A t \in DOMAIN tokens' :
            \/ tokens'[t].family \notin DOMAIN tokens
            \/ \E s \in DOMAIN tokens : /\ tokens'[t].family = tokens[s].family
                                        /\ tokens'[t].user = tokens[s].user
    BY <1>2, <1>3, <1>7, <1>8
  <1>14. ASSUME NEW p \in Requests, p # r PROVE Knows(req[p], tokens')
    <2>1. Knows(req[p], tokens)
      BY DEF Inv
    <2>2. k # 0
      BY <1>2 DEF Inv, Typed
    <2>3. req[p].at = "rotate" => req[p].token # k
      BY <1>1, <1>14, <2>2 DEF Inv, Held, Locking
    <2>4. req[p].at = "rotate" => Works(tokens', req[p].token)
      BY <1>11, <2>1, <2>3 DEF Knows, Works
    <2> QED BY <1>7, <1>8, <1>13, <2>1, <2>4, KnowsStays
  <1>15. Knows(q, tokens')
    <2>1. Knows(q, tokens)
      BY <1>1, <1>2, <1>5 DEF Knows, Locking
    <2> QED BY <1>5, <1>7, <1>8, <1>13, <2>1, KnowsStays
  <1>16. Held(req')
    BY <1>5, <1>9 DEF Inv, Held, Locking
  <1>17. ASSUME database = "sqlite" PROVE Queued(req', tokens', ended')
    <2>1. \A p \in Requests : req'[p].at \notin Locking
      BY <1>1, <1>5, <1>9, <1>17 DEF Inv, Queued, Locking
    <2>2. f \notin ended
      BY <1>2, <1>17 DEF Inv, Queued
    <2>3. \A t \in DOMAIN tokens' : tokens'[t].family \in ended => ~Works(tokens', t)
      BY <1>3, <1>7, <1>8, <1>11, <1>17, <2>2 DEF Inv, Queued
    <2> QED BY <1>1, <2>1, <2>3 DEF Queued, Locking
  <1> QED BY <1>1, <1>9, <1>10, <1>12, <1>14, <1>15, <1>16, <1>17 DEF Inv

\* Tokens that are revoked or expire: what nobody holds stops working.
LEMMA FewerRotate ==
    ASSUME Inv, tokens' \in Seq(Token), DOMAIN tokens' = DOMAIN tokens,
           \A t \in DOMAIN tokens :
             /\ tokens'[t].family = tokens[t].family /\ tokens'[t].user = tokens[t].user
             /\ tokens'[t].used = tokens[t].used
             /\ Works(tokens', t) => Works(tokens, t)
    PROVE  Rotating(tokens')
  <1>1. Rotating(tokens)
    BY DEF Inv
  <1>2. \A t \in DOMAIN tokens' : tokens'[t].family \in DOMAIN tokens'
    BY <1>1 DEF Rotating
  <1>3. \A s, t \in DOMAIN tokens' :
          tokens'[s].family = tokens'[t].family => tokens'[s].user = tokens'[t].user
    BY <1>1 DEF Rotating
  <1>4. \A s, t \in DOMAIN tokens' :
          Works(tokens', s) /\ Works(tokens', t) /\ tokens'[s].family = tokens'[t].family
          => s = t
    BY <1>1 DEF Rotating
  <1>5. \A t \in DOMAIN tokens' : tokens'[t].used =>
          \E s \in DOMAIN tokens' : /\ s > t /\ tokens'[s].family = tokens'[t].family
                                    /\ tokens'[s].user = tokens'[t].user
    <2>1. SUFFICES ASSUME NEW t \in DOMAIN tokens, tokens'[t].used
          PROVE  \E s \in DOMAIN tokens : /\ s > t /\ tokens'[s].family = tokens'[t].family
                                          /\ tokens'[s].user = tokens'[t].user
      OBVIOUS
    <2>2. PICK s \in DOMAIN tokens : /\ s > t /\ tokens[s].family = tokens[t].family
                                     /\ tokens[s].user = tokens[t].user
      BY <1>1, <2>1 DEF Rotating
    <2> QED BY <2>2
  <1> QED BY <1>2, <1>3, <1>4, <1>5 DEF Rotating

LEMMA FewerWork ==
    ASSUME Inv, tokens' \in Seq(Token), DOMAIN tokens' = DOMAIN tokens,
           \A t \in DOMAIN tokens :
             /\ tokens'[t].family = tokens[t].family /\ tokens'[t].user = tokens[t].user
             /\ tokens'[t].used = tokens[t].used
             /\ Works(tokens', t) => Works(tokens, t),
           NEW p \in Requests,
           req[p].at = "rotate" => tokens'[req[p].token] = tokens[req[p].token]
    PROVE  /\ Rotating(tokens') /\ Knows(req[p], tokens')
           /\ \A q : Knows(q, tokens) /\ q.at # "rotate" => Knows(q, tokens')
  <1>1. Rotating(tokens')
    BY FewerRotate
  <1>2. Knows(req[p], tokens')
    <2>1. Knows(req[p], tokens)
      BY DEF Inv
    <2>2. req[p].at = "rotate" => Works(tokens', req[p].token)
      BY <2>1 DEF Knows, Works
    <2> QED BY <2>1, <2>2, KnowsStays
  <1>3. ASSUME NEW q, Knows(q, tokens), q.at # "rotate" PROVE Knows(q, tokens')
    BY <1>3, KnowsStays
  <1> QED BY <1>1, <1>2, <1>3

LEMMA RevokeFinishKeeps ==
    ASSUME Inv, NEW r \in Requests, RevokeFinish(r)
    PROVE  Inv'
  <1> DEFINE q == req[r]
             W(t) == IF t \in q.targets THEN [tokens[t] EXCEPT !.revoked = TRUE] ELSE tokens[t]
             next == IF q.then = "open" THEN [Idle EXCEPT !.at = "open", !.user = q.user] ELSE Idle
  <1>1. /\ q.at = "revoking" /\ q \in Request /\ Knows(q, tokens)
        /\ tokens' = [t \in DOMAIN tokens |-> W(t)]
        /\ ended' = ended \cup q.ends
        /\ req' = [req EXCEPT ![r] = next]
        /\ UNCHANGED <<database, active, spent>>
    BY DEF RevokeFinish, Ids, Inv, Typed
  <1>2. \A p \in Requests \ {r} : req[p].at \in Locking => req[p].token \notin q.targets
    BY Words DEF RevokeFinish, Free
  <1>3. \A t \in DOMAIN tokens : /\ W(t) \in Token /\ W(t).family = tokens[t].family
                                 /\ W(t).user = tokens[t].user /\ W(t).used = tokens[t].used
                                 /\ W(t).gone = tokens[t].gone
                                 /\ tokens[t].revoked => W(t).revoked
                                 /\ t \in q.targets => W(t).revoked
                                 /\ t \notin q.targets => W(t) = tokens[t]
    <2> TAKE t \in DOMAIN tokens
    <2>1. tokens[t] \in Token
      BY DEF Inv, Typed
    <2>2. CASE t \in q.targets
      <3>1. W(t) = [tokens[t] EXCEPT !.revoked = TRUE]
        BY <2>2
      <3> HIDE DEF W
      <3> QED BY <2>1, <2>2, <3>1 DEF Token
    <2>3. CASE t \notin q.targets
      <3>1. W(t) = tokens[t]
        BY <2>3
      <3> HIDE DEF W
      <3> QED BY <2>1, <2>3, <3>1
    <2> QED BY <2>2, <2>3
  <1>4. next \in Request /\ Knows(next, tokens) /\ next.at \notin Locking /\ next.at # "rotate"
    BY <1>1, IdleKnows DEF Idle, Request, Steps, Knows, Locking
  <1> HIDE DEF W, next
  <1>5. tokens' \in Seq(Token) /\ DOMAIN tokens' = DOMAIN tokens
    <2>1. DOMAIN tokens = 1 .. Len(tokens) /\ Len(tokens) \in Nat
      BY DEF Inv, Typed
    <2>2. tokens' \in [1 .. Len(tokens) -> Token]
      BY <1>1, <1>3, <2>1
    <2> QED BY <1>1, <2>1, <2>2
  <1>6. \A t \in DOMAIN tokens :
          /\ tokens'[t] = W(t)
          /\ tokens'[t].family = tokens[t].family /\ tokens'[t].user = tokens[t].user
          /\ tokens'[t].used = tokens[t].used
          /\ Works(tokens', t) => Works(tokens, t)
    BY <1>1, <1>3, <1>5 DEF Works
  <1>7. /\ req' \in [Requests -> Request] /\ req'[r] = next
        /\ \A p \in Requests : p # r => req'[p] = req[p]
    BY <1>1, <1>4 DEF Inv, Typed
  <1>8. \A p \in Requests : req[p].at = "rotate" => tokens'[req[p].token] = tokens[req[p].token]
    BY <1>1, <1>2, <1>3, <1>6 DEF Inv, Knows, Works, Locking
  <1>9. Typed'
    BY <1>1, <1>5, <1>7 DEF Inv, Typed, Knows
  <1>10. /\ Rotating(tokens')
         /\ \A p \in Requests : Knows(req[p], tokens')
         /\ Knows(next, tokens')
    BY <1>4, <1>5, <1>6, <1>8, FewerWork
  <1>11. Held(req')
    BY <1>4, <1>7 DEF Inv, Held
  <1>12. ASSUME database = "sqlite" PROVE Queued(req', tokens', ended')
    <2>1. \A p \in Requests : req'[p].at \notin Locking
      BY <1>1, <1>4, <1>7, <1>12 DEF Inv, Queued, Locking
    <2>2. q.targets = Picks(q, tokens)
      BY <1>1, <1>12 DEF Inv, Queued
    <2>3. ASSUME NEW t \in DOMAIN tokens, tokens[t].family \in q.ends
          PROVE  ~Works(tokens', t)
      <3>1. Works(tokens, t) => t \in q.targets
        BY <1>1, <2>2, <2>3 DEF Knows, Works, Picks
      <3> QED BY <1>3, <1>6, <3>1 DEF Works
    <2>4. \A t \in DOMAIN tokens' : tokens'[t].family \in ended' => ~Works(tokens', t)
      BY <1>1, <1>5, <1>6, <1>12, <2>3 DEF Inv, Queued
    <2> QED BY <2>1, <2>4 DEF Queued, Locking
  <1> QED BY <1>1, <1>7, <1>9, <1>10, <1>11, <1>12 DEF Inv

LEMMA ExpireKeeps ==
    ASSUME Inv, NEW x \in Ids, Expire(x)
    PROVE  Inv'
  <1> DEFINE new == [tokens[x] EXCEPT !.gone = TRUE]
  <1>1. /\ x \in DOMAIN tokens
        /\ tokens' = [tokens EXCEPT ![x] = new]
        /\ UNCHANGED <<database, active, req, ended>>
        /\ spent' \in [{"updates", "expiries", "crashes"} -> Nat]
        /\ \A r \in Requests : req[r].at \in Locking => req[r].token # x
        /\ database = "sqlite" => \A r \in Requests : req[r].at \notin Locking
    BY SpendTypes, Words DEF Expire, Ids, NoneWrites
  <1>2. /\ new \in Token /\ new.family = tokens[x].family /\ new.user = tokens[x].user
        /\ new.used = tokens[x].used /\ new.gone
    <2>1. tokens[x] \in Token
      BY <1>1 DEF Inv, Typed
    <2> QED BY <2>1 DEF Token
  <1> HIDE DEF new
  <1>3. tokens' \in Seq(Token) /\ DOMAIN tokens' = DOMAIN tokens
    <2>1. tokens \in [1 .. Len(tokens) -> Token] /\ Len(tokens) \in Nat
      BY DEF Inv, Typed
    <2>2. tokens' \in [1 .. Len(tokens) -> Token]
      BY <1>1, <1>2, <2>1
    <2> QED BY <2>1, <2>2
  <1>4. \A t \in DOMAIN tokens :
          /\ t # x => tokens'[t] = tokens[t]
          /\ tokens'[t].family = tokens[t].family /\ tokens'[t].user = tokens[t].user
          /\ tokens'[t].used = tokens[t].used
          /\ Works(tokens', t) => Works(tokens, t)
    BY <1>1, <1>2, <1>3 DEF Works
  <1>5. \A r \in Requests : req[r].at = "rotate" => tokens'[req[r].token] = tokens[req[r].token]
    BY <1>1, <1>4 DEF Inv, Knows, Works, Locking
  <1>6. Typed'
    BY <1>1, <1>3 DEF Inv, Typed
  <1>7. Rotating(tokens') /\ \A r \in Requests : Knows(req[r], tokens')
    <2>1. \A t \in DOMAIN tokens :
            /\ tokens'[t].family = tokens[t].family /\ tokens'[t].user = tokens[t].user
            /\ tokens'[t].used = tokens[t].used
            /\ Works(tokens', t) => Works(tokens, t)
      BY <1>4
    <2>2. Rotating(tokens')
      BY <1>3, <2>1, FewerRotate
    <2>3. ASSUME NEW r \in Requests PROVE Knows(req[r], tokens')
      <3>1. req[r].at = "rotate" => tokens'[req[r].token] = tokens[req[r].token]
        BY <1>5
      <3> QED BY <1>3, <2>1, <3>1, FewerWork
    <2> QED BY <2>2, <2>3
  <1>8. Held(req')
    BY <1>1 DEF Inv
  <1>9. ASSUME database = "sqlite" PROVE Queued(req', tokens', ended')
    BY <1>1, <1>3, <1>4, <1>9 DEF Inv, Queued, Locking
  <1> QED BY <1>1, <1>6, <1>7, <1>8, <1>9 DEF Inv

-----------------------------------------------------------------------------
LEMMA Consecution == Inv /\ [Next]_vars => Inv'
  <1> SUFFICES ASSUME Inv, [Next]_vars PROVE Inv'
    OBVIOUS
  <1>1. CASE UNCHANGED vars
    BY <1>1 DEF vars, Inv, Typed
  <1>2. ASSUME NEW r \in Requests,
               LoginAdmit(r) \/ LoginOpen(r) \/ RefreshRotate(r) \/ RefreshCheck(r)
        PROVE  Inv'
    BY <1>2, LoginAdmitKeeps, LoginOpenKeeps, RefreshRotateKeeps, RefreshCheckKeeps
  <1>3. ASSUME NEW r \in Requests,
               RevokeStart(r) \/ RevokeFinish(r) \/ DeadlockVictim(r) \/ Crash(r)
        PROVE  Inv'
    BY <1>3, RevokeStartKeeps, RevokeFinishKeeps, CutOffKeeps
  <1>4. ASSUME NEW r \in Requests, NEW u \in Users,
               LoginCheck(r, u) \/ ChangePassword(r, u) \/ Deactivate(r, u)
        PROVE  Inv'
    BY <1>4, LoginCheckKeeps, UpdatesKeep
  <1>5. ASSUME NEW r \in Requests, NEW t \in Ids,
               RefreshRead(r, t) \/ SignOut(r, tokens[t].family)
        PROVE  Inv'
    BY <1>5, RefreshReadKeeps, SignOutKeeps
  <1>6. ASSUME NEW u \in Users, Activate(u) PROVE Inv'
    BY <1>6, ActivateKeeps
  <1>7. ASSUME NEW t \in Ids, Expire(t) PROVE Inv'
    BY <1>7, ExpireKeeps
  <1> QED BY <1>1, <1>2, <1>3, <1>4, <1>5, <1>6, <1>7 DEF Next

THEOREM Invariance == Spec => []Inv
  BY InitInv, Consecution, PTL DEF Spec

-----------------------------------------------------------------------------
\* The rows and requests keep their types, and a token is only used up by a later one
\* of its family (refresh inserts the successor in the transaction that marks it).
THEOREM TypeCorrect == Spec => []TypeOK
  <1>1. Inv => TypeOK
    BY DEF Inv, Typed, TypeOK, Rotating, Ids
  <1> QED BY <1>1, Invariance, PTL

\* Whatever requests present a token at the same time, on SQLite and on PostgreSQL, a
\* family never has two tokens that work (the SELECT ... FOR UPDATE of refresh).
THEOREM OneTokenLives == Spec => []OneLiveToken
  <1>1. Inv => OneLiveToken
    BY Words DEF Inv, Rotating, OneLiveToken
  <1> QED BY <1>1, Invariance, PTL

\* On SQLite no family that a finished sign-out, reuse, password change or deactivation
\* was to end ever has a working token again (BEGIN IMMEDIATE around refresh).
THEOREM EndedForGood == Spec => []EndedStayEnded
  <1>1. Inv => EndedStayEnded
    BY Words DEF Inv, Queued, EndedStayEnded, SessionsEnd
  <1> QED BY <1>1, Invariance, PTL

-----------------------------------------------------------------------------
(* Sessions implements RefreshFamily. *)

\* A family's tokens and those that work, in the words of the proofs.
LEMMA FamilyWords ==
    ASSUME NEW f
    PROVE  /\ IssuedIn(f) = {t \in DOMAIN tokens : tokens[t].family = f}
           /\ IssuedIn(f)' = {t \in DOMAIN tokens' : tokens'[t].family = f}
           /\ LiveIn(f) = {t \in IssuedIn(f) : Works(tokens, t)}
           /\ LiveIn(f)' = {t \in IssuedIn(f)' : Works(tokens', t)}
  <1>1. IssuedIn(f) = {t \in DOMAIN tokens : tokens[t].family = f}
    BY DEF IssuedIn, Ids
  <1>2. IssuedIn(f)' = {t \in DOMAIN tokens' : tokens'[t].family = f}
    BY DEF IssuedIn, Ids
  <1>3. \A t \in IssuedIn(f) : Live(t) <=> Works(tokens, t)
    BY <1>1 DEF Live, Stored, Ids, Works
  <1>4. \A t \in IssuedIn(f)' : Live(t)' <=> Works(tokens', t)
    BY <1>2 DEF Live, Stored, Ids, Works
  <1>5. LiveIn(f) = {t \in IssuedIn(f) : Works(tokens, t)}
    BY <1>3 DEF LiveIn
  <1>6. LiveIn(f)' = {t \in IssuedIn(f)' : Works(tokens', t)}
    BY <1>4 DEF LiveIn
  <1> QED BY <1>1, <1>2, <1>5, <1>6

\* Tokens that are revoked or gone end their family's chain, or are not its own.
LEMMA FewerEnd ==
    ASSUME Inv, NEW f, DOMAIN tokens' = DOMAIN tokens,
           \A t \in DOMAIN tokens :
             tokens'[t].family = tokens[t].family /\ (Works(tokens', t) => Works(tokens, t))
    PROVE  FamilyStep(f)
  <1>1. /\ IssuedIn(f) = {t \in DOMAIN tokens : tokens[t].family = f}
        /\ IssuedIn(f)' = {t \in DOMAIN tokens' : tokens'[t].family = f}
        /\ LiveIn(f) = {t \in IssuedIn(f) : Works(tokens, t)}
        /\ LiveIn(f)' = {t \in IssuedIn(f)' : Works(tokens', t)}
    BY FamilyWords
  <1>2. IssuedIn(f)' = IssuedIn(f) /\ LiveIn(f)' \subseteq LiveIn(f)
    BY <1>1
  <1>3. \A s, t \in LiveIn(f) : s = t
    BY <1>1 DEF Inv, Rotating
  <1>4. LiveIn(f)' = LiveIn(f) \/ (LiveIn(f) # {} /\ LiveIn(f)' = {})
    BY <1>2, <1>3
  <1> QED BY <1>2, <1>4 DEF FamilyStep, Family!Next, Family!End

\* A sign-in starts a family of its own.
LEMMA LoginOpens ==
    ASSUME Inv, NEW f, NEW r \in Requests, LoginOpen(r)
    PROVE  FamilyStep(f)
  <1> DEFINE n == Len(tokens) + 1
             new == [user |-> req[r].user, family |-> n, used |-> FALSE,
                     revoked |-> FALSE, gone |-> FALSE]
  <1>1. req[r].at = "open" /\ tokens' = Append(tokens, new)
    BY DEF LoginOpen, Inserted
  <1>2. new \in Token /\ new.family = n /\ ~new.used /\ ~new.revoked /\ ~new.gone
    BY <1>1 DEF Inv, Typed, Knows, Token
  <1> HIDE DEF new
  <1>3. /\ DOMAIN tokens' = DOMAIN tokens \cup {n} /\ n \notin DOMAIN tokens
        /\ tokens'[n] = new
        /\ \A t \in DOMAIN tokens : tokens'[t] = tokens[t]
    BY <1>1, <1>2, AppendedToken DEF Inv, Typed
  <1> HIDE DEF n
  <1>4. \A t \in DOMAIN tokens : tokens[t].family # n
    BY <1>3 DEF Inv, Rotating
  <1>5. /\ IssuedIn(f) = {t \in DOMAIN tokens : tokens[t].family = f}
        /\ IssuedIn(f)' = {t \in DOMAIN tokens' : tokens'[t].family = f}
        /\ LiveIn(f) = {t \in IssuedIn(f) : Works(tokens, t)}
        /\ LiveIn(f)' = {t \in IssuedIn(f)' : Works(tokens', t)}
    BY FamilyWords
  <1>6. Works(tokens', n) /\ \A t \in DOMAIN tokens : Works(tokens', t) <=> Works(tokens, t)
    BY <1>2, <1>3 DEF Works
  <1>7. CASE f = n
    <2>1. IssuedIn(f) = {} /\ IssuedIn(f)' = {n} /\ LiveIn(f)' = {n}
      BY <1>2, <1>3, <1>4, <1>5, <1>6, <1>7
    <2> QED BY <2>1 DEF FamilyStep, Family!Next, Family!SignIn, Family!Issue
  <1>8. CASE f # n
    <2>1. IssuedIn(f)' = IssuedIn(f)
      BY <1>2, <1>3, <1>5, <1>8
    <2>2. LiveIn(f)' = LiveIn(f)
      BY <2>1, <1>5, <1>6
    <2> QED BY <2>1, <2>2 DEF FamilyStep
  <1> QED BY <1>7, <1>8

\* A refresh uses up the token that works and issues its successor.
LEMMA RefreshRotates ==
    ASSUME Inv, NEW f, NEW r \in Requests, RefreshRotate(r)
    PROVE  FamilyStep(f)
  <1> DEFINE k == req[r].token
             g == req[r].family
             n == Len(tokens) + 1
             new == [user |-> req[r].user, family |-> g, used |-> FALSE,
                     revoked |-> FALSE, gone |-> FALSE]
             U == Append(tokens, new)
  <1>1. req[r].at = "rotate" /\ tokens' = [U EXCEPT ![k].used = TRUE]
    BY DEF RefreshRotate, Inserted
  <1>2. /\ Works(tokens, k) /\ k \in DOMAIN tokens
        /\ tokens[k].family = g /\ tokens[k].user = req[r].user /\ tokens[k] \in Token
    BY <1>1 DEF Inv, Typed, Knows, Works
  <1>3. new \in Token /\ new.family = g /\ ~new.used /\ ~new.revoked /\ ~new.gone
    BY <1>2 DEF Token
  <1>4. /\ DOMAIN U = DOMAIN tokens \cup {n}
        /\ n \notin DOMAIN tokens /\ U[n] = new
        /\ \A t \in DOMAIN tokens : U[t] = tokens[t] /\ n > t
    BY <1>3, AppendedToken DEF Inv, Typed
  <1> HIDE DEF new, U, n
  <1>5. /\ DOMAIN tokens' = DOMAIN tokens \cup {n}
        /\ tokens'[n] = new
        /\ \A t \in DOMAIN tokens : t # k => tokens'[t] = tokens[t]
        /\ tokens'[k] = [tokens[k] EXCEPT !.used = TRUE]
    BY <1>1, <1>2, <1>4
  <1>6. tokens'[k].used /\ tokens'[k].family = g
    BY <1>2, <1>5 DEF Token
  <1>7. /\ Works(tokens', n) /\ ~Works(tokens', k)
        /\ \A t \in DOMAIN tokens : t # k => (Works(tokens', t) <=> Works(tokens, t))
    BY <1>2, <1>3, <1>4, <1>5, <1>6 DEF Works
  <1>8. /\ IssuedIn(f) = {t \in DOMAIN tokens : tokens[t].family = f}
        /\ IssuedIn(f)' = {t \in DOMAIN tokens' : tokens'[t].family = f}
        /\ LiveIn(f) = {t \in IssuedIn(f) : Works(tokens, t)}
        /\ LiveIn(f)' = {t \in IssuedIn(f)' : Works(tokens', t)}
    BY FamilyWords
  <1>9. CASE f = g
    <2>1. IssuedIn(f)' = IssuedIn(f) \cup {n}
      <3>1. \A t \in DOMAIN tokens : tokens'[t].family = tokens[t].family
        BY <1>2, <1>5, <1>6
      <3>2. tokens'[n].family = f
        BY <1>3, <1>5, <1>9
      <3> QED BY <1>5, <1>8, <3>1, <3>2
    <2>2. k \in LiveIn(f)
      BY <1>2, <1>8, <1>9
    <2>3. \A t \in LiveIn(f) : t = k
      BY <2>2, <1>8 DEF Inv, Rotating
    <2>4. LiveIn(f)' = {n}
      BY <2>1, <2>3, <1>4, <1>7, <1>8
    <2>5. \A m \in IssuedIn(f) : m < n
      BY <1>4, <1>8 DEF Inv, Typed
    <2> QED BY <2>1, <2>2, <2>4, <2>5 DEF FamilyStep, Family!Next, Family!Rotate, Family!Issue
  <1>10. CASE f # g
    <2>1. IssuedIn(f)' = IssuedIn(f)
      <3>1. tokens'[n].family = g /\ tokens'[k].family = g /\ tokens[k].family = g
        BY <1>2, <1>3, <1>5, <1>6
      <3>2. \A t \in DOMAIN tokens' : tokens'[t].family = f <=>
               t \in DOMAIN tokens /\ tokens[t].family = f
        BY <3>1, <1>4, <1>5, <1>10
      <3> QED BY <3>2, <1>5, <1>8
    <2>2. LiveIn(f)' = LiveIn(f)
      BY <2>1, <1>2, <1>4, <1>7, <1>8, <1>10
    <2> QED BY <2>1, <2>2 DEF FamilyStep
  <1> QED BY <1>9, <1>10

\* What every step does to one family.
LEMMA FamilySteps == ASSUME Inv, [Next]_vars, NEW f PROVE FamilyStep(f)
  <1>1. CASE UNCHANGED tokens
    <2>1. IssuedIn(f)' = IssuedIn(f) /\ LiveIn(f)' = LiveIn(f)
      BY <1>1, FamilyWords
    <2> QED BY <2>1 DEF FamilyStep
  <1>2. ASSUME NEW r \in Requests, LoginOpen(r) \/ RefreshRotate(r) PROVE FamilyStep(f)
    BY <1>2, LoginOpens, RefreshRotates
  <1>3. ASSUME NEW r \in Requests, RevokeFinish(r) PROVE FamilyStep(f)
    <2>1. tokens' = [t \in Ids |-> IF t \in req[r].targets
                                   THEN [tokens[t] EXCEPT !.revoked = TRUE] ELSE tokens[t]]
      BY <1>3 DEF RevokeFinish
    <2>2. DOMAIN tokens' = DOMAIN tokens /\ \A t \in DOMAIN tokens : tokens[t] \in Token
      BY <2>1 DEF Ids, Inv, Typed
    <2>3. ASSUME NEW t \in DOMAIN tokens
          PROVE  tokens'[t].family = tokens[t].family /\ (Works(tokens', t) => Works(tokens, t))
      BY <2>1, <2>2 DEF Ids, Token, Works
    <2> QED BY <2>2, <2>3, FewerEnd
  <1>4. ASSUME NEW u \in Ids, Expire(u) PROVE FamilyStep(f)
    <2>1. tokens' = [tokens EXCEPT ![u].gone = TRUE]
      BY <1>4 DEF Expire
    <2>2. DOMAIN tokens' = DOMAIN tokens /\ \A t \in DOMAIN tokens : tokens[t] \in Token
      BY <2>1 DEF Inv, Typed
    <2>3. ASSUME NEW t \in DOMAIN tokens
          PROVE  tokens'[t].family = tokens[t].family /\ (Works(tokens', t) => Works(tokens, t))
      BY <2>1, <2>2 DEF Token, Works
    <2> QED BY <2>2, <2>3, FewerEnd
  <1>5. \/ UNCHANGED tokens
        \/ \E r \in Requests : LoginOpen(r) \/ RefreshRotate(r) \/ RevokeFinish(r)
        \/ \E u \in Ids : Expire(u)
    BY DEF Next, vars, LoginAdmit, RefreshCheck, RevokeStart, DeadlockVictim, Crash,
           LoginCheck, ChangePassword, Deactivate, RefreshRead, SignOut, Activate
  <1> QED BY <1>1, <1>2, <1>3, <1>4, <1>5

\* Whatever the requests do at the same time, on both databases, every family is a chain
\* of tokens that rotates as RefreshFamily says (refresh, logout, update_user).
THEOREM FamiliesAreChains == Spec => FamiliesRotate
  <1>1. Init => \A f \in 1 .. MaxTokens : Family(f)!Init
    BY FamilyWords DEF Init, Family!Init
  <1>2. Inv /\ [Next]_vars => [\A f \in 1 .. MaxTokens : FamilyStep(f)]_tokens
    BY FamilySteps
  <1> QED BY <1>1, <1>2, Invariance, PTL DEF Spec, FamiliesRotate

-----------------------------------------------------------------------------
(* Second factors. *)


\* The changes that are about to make recovery codes.
MakesCodes(call) == call.at \in {"passkey", "codes"}

UsedOK ==
    /\ IsFiniteSet(used) /\ Cardinality(used) = signIns
    /\ \A u \in used \cap TotpCodes :
         u.enrolment <= enrolment /\ (u.enrolment = enrolment => u.step <= row.lastStep)
    /\ \A c \in row.recovery \union shown \union (used \cap RecoveryCodes) : c.list <= lists
    /\ row.recovery \cap used = {}
    /\ \A r \in FactorRequests : running[r].at = "recovery" => running[r].code \in running[r].before

\* What a change has read is still so.
ReadOK(call) ==
    /\ call.at = "setup" => ~row.enabled
    /\ call.at = "enable" => call.secret = row.secret
    /\ call.at \in {"disable", "disabling"} => MayDisable
    /\ call.at = "disabling" => call.keeps = (passkeys # {})
    /\ call.at = "remove" /\ required /\ ~row.enabled => Cardinality(passkeys) # 1

CodesOK ==
    /\ row.recovery # {} => row.recovery = shown \ used
    /\ HasFactor /\ (\A r \in FactorRequests : ~MakesCodes(running[r])) => row.recovery = shown \ used

ChangeOK ==
    ~overlapped =>
        /\ \A r, s \in Changing : r = s
        /\ \A r \in FactorRequests : ReadOK(running[r])
        /\ row.enabled => row.secret = confirmed
        /\ CodesOK

\* The two kinds of codes are not alike.
LEMMA KindsDiffer == TotpCodes \cap RecoveryCodes = {}
  <1> SUFFICES ASSUME NEW c \in TotpCodes, c \in RecoveryCodes PROVE FALSE
    OBVIOUS
  <1>1. DOMAIN c = {"enrolment", "step"}
    BY DEF TotpCodes
  <1>2. DOMAIN c = {"list", "at"}
    BY DEF RecoveryCodes
  <1> QED BY <1>1, <1>2

LEMMA FreshCodes ==
    ASSUME FactorsTypeOK
    PROVE  /\ Fresh \subseteq RecoveryCodes
           /\ \A c \in Fresh : c.list = lists + 1
  BY DEF FactorsTypeOK, Fresh, Codes, RecoveryCodes

----------------------------------------------------------------------------
(* Types. *)

LEMMA InitType == FactorsInit => FactorsTypeOK
  <1>1. {} \subseteq RecoveryCodes /\ {} \subseteq TotpCodes \union RecoveryCodes
    OBVIOUS
  <1>2. NoRow \in Row
    BY DEF NoRow, Row
  <1>3. NotRunning \in Calls
    BY DEF NotRunning, Calls
  <1>4. FactorsInit => running \in [FactorRequests -> Calls]
    BY <1>3 DEF FactorsInit
  <1>5. FactorsInit => /\ now \in Nat /\ secrets \in Nat /\ lists \in Nat /\ changes \in Nat
                /\ signIns \in Nat /\ enrolment \in Nat /\ confirmed \in Nat
    BY DEF FactorsInit
  <1>6. FactorsInit => /\ used \subseteq TotpCodes \union RecoveryCodes /\ shown \subseteq RecoveryCodes
                /\ row \in Row /\ passkeys \subseteq Passkeys
    BY <1>1, <1>2 DEF FactorsInit
  <1>7. FactorsInit => required \in BOOLEAN /\ overlapped \in BOOLEAN
    BY DEF FactorsInit
  <1> QED BY <1>4, <1>5, <1>6, <1>7 DEF FactorsTypeOK

LEMMA SignInTypes ==
    ASSUME FactorsTypeOK, NEW r \in FactorRequests, SignsIn(r), UNCHANGED required
    PROVE  FactorsTypeOK'
  <1>1. NotRunning \in Calls
    BY DEF NotRunning, Calls
  <1>2. ASSUME NEW step \in Window, PresentCode(r, step)
        PROVE  FactorsTypeOK'
    <2>1. [at |-> "totp", step |-> step] \in Calls
      BY DEF Calls, Window, FactorsTypeOK
    <2> QED BY <2>1, <1>2 DEF FactorsTypeOK, PresentCode, Starts
  <1>3. ASSUME NEW code \in row.recovery, PresentRecovery(r, code)
        PROVE  FactorsTypeOK'
    <2>1. [at |-> "recovery", code |-> code, before |-> row.recovery] \in Calls
      BY DEF Calls, FactorsTypeOK, Row
    <2> QED BY <2>1, <1>3 DEF FactorsTypeOK, PresentRecovery, Starts
  <1>4. CASE SpendCode(r)
    <2>1. running[r].step \in Int
      BY <1>4 DEF SpendCode, FactorsTypeOK, Calls
    <2>2. TotpCode(running[r].step) \in TotpCodes
      BY <2>1 DEF TotpCode, TotpCodes, FactorsTypeOK
    <2>3. row' \in Row
      BY <1>4, <2>1 DEF SpendCode, FactorsTypeOK, Row
    <2> QED BY <1>1, <1>4, <2>1, <2>2, <2>3 DEF SpendCode, Ends, Finishes, FactorsTypeOK
  <1>5. CASE SpendRecovery(r)
    <2>1. running[r].code \in RecoveryCodes
      BY <1>5 DEF SpendRecovery, FactorsTypeOK, Calls
    <2>2. row' \in Row
      BY <1>5, <2>1 DEF SpendRecovery, FactorsTypeOK, Row
    <2> QED BY <1>1, <1>5, <2>1, <2>2 DEF SpendRecovery, Ends, Finishes, FactorsTypeOK
  <1> QED BY <1>2, <1>3, <1>4, <1>5 DEF SignsIn

LEMMA ChangeTypes ==
    ASSUME FactorsTypeOK, NEW r \in FactorRequests, Changes(r), UNCHANGED required
    PROVE  FactorsTypeOK'
  <1>1. NotRunning \in Calls
    BY DEF NotRunning, Calls
  <1>2. ASSUME NEW call \in Calls, StartsChange(r, call), passkeys' \subseteq Passkeys
        PROVE  FactorsTypeOK'
    BY <1>2 DEF FactorsTypeOK, StartsChange, Starts, CountChange
  <1>3. CASE Setup(r) \/ Disable(r) \/ Regenerate(r)
    <2>1. {[at |-> "setup"], [at |-> "disable"], [at |-> "codes"]} \subseteq Calls
      BY DEF Calls
    <2> QED BY <1>2, <1>3, <2>1 DEF Setup, Disable, Regenerate, FactorsTypeOK
  <1>4. CASE StoreSecret(r)
    <2>1. secrets' \in Nat
      BY <1>4 DEF StoreSecret, FactorsTypeOK
    <2>2. row' \in Row
      BY <1>4, <2>1 DEF StoreSecret, FactorsTypeOK, Row
    <2> QED BY <1>1, <1>4, <2>1, <2>2 DEF StoreSecret, Ends, FactorsTypeOK
  <1>5. ASSUME NEW secret \in 1 .. secrets, NEW step \in Window, Enable(r, secret, step)
        PROVE  FactorsTypeOK'
    <2>1. [at |-> "enable", secret |-> secret, step |-> step] \in Calls
      BY DEF Calls, Window, FactorsTypeOK
    <2> QED BY <1>2, <1>5, <2>1 DEF Enable, FactorsTypeOK
  <1>6. CASE StoreEnabled(r)
    <2>1. running[r].step \in Int /\ running[r].secret \in Nat
      BY <1>6 DEF StoreEnabled, FactorsTypeOK, Calls
    <2>2. row' \in Row
      BY <1>6, <2>1, FreshCodes DEF StoreEnabled, FactorsTypeOK, Row
    <2> QED BY <1>1, <1>6, <2>1, <2>2, FreshCodes DEF StoreEnabled, MakesList, Ends, FactorsTypeOK
  <1>7. CASE ReadPasskeys(r)
    <2>1. [at |-> "disabling", keeps |-> passkeys # {}] \in Calls
      BY DEF Calls
    <2> QED BY <1>7, <2>1 DEF ReadPasskeys, FactorsTypeOK
  <1>8. CASE StoreDisabled(r)
    <2>1. row' \in Row
      BY <1>8 DEF StoreDisabled, FactorsTypeOK, Row
    <2> QED BY <1>1, <1>8, <2>1 DEF StoreDisabled, Ends, FactorsTypeOK
  <1>9. CASE ReadCodes(r)
    <2>1. [at |-> "codes"] \in Calls
      BY DEF Calls
    <2> QED BY <1>1, <1>9, <2>1 DEF ReadCodes, FactorsTypeOK
  <1>10. CASE StoreCodes(r)
    <2>1. row' \in Row
      BY <1>10, FreshCodes DEF StoreCodes, FactorsTypeOK, Row
    <2> QED BY <1>1, <1>10, <2>1, FreshCodes DEF StoreCodes, MakesList, Ends, FactorsTypeOK
  <1>11. ASSUME NEW k \in Passkeys, AddPasskey(r, k) \/ RemovePasskey(r, k)
         PROVE  FactorsTypeOK'
    <2>1. {[at |-> "passkey"], [at |-> "remove", key |-> k]} \subseteq Calls
      BY DEF Calls
    <2> QED BY <1>2, <1>11, <2>1 DEF AddPasskey, RemovePasskey, FactorsTypeOK
  <1>12. CASE DeletePasskey(r)
    BY <1>1, <1>12 DEF DeletePasskey, Ends, FactorsTypeOK
  <1> QED BY <1>3, <1>4, <1>5, <1>6, <1>7, <1>8, <1>9, <1>10, <1>11, <1>12 DEF Changes

LEMMA TypeStep == FactorsTypeOK /\ [FactorsNext]_factorVars => FactorsTypeOK'
  <1> SUFFICES ASSUME FactorsTypeOK, [FactorsNext]_factorVars PROVE FactorsTypeOK'
    OBVIOUS
  <1>1. CASE UNCHANGED factorVars
    BY <1>1 DEF factorVars, FactorsTypeOK
  <1>2. CASE Tick /\ UNCHANGED required
    BY <1>2 DEF Tick, FactorsTypeOK
  <1>3. CASE Reset /\ UNCHANGED required
    <2>1. NoRow \in Row
      BY DEF NoRow, Row
    <2> QED BY <1>3, <2>1 DEF Reset, CountChange, FactorsTypeOK
  <1> QED BY <1>1, <1>2, <1>3, SignInTypes, ChangeTypes DEF FactorsNext

\* The rows and requests keep their types, for any number of requests and changes.
THEOREM FactorsTypeCorrect == FactorsSpec => []FactorsTypeOK
  BY InitType, TypeStep, PTL DEF FactorsSpec

----------------------------------------------------------------------------
(* Codes are used once. *)

LEMMA InitUsed == FactorsInit => UsedOK
  BY FS_EmptySet DEF FactorsInit, NoRow, NotRunning, UsedOK

\* A request that goes on with `call` keeps what the others have read.
LEMMA GoesOn ==
    ASSUME FactorsTypeOK, UsedOK, NEW r \in FactorRequests, NEW call,
           running' = [running EXCEPT ![r] = call],
           call.at = "recovery" => call.code \in call.before
    PROVE  \A s \in FactorRequests : running'[s].at = "recovery" => running'[s].code \in running'[s].before
  BY DEF FactorsTypeOK, UsedOK

LEMMA SignInUsed ==
    ASSUME FactorsTypeOK, FactorsTypeOK', UsedOK, NEW r \in FactorRequests, SignsIn(r)
    PROVE  UsedOK'
  <1>1. ASSUME NEW step \in Window, PresentCode(r, step)
        PROVE  UsedOK'
    BY <1>1, GoesOn DEF PresentCode, Starts, UsedOK
  <1>2. ASSUME NEW code \in row.recovery, PresentRecovery(r, code)
        PROVE  UsedOK'
    BY <1>2, GoesOn DEF PresentRecovery, Starts, UsedOK
  <1>3. CASE SpendCode(r)
    <2> DEFINE step == running[r].step
               code == TotpCode(step)
    <2>1. \A s \in FactorRequests : running'[s].at = "recovery" => running'[s].code \in running'[s].before
      BY <1>3, GoesOn DEF SpendCode, Ends, NotRunning
    <2>2. CASE StillNew(step)
      <3>1. row' = [row EXCEPT !.lastStep = step] /\ used' = used \union {code}
            /\ signIns' = signIns + 1 /\ UNCHANGED <<enrolment, lists, shown>>
        BY <1>3, <2>2 DEF SpendCode, Finishes
      <3>2. step \in Int
        BY <1>3 DEF SpendCode, FactorsTypeOK, Calls
      <3>3. code \in TotpCodes /\ code.enrolment = enrolment /\ code.step = step
        BY <3>2 DEF TotpCode, TotpCodes, FactorsTypeOK
      <3>4. code \notin RecoveryCodes
        BY <3>3, KindsDiffer
      <3>5. row.lastStep < step /\ row'.lastStep = step /\ row'.recovery = row.recovery
            /\ row.lastStep \in Int
        BY <2>2, <3>1 DEF StillNew, FactorsTypeOK, Row
      <3>6. code \notin used
        BY <3>2, <3>3, <3>5 DEF UsedOK
      <3>7. IsFiniteSet(used') /\ Cardinality(used') = signIns'
        BY <3>1, <3>6, FS_AddElement DEF UsedOK
      <3>8. \A u \in used' \cap TotpCodes :
              u.enrolment <= enrolment' /\ (u.enrolment = enrolment' => u.step <= row'.lastStep)
        <4> SUFFICES ASSUME NEW u \in used' \cap TotpCodes
                     PROVE  u.enrolment <= enrolment /\ (u.enrolment = enrolment => u.step <= step)
          BY <3>1, <3>5
        <4>1. CASE u = code
          BY <4>1, <3>2, <3>3 DEF FactorsTypeOK
        <4>2. CASE u \in used
          BY <4>2, <3>2, <3>5 DEF UsedOK, TotpCodes, FactorsTypeOK
        <4> QED BY <4>1, <4>2, <3>1
      <3>9. /\ row'.recovery \cap used' = {}
            /\ \A c \in row'.recovery \union shown' \union (used' \cap RecoveryCodes) : c.list <= lists'
        BY <3>1, <3>4, <3>5 DEF UsedOK, FactorsTypeOK, Row
      <3> QED BY <2>1, <3>7, <3>8, <3>9 DEF UsedOK
    <2>3. CASE ~StillNew(step)
      BY <1>3, <2>1, <2>3 DEF SpendCode, UsedOK
    <2> QED BY <2>2, <2>3
  <1>4. CASE SpendRecovery(r)
    <2> DEFINE call == running[r]
               code == call.code
    <2>1. \A s \in FactorRequests : running'[s].at = "recovery" => running'[s].code \in running'[s].before
      BY <1>4, GoesOn DEF SpendRecovery, Ends, NotRunning
    <2>2. CASE row.exists /\ row.recovery = call.before
      <3>1. row' = [row EXCEPT !.recovery = @ \ {code}] /\ used' = used \union {code}
            /\ signIns' = signIns + 1 /\ UNCHANGED <<enrolment, lists, shown>>
        BY <1>4, <2>2 DEF SpendRecovery, Finishes
      <3>2. code \in row.recovery /\ code \in RecoveryCodes
        BY <1>4, <2>2 DEF SpendRecovery, UsedOK, FactorsTypeOK, Row
      <3>3. code \notin TotpCodes /\ code \notin used
        BY <3>2, KindsDiffer DEF UsedOK
      <3>4. row'.lastStep = row.lastStep /\ row'.recovery = row.recovery \ {code}
        BY <3>1 DEF FactorsTypeOK, Row
      <3>5. IsFiniteSet(used') /\ Cardinality(used') = signIns'
        BY <3>1, <3>3, FS_AddElement DEF UsedOK
      <3>6. \A u \in used' \cap TotpCodes :
              u.enrolment <= enrolment' /\ (u.enrolment = enrolment' => u.step <= row'.lastStep)
        BY <3>1, <3>3, <3>4 DEF UsedOK
      <3>7. /\ row'.recovery \cap used' = {}
            /\ \A c \in row'.recovery \union shown' \union (used' \cap RecoveryCodes) : c.list <= lists'
        BY <3>1, <3>2, <3>4 DEF UsedOK
      <3> QED BY <2>1, <3>5, <3>6, <3>7 DEF UsedOK
    <2>3. CASE ~(row.exists /\ row.recovery = call.before)
      BY <1>4, <2>1, <2>3 DEF SpendRecovery, UsedOK
    <2> QED BY <2>2, <2>3
  <1> QED BY <1>1, <1>2, <1>3, <1>4 DEF SignsIn

\* A change that turns TOTP on or off starts a new enrolment, in which no code was used yet.
LEMMA NewEnrolment ==
    ASSUME FactorsTypeOK, UsedOK, enrolment' = enrolment + 1, UNCHANGED used
    PROVE  \A u \in used' \cap TotpCodes :
              u.enrolment <= enrolment' /\ (u.enrolment = enrolment' => u.step <= row'.lastStep)
  BY DEF FactorsTypeOK, UsedOK, TotpCodes

\* A new list holds no code that was used.
LEMMA NewList ==
    ASSUME FactorsTypeOK, UsedOK, MakesList, UNCHANGED used, row'.recovery = Fresh
    PROVE  /\ row'.recovery \cap used' = {}
           /\ \A c \in row'.recovery \union shown' \union (used' \cap RecoveryCodes) : c.list <= lists'
  <1>1. \A c \in Fresh : c \in RecoveryCodes /\ c.list = lists + 1
    BY FreshCodes
  <1>2. \A c \in used \cap RecoveryCodes : c.list \in Nat /\ c.list <= lists
    BY DEF UsedOK, RecoveryCodes
  <1>3. Fresh \cap used = {}
    BY <1>1, <1>2 DEF FactorsTypeOK
  <1> QED BY <1>1, <1>2, <1>3 DEF MakesList, FactorsTypeOK

LEMMA ChangeUsed ==
    ASSUME FactorsTypeOK, FactorsTypeOK', UsedOK, NEW r \in FactorRequests, Changes(r)
    PROVE  UsedOK'
  <1> DEFINE StillListed == \A s \in FactorRequests : running'[s].at = "recovery"
                        => running'[s].code \in running'[s].before
  <1>1. ASSUME NEW call, call.at # "recovery", StartsChange(r, call)
        PROVE  UsedOK'
    BY <1>1, GoesOn DEF StartsChange, Starts, UsedOK
  <1>2. CASE Setup(r) \/ Disable(r) \/ Regenerate(r)
    BY <1>1, <1>2 DEF Setup, Disable, Regenerate
  <1>3. ASSUME NEW secret \in 1 .. secrets, NEW step \in Window, Enable(r, secret, step)
        PROVE  UsedOK'
    BY <1>1, <1>3 DEF Enable
  <1>4. ASSUME NEW k \in Passkeys, AddPasskey(r, k) \/ RemovePasskey(r, k)
        PROVE  UsedOK'
    BY <1>1, <1>4 DEF AddPasskey, RemovePasskey
  <1>5. ASSUME Ends(r) PROVE StillListed
    BY <1>5, GoesOn DEF Ends, NotRunning
  <1>6. CASE StoreSecret(r)
    <2>1. row'.lastStep = row.lastStep /\ row'.recovery = row.recovery
      BY <1>6 DEF StoreSecret, FactorsTypeOK, Row
    <2> QED BY <1>5, <1>6, <2>1 DEF StoreSecret, UsedOK
  <1>7. CASE StoreEnabled(r)
    <2>1. row'.recovery = Fresh
      BY <1>7 DEF StoreEnabled, FactorsTypeOK, Row
    <2> QED BY <1>5, <1>7, <2>1, NewEnrolment, NewList DEF StoreEnabled, UsedOK
  <1>8. CASE ReadPasskeys(r)
    BY <1>8, GoesOn DEF ReadPasskeys, UsedOK
  <1>9. CASE StoreDisabled(r)
    <2>1. row'.recovery \subseteq row.recovery
      BY <1>9 DEF StoreDisabled
    <2> QED BY <1>5, <1>9, <2>1, NewEnrolment DEF StoreDisabled, UsedOK
  <1>10. CASE ReadCodes(r)
    BY <1>10, GoesOn DEF ReadCodes, NotRunning, UsedOK
  <1>11. CASE StoreCodes(r)
    <2>1. row'.recovery = Fresh /\ row'.lastStep = row.lastStep
      BY <1>11 DEF StoreCodes, FactorsTypeOK, Row
    <2> QED BY <1>5, <1>11, <2>1, NewList DEF StoreCodes, UsedOK
  <1>12. CASE DeletePasskey(r)
    BY <1>5, <1>12 DEF DeletePasskey, UsedOK
  <1> QED BY <1>2, <1>3, <1>4, <1>6, <1>7, <1>8, <1>9, <1>10, <1>11, <1>12 DEF Changes

LEMMA UsedStep == FactorsTypeOK /\ UsedOK /\ [FactorsNext]_factorVars => UsedOK'
  <1> SUFFICES ASSUME FactorsTypeOK, UsedOK, [FactorsNext]_factorVars PROVE UsedOK'
    OBVIOUS
  <1>1. FactorsTypeOK'
    BY TypeStep
  <1>2. CASE UNCHANGED factorVars
    BY <1>2 DEF factorVars, UsedOK
  <1>3. CASE Tick
    BY <1>3 DEF Tick, UsedOK
  <1>4. CASE Reset
    <2>1. row'.recovery = {}
      BY <1>4 DEF Reset, NoRow
    <2> QED BY <1>4, <2>1, NewEnrolment DEF Reset, UsedOK
  <1> QED BY <1>1, <1>2, <1>3, <1>4, SignInUsed, ChangeUsed DEF FactorsNext

\* Each code finishes one sign-in, however many sign-ins and changes there are.
THEOREM CodesWorkOnce == FactorsSpec => []OneSignInPerCode
  <1>1. FactorsInit => FactorsTypeOK /\ UsedOK
    BY InitType, InitUsed
  <1>2. FactorsTypeOK /\ UsedOK /\ [FactorsNext]_factorVars => (FactorsTypeOK /\ UsedOK)'
    BY TypeStep, UsedStep
  <1>3. UsedOK => OneSignInPerCode
    BY DEF UsedOK, OneSignInPerCode
  <1> QED BY <1>1, <1>2, <1>3, PTL DEF FactorsSpec

----------------------------------------------------------------------------
(* What a change has read still holds. *)

LEMMA InitChange == FactorsInit => ChangeOK
  BY DEF FactorsInit, NoRow, NotRunning, HasFactor, Changing, ReadOK, CodesOK, ChangeOK

\* While no changes overlap, the others are idle or sign in.
LEMMA Alone ==
    ASSUME ChangeOK, ~overlapped, NEW r \in Changing, NEW s \in FactorRequests, s # r
    PROVE  running[s].at \in {"idle", "totp", "recovery"}
  BY DEF ChangeOK, Changing

\* A change that ends leaves nothing that was read.
LEMMA ChangeEnds ==
    ASSUME FactorsTypeOK, ChangeOK, NEW r \in Changing, Ends(r), UNCHANGED overlapped,
           ~overlapped => (row'.enabled => row'.secret = confirmed'),
           ~overlapped /\ (row'.recovery # {} \/ HasFactor') => row'.recovery = shown' \ used'
    PROVE  ChangeOK'
  <1> SUFFICES ASSUME ~overlapped PROVE ChangeOK'
    BY DEF ChangeOK
  <1>1. \A s \in FactorRequests : running'[s].at \in {"idle", "totp", "recovery"}
    BY Alone DEF Ends, NotRunning, FactorsTypeOK
  <1>2. Changing' = {} /\ \A s \in FactorRequests : ReadOK(running[s])'
    BY <1>1 DEF Changing, ReadOK
  <1> QED BY <1>2 DEF CodesOK, ChangeOK

\* A change that starts is the only one, or overlaps.
LEMMA ChangeStarts ==
    ASSUME FactorsTypeOK, ChangeOK, NEW r \in FactorRequests, NEW call, StartsChange(r, call), UNCHANGED required,
           ReadOK(call)', UNCHANGED passkeys \/ MakesCodes(call)
    PROVE  ChangeOK'
  <1> SUFFICES ASSUME ~overlapped' PROVE ChangeOK'
    BY DEF ChangeOK
  <1>1. ~overlapped /\ Changing = {} /\ running' = [running EXCEPT ![r] = call]
    BY DEF StartsChange, Starts, CountChange
  <1>2. \A s \in FactorRequests : running[s].at \in {"idle", "totp", "recovery"}
    BY <1>1 DEF Changing
  <1>3. \A s \in FactorRequests : running'[s] = IF s = r THEN call ELSE running[s]
    BY <1>1 DEF FactorsTypeOK
  <1>4. \A s, t \in Changing' : s = t
    BY <1>2, <1>3 DEF Changing
  <1>5. \A s \in FactorRequests : ReadOK(running[s])'
    <2> SUFFICES ASSUME NEW s \in FactorRequests PROVE ReadOK(running[s])'
      OBVIOUS
    <2>1. CASE s = r
      BY <1>3, <2>1 DEF ReadOK, MayDisable
    <2>2. CASE s # r
      BY <1>2, <1>3, <2>2 DEF ReadOK
    <2> QED BY <2>1, <2>2
  <1>6. UNCHANGED <<row, confirmed, shown, used>>
    BY DEF StartsChange
  <1>7. CodesOK'
    <2>1. \A s \in FactorRequests : ~MakesCodes(running[s])
      BY <1>2 DEF MakesCodes
    <2>2. CASE MakesCodes(call)
      BY <1>1, <1>3, <1>6, <2>2 DEF ChangeOK, CodesOK, MakesCodes
    <2>3. CASE UNCHANGED passkeys
      BY <1>1, <1>6, <2>1, <2>3 DEF ChangeOK, CodesOK, HasFactor
    <2> QED BY <2>2, <2>3
  <1> QED BY <1>1, <1>4, <1>5, <1>6, <1>7 DEF ChangeOK

\* A request that signs in leaves what the changes have read as it was.
LEMMA SignInChange ==
    ASSUME FactorsTypeOK, UsedOK, ChangeOK, NEW r \in FactorRequests, SignsIn(r), UNCHANGED required
    PROVE  ChangeOK'
  <1> DEFINE SigningIn(call) == call.at \in {"idle", "totp", "recovery"}
  <1>1. ASSUME NEW call, running' = [running EXCEPT ![r] = call], SigningIn(call),
               SigningIn(running[r]), UNCHANGED <<passkeys, confirmed, shown, overlapped>>,
               row'.enabled = row.enabled, row'.secret = row.secret,
               row.recovery = shown \ used => row'.recovery = shown \ used',
               row.recovery = {} => row'.recovery = {}
        PROVE  ChangeOK'
    <2> SUFFICES ASSUME ~overlapped PROVE ChangeOK'
      BY <1>1 DEF ChangeOK
    <2>1. \A s \in FactorRequests : running'[s] = IF s = r THEN call ELSE running[s]
      BY <1>1 DEF FactorsTypeOK
    <2>2. Changing' = Changing
      BY <1>1, <2>1 DEF Changing
    <2>3. \A s \in FactorRequests : ReadOK(running[s])'
      BY <1>1, <2>1 DEF ChangeOK, ReadOK, MayDisable
    <2>4. \A s \in FactorRequests : MakesCodes(running[s])' <=> MakesCodes(running[s])
      BY <1>1, <2>1 DEF MakesCodes
    <2>5. CodesOK'
      BY <1>1, <2>4 DEF ChangeOK, CodesOK, HasFactor
    <2> QED BY <1>1, <2>2, <2>3, <2>5 DEF ChangeOK
  <1>2. ASSUME NEW step \in Window, PresentCode(r, step)
        PROVE  ChangeOK'
    <2> DEFINE call == [at |-> "totp", step |-> step]
    <2>1. running' = [running EXCEPT ![r] = call] /\ SigningIn(call) /\ SigningIn(running[r])
      BY <1>2 DEF PresentCode, Starts, NotRunning
    <2> HIDE DEF call
    <2> QED BY <1>1, <1>2, <2>1 DEF PresentCode
  <1>3. ASSUME NEW code \in row.recovery, PresentRecovery(r, code)
        PROVE  ChangeOK'
    <2> DEFINE call == [at |-> "recovery", code |-> code, before |-> row.recovery]
    <2>1. running' = [running EXCEPT ![r] = call] /\ SigningIn(call) /\ SigningIn(running[r])
      BY <1>3 DEF PresentRecovery, Starts, NotRunning
    <2> HIDE DEF call
    <2> QED BY <1>1, <1>3, <2>1 DEF PresentRecovery
  <1>4. CASE SpendCode(r)
    <2> DEFINE step == running[r].step
    <2>1. CASE StillNew(step)
      <3>1. TotpCode(step) \notin shown
        <4>1. TotpCode(step) \in TotpCodes
          BY <1>4 DEF SpendCode, FactorsTypeOK, Calls, TotpCode, TotpCodes
        <4> QED BY <4>1, KindsDiffer DEF FactorsTypeOK
      <3>2. row' = [row EXCEPT !.lastStep = step] /\ used' = used \union {TotpCode(step)}
        BY <1>4, <2>1 DEF SpendCode, Finishes
      <3>3. /\ row'.enabled = row.enabled /\ row'.secret = row.secret
            /\ row'.recovery = row.recovery /\ shown \ used' = shown \ used
        BY <3>1, <3>2 DEF FactorsTypeOK, Row
      <3> QED BY <1>1, <1>4, <3>3 DEF SpendCode, Ends, NotRunning
    <2>2. CASE ~StillNew(step)
      BY <1>1, <1>4, <2>2 DEF SpendCode, Ends, NotRunning
    <2> QED BY <2>1, <2>2
  <1>5. CASE SpendRecovery(r)
    <2> DEFINE call == running[r]
    <2>1. CASE row.exists /\ row.recovery = call.before
      <3>1. /\ row' = [row EXCEPT !.recovery = @ \ {call.code}]
            /\ used' = used \union {call.code}
        BY <1>5, <2>1 DEF SpendRecovery, Finishes
      <3>2. /\ row'.enabled = row.enabled /\ row'.secret = row.secret
            /\ row'.recovery = row.recovery \ {call.code}
        BY <3>1 DEF FactorsTypeOK, Row
      <3> QED BY <1>1, <1>5, <3>1, <3>2 DEF SpendRecovery, Ends, NotRunning
    <2>2. CASE ~(row.exists /\ row.recovery = call.before)
      BY <1>1, <1>5, <2>2 DEF SpendRecovery, Ends, NotRunning
    <2> QED BY <2>1, <2>2
  <1> QED BY <1>2, <1>3, <1>4, <1>5 DEF SignsIn

LEMMA FactorChange ==
    ASSUME FactorsTypeOK, UsedOK, ChangeOK, NEW r \in FactorRequests, Changes(r), UNCHANGED required
    PROVE  ChangeOK'
  <1>1. CASE Setup(r) \/ Disable(r) \/ Regenerate(r)
    BY <1>1, ChangeStarts DEF Setup, Disable, Regenerate, StartsChange, ReadOK, MayDisable
  <1>2. ASSUME NEW secret \in 1 .. secrets, NEW step \in Window, Enable(r, secret, step)
        PROVE  ChangeOK'
    BY <1>2, ChangeStarts DEF Enable, Matches, StartsChange, ReadOK
  <1>3. ASSUME NEW k \in Passkeys, AddPasskey(r, k)
        PROVE  ChangeOK'
    BY <1>3, ChangeStarts DEF AddPasskey, ReadOK, MakesCodes
  <1>4. ASSUME NEW k \in Passkeys, RemovePasskey(r, k)
        PROVE  ChangeOK'
    BY <1>4, ChangeStarts DEF RemovePasskey, StartsChange, ReadOK
  <1>5. CASE StoreSecret(r)
    <2>1. r \in Changing
      BY <1>5 DEF StoreSecret, Changing
    <2>2. row'.enabled = FALSE /\ row'.recovery = row.recovery
      BY <1>5 DEF StoreSecret, FactorsTypeOK, Row
    <2>3. ASSUME ~overlapped, HasFactor' PROVE row.recovery = shown \ used
      <3>1. HasFactor
        BY <1>5, <2>2, <2>3 DEF StoreSecret, HasFactor
      <3>2. \A s \in FactorRequests : ~MakesCodes(running[s])
        BY <1>5, <2>1, <2>3, Alone DEF StoreSecret, MakesCodes
      <3> QED BY <2>3, <3>1, <3>2 DEF ChangeOK, CodesOK
    <2>4. ~overlapped /\ row.recovery # {} => row.recovery = shown \ used
      BY DEF ChangeOK, CodesOK
    <2> QED BY <1>5, <2>1, <2>2, <2>3, <2>4, ChangeEnds DEF StoreSecret
  <1>6. CASE StoreEnabled(r)
    <2>1. r \in Changing
      BY <1>6 DEF StoreEnabled, Changing
    <2>2. row'.secret = row.secret /\ row'.recovery = Fresh
      BY <1>6 DEF StoreEnabled, FactorsTypeOK, Row
    <2>3. ~overlapped => row.secret = confirmed'
      BY <1>6 DEF StoreEnabled, ChangeOK, ReadOK
    <2>4. row'.recovery = shown' \ used'
      BY <1>6, <2>2, NewList DEF StoreEnabled, MakesList
    <2> QED BY <1>6, <2>1, <2>2, <2>3, <2>4, ChangeEnds DEF StoreEnabled
  <1>7. CASE ReadPasskeys(r) \/ ReadCodes(r)
    <2> SUFFICES ASSUME ~overlapped PROVE ChangeOK'
      BY <1>7 DEF ReadPasskeys, ReadCodes, ChangeOK
    <2>1. r \in Changing /\ UNCHANGED <<row, passkeys, used, confirmed, shown, overlapped>>
      BY <1>7 DEF ReadPasskeys, ReadCodes, Changing
    <2>2. \A s \in FactorRequests : s # r => running'[s] = running[s]
                                       /\ running[s].at \in {"idle", "totp", "recovery"}
      BY <1>7, <2>1, Alone DEF ReadPasskeys, ReadCodes, FactorsTypeOK
    <2>3. \A s, t \in Changing' : s = t
      BY <2>2 DEF Changing
    <2>4. ReadOK(running[r])'
      BY <1>7, <2>1 DEF ReadPasskeys, ReadCodes, NotRunning, FactorsTypeOK, ChangeOK, ReadOK, MayDisable
    <2>5. \A s \in FactorRequests : ReadOK(running[s])'
      BY <2>2, <2>4 DEF ReadOK
    <2>6. CodesOK'
      <3>1. CASE ReadPasskeys(r)
        <4>1. \A s \in FactorRequests : ~MakesCodes(running[s])
          BY <2>2, <3>1 DEF ReadPasskeys, MakesCodes
        <4> QED BY <2>1, <4>1 DEF ChangeOK, CodesOK, HasFactor
      <3>2. CASE ReadCodes(r) /\ row.recovery # {}
        BY <2>1, <3>2 DEF ChangeOK, CodesOK
      <3>3. CASE ReadCodes(r) /\ row.recovery = {}
        <4>1. MakesCodes(running'[r])
          BY <3>3 DEF ReadCodes, MakesCodes, FactorsTypeOK
        <4> QED BY <2>1, <3>3, <4>1 DEF CodesOK, MakesCodes
      <3> QED BY <1>7, <3>1, <3>2, <3>3
    <2> QED BY <2>1, <2>3, <2>5, <2>6 DEF ChangeOK
  <1>8. CASE StoreDisabled(r)
    <2>1. r \in Changing
      BY <1>8 DEF StoreDisabled, Changing
    <2>2. row'.enabled = FALSE /\ row'.recovery \in {row.recovery, {}}
      BY <1>8 DEF StoreDisabled
    <2>3. ASSUME ~overlapped, HasFactor' PROVE row'.recovery = shown \ used
      <3>1. passkeys # {} /\ HasFactor
        BY <1>8, <2>2, <2>3 DEF StoreDisabled, HasFactor
      <3>2. row'.recovery = row.recovery
        BY <1>8, <2>3, <3>1 DEF StoreDisabled, ChangeOK, ReadOK
      <3>3. \A s \in FactorRequests : ~MakesCodes(running[s])
        BY <1>8, <2>1, <2>3, Alone DEF StoreDisabled, MakesCodes
      <3> QED BY <2>3, <3>1, <3>2, <3>3 DEF ChangeOK, CodesOK
    <2>4. ~overlapped /\ row'.recovery # {} => row'.recovery = shown \ used
      BY <2>2 DEF ChangeOK, CodesOK
    <2> QED BY <1>8, <2>1, <2>2, <2>3, <2>4, ChangeEnds DEF StoreDisabled
  <1>9. CASE StoreCodes(r)
    <2>1. r \in Changing
      BY <1>9 DEF StoreCodes, Changing
    <2>2. row'.secret = row.secret /\ row'.enabled = row.enabled /\ row'.recovery = Fresh
      BY <1>9 DEF StoreCodes, FactorsTypeOK, Row
    <2>3. row'.recovery = shown' \ used'
      BY <1>9, <2>2, NewList DEF StoreCodes, MakesList
    <2> QED BY <1>9, <2>1, <2>2, <2>3, ChangeEnds DEF StoreCodes, ChangeOK
  <1>10. CASE DeletePasskey(r)
    <2>1. r \in Changing
      BY <1>10 DEF DeletePasskey, Changing
    <2>2. ASSUME ~overlapped, HasFactor' PROVE row.recovery = shown \ used
      <3>1. HasFactor
        BY <1>10, <2>2 DEF DeletePasskey, HasFactor
      <3>2. \A s \in FactorRequests : ~MakesCodes(running[s])
        BY <1>10, <2>1, <2>2, Alone DEF DeletePasskey, MakesCodes
      <3> QED BY <2>2, <3>1, <3>2 DEF ChangeOK, CodesOK
    <2> QED BY <1>10, <2>1, <2>2, ChangeEnds DEF DeletePasskey, ChangeOK, CodesOK
  <1> QED BY <1>1, <1>2, <1>3, <1>4, <1>5, <1>6, <1>7, <1>8, <1>9, <1>10 DEF Changes

LEMMA ChangeStep == FactorsTypeOK /\ UsedOK /\ ChangeOK /\ [FactorsNext]_factorVars => ChangeOK'
  <1> SUFFICES ASSUME FactorsTypeOK, UsedOK, ChangeOK, [FactorsNext]_factorVars PROVE ChangeOK'
    OBVIOUS
  <1>1. CASE UNCHANGED factorVars
    BY <1>1 DEF factorVars, ChangeOK, Changing, ReadOK, CodesOK, HasFactor, MayDisable, MakesCodes
  <1>2. CASE Tick /\ UNCHANGED required
    BY <1>2 DEF Tick, ChangeOK, Changing, ReadOK, CodesOK, HasFactor, MayDisable, MakesCodes
  <1>3. CASE Reset
    <2> SUFFICES ASSUME ~overlapped' PROVE ChangeOK'
      BY DEF ChangeOK
    <2>1. Changing = {} /\ running' = running
      BY <1>3 DEF Reset, CountChange
    <2>2. \A s \in FactorRequests : running'[s].at \in {"idle", "totp", "recovery"}
      BY <2>1 DEF Changing
    <2>3. Changing' = {} /\ \A s \in FactorRequests : ReadOK(running[s])'
      BY <2>2 DEF Changing, ReadOK
    <2>4. ~row'.enabled /\ row'.recovery = {} /\ ~HasFactor'
      BY <1>3 DEF Reset, NoRow, HasFactor
    <2> QED BY <2>3, <2>4 DEF ChangeOK, CodesOK
  <1> QED BY <1>1, <1>2, <1>3, SignInChange, FactorChange DEF FactorsNext

THEOREM FactorsInvariant == FactorsSpec => [](FactorsTypeOK /\ UsedOK /\ ChangeOK)
  <1>1. FactorsInit => FactorsTypeOK /\ UsedOK /\ ChangeOK
    BY InitType, InitUsed, InitChange
  <1>2. FactorsTypeOK /\ UsedOK /\ ChangeOK /\ [FactorsNext]_factorVars => (FactorsTypeOK /\ UsedOK /\ ChangeOK)'
    BY TypeStep, UsedStep, ChangeStep
  <1> QED BY <1>1, <1>2, PTL DEF FactorsSpec

\* Unless changes overlap, the stored secret is the one the admin's app has shown a code of,
\* and while there is a factor, the codes shown last are those that work, but for the used.
THEOREM FactorsKeepWorking == FactorsSpec => []FactorsWork
  <1>1. ChangeOK => FactorsWork
    BY DEF ChangeOK, CodesOK, FactorsWork, Changing, MakesCodes
  <1> QED BY <1>1, FactorsInvariant, PTL

\* Removing a passkey after RemovePasskey's check leaves a factor where one is required.
LEMMA LastPasskey ==
    ASSUME NEW key, passkeys \ {key} = {}, passkeys # {}
    PROVE  Cardinality(passkeys) = 1
  <1>1. passkeys = {key}
    OBVIOUS
  <1> QED BY <1>1, FS_Singleton

\* Unless changes overlap, no request takes the last factor of an admin whose role requires
\* one.
THEOREM LastFactorIsKept == FactorsSpec => LastFactorStays
  <1>1. ASSUME FactorsTypeOK, ChangeOK, [FactorsNext]_factorVars, required, HasFactor, ~HasFactor', ~overlapped', ~Reset
        PROVE  FALSE
    <2>1. PICK r \in FactorRequests : SignsIn(r) \/ Changes(r)
      BY <1>1 DEF FactorsNext, factorVars, Tick, HasFactor
    <2>2. ~SignsIn(r)
      BY <1>1 DEF SignsIn, PresentCode, PresentRecovery, SpendCode, SpendRecovery, HasFactor, FactorsTypeOK, Row
    <2>3. ~(Setup(r) \/ Disable(r) \/ Regenerate(r) \/ ReadPasskeys(r) \/ ReadCodes(r))
      BY <1>1 DEF Setup, Disable, Regenerate, ReadPasskeys, ReadCodes, StartsChange, HasFactor
    <2>4. ~\E secret \in 1 .. secrets, step \in Window : Enable(r, secret, step)
      BY <1>1 DEF Enable, StartsChange, HasFactor
    <2>5. ~\E k \in Passkeys : AddPasskey(r, k) \/ RemovePasskey(r, k)
      BY <1>1 DEF AddPasskey, RemovePasskey, StartsChange, HasFactor
    <2>6. ~StoreEnabled(r) /\ ~StoreCodes(r)
      BY <1>1 DEF StoreEnabled, StoreCodes, HasFactor, FactorsTypeOK, Row
    <2>7. ~StoreSecret(r)
      BY <1>1 DEF StoreSecret, ChangeOK, ReadOK, HasFactor
    <2>8. ~StoreDisabled(r)
      BY <1>1 DEF StoreDisabled, ChangeOK, ReadOK, MayDisable, HasFactor
    <2>9. ~DeletePasskey(r)
      <3> SUFFICES ASSUME DeletePasskey(r) PROVE FALSE
        OBVIOUS
      <3>1. ~row.enabled /\ passkeys # {} /\ passkeys \ {running[r].key} = {}
        BY <1>1 DEF DeletePasskey, HasFactor
      <3>2. Cardinality(passkeys) # 1
        BY <1>1, <3>1 DEF DeletePasskey, ChangeOK, ReadOK
      <3> QED BY <3>1, <3>2, LastPasskey
    <2> QED BY <2>1, <2>2, <2>3, <2>4, <2>5, <2>6, <2>7, <2>8, <2>9 DEF Changes
  <1>2. FactorsTypeOK /\ ChangeOK /\ [FactorsNext]_factorVars
          => [required /\ HasFactor /\ ~HasFactor' => overlapped' \/ Reset]_factorVars
    BY <1>1
  <1> QED BY <1>2, FactorsInvariant, PTL DEF FactorsSpec, LastFactorStays
=============================================================================
