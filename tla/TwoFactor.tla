----------------------------- MODULE TwoFactor -----------------------------
(***************************************************************************)
(* The second factors of one admin (crates/verdin-auth/src/two_factor.rs,   *)
(* passkeys.rs; verdin-api/src/two_factor_admin.rs): an authenticator app    *)
(* (TOTP), passkeys, and recovery codes for when they are lost.             *)
(*                                                                         *)
(* Every request reads, then writes what follows from it, and each statement *)
(* (upsert is one transaction) is an action of its own; `running` holds what *)
(* a request read.  A refused request changes nothing here and is left out,  *)
(* as are passwords, the lockout, and signing in with a passkey.  A code is  *)
(* its secret and step, and no two are alike.                               *)
(***************************************************************************)
EXTENDS Integers, FiniteSets

CONSTANTS
    FactorRequests, \* requests under way at the same time
    Passkeys,
    ListLength,     \* RECOVERY_CODES
    MaxStep,        \* bounds: steps of 30 seconds,
    MaxChanges      \*   changes of the factors

ASSUME TwoFactorAssumption ==
    /\ IsFiniteSet(Passkeys)
    /\ {ListLength, MaxStep, MaxChanges} \subseteq Nat

VARIABLES
    required,    \* whether a role of the admin requires a second factor
    row,         \* vd_admin_two_factor: NULL is 0 or {}
    passkeys,    \* vd_admin_passkeys
    running,     \* per request: what it read
    now,         \* the step it is
    secrets,     \* how many secrets were made
    lists,       \* how many lists of recovery codes were made
    changes,     \* how much of MaxChanges is used
    used,        \* codes that finished a sign-in
    signIns,     \* sign-ins finished with a code
    enrolment,   \* how many times TOTP was turned on or off
    confirmed,   \* the secret of the code TOTP was last turned on with
    shown,       \* the recovery codes the admin was shown last
    overlapped   \* two changes were once under way at the same time

factorVars == <<required, row, passkeys, running, now, secrets, lists, changes, used, signIns,
                enrolment, confirmed, shown, overlapped>>

Codes(n) == [list: {n}, at: 1 .. ListLength]
TotpCode(step) == [enrolment |-> enrolment, step |-> step]

NoRow == [exists |-> FALSE, secret |-> 0, enabled |-> FALSE, lastStep |-> 0, recovery |-> {}]
NotRunning == [at |-> "idle"]

HasFactor == row.enabled \/ passkeys # {}
Changing  == {r \in FactorRequests : running[r].at \notin {"idle", "totp", "recovery"}}

\* matching_step(): one step off is accepted, to allow for clock drift.
Window == now - 1 .. now + 1

FactorsInit ==
    /\ required \in BOOLEAN
    /\ row = NoRow /\ passkeys = {} /\ running = [r \in FactorRequests |-> NotRunning]
    /\ now = 1 /\ secrets = 0 /\ lists = 0 /\ changes = 0
    /\ used = {} /\ signIns = 0 /\ enrolment = 0 /\ confirmed = 0 /\ shown = {}
    /\ overlapped = FALSE

----------------------------------------------------------------------------
(* Signing in with a code. *)

Starts(r, call) == running[r] = NotRunning /\ running' = [running EXCEPT ![r] = call]
Ends(r) == running' = [running EXCEPT ![r] = NotRunning]

Finishes(code) == used' = used \union {code} /\ signIns' = signIns + 1

\* check_totp(): a code of the app, newer than the last one used.
PresentCode(r, step) ==
    /\ row.enabled /\ step \in Window /\ step > row.lastStep
    /\ Starts(r, [at |-> "totp", step |-> step])
    /\ UNCHANGED <<row, passkeys, now, secrets, lists, changes, used, signIns, enrolment,
                   confirmed, shown, overlapped>>

\* Mutant of StillNew: the UPDATE has no condition.
StillNewAsRead(step) == row.exists

StillNew(step) == row.exists /\ row.lastStep < step

SpendCode(r) ==
    /\ running[r].at = "totp" /\ Ends(r)
    /\ LET step == running[r].step
       IN  IF StillNew(step)
           THEN row' = [row EXCEPT !.lastStep = step] /\ Finishes(TotpCode(step))
           ELSE UNCHANGED <<row, used, signIns>>
    /\ UNCHANGED <<passkeys, now, secrets, lists, changes, enrolment, confirmed, shown, overlapped>>

\* use_recovery_code(): the list is compared with the one that was read.
PresentRecovery(r, code) ==
    /\ code \in row.recovery
    /\ Starts(r, [at |-> "recovery", code |-> code, before |-> row.recovery])
    /\ UNCHANGED <<row, passkeys, now, secrets, lists, changes, used, signIns, enrolment,
                   confirmed, shown, overlapped>>

SpendRecovery(r) ==
    /\ running[r].at = "recovery" /\ Ends(r)
    /\ LET call == running[r]
       IN  IF row.exists /\ row.recovery = call.before
           THEN row' = [row EXCEPT !.recovery = @ \ {call.code}] /\ Finishes(call.code)
           ELSE UNCHANGED <<row, used, signIns>>
    /\ UNCHANGED <<passkeys, now, secrets, lists, changes, enrolment, confirmed, shown, overlapped>>

----------------------------------------------------------------------------
(* Changing the factors. *)

CountChange ==
    /\ changes < MaxChanges /\ changes' = changes + 1
    /\ overlapped' = (overlapped \/ Changing # {})

StartsChange(r, call) ==
    /\ Starts(r, call) /\ CountChange
    /\ UNCHANGED <<row, now, secrets, lists, used, signIns, enrolment, confirmed, shown>>

\* totp_setup(), once the password is confirmed.
Setup(r) == ~row.enabled /\ StartsChange(r, [at |-> "setup"]) /\ UNCHANGED passkeys

\* upsert(): the row is made if there is none.
StoreSecret(r) ==
    /\ running[r].at = "setup" /\ Ends(r)
    /\ secrets' = secrets + 1
    /\ row' = [row EXCEPT !.exists = TRUE, !.secret = secrets', !.enabled = FALSE]
    /\ UNCHANGED <<passkeys, now, lists, changes, used, signIns, enrolment, confirmed, shown,
                   overlapped>>

\* Mutant of Matches: the code is one of any secret shown.
MatchesAny(secret, step) == secret \in 1 .. secrets /\ step \in Window

Matches(secret, step) == secret = row.secret /\ step \in Window

\* totp_enable(), with a first code.
Enable(r, secret, step) ==
    /\ ~row.enabled /\ row.secret # 0 /\ Matches(secret, step)
    /\ StartsChange(r, [at |-> "enable", secret |-> secret, step |-> step]) /\ UNCHANGED passkeys

\* A new list of recovery codes, which is shown.
Fresh == Codes(lists + 1)
MakesList == lists' = lists + 1 /\ shown' = Fresh

StoreEnabled(r) ==
    /\ running[r].at = "enable" /\ Ends(r) /\ MakesList
    /\ row' = [row EXCEPT !.exists = TRUE, !.enabled = TRUE, !.lastStep = running[r].step,
                          !.recovery = Fresh]
    /\ enrolment' = enrolment + 1
    /\ confirmed' = running[r].secret
    /\ UNCHANGED <<passkeys, now, secrets, changes, used, signIns, overlapped>>

\* Mutant of MayDisable: a required factor can be turned off.
MayDisableAlways == TRUE

MayDisable == required => passkeys # {}

\* The route checks what the role requires, then totp_disable() reads the passkeys.
Disable(r) == MayDisable /\ StartsChange(r, [at |-> "disable"]) /\ UNCHANGED passkeys

ReadPasskeys(r) ==
    /\ running[r].at = "disable"
    /\ running' = [running EXCEPT ![r] = [at |-> "disabling", keeps |-> passkeys # {}]]
    /\ UNCHANGED <<row, passkeys, now, secrets, lists, changes, used, signIns, enrolment,
                   confirmed, shown, overlapped>>

StoreDisabled(r) ==
    /\ running[r].at = "disabling" /\ Ends(r)
    /\ row' = [exists |-> TRUE, secret |-> 0, enabled |-> FALSE, lastStep |-> 0,
               recovery |-> IF running[r].keeps THEN row.recovery ELSE {}]
    /\ enrolment' = enrolment + 1
    /\ UNCHANGED <<passkeys, now, secrets, lists, changes, used, signIns, confirmed, shown,
                   overlapped>>

\* regenerate_recovery_codes()
Regenerate(r) == HasFactor /\ StartsChange(r, [at |-> "codes"]) /\ UNCHANGED passkeys

\* add_passkey(): the first factor comes with recovery codes.
AddPasskey(r, k) ==
    /\ k \notin passkeys /\ passkeys' = passkeys \union {k}
    /\ StartsChange(r, [at |-> "passkey"])

\* ensure_recovery_codes()
ReadCodes(r) ==
    /\ running[r].at = "passkey"
    /\ running' = [running EXCEPT ![r] = IF row.recovery # {} THEN NotRunning ELSE [at |-> "codes"]]
    /\ UNCHANGED <<row, passkeys, now, secrets, lists, changes, used, signIns, enrolment,
                   confirmed, shown, overlapped>>

StoreCodes(r) ==
    /\ running[r].at = "codes" /\ Ends(r) /\ MakesList
    /\ row' = [row EXCEPT !.exists = TRUE, !.recovery = Fresh]
    /\ UNCHANGED <<passkeys, now, secrets, changes, used, signIns, enrolment, confirmed, overlapped>>

\* The route refuses to remove the last factor of a role that requires one.
RemovePasskey(r, k) ==
    /\ k \in passkeys
    /\ required /\ ~row.enabled => Cardinality(passkeys) # 1
    /\ StartsChange(r, [at |-> "remove", key |-> k]) /\ UNCHANGED passkeys

DeletePasskey(r) ==
    /\ running[r].at = "remove" /\ Ends(r)
    /\ passkeys' = passkeys \ {running[r].key}
    /\ UNCHANGED <<row, now, secrets, lists, changes, used, signIns, enrolment, confirmed, shown,
                   overlapped>>

\* reset_two_factor(): another admin removes every factor, in one transaction.
Reset ==
    /\ CountChange
    /\ row' = NoRow /\ passkeys' = {} /\ enrolment' = enrolment + 1
    /\ UNCHANGED <<running, now, secrets, lists, used, signIns, confirmed, shown>>

Tick ==
    /\ now < MaxStep /\ now' = now + 1
    /\ UNCHANGED <<row, passkeys, running, secrets, lists, changes, used, signIns, enrolment,
                   confirmed, shown, overlapped>>

SignsIn(r) ==
    \/ \E step \in Window : PresentCode(r, step)
    \/ \E code \in row.recovery : PresentRecovery(r, code)
    \/ SpendCode(r) \/ SpendRecovery(r)

Changes(r) ==
    \/ Setup(r) \/ StoreSecret(r) \/ StoreEnabled(r)
    \/ \E secret \in 1 .. secrets, step \in Window : Enable(r, secret, step)
    \/ Disable(r) \/ ReadPasskeys(r) \/ StoreDisabled(r)
    \/ Regenerate(r) \/ ReadCodes(r) \/ StoreCodes(r)
    \/ \E k \in Passkeys : AddPasskey(r, k) \/ RemovePasskey(r, k)
    \/ DeletePasskey(r)

\* What the admin's roles require stays as it is.
FactorsNext ==
    /\ Tick \/ Reset \/ \E r \in FactorRequests : SignsIn(r) \/ Changes(r)
    /\ UNCHANGED required

FactorsSpec == FactorsInit /\ [][FactorsNext]_factorVars

----------------------------------------------------------------------------
(* Properties. *)

RecoveryCodes == [list: Nat, at: 1 .. ListLength]
TotpCodes     == [enrolment: Nat, step: Int]

Calls ==
         [at: {"idle", "setup", "disable", "passkey", "codes"}]
  \union [at: {"totp"}, step: Int]
  \union [at: {"recovery"}, code: RecoveryCodes, before: SUBSET RecoveryCodes]
  \union [at: {"enable"}, secret: Nat, step: Int]
  \union [at: {"disabling"}, keeps: BOOLEAN]
  \union [at: {"remove"}, key: Passkeys]

Row == [exists: BOOLEAN, secret: Nat, enabled: BOOLEAN, lastStep: Int,
        recovery: SUBSET RecoveryCodes]

\* The tables, requests and counters have the shapes the code gives them.
FactorsTypeOK ==
    /\ required \in BOOLEAN /\ overlapped \in BOOLEAN
    /\ row \in Row /\ passkeys \subseteq Passkeys
    /\ running \in [FactorRequests -> Calls]
    /\ now \in Nat /\ secrets \in Nat /\ lists \in Nat /\ changes \in Nat
    /\ signIns \in Nat /\ enrolment \in Nat /\ confirmed \in Nat
    /\ used \subseteq TotpCodes \union RecoveryCodes /\ shown \subseteq RecoveryCodes

\* However many sign-ins race for it, a recovery code, and a code of the app as long as TOTP
\* is not turned on or off, finishes one of them: there are as many codes used as sign-ins.
OneSignInPerCode == IsFiniteSet(used) /\ Cardinality(used) = signIns

\* Unless changes overlapped: the app that is asked for codes has shown one of the secret
\* that is stored, and while there is a factor, the recovery codes that work are those the
\* admin was shown last, but for the used ones, whatever was added, removed and replaced.
FactorsWork ==
    ~overlapped =>
        /\ row.enabled => row.secret = confirmed
        /\ HasFactor /\ Changing = {} => row.recovery = shown \ used

\* Unless changes overlapped, the last factor of an admin whose role requires one stays,
\* until another admin resets it.
LastFactorStays ==
    [][required /\ HasFactor /\ ~HasFactor' => overlapped' \/ Reset]_factorVars
=============================================================================
