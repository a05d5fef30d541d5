------------------------------ MODULE Identity ------------------------------
(***************************************************************************)
(* Signing in, the second factor, sessions and passwords of one account:   *)
(* modules/identity.  Most handlers here run outside a transaction: each   *)
(* statement commits by itself, and what a handler read at its start (the  *)
(* AuthContext of its session, the factor) may be old when it writes.      *)
(* Passwords, codes and tokens are abstracted to whether they are right.   *)
(***************************************************************************)
EXTENDS Integers, FiniteSets

CONSTANTS Handler,  \* requests being handled
          Session,  \* ids of user_sessions rows
          Link,     \* ids of password_reset_tokens rows
          None,
          LockoutThreshold, \* wrong passwords that lock an account (5)
          MaxMfaAttempts,   \* wrong codes that end a session (5)
          CodeCount,        \* recovery codes of one enrollment (10)
          MaxStep,          \* bound: 30 s time steps that pass
          MaxSecrets,       \* bound: TOTP secrets made
          MaxEnrollments,   \* bound: times the second factor is switched on
          MaxFailures       \* bound: wrong passwords

VARIABLES account,  \* user_accounts: status, failed, locked, mfaEnforced
          session,  \* user_sessions
          factor,   \* user_totp_factors: at most one row
          code,     \* user_recovery_codes, not used yet
          link,     \* password_reset_tokens
          clock,    \* the current time step
          job,      \* what each handler has read and has left to do
          expired,  \* ghost: times the lock ran out since the count was last cleared
          made,     \* ghost: TOTP secrets made
          enrolled, \* ghost: times the factor was confirmed
          spent,    \* ghost: times each secret was accepted
          exempt,   \* ghost: TOTP codes that a switch-off or a second
                    \* confirmation made usable again
          astray,   \* ghost: enrollments confirmed while the factor was being
                    \* switched off
          beside    \* ghost: pairs of links asked for at the same time

vars == <<account, session, factor, code, link, clock, job,
          expired, made, enrolled, spent, exempt, astray, beside>>
ghosts == <<expired, made, enrolled, spent, exempt, astray, beside>>

NoFactor == [present |-> FALSE, secret |-> 0, confirmed |-> FALSE, lastStep |-> -1]
NoSession == [state |-> "none", verified |-> FALSE, failures |-> 0]
Idle == [at |-> "idle"]

AccountRow == [status : {"active", "disabled"}, failed : Nat, locked : BOOLEAN,
               mfaEnforced : BOOLEAN]
SessionRow == [state : {"none", "open", "over"}, verified : BOOLEAN,
               failures : Nat]
FactorRow  == [present : BOOLEAN, secret : Nat, confirmed : BOOLEAN,
               lastStep : Nat \cup {-1}]
LinkRow    == {"none", "open", "used", "expired"}

(* What can be used once: the code of a TOTP secret for a time step, a      *)
(* recovery code, a reset link.                                            *)
Secret == {<<"step", g, t>> : g \in 1..MaxSecrets, t \in 0..MaxStep + 1}
          \cup {<<"code", e, n>> : e \in 1..MaxEnrollments, n \in 1..CodeCount}
          \cup {<<"link", l>> : l \in Link}

Init ==
    /\ \E enforced \in BOOLEAN :
           account = [status |-> "active", failed |-> 0, locked |-> FALSE,
                      mfaEnforced |-> enforced]
    /\ session = [s \in Session |-> NoSession]
    /\ factor = NoFactor
    /\ code = {}
    /\ link = [l \in Link |-> "none"]
    /\ clock = 0
    /\ job = [h \in Handler |-> Idle]
    /\ expired = 0 /\ made = 0 /\ enrolled = 0
    /\ spent = [x \in Secret |-> 0] /\ exempt = {} /\ astray = {} /\ beside = {}

-----------------------------------------------------------------------------
Start(h, work) == job[h] = Idle /\ job' = [job EXCEPT ![h] = work]
Finish(h)      == job' = [job EXCEPT ![h] = Idle]
Accept(x)      == spent' = [spent EXCEPT ![x] = @ + 1]
CodeOf(h)      == <<"step", job[h].secret, job[h].step>>

(* sessions.authenticate: the session is live and its account active.      *)
Live(s) == session[s].state = "open" /\ account.status = "active"

(* nextStepFor: what a session must do before other routes let it in.      *)
NextStep(s) ==
    IF session[s].verified THEN "none"
    ELSE IF factor.confirmed THEN "mfa"
    ELSE IF account.mfaEnforced THEN "mfa_enrollment" ELSE "none"

(* totp.verify: the step a code belongs to, one either side of now, later  *)
(* than the last one used.                                                 *)
ValidSteps(after) == {t \in 0..MaxStep + 1 : t \in clock - 1 .. clock + 1 /\ t > after}

-----------------------------------------------------------------------------
(* auth.login                                                              *)

ReadAccount(h, right) ==
    /\ account.status = "active" /\ ~ account.locked
    /\ right \/ account.failed < MaxFailures
    /\ Start(h, [at |-> IF right THEN "signing in" ELSE "refusing"])
    /\ UNCHANGED <<account, session, factor, code, link, clock, ghosts>>

(* registerFailure: one UPDATE counts and locks. *)
CountFailure(h) ==
    /\ job[h].at = "refusing"
    /\ account' = [account EXCEPT !.failed = @ + 1,
                                  !.locked = @ \/ account.failed + 1 >= LockoutThreshold]
    /\ Finish(h)
    /\ UNCHANGED <<session, factor, code, link, clock, ghosts>>

(* The count starts again; then the session row. *)
ClearFailures(h) ==
    /\ job[h].at = "signing in"
    /\ account' = [account EXCEPT !.failed = 0, !.locked = FALSE]
    /\ expired' = 0
    /\ job' = [job EXCEPT ![h] = [at |-> "opening"]]
    /\ UNCHANGED <<session, factor, code, link, clock, made, enrolled, spent, exempt, astray, beside>>

OpenSession(h) ==
    /\ job[h].at = "opening"
    /\ \E s \in Session : /\ session[s].state = "none"
                          /\ session' = [session EXCEPT ![s].state = "open"]
    /\ Finish(h)
    /\ UNCHANGED <<account, factor, code, link, clock, ghosts>>

-----------------------------------------------------------------------------
(* The second factor.                                                      *)

Doing(h, steps) == job[h].at \in steps
SwitchingOn  == {"enabling", "replacing"}
SwitchingOff == {"removing", "deleting"}

(* The lock on the factor's row that a confirmation holds until it commits. *)
RowIsFree == \A k \in Handler : Doing(k, {"replacing"}) => job[k].gone

(* mfa.setup: a new secret in the same row, unless the factor is confirmed. *)
Setup(s) ==
    /\ Live(s) /\ ~ factor.confirmed /\ RowIsFree
    /\ made < MaxSecrets
    /\ made' = made + 1
    /\ factor' = [present |-> TRUE, secret |-> made', confirmed |-> FALSE, lastStep |-> -1]
    /\ UNCHANGED <<account, session, code, link, clock, job, expired, enrolled, spent, exempt, astray, beside>>

(* mfa.confirm and mfa.verify read the factor and check the code against    *)
(* the secret in it...                                                      *)
CheckEnrollment(h, s, t) ==
    /\ Live(s)
    /\ factor.present /\ ~ factor.confirmed
    /\ enrolled < MaxEnrollments
    /\ t \in ValidSteps(-1)
    /\ Start(h, [at |-> "enabling", session |-> s, secret |-> factor.secret, step |-> t,
                 gone |-> FALSE, crossed |-> \E k \in Handler : Doing(k, SwitchingOff)])
    /\ UNCHANGED <<account, session, factor, code, link, clock, ghosts>>

CheckCode(h, s, t) ==
    /\ Live(s) /\ factor.confirmed
    /\ t \in ValidSteps(factor.lastStep)
    /\ Start(h, [at |-> "claiming", session |-> s, secret |-> factor.secret, step |-> t])
    /\ UNCHANGED <<account, session, factor, code, link, clock, ghosts>>

WrongCode(h, s) ==
    /\ Live(s) /\ factor.present
    /\ session[s].failures < MaxMfaAttempts
    /\ Start(h, [at |-> "counting", session |-> s])
    /\ UNCHANGED <<account, session, factor, code, link, clock, ghosts>>

(* rotate: a new token for the same session, its failures forgotten. *)
Rotated(s, verified) ==
    [session EXCEPT ![s].failures = 0, ![s].verified = @ \/ verified]

(* ...enable, a transaction: an UPDATE of the row the code was checked      *)
(* against, which waits for another confirmation of it and finds none when  *)
(* the row was deleted since; a DELETE of the codes it sees...              *)
ReplaceCodes(h) ==
    /\ job[h].at = "enabling"
    /\ job[h].gone \/ RowIsFree
    /\ job' = [job EXCEPT ![h] = [at |-> "replacing", session |-> @.session, secret |-> @.secret,
                                  step |-> @.step, gone |-> @.gone, crossed |-> @.crossed,
                                  codes |-> code]]
    /\ UNCHANGED <<account, session, factor, code, link, clock, ghosts>>

(* What a confirmation that comes late makes usable again: its own code,    *)
(* which the one before it may have had too, and what was used since for    *)
(* later steps than its own, to which it sets the last one back.            *)
Reopened(h) ==
    (IF job[h].gone \/ factor.confirmed THEN {CodeOf(h)} ELSE {})
    \cup {<<"step", factor.secret, t>> :
             t \in IF ~ job[h].gone /\ factor.confirmed
                   THEN job[h].step + 1 .. factor.lastStep ELSE {}}

(* ...then new codes and a new token, and all of it is committed.           *)
Enable(h) ==
    /\ job[h].at = "replacing"
    /\ enrolled < MaxEnrollments
    /\ enrolled' = enrolled + 1
    /\ factor' = IF job[h].gone THEN factor
                 ELSE [factor EXCEPT !.confirmed = TRUE, !.lastStep = job[h].step]
    /\ Accept(CodeOf(h))
    /\ exempt' = exempt \cup Reopened(h)
    /\ code' = (code \ job[h].codes) \cup {<<"code", enrolled + 1, n>> : n \in 1..CodeCount}
    /\ astray' = IF job[h].crossed THEN astray \cup {enrolled + 1} ELSE astray
    /\ session' = Rotated(job[h].session, TRUE)
    /\ Finish(h)
    /\ UNCHANGED <<account, link, clock, expired, made, beside>>

(* Mutant: the step checked when it was read is taken as good. *)
ClaimUnchecked(h) ==
    /\ job[h].at = "claiming"
    /\ factor' = [factor EXCEPT !.lastStep = job[h].step]
    /\ Accept(CodeOf(h))
    /\ job' = [job EXCEPT ![h] = [at |-> "rotating", session |-> @.session]]
    /\ UNCHANGED <<account, session, code, link, clock, expired, made, enrolled, exempt, astray, beside>>

(* ...claimTimeStep: one conditional UPDATE; too late counts as wrong. *)
ClaimTimeStep(h) ==
    /\ job[h].at = "claiming" /\ RowIsFree
    /\ IF factor.present /\ factor.lastStep < job[h].step
       THEN /\ factor' = [factor EXCEPT !.lastStep = job[h].step]
            /\ Accept(CodeOf(h))
            /\ job' = [job EXCEPT ![h] = [at |-> "rotating", session |-> @.session]]
       ELSE /\ job' = [job EXCEPT ![h] = [at |-> "counting", session |-> @.session]]
            /\ UNCHANGED <<factor, spent>>
    /\ UNCHANGED <<account, session, code, link, clock, expired, made, enrolled, exempt, astray, beside>>

(* consumeRecoveryCode: one conditional UPDATE. *)
ConsumeRecoveryCode(h, s, x) ==
    /\ Live(s) /\ factor.confirmed
    /\ x \in code
    /\ code' = code \ {x}
    /\ Accept(x)
    /\ Start(h, [at |-> "rotating", session |-> s])
    /\ UNCHANGED <<account, session, factor, link, clock, expired, made, enrolled, exempt, astray, beside>>

Rotate(h) ==
    /\ job[h].at = "rotating"
    /\ session' = Rotated(job[h].session, TRUE)
    /\ Finish(h)
    /\ UNCHANGED <<account, factor, code, link, clock, ghosts>>

(* mfa.fail: count the wrong code, and end the session after too many. *)
RecordMfaFailure(h) ==
    /\ job[h].at = "counting"
    /\ session' = [session EXCEPT ![job[h].session].failures = @ + 1]
    /\ job' = [job EXCEPT ![h] =
                  IF session[@.session].failures + 1 >= MaxMfaAttempts
                  THEN [at |-> "ending", session |-> @.session] ELSE Idle]
    /\ UNCHANGED <<account, factor, code, link, clock, ghosts>>

Revoked(gone) ==
    [s \in Session |-> IF s \in gone /\ session[s].state = "open"
                       THEN [session[s] EXCEPT !.state = "over"] ELSE session[s]]

EndSession(h) ==
    /\ job[h].at = "ending"
    /\ session' = Revoked({job[h].session})
    /\ Finish(h)
    /\ UNCHANGED <<account, factor, code, link, clock, ghosts>>

(* mfa.disable, with a right password and code, whose step it does not claim... *)
CheckDisable(h, s, t) ==
    /\ Live(s) /\ NextStep(s) = "none"
    /\ ~ account.mfaEnforced
    /\ factor.confirmed
    /\ t \in ValidSteps(factor.lastStep)
    /\ job[h] = Idle
    /\ job' = [k \in Handler |->
                  IF k = h THEN [at |-> "removing", secret |-> factor.secret, step |-> t]
                  ELSE IF Doing(k, SwitchingOn) THEN [job[k] EXCEPT !.crossed = TRUE]
                  ELSE job[k]]
    /\ UNCHANGED <<account, session, factor, code, link, clock, ghosts>>

(* ...removeFactor, a transaction: a DELETE of the codes it sees...         *)
DeleteCodes(h) ==
    /\ job[h].at = "removing"
    /\ job' = [job EXCEPT ![h] = [at |-> "deleting", secret |-> @.secret, step |-> @.step,
                                  codes |-> code]]
    /\ UNCHANGED <<account, session, factor, code, link, clock, ghosts>>

(* ...and of whatever factor there is by now.  Confirmations under way      *)
(* name a row that is gone; a step under way to be claimed names only the   *)
(* user, and can be claimed of the next factor, as its own code can.        *)
RemoveFactor(h) ==
    /\ job[h].at = "deleting" /\ RowIsFree
    /\ code' = code \ job[h].codes
    /\ factor' = NoFactor
    /\ Accept(CodeOf(h))
    /\ exempt' = exempt \cup {CodeOf(k) : k \in {k \in Handler : k = h \/ Doing(k, {"claiming"})}}
    /\ job' = [k \in Handler |->
                  IF k = h THEN Idle
                  ELSE IF Doing(k, SwitchingOn) THEN [job[k] EXCEPT !.gone = TRUE]
                  ELSE job[k]]
    /\ UNCHANGED <<account, session, link, clock, expired, made, enrolled, astray, beside>>

(* accounts.enforceMfa: the account was given a role that demands it.       *)
EnforceMfa ==
    /\ ~ account.mfaEnforced
    /\ account' = [account EXCEPT !.mfaEnforced = TRUE]
    /\ UNCHANGED <<session, factor, code, link, clock, job, ghosts>>

-----------------------------------------------------------------------------
(* Passwords and the end of sessions.                                      *)

(* password.requestReset, a transaction: an UPDATE retires the unused links *)
(* it sees...                                                               *)
Unused == {l \in Link : link[l] \in {"open", "expired"}}
Asked  == {job[k].link : k \in {h \in Handler : Doing(h, {"asking"})}}

RetireLinks(h, l) ==
    /\ account.status = "active"
    /\ link[l] = "none" /\ l \notin Asked
    /\ Start(h, [at |-> "asking", link |-> l, retired |-> Unused])
    /\ beside' = {p \in beside : l \notin {p[1], p[2]}}
                     \cup UNION {{<<k, l>>, <<l, k>>} : k \in Asked}
    /\ UNCHANGED <<account, session, factor, code, link, clock, expired, made, enrolled, spent, exempt, astray>>

(* ...then the new link is inserted, and both are committed.                *)
SendLink(h) ==
    /\ job[h].at = "asking"
    /\ link' = [k \in Link |-> IF k = job[h].link THEN "open"
                               ELSE IF k \in job[h].retired THEN "used" ELSE link[k]]
    /\ Finish(h)
    /\ UNCHANGED <<account, session, factor, code, clock, ghosts>>

FindLink(h, l) ==
    /\ link[l] = "open" /\ account.status = "active"
    /\ Start(h, [at |-> "resetting", link |-> l])
    /\ UNCHANGED <<account, session, factor, code, link, clock, ghosts>>

(* applyReset claims the link first; a link claimed meanwhile refuses it.  *)
ApplyReset(h) ==
    /\ job[h].at = "resetting"
    /\ IF link[job[h].link] \in {"open", "expired"}
       THEN /\ link' = [link EXCEPT ![job[h].link] = "used"]
            /\ account' = [account EXCEPT !.failed = 0, !.locked = FALSE]
            /\ session' = Revoked(Session)
            /\ Accept(<<"link", job[h].link>>)
            /\ expired' = 0
       ELSE UNCHANGED <<account, session, link, expired, spent>>
    /\ Finish(h)
    /\ UNCHANGED <<factor, code, clock, made, enrolled, exempt, astray, beside>>

(* password.changePassword: the others end, this one goes on. *)
ChangePassword(s) ==
    /\ Live(s) /\ NextStep(s) = "none"
    /\ session' = [Revoked(Session \ {s}) EXCEPT ![s].failures = 0]
    /\ UNCHANGED <<account, factor, code, link, clock, job, ghosts>>

(* auth.logout; sessions.revokeOwn. *)
Logout(s)       == /\ Live(s)
                   /\ session' = Revoked({s})
                   /\ UNCHANGED <<account, factor, code, link, clock, job, ghosts>>
RevokeOwn(s, t) == /\ Live(s) /\ NextStep(s) = "none" /\ session[t].state = "open"
                   /\ session' = Revoked({t})
                   /\ UNCHANGED <<account, factor, code, link, clock, job, ghosts>>

(* users.disable and enable (modules/access). *)
SetStatus(status) ==
    /\ account.status # status
    /\ account' = [account EXCEPT !.status = status]
    /\ session' = IF status = "disabled" THEN Revoked(Session) ELSE session
    /\ UNCHANGED <<factor, code, link, clock, job, ghosts>>

(* Time: a step of the clock, the idle timeout of a session, the 30        *)
(* minutes of a link, the end of a lock.                                   *)
TimePasses ==
    \/ /\ clock < MaxStep /\ clock' = clock + 1
       /\ UNCHANGED <<account, session, link, expired>>
    \/ /\ account.locked /\ account' = [account EXCEPT !.locked = FALSE]
       /\ expired' = expired + 1
       /\ UNCHANGED <<clock, session, link>>
    \/ /\ \E l \in Link : link[l] = "open" /\ link' = [link EXCEPT ![l] = "expired"]
       /\ UNCHANGED <<account, clock, session, expired>>
    \/ /\ \E s \in Session : /\ session[s].state = "open"
                             /\ session' = [session EXCEPT ![s].state = "over"]
       /\ UNCHANGED <<account, clock, link, expired>>

Passing == TimePasses /\ UNCHANGED <<factor, code, job, made, enrolled, spent, exempt, astray, beside>>

(* The process dies between two statements. *)
Die(h) == /\ job[h] # Idle
          /\ Finish(h)
          /\ UNCHANGED <<account, session, factor, code, link, clock, ghosts>>

-----------------------------------------------------------------------------
Handling(h) ==
    \/ \E right \in BOOLEAN : ReadAccount(h, right)
    \/ CountFailure(h) \/ ClearFailures(h) \/ OpenSession(h)
    \/ \E s \in Session, t \in 0..MaxStep + 1 :
           CheckEnrollment(h, s, t) \/ CheckCode(h, s, t) \/ CheckDisable(h, s, t)
    \/ \E s \in Session : WrongCode(h, s) \/ \E x \in code : ConsumeRecoveryCode(h, s, x)
    \/ DeleteCodes(h) \/ RemoveFactor(h)
    \/ ReplaceCodes(h) \/ Enable(h) \/ ClaimTimeStep(h) \/ Rotate(h) \/ RecordMfaFailure(h) \/ EndSession(h)
    \/ \E l \in Link : RetireLinks(h, l) \/ FindLink(h, l)
    \/ SendLink(h)
    \/ ApplyReset(h)
    \/ Die(h)

Next ==
    \/ \E h \in Handler : Handling(h)
    \/ \E s \in Session : Setup(s) \/ ChangePassword(s) \/ Logout(s)
    \/ \E s, t \in Session : RevokeOwn(s, t)
    \/ EnforceMfa
    \/ \E status \in {"active", "disabled"} : SetStatus(status)
    \/ Passing

Spec == Init /\ [][Next]_vars

-----------------------------------------------------------------------------
TypeOK ==
    /\ account \in AccountRow /\ factor \in FactorRow
    /\ session \in [Session -> SessionRow] /\ link \in [Link -> LinkRow]
    /\ code \subseteq Secret /\ clock \in 0..MaxStep /\ made \in 0..MaxSecrets

(* A secret works once, however many requests carry it at the same moment: *)
(* a code of a TOTP secret, whether it confirms the factor, signs in or    *)
(* switches the factor off; a recovery code; a reset link ("two concurrent *)
(* resets with the same link can't both succeed", "false if a concurrent   *)
(* request already used this or a later step").  Three kinds of TOTP code  *)
(* are no part of it: one that switched the factor off, which is checked   *)
(* and not claimed; one under way to be claimed at that moment; and what a *)
(* confirmation reopens that comes after another one of the same row, or   *)
(* after the row was deleted.                                              *)
SecretsWorkOnce == \A x \in Secret \ exempt : spent[x] <= 1

(* The lock holds against guesses made at once: between two clearings of   *)
(* the count, the passwords tried are fewer than the threshold, but for    *)
(* one in each request at the first lock and after each lock that ran out  *)
(* ("Atomically count a failure").                                         *)
LockHolds ==
    account.failed + Cardinality({h \in Handler : Doing(h, {"refusing"})})
        <= LockoutThreshold - 1 + (expired + 1) * Cardinality(Handler)

(* The recovery codes in force are those of one enrollment, though two     *)
(* confirmations may run at once, and belong to a confirmed factor.  Only  *)
(* a confirmation that runs while the factor is switched off leaves others *)
(* behind.                                                                 *)
OneSetOfCodes ==
    \A x, y \in {x \in code : x[2] \notin astray} : x[2] = y[2] /\ factor.confirmed

(* Sending a link ends the ones sent before; two links are open together   *)
(* only when they were asked for at the same time.                         *)
NewestLinkWorks ==
    \A k, l \in Link : link[k] = "open" /\ link[l] = "open" => k = l \/ <<k, l>> \in beside

SignInIsExact == SecretsWorkOnce /\ LockHolds /\ OneSetOfCodes /\ NewestLinkWorks
=============================================================================
