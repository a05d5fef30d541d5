--------------------------- MODULE IdentityProofs ---------------------------
(***************************************************************************)
(* Proofs about Identity: for any number of requests, sessions, links and  *)
(* codes, a secret works once, the lock holds against guesses made at      *)
(* once, and the recovery codes and reset links in force are the newest.   *)
(*                                                                         *)
(* A TOTP code is spent once because the factor's last step is never       *)
(* before it; while the factor is not confirmed, none of the codes that    *)
(* could confirm it is spent; and a code under way to be claimed is one of *)
(* the confirmed factor, or exempt (StepsInv).  The lock holds because     *)
(* what is counted and what is under way grow only while it is open, and   *)
(* then no more than all requests are under way (LockInv).                 *)
(* The two transactions that replace codes see a snapshot of them; what is *)
(* in force by the time they commit is in that snapshot, or left behind by *)
(* a confirmation that ran beside a switch-off (Snapshots).  A transaction *)
(* that sends a link likewise retires all it saw, and has been counted as  *)
(* a neighbour by the others (Asking).                                     *)
(***************************************************************************)
EXTENDS Identity, FiniteSetTheorems, TLAPS

(* The bounds are numbers, there is a threshold to every count, and finitely *)
(* many requests are handled at once.                                        *)
Sensible == /\ MaxStep \in Nat /\ MaxSecrets \in Nat /\ MaxEnrollments \in Nat
            /\ CodeCount \in Nat /\ MaxFailures \in Nat
            /\ LockoutThreshold \in Nat \ {0} /\ MaxMfaAttempts \in Nat
            /\ IsFiniteSet(Handler)

-----------------------------------------------------------------------------
(* The inductive invariant. *)
Step   == 0..MaxStep + 1
Issued == 1..MaxSecrets
Number == 1..MaxEnrollments

(* What a request has read. *)
Confirming == [at : {"enabling"}, session : Session, secret : Nat, step : Step,
               gone : BOOLEAN, crossed : BOOLEAN]
Replacing  == [at : {"replacing"}, session : Session, secret : Nat, step : Step,
               gone : BOOLEAN, crossed : BOOLEAN, codes : SUBSET Secret]

Fits(j) ==
    /\ j.at \in {"claiming", "rotating", "counting", "ending"} => j.session \in Session
    /\ j.at \in {"claiming", "removing", "deleting"} => j.secret \in Nat /\ j.step \in Step
    /\ j.at = "enabling" => j \in Confirming
    /\ j.at = "replacing" => j \in Replacing
    /\ j.at \in {"resetting", "asking"} => j.link \in Link
Kinds == /\ job = [h \in Handler |-> job[h]]
         /\ \A h \in Handler : Fits(job[h])

Ghosts == /\ expired \in Nat
          /\ enrolled \in 0..MaxEnrollments
          /\ spent \in [Secret -> Nat]
          /\ \A x \in code : x[1] = "code" /\ x[2] <= enrolled

(* A code that was accepted is not after the last step of its secret.       *)
Exempt(g, t) == <<"step", g, t>> \in exempt
Unspent(g)   == \A t \in Step : Exempt(g, t) \/ spent[<<"step", g, t>>] = 0
StepsSpent == \A g \in Issued, t \in Step :
    \/ Exempt(g, t)
    \/ spent[<<"step", g, t>>] = 0
    \/ spent[<<"step", g, t>>] = 1 /\ (g = factor.secret => t <= factor.lastStep)
Unmade == \A g \in Issued, t \in Step : g > made => spent[<<"step", g, t>>] = 0

(* What a request has checked is of a secret that was made; what could      *)
(* confirm the factor is unspent, and what could be claimed is of the       *)
(* confirmed factor, unless it is exempt.                                   *)
Coding == {"claiming"} \cup SwitchingOn \cup SwitchingOff
Known ==
    /\ \A h \in Handler : Doing(h, Coding) => job[h].secret \in 1..made
    /\ factor.confirmed => factor.present
    /\ factor.present => factor.secret \in 1..made
Unconfirmed == ~ factor.confirmed =>
    /\ factor.present => Unspent(factor.secret)
    /\ \A h \in Handler : Doing(h, SwitchingOn) /\ ~ job[h].gone => Unspent(job[h].secret)
Claims == \A h \in Handler : Doing(h, {"claiming"}) =>
    \/ Exempt(job[h].secret, job[h].step)
    \/ factor.confirmed /\ job[h].secret = factor.secret

(* Which other secrets have been accepted can be seen in the tables. *)
CodesSpent == \A e \in Number, n \in 1..CodeCount :
    /\ spent[<<"code", e, n>>] <= 1
    /\ e > enrolled \/ <<"code", e, n>> \in code => spent[<<"code", e, n>>] = 0
LinksSpent == \A l \in Link :
    /\ spent[<<"link", l>>] <= 1
    /\ link[l] # "used" => spent[<<"link", l>>] = 0

(* Confirmations: the row they name is there or they know it is gone, one   *)
(* of them holds it, and those beside a switch-off are marked.              *)
Confirmations ==
    /\ \A h \in Handler : Doing(h, SwitchingOn) =>
           IF job[h].gone THEN job[h].crossed ELSE factor.present
    /\ \A h, k \in Handler : Doing(h, SwitchingOn) /\ Doing(k, SwitchingOff) => job[h].crossed
OneHolder == \A h, k \in Handler :
    /\ Doing(h, {"replacing"}) /\ ~ job[h].gone
    /\ Doing(k, {"replacing"}) /\ ~ job[k].gone
    => h = k
Recent(x) == x \in code /\ x[2] \notin astray
Snapshots == \A h \in Handler :
    \/ Doing(h, {"replacing"}) /\ ~ job[h].crossed
    \/ Doing(h, {"deleting"})
    => \A x \in Secret : Recent(x) => x \in job[h].codes

(* Requests for a link: each has its own, and has seen every link that is   *)
(* not its neighbour.                                                       *)
Neighbours(k, l) == <<k, l>> \in beside /\ <<l, k>> \in beside
Asking ==
    /\ \A h \in Handler : Doing(h, {"asking"}) =>
           /\ link[job[h].link] = "none"
           /\ \A l \in Link :
                  /\ l \in Unused => l \in job[h].retired \/ Neighbours(l, job[h].link)
                  /\ l \in job[h].retired => link[l] # "none"
    /\ \A h, k \in Handler : Doing(h, {"asking"}) /\ Doing(k, {"asking"}) /\ h # k =>
           job[h].link # job[k].link /\ Neighbours(job[h].link, job[k].link)
Neighbourly == \A k, l \in Link : link[k] = "open" /\ link[l] = "open" =>
    k = l \/ Neighbours(k, l)

(* While there is no lock, fewer are counted than would make one. *)
Refusing == {h \in Handler : Doing(h, {"refusing"})}
Unlocked == ~ account.locked =>
    account.failed <= LockoutThreshold - 1 + expired * Cardinality(Handler)

StepsInv   == StepsSpent /\ Unmade /\ Known /\ Unconfirmed /\ Claims
LockInv    == LockHolds /\ Unlocked
SecretsInv == CodesSpent /\ LinksSpent
CodesInv   == Confirmations /\ OneHolder /\ Snapshots /\ OneSetOfCodes
LinksInv   == Asking /\ Neighbourly
IdentityInv == /\ TypeOK /\ Kinds /\ Ghosts
               /\ StepsInv /\ LockInv /\ SecretsInv /\ CodesInv /\ LinksInv

-----------------------------------------------------------------------------
(* Steps. *)

(* A request's steps that only account, session and its own work feel. *)
Calm(h) ==
    \/ \E right \in BOOLEAN : ReadAccount(h, right)
    \/ CountFailure(h) \/ ClearFailures(h) \/ OpenSession(h)
    \/ \E s \in Session : WrongCode(h, s)
    \/ Rotate(h) \/ RecordMfaFailure(h) \/ EndSession(h)
    \/ \E l \in Link : FindLink(h, l)
    \/ Die(h)
(* The steps that use a secret. *)
Using(h) ==
    \/ ClaimTimeStep(h) \/ ApplyReset(h)
    \/ \E s \in Session : \E x \in code : ConsumeRecoveryCode(h, s, x)
(* The steps of the transactions. *)
Switching(h) ==
    \/ \E s \in Session, t \in Step :
           CheckEnrollment(h, s, t) \/ CheckCode(h, s, t) \/ CheckDisable(h, s, t)
    \/ ReplaceCodes(h) \/ Enable(h) \/ DeleteCodes(h) \/ RemoveFactor(h)
Linking(h) == SendLink(h) \/ \E l \in Link : RetireLinks(h, l)
(* What happens at once. *)
Direct ==
    \/ \E s \in Session : ChangePassword(s) \/ Logout(s) \/ \E t \in Session : RevokeOwn(s, t)
    \/ \E status \in {"active", "disabled"} : SetStatus(status)
    \/ EnforceMfa \/ Passing \/ UNCHANGED vars

LEMMA Steps ==
    ASSUME [Next]_vars
    PROVE  \/ Direct \/ \E s \in Session : Setup(s)
           \/ \E h \in Handler : Calm(h) \/ Using(h) \/ Switching(h) \/ Linking(h)
<1>1. ASSUME NEW h \in Handler, Handling(h)
      PROVE  Calm(h) \/ Using(h) \/ Switching(h) \/ Linking(h)
    BY <1>1 DEF Handling, Calm, Using, Switching, Linking, Step
<1> QED
    BY <1>1 DEF Next, Direct

LEMMA StateKind ==
    ASSUME TypeOK
    PROVE  /\ account \in AccountRow /\ factor \in FactorRow
           /\ session \in [Session -> SessionRow] /\ link \in [Link -> LinkRow]
           /\ code \in SUBSET Secret /\ clock \in 0..MaxStep /\ made \in 0..MaxSecrets
BY DEF TypeOK

(* One request goes on to something else. *)
LEMMA Becoming ==
    ASSUME Kinds, NEW h \in Handler, NEW new, job' = [job EXCEPT ![h] = new], Fits(new)
    PROVE  Kinds' /\ job'[h] = new /\ \A k \in Handler \ {h} : job'[k] = job[k]
<1>1. job' = [k \in Handler |-> IF k = h THEN new ELSE job[k]]
    BY DEF Kinds
<1> QED
    BY <1>1 DEF Kinds

(* The secrets, told apart. *)
LEMMA SecretKinds ==
    ASSUME TRUE
    PROVE  /\ \A g \in Issued, t \in Step : <<"step", g, t>> \in Secret /\ <<"step", g, t>>[1] = "step"
           /\ \A e \in Number, n \in 1..CodeCount :
                  /\ <<"code", e, n>> \in Secret
                  /\ <<"code", e, n>>[1] = "code" /\ <<"code", e, n>>[2] = e
           /\ \A l \in Link : <<"link", l>> \in Secret /\ <<"link", l>>[1] = "link"
           /\ \A x \in Secret :
                  \/ x[1] = "step" /\ \E g \in Issued, t \in Step : x = <<"step", g, t>>
                  \/ x[1] = "code" /\ \E e \in Number, n \in 1..CodeCount : x = <<"code", e, n>>
                  \/ x[1] = "link" /\ \E l \in Link : x = <<"link", l>>
BY DEF Secret, Step, Issued, Number

(* What the count of accepted secrets becomes. *)
LEMMA Accepting ==
    ASSUME Ghosts, NEW x, Accept(x)
    PROVE  /\ spent' \in [Secret -> Nat] /\ (x \in Secret => spent'[x] = spent[x] + 1)
           /\ \A y \in Secret \ {x} : spent'[y] = spent[y]
<1>1. spent \in [Secret -> Nat] /\ spent' = [spent EXCEPT ![x] = spent[x] + 1]
    BY DEF Ghosts, Accept
<1>2. spent' = [y \in Secret |-> IF y = x THEN spent[x] + 1 ELSE spent[y]]
    BY <1>1
<1>3. \A y \in Secret : spent'[y] = (IF y = x THEN spent[x] + 1 ELSE spent[y]) /\ spent[y] \in Nat
    BY <1>1, <1>2
<1>4. \A y \in Secret : spent'[y] \in Nat
    BY <1>3
<1>5. spent' \in [Secret -> Nat]
    BY <1>2, <1>4
<1> QED
    BY <1>3, <1>5

-----------------------------------------------------------------------------
(* Types, and what the steps leave alone. *)
Watched == {"claiming", "enabling", "replacing", "removing", "deleting", "asking"}
Untouched == UNCHANGED <<factor, code, made, enrolled, spent, exempt, astray, beside>>
Starts(steps) == \E k \in Handler : job'[k] # job[k] /\ job'[k].at \in steps
Basics == TypeOK /\ Kinds /\ Ghosts

LEMMA RotatedKind ==
    ASSUME TypeOK, NEW s \in Session, NEW verified \in BOOLEAN
    PROVE  Rotated(s, verified) \in [Session -> SessionRow]
BY StateKind DEF Rotated, SessionRow

LEMMA RevokedKind ==
    ASSUME TypeOK, NEW gone
    PROVE  Revoked(gone) \in [Session -> SessionRow]
<1>1. \A s \in Session : session[s] \in SessionRow /\ [session[s] EXCEPT !.state = "over"] \in SessionRow
    BY StateKind DEF SessionRow
<1> QED
    BY <1>1 DEF Revoked

LEMMA CalmStep ==
    ASSUME Basics, Sensible, NEW h \in Handler, Calm(h)
    PROVE  Basics' /\ Untouched /\ link' = link /\ ~ Starts(Watched)
<1> USE DEF Basics, Ghosts
<1>1. ASSUME NEW new, job' = [job EXCEPT ![h] = new], Fits(new), new.at \notin Watched
      PROVE  Kinds' /\ ~ Starts(Watched)
    BY <1>1, Becoming DEF Starts
<1>2. CASE \E right \in BOOLEAN : ReadAccount(h, right)
    <2>1. PICK right \in BOOLEAN : ReadAccount(h, right)
        BY <1>2
    <2> DEFINE new == [at |-> IF right THEN "signing in" ELSE "refusing"]
    <2>2. Fits(new) /\ new.at \notin Watched /\ job' = [job EXCEPT ![h] = new]
        BY <2>1 DEF ReadAccount, Start, Fits, Watched
    <2> QED
        BY <1>1, <2>1, <2>2 DEF ReadAccount, Untouched, TypeOK, ghosts
<1>3. Fits(Idle) /\ Idle.at \notin Watched
    BY DEF Fits, Idle, Watched
<1>4. CASE CountFailure(h)
    <2> DEFINE lock == account.locked \/ account.failed + 1 >= LockoutThreshold
    <2>a. account' = [account EXCEPT !.failed = @ + 1, !.locked = lock]
        BY <1>4 DEF CountFailure
    <2>b. account \in AccountRow /\ lock \in BOOLEAN
        BY StateKind
    <2>c. account.failed + 1 \in Nat
        BY <2>b DEF AccountRow
    <2> HIDE DEF lock
    <2>1. account' \in AccountRow
        BY <1>4, <2>a, <2>b, <2>c DEF CountFailure, AccountRow
    <2> QED
        BY <1>1, <1>3, <1>4, <2>1 DEF CountFailure, Finish, Untouched, TypeOK, ghosts
<1>5. CASE ClearFailures(h)
    <2>1. account' \in AccountRow
        BY <1>5, StateKind DEF ClearFailures, AccountRow
    <2> DEFINE new == [at |-> "opening"]
    <2>2. Fits(new) /\ new.at \notin Watched
        BY DEF Fits, Watched
    <2> QED
        BY <1>1, <1>5, <2>1, <2>2 DEF ClearFailures, Untouched, TypeOK
<1>6. CASE OpenSession(h)
    <2>1. session' \in [Session -> SessionRow]
        BY <1>6, StateKind DEF OpenSession, SessionRow
    <2> QED
        BY <1>1, <1>3, <1>6, <2>1 DEF OpenSession, Finish, Untouched, TypeOK, ghosts
<1>8. CASE \E s \in Session : WrongCode(h, s)
    <2>1. PICK s \in Session : WrongCode(h, s)
        BY <1>8
    <2> DEFINE new == [at |-> "counting", session |-> s]
    <2>2. Fits(new) /\ new.at \notin Watched /\ job' = [job EXCEPT ![h] = new]
        BY <2>1 DEF WrongCode, Start, Fits, Watched
    <2> QED
        BY <1>1, <2>1, <2>2 DEF WrongCode, Untouched, TypeOK, ghosts
<1>9. CASE Rotate(h)
    <2>1. job[h].session \in Session
        BY <1>9 DEF Rotate, Kinds, Fits
    <2>2. session' \in [Session -> SessionRow]
        BY <1>9, <2>1, RotatedKind DEF Rotate
    <2> QED
        BY <1>1, <1>3, <1>9, <2>2 DEF Rotate, Finish, Untouched, TypeOK, ghosts
<1>10. CASE RecordMfaFailure(h)
    <2>1. job[h].session \in Session
        BY <1>10 DEF RecordMfaFailure, Kinds, Fits
    <2>2. session' \in [Session -> SessionRow]
        BY <1>10, <2>1, StateKind DEF RecordMfaFailure, SessionRow
    <2> DEFINE new == IF session[job[h].session].failures + 1 >= MaxMfaAttempts
                      THEN [at |-> "ending", session |-> job[h].session] ELSE Idle
    <2>3. Fits(new) /\ new.at \notin Watched
        BY <1>3, <2>1 DEF Fits, Watched
    <2> QED
        BY <1>1, <1>10, <2>2, <2>3 DEF RecordMfaFailure, Untouched, TypeOK, ghosts
<1>11. CASE EndSession(h)
    <2>1. session' \in [Session -> SessionRow]
        BY <1>11, RevokedKind DEF EndSession
    <2> QED
        BY <1>1, <1>3, <1>11, <2>1 DEF EndSession, Finish, Untouched, TypeOK, ghosts
<1>12. CASE \E l \in Link : FindLink(h, l)
    <2>1. PICK l \in Link : FindLink(h, l)
        BY <1>12
    <2> DEFINE new == [at |-> "resetting", link |-> l]
    <2>2. Fits(new) /\ new.at \notin Watched /\ job' = [job EXCEPT ![h] = new]
        BY <2>1 DEF FindLink, Start, Fits, Watched
    <2> QED
        BY <1>1, <2>1, <2>2 DEF FindLink, Untouched, TypeOK, ghosts
<1>13. CASE Die(h)
    BY <1>1, <1>3, <1>13 DEF Die, Finish, Untouched, TypeOK, ghosts
<1> QED
    BY <1>2, <1>4, <1>5, <1>6, <1>8, <1>9, <1>10, <1>11, <1>12, <1>13 DEF Calm

(* Links only get older, but for the one that is sent. *)
Older(l) == link'[l] = link[l] \/ (l \in Unused /\ link'[l] \in {"expired", "used"})

LEMMA DirectStep ==
    ASSUME Basics, Sensible, Direct
    PROVE  Basics' /\ Untouched /\ (\A l \in Link : Older(l)) /\ job' = job
<1> USE DEF Basics, Ghosts
<1>1. ASSUME job' = job PROVE Kinds'
    BY <1>1 DEF Kinds
<1>2. CASE \E s \in Session : ChangePassword(s) \/ Logout(s) \/ \E t \in Session : RevokeOwn(s, t)
    <2>1. PICK s \in Session : ChangePassword(s) \/ Logout(s) \/ \E t \in Session : RevokeOwn(s, t)
        BY <1>2
    <2>2. session' \in [Session -> SessionRow]
        <3>1. CASE ChangePassword(s)
            <4>1. Revoked(Session \ {s}) \in [Session -> SessionRow]
                BY RevokedKind
            <4> QED
                BY <3>1, <4>1 DEF ChangePassword, SessionRow
        <3> QED
            BY <2>1, <3>1, RevokedKind DEF Logout, RevokeOwn
    <2>3. UNCHANGED <<account, factor, code, link, clock, job, ghosts>>
        BY <2>1 DEF ChangePassword, Logout, RevokeOwn
    <2> QED
        BY <1>1, <2>2, <2>3 DEF TypeOK, Untouched, ghosts, Older
<1>3. CASE \E status \in {"active", "disabled"} : SetStatus(status)
    <2>1. PICK status \in {"active", "disabled"} : SetStatus(status)
        BY <1>3
    <2>2. session' \in [Session -> SessionRow]
        BY <2>1, RevokedKind, StateKind DEF SetStatus
    <2>3. account' \in AccountRow
        BY <2>1, StateKind DEF SetStatus, AccountRow
    <2> QED
        BY <1>1, <2>1, <2>2, <2>3 DEF SetStatus, TypeOK, Untouched, ghosts, Older
<1>4. CASE EnforceMfa
    <2>1. account' \in AccountRow
        BY <1>4, StateKind DEF EnforceMfa, AccountRow
    <2> QED
        BY <1>1, <1>4, <2>1 DEF EnforceMfa, TypeOK, Untouched, ghosts, Older
<1>5. CASE Passing
    <2>1. UNCHANGED <<factor, code, job, made, enrolled, spent, exempt, astray, beside>>
          /\ expired' \in Nat
        BY <1>5 DEF Passing, TimePasses
    <2>2. account' \in AccountRow
        BY <1>5, StateKind DEF Passing, TimePasses, AccountRow
    <2>3. session' \in [Session -> SessionRow]
        BY <1>5, StateKind DEF Passing, TimePasses, SessionRow
    <2>4. link' \in [Link -> LinkRow] /\ \A l \in Link : Older(l)
        BY <1>5, StateKind DEF Passing, TimePasses, LinkRow, Older, Unused
    <2>5. clock' \in 0..MaxStep
        BY <1>5, StateKind DEF Passing, TimePasses, Sensible
    <2> QED
        BY <1>1, <2>1, <2>2, <2>3, <2>4, <2>5 DEF TypeOK, Untouched, ghosts
<1>6. CASE UNCHANGED vars
    BY <1>1, <1>6 DEF vars, TypeOK, Untouched, Older
<1> QED
    BY <1>2, <1>3, <1>4, <1>5, <1>6 DEF Direct

LEMMA SetupStep ==
    ASSUME Basics, Sensible, NEW s \in Session, Setup(s)
    PROVE  Basics' /\ job' = job
<1>1. made' \in 0..MaxSecrets
    BY StateKind DEF Setup, Basics, Sensible
<1>2. factor' \in FactorRow
    BY <1>1 DEF Setup, FactorRow
<1> QED
    BY <1>1, <1>2 DEF Setup, Basics, Ghosts, Kinds, TypeOK

LEMMA UsingStep ==
    ASSUME Basics, Sensible, NEW h \in Handler, Using(h)
    PROVE  /\ Basics' /\ ~ Starts(Watched)
           /\ UNCHANGED <<made, enrolled, exempt, astray, beside>>
           /\ factor'.present = factor.present /\ factor'.confirmed = factor.confirmed
           /\ code' \subseteq code /\ \A l \in Link : Older(l)
<1> USE DEF Basics, Ghosts
<1>1. ASSUME NEW new, job' = [job EXCEPT ![h] = new], Fits(new), new.at \notin Watched
      PROVE  Kinds' /\ ~ Starts(Watched)
    BY <1>1, Becoming DEF Starts
<1>2. Fits(Idle) /\ Idle.at \notin Watched
    BY DEF Fits, Idle, Watched
<1>3. CASE ClaimTimeStep(h)
    <2>1. job[h].session \in Session /\ job[h].step \in Step
        BY <1>3 DEF ClaimTimeStep, Kinds, Fits
    <2>2. job[h].step \in Nat
        BY <2>1 DEF Step, Sensible
    <2> DEFINE next == [at |-> "rotating", session |-> job[h].session]
               late == [at |-> "counting", session |-> job[h].session]
    <2>3. Fits(next) /\ next.at \notin Watched /\ Fits(late) /\ late.at \notin Watched
        BY <2>1 DEF Fits, Watched
    <2>4. CASE factor.present /\ factor.lastStep < job[h].step
        <3>1. /\ factor' = [factor EXCEPT !.lastStep = job[h].step]
              /\ Accept(CodeOf(h)) /\ job' = [job EXCEPT ![h] = next]
              /\ UNCHANGED <<account, session, code, link, clock, expired, made, enrolled, exempt, astray, beside>>
            BY <1>3, <2>4 DEF ClaimTimeStep
        <3>2. /\ factor' \in FactorRow
              /\ factor'.present = factor.present /\ factor'.confirmed = factor.confirmed
            BY <2>2, <3>1, StateKind DEF FactorRow
        <3>3. spent' \in [Secret -> Nat]
            BY <3>1, Accepting
        <3> QED
            BY <1>1, <2>3, <3>1, <3>2, <3>3 DEF TypeOK, Older
    <2>5. CASE ~ (factor.present /\ factor.lastStep < job[h].step)
        <3>1. /\ UNCHANGED <<factor, spent>> /\ job' = [job EXCEPT ![h] = late]
              /\ UNCHANGED <<account, session, code, link, clock, expired, made, enrolled, exempt, astray, beside>>
            BY <1>3, <2>5 DEF ClaimTimeStep
        <3> QED
            BY <1>1, <2>3, <3>1 DEF TypeOK, Older
    <2> QED
        BY <2>4, <2>5
<1>4. CASE ApplyReset(h)
    <2>1. job[h].link \in Link
        BY <1>4 DEF ApplyReset, Kinds, Fits
    <2>2. CASE link[job[h].link] \in {"open", "expired"}
        <3>1. /\ link' = [link EXCEPT ![job[h].link] = "used"]
              /\ account' = [account EXCEPT !.failed = 0, !.locked = FALSE]
              /\ session' = Revoked(Session) /\ Accept(<<"link", job[h].link>>) /\ expired' = 0
            BY <1>4, <2>2 DEF ApplyReset
        <3>2. account' \in AccountRow
            BY <3>1, StateKind DEF AccountRow
        <3>3. link' \in [Link -> LinkRow] /\ \A l \in Link : Older(l)
            BY <2>1, <2>2, <3>1, StateKind DEF LinkRow, Older, Unused
        <3>4. spent' \in [Secret -> Nat]
            BY <3>1, Accepting
        <3>5. session' \in [Session -> SessionRow]
            BY <3>1, RevokedKind
        <3> QED
            BY <1>1, <1>2, <1>4, <3>1, <3>2, <3>3, <3>4, <3>5 DEF ApplyReset, Finish, TypeOK
    <2>3. CASE link[job[h].link] \notin {"open", "expired"}
        BY <1>1, <1>2, <1>4, <2>3 DEF ApplyReset, Finish, TypeOK, Older
    <2> QED
        BY <2>2, <2>3
<1>5. CASE \E s \in Session : \E x \in code : ConsumeRecoveryCode(h, s, x)
    <2>1. PICK s \in Session, x \in code : ConsumeRecoveryCode(h, s, x)
        BY <1>5
    <2> DEFINE new == [at |-> "rotating", session |-> s]
    <2>2. Fits(new) /\ new.at \notin Watched /\ job' = [job EXCEPT ![h] = new]
        BY <2>1 DEF ConsumeRecoveryCode, Start, Fits, Watched
    <2>3. x \in Secret /\ spent' \in [Secret -> Nat] /\ code' = code \ {x}
        BY <2>1, StateKind, Accepting DEF ConsumeRecoveryCode
    <2> QED
        BY <1>1, <2>1, <2>2, <2>3 DEF ConsumeRecoveryCode, TypeOK, Older
<1> QED
    BY <1>3, <1>4, <1>5 DEF Using

LEMMA CheckEnrollmentStep ==
    ASSUME Basics, NEW h \in Handler, NEW s \in Session, NEW t \in Step, CheckEnrollment(h, s, t)
    PROVE  /\ Basics' /\ Untouched /\ link' = link /\ job[h] = Idle
           /\ job'[h].at = "enabling" /\ ~ job'[h].gone /\ job'[h].secret = factor.secret
           /\ (\E k \in Handler : Doing(k, SwitchingOff)) => job'[h].crossed
           /\ \A k \in Handler \ {h} : job'[k] = job[k]
<1> DEFINE crossed == \E k \in Handler : Doing(k, SwitchingOff)
           new == [at |-> "enabling", session |-> s, secret |-> factor.secret, step |-> t,
                   gone |-> FALSE, crossed |-> crossed]
<1>1. job' = [job EXCEPT ![h] = new]
    BY DEF CheckEnrollment, Start
<1>2. crossed \in BOOLEAN
    OBVIOUS
<1> HIDE DEF crossed
<1>3. Fits(new)
    BY <1>2, StateKind DEF Fits, Confirming, Basics, FactorRow
<1>4. Kinds' /\ job'[h] = new /\ \A k \in Handler \ {h} : job'[k] = job[k]
    BY <1>1, <1>3, Becoming DEF Basics
<1>5. new.at = "enabling" /\ ~ new.gone /\ new.crossed = crossed /\ new.secret = factor.secret
    OBVIOUS
<1>6. TypeOK' /\ Ghosts' /\ Untouched /\ link' = link /\ job[h] = Idle
    BY DEF CheckEnrollment, Start, Basics, TypeOK, Ghosts, Untouched, ghosts
<1> QED
    BY <1>4, <1>5, <1>6 DEF Basics, crossed

LEMMA CheckCodeStep ==
    ASSUME Basics, NEW h \in Handler, NEW s \in Session, NEW t \in Step, CheckCode(h, s, t)
    PROVE  /\ Basics' /\ Untouched /\ link' = link /\ factor.confirmed
           /\ job'[h].at = "claiming" /\ job'[h].secret = factor.secret
           /\ \A k \in Handler \ {h} : job'[k] = job[k]
<1> DEFINE new == [at |-> "claiming", session |-> s, secret |-> factor.secret, step |-> t]
<1>1. job' = [job EXCEPT ![h] = new]
    BY DEF CheckCode, Start
<1>2. Fits(new)
    BY StateKind DEF Fits, Basics, FactorRow
<1>3. Kinds' /\ job'[h] = new /\ \A k \in Handler \ {h} : job'[k] = job[k]
    BY <1>1, <1>2, Becoming DEF Basics
<1>4. TypeOK' /\ Ghosts' /\ Untouched /\ link' = link /\ factor.confirmed
    BY DEF CheckCode, Basics, TypeOK, Ghosts, Untouched, ghosts
<1> QED
    BY <1>3, <1>4 DEF Basics

LEMMA ReplaceCodesStep ==
    ASSUME Basics, NEW h \in Handler, ReplaceCodes(h)
    PROVE  /\ Basics' /\ Untouched /\ link' = link
           /\ Doing(h, {"enabling"}) /\ (job[h].gone \/ RowIsFree)
           /\ job'[h].at = "replacing" /\ job'[h].gone = job[h].gone
           /\ job'[h].secret = job[h].secret /\ job'[h].step = job[h].step
           /\ job'[h].crossed = job[h].crossed /\ job'[h].codes = code
           /\ \A k \in Handler \ {h} : job'[k] = job[k]
<1> DEFINE new == [at |-> "replacing", session |-> job[h].session, secret |-> job[h].secret,
                   step |-> job[h].step, gone |-> job[h].gone, crossed |-> job[h].crossed, codes |-> code]
<1>1. job' = [job EXCEPT ![h] = new] /\ job[h].at = "enabling"
    BY DEF ReplaceCodes
<1>2. job[h] \in Confirming
    BY <1>1 DEF Basics, Kinds, Fits
<1>3. new \in Replacing
    BY <1>2, StateKind DEF Basics, Confirming, Replacing
<1>4. Fits(new)
    BY <1>3 DEF Fits
<1>5. Kinds' /\ job'[h] = new /\ \A k \in Handler \ {h} : job'[k] = job[k]
    BY <1>1, <1>4, Becoming DEF Basics
<1>6. TypeOK' /\ Ghosts' /\ Untouched /\ link' = link
    BY DEF ReplaceCodes, Basics, TypeOK, Ghosts, Untouched, ghosts
<1> QED
    BY <1>1, <1>5, <1>6 DEF ReplaceCodes, Basics, Doing

LEMMA EnableStep ==
    ASSUME Basics, Sensible, NEW h \in Handler, Enable(h)
    PROVE  /\ Basics' /\ link' = link /\ beside' = beside
           /\ Doing(h, {"replacing"}) /\ job[h] \in Replacing
           /\ enrolled' = enrolled + 1 /\ enrolled' \in Number
           /\ code' = (code \ job[h].codes)
                      \cup {<<"code", enrolled', n>> : n \in 1..CodeCount}
           /\ astray' = IF job[h].crossed THEN astray \cup {enrolled'} ELSE astray
           /\ made' = made /\ Accept(CodeOf(h)) /\ exempt' = exempt \cup Reopened(h)
           /\ job[h].gone => factor' = factor
           /\ ~ job[h].gone =>
                  /\ factor'.confirmed /\ factor'.present = factor.present
                  /\ factor'.secret = factor.secret /\ factor'.lastStep = job[h].step
           /\ job'[h] = Idle
           /\ \A k \in Handler \ {h} : job'[k] = job[k]
<1>1. job[h] \in Replacing
    BY DEF Enable, Basics, Kinds, Fits
<1>2. job[h].session \in Session /\ job[h].step \in Step /\ job[h].step \in Nat
    BY <1>1 DEF Replacing, Step, Sensible
<1>3. Fits(Idle)
    BY DEF Fits, Idle
<1>4. Kinds' /\ job'[h] = Idle /\ \A k \in Handler \ {h} : job'[k] = job[k]
    BY <1>3, Becoming DEF Enable, Finish, Basics
<1>5. enrolled' = enrolled + 1 /\ enrolled' \in Number
    BY DEF Enable, Basics, Ghosts, Number, Sensible
<1>6. session' \in [Session -> SessionRow]
    BY <1>2, RotatedKind DEF Enable, Basics
<1>7. code' = (code \ job[h].codes) \cup {<<"code", enrolled', n>> : n \in 1..CodeCount}
    BY <1>5 DEF Enable
<1>8. code' \in SUBSET Secret
    BY <1>5, <1>7, SecretKinds, StateKind DEF Basics
<1>9. spent' \in [Secret -> Nat]
    BY Accepting DEF Enable, Basics
<1>10. /\ factor' \in FactorRow /\ (job[h].gone => factor' = factor)
       /\ ~ job[h].gone =>
              /\ factor'.confirmed /\ factor'.present = factor.present
              /\ factor'.secret = factor.secret /\ factor'.lastStep = job[h].step
    <2>1. CASE job[h].gone
        BY <2>1, StateKind DEF Enable, Basics
    <2>2. CASE ~ job[h].gone
        <3>1. factor' = [factor EXCEPT !.confirmed = TRUE, !.lastStep = job[h].step]
            BY <2>2 DEF Enable
        <3> QED
            BY <1>2, <2>2, <3>1, StateKind DEF FactorRow, Basics
    <2> QED
        BY <2>1, <2>2
<1>11. UNCHANGED <<account, link, clock, expired, made, beside>>
    BY DEF Enable
<1>12. TypeOK'
    BY <1>6, <1>8, <1>10, <1>11 DEF TypeOK, Basics
<1>13. Ghosts'
    <2>1. \A x \in code' : x[1] = "code" /\ x[2] <= enrolled'
        <3> SUFFICES ASSUME NEW x \in code'
                     PROVE  x[1] = "code" /\ x[2] <= enrolled'
            OBVIOUS
        <3>1. CASE x \in code
            <4>1. x[1] = "code" /\ x[2] <= enrolled /\ x \in Secret
                BY <3>1, StateKind DEF Basics, Ghosts
            <4>2. x[2] \in Int
                BY <4>1, SecretKinds DEF Number
            <4> QED
                BY <1>5, <4>1, <4>2 DEF Basics, Ghosts
        <3>2. CASE x \notin code
            <4>1. PICK n \in 1..CodeCount : x = <<"code", enrolled', n>>
                BY <1>7, <3>2
            <4> QED
                BY <1>5, <4>1, SecretKinds DEF Number
        <3> QED
            BY <3>1, <3>2
    <2> QED
        BY <1>5, <1>9, <1>11, <2>1 DEF Ghosts, Basics, Number, Sensible
<1> QED
    BY <1>1, <1>4, <1>5, <1>7, <1>10, <1>11, <1>12, <1>13 DEF Enable, Basics, Doing

LEMMA DeleteCodesStep ==
    ASSUME Basics, NEW h \in Handler, DeleteCodes(h)
    PROVE  /\ Basics' /\ Untouched /\ link' = link /\ Doing(h, {"removing"})
           /\ job'[h].at = "deleting" /\ job'[h].codes = code
           /\ job'[h].secret = job[h].secret
           /\ \A k \in Handler \ {h} : job'[k] = job[k]
<1> DEFINE new == [at |-> "deleting", secret |-> job[h].secret, step |-> job[h].step, codes |-> code]
<1>1. job' = [job EXCEPT ![h] = new] /\ Fits(new)
    BY DEF DeleteCodes, Fits, Basics, Kinds
<1>2. Kinds' /\ job'[h] = new /\ \A k \in Handler \ {h} : job'[k] = job[k]
    BY <1>1, Becoming DEF Basics
<1>3. TypeOK' /\ Ghosts' /\ Untouched /\ link' = link
    BY DEF DeleteCodes, Basics, TypeOK, Ghosts, Untouched, ghosts
<1> QED
    BY <1>2, <1>3 DEF DeleteCodes, Basics, Doing

(* A confirmation that learns of a switch-off goes on as it was.            *)
Informed(k) ==
    /\ job'[k].at = job[k].at /\ job'[k].secret = job[k].secret
    /\ Doing(k, {"replacing"}) => job'[k].codes = job[k].codes

LEMMA Informing ==
    ASSUME Kinds, NEW k \in Handler, Doing(k, SwitchingOn)
    PROVE  /\ Fits([job[k] EXCEPT !.crossed = TRUE]) /\ Fits([job[k] EXCEPT !.gone = TRUE])
           /\ job'[k] = [job[k] EXCEPT !.crossed = TRUE]
                  => Informed(k) /\ job'[k].gone = job[k].gone /\ job'[k].crossed
           /\ job'[k] = [job[k] EXCEPT !.gone = TRUE]
                  => Informed(k) /\ job'[k].crossed = job[k].crossed /\ job'[k].gone
<1>1. CASE job[k].at = "enabling"
    <2>1. job[k] \in Confirming
        BY <1>1 DEF Kinds, Fits
    <2>2. /\ [job[k] EXCEPT !.crossed = TRUE] \in Confirming
          /\ [job[k] EXCEPT !.gone = TRUE] \in Confirming
        BY <2>1 DEF Confirming
    <2> QED
        BY <1>1, <2>1, <2>2 DEF Confirming, Fits, Informed, Doing
<1>2. CASE job[k].at = "replacing"
    <2>1. job[k] \in Replacing
        BY <1>2 DEF Kinds, Fits
    <2>2. /\ [job[k] EXCEPT !.crossed = TRUE] \in Replacing
          /\ [job[k] EXCEPT !.gone = TRUE] \in Replacing
        BY <2>1 DEF Replacing
    <2> QED
        BY <1>2, <2>1, <2>2 DEF Replacing, Fits, Informed, Doing
<1> QED
    BY <1>1, <1>2 DEF Doing, SwitchingOn

LEMMA CheckDisableStep ==
    ASSUME Basics, NEW h \in Handler, NEW s \in Session, NEW t \in Step, CheckDisable(h, s, t)
    PROVE  /\ Basics' /\ Untouched /\ link' = link /\ factor.confirmed
           /\ job'[h].at = "removing" /\ job'[h].secret = factor.secret
           /\ \A k \in Handler \ {h} :
                  IF Doing(k, SwitchingOn)
                  THEN Informed(k) /\ job'[k].gone = job[k].gone /\ job'[k].crossed
                  ELSE job'[k] = job[k]
<1> DEFINE new == [at |-> "removing", secret |-> factor.secret, step |-> t]
<1>1. job' = [k \in Handler |->
                 IF k = h THEN new
                 ELSE IF Doing(k, SwitchingOn) THEN [job[k] EXCEPT !.crossed = TRUE]
                 ELSE job[k]]
    BY DEF CheckDisable
<1>2. Fits(new)
    BY StateKind DEF Fits, Basics, FactorRow
<1>3. \A k \in Handler : Fits(job'[k])
    BY <1>1, <1>2, Informing DEF Basics, Kinds
<1>4. Kinds'
    BY <1>1, <1>3 DEF Kinds
<1>5. TypeOK' /\ Ghosts' /\ Untouched /\ link' = link /\ factor.confirmed
    BY DEF CheckDisable, Basics, TypeOK, Ghosts, Untouched, ghosts
<1>6. ASSUME NEW k \in Handler \ {h}
      PROVE  IF Doing(k, SwitchingOn)
             THEN Informed(k) /\ job'[k].gone = job[k].gone /\ job'[k].crossed
             ELSE job'[k] = job[k]
    BY <1>1, <1>6, Informing DEF Basics
<1> QED
    BY <1>1, <1>4, <1>5, <1>6 DEF Basics

LEMMA RemoveFactorStep ==
    ASSUME Basics, NEW h \in Handler, RemoveFactor(h)
    PROVE  /\ Basics' /\ link' = link /\ UNCHANGED <<made, enrolled, astray, beside>>
           /\ Doing(h, {"deleting"}) /\ RowIsFree
           /\ code' = code \ job[h].codes /\ factor' = NoFactor /\ Accept(CodeOf(h))
           /\ CodeOf(h) \in exempt' /\ exempt \subseteq exempt'
           /\ \A k \in Handler : Doing(k, {"claiming"}) => CodeOf(k) \in exempt'
           /\ job'[h] = Idle
           /\ \A k \in Handler \ {h} :
                  IF Doing(k, SwitchingOn)
                  THEN Informed(k) /\ job'[k].crossed = job[k].crossed /\ job'[k].gone
                  ELSE job'[k] = job[k]
<1>1. job' = [k \in Handler |->
                 IF k = h THEN Idle
                 ELSE IF Doing(k, SwitchingOn) THEN [job[k] EXCEPT !.gone = TRUE]
                 ELSE job[k]]
    BY DEF RemoveFactor
<1>2. Fits(Idle)
    BY DEF Fits, Idle
<1>3. \A k \in Handler : Fits(job'[k])
    BY <1>1, <1>2, Informing DEF Basics, Kinds
<1>4. Kinds'
    BY <1>1, <1>3 DEF Kinds
<1>5. NoFactor \in FactorRow
    BY DEF NoFactor, FactorRow
<1>6. TypeOK' /\ Ghosts'
    <2>1. spent' \in [Secret -> Nat]
        BY Accepting DEF RemoveFactor, Basics
    <2> QED
        BY <1>5, <2>1 DEF RemoveFactor, Basics, TypeOK, Ghosts
<1>7. ASSUME NEW k \in Handler \ {h}
      PROVE  IF Doing(k, SwitchingOn)
             THEN Informed(k) /\ job'[k].crossed = job[k].crossed /\ job'[k].gone
             ELSE job'[k] = job[k]
    BY <1>1, <1>7, Informing DEF Basics
<1>8. job'[h] = Idle
    BY <1>1
<1> QED
    BY <1>4, <1>6, <1>7, <1>8 DEF RemoveFactor, Basics, Doing

LEMMA RetireLinksStep ==
    ASSUME Basics, NEW h \in Handler, NEW l \in Link, RetireLinks(h, l)
    PROVE  /\ Basics' /\ UNCHANGED <<factor, code, link, made, enrolled, spent, exempt, astray>>
           /\ link[l] = "none" /\ job[h] = Idle
           /\ \A k \in Handler : Doing(k, {"asking"}) => job[k].link # l
           /\ job'[h].at = "asking" /\ job'[h].link = l /\ job'[h].retired = Unused
           /\ \A k, m \in Link \ {l} : Neighbours(k, m) => Neighbours(k, m)'
           /\ \A k \in Handler : Doing(k, {"asking"}) =>
                  Neighbours(job[k].link, l)' /\ Neighbours(l, job[k].link)'
           /\ \A k \in Handler \ {h} : job'[k] = job[k]
<1> DEFINE new == [at |-> "asking", link |-> l, retired |-> Unused]
<1>1. job' = [job EXCEPT ![h] = new] /\ job[h] = Idle /\ Fits(new)
    BY DEF RetireLinks, Start, Fits
<1>2. Kinds' /\ job'[h] = new /\ \A k \in Handler \ {h} : job'[k] = job[k]
    BY <1>1, Becoming DEF Basics
<1>3. TypeOK' /\ Ghosts' /\ UNCHANGED <<factor, code, link, made, enrolled, spent, exempt, astray>>
    BY DEF RetireLinks, Basics, TypeOK, Ghosts
<1>4. \A k \in Handler : Doing(k, {"asking"}) => job[k].link # l /\ job[k].link \in Asked
    BY DEF RetireLinks, Asked
<1>5. beside' = {p \in beside : l \notin {p[1], p[2]}}
                \cup UNION {{<<k, l>>, <<l, k>>} : k \in Asked}
    BY DEF RetireLinks
<1>6. ASSUME NEW k \in Link \ {l}, NEW m \in Link \ {l}, Neighbours(k, m)
      PROVE  Neighbours(k, m)'
    <2>1. l \notin {<<k, m>>[1], <<k, m>>[2]} /\ l \notin {<<m, k>>[1], <<m, k>>[2]}
        BY <1>6
    <2> QED
        BY <1>5, <1>6, <2>1 DEF Neighbours
<1>7. ASSUME NEW k \in Asked
      PROVE  <<k, l>> \in beside' /\ <<l, k>> \in beside'
    BY <1>5, <1>7
<1>8. ASSUME NEW k \in Handler, Doing(k, {"asking"})
      PROVE  Neighbours(job[k].link, l)' /\ Neighbours(l, job[k].link)'
    <2>1. job'[k] = job[k]
        BY <1>1, <1>2, <1>8 DEF Idle, Doing
    <2> QED
        BY <1>4, <1>7, <1>8, <2>1 DEF Neighbours
<1> QED
    BY <1>1, <1>2, <1>3, <1>4, <1>6, <1>8 DEF RetireLinks, Basics

LEMMA SendLinkStep ==
    ASSUME Basics, NEW h \in Handler, SendLink(h)
    PROVE  /\ Basics' /\ Untouched /\ Doing(h, {"asking"}) /\ job[h].link \in Link
           /\ \A k \in Link : link'[k] = IF k = job[h].link THEN "open"
                                         ELSE IF k \in job[h].retired THEN "used" ELSE link[k]
           /\ job'[h] = Idle
           /\ \A k \in Handler \ {h} : job'[k] = job[k]
<1>1. Doing(h, {"asking"}) /\ job[h].link \in Link
    BY DEF SendLink, Basics, Kinds, Fits, Doing
<1>2. Fits(Idle)
    BY DEF Fits, Idle
<1>3. Kinds' /\ job'[h] = Idle /\ \A k \in Handler \ {h} : job'[k] = job[k]
    BY <1>2, Becoming DEF SendLink, Finish, Basics
<1>4. link' = [k \in Link |-> IF k = job[h].link THEN "open"
                             ELSE IF k \in job[h].retired THEN "used" ELSE link[k]]
    BY DEF SendLink
<1>5. link' \in [Link -> LinkRow]
    BY <1>4, StateKind DEF LinkRow, Basics
<1>6. TypeOK' /\ Ghosts' /\ Untouched
    BY <1>5 DEF SendLink, Basics, TypeOK, Ghosts, Untouched, ghosts
<1> QED
    BY <1>1, <1>3, <1>4, <1>6 DEF Basics

-----------------------------------------------------------------------------
(* A TOTP code that was accepted is not accepted again. *)

(* What a request that checked a code goes on with, and what one that checks *)
(* a code begins with.                                                       *)
GoesOn(k) ==
    /\ job'[k].secret = job[k].secret
    /\ \/ Doing(k, {"claiming"}) /\ Doing(k, {"claiming"})' /\ job'[k].step = job[k].step
       \/ Doing(k, SwitchingOn) /\ Doing(k, SwitchingOn)' /\ (job[k].gone => job'[k].gone)
       \/ Doing(k, SwitchingOff) /\ Doing(k, SwitchingOff)'
Begins(k) ==
    /\ job'[k].secret = factor.secret /\ factor.present
    /\ \/ Doing(k, {"claiming"})' /\ factor.confirmed
       \/ Doing(k, SwitchingOn \cup SwitchingOff)'
GoOn == \A k \in Handler : Doing(k, Coding)' => GoesOn(k) \/ Begins(k)
Freed(g, t) == <<"step", g, t>> \in exempt'

LEMMA Apart ==
    ASSUME NEW k
    PROVE  /\ ~ (Doing(k, {"claiming"}) /\ Doing(k, SwitchingOn))
           /\ ~ (Doing(k, {"claiming"}) /\ Doing(k, SwitchingOff))
           /\ ~ (Doing(k, SwitchingOn) /\ Doing(k, SwitchingOff))
           /\ Doing(k, Coding)
                  <=> Doing(k, {"claiming"}) \/ Doing(k, SwitchingOn) \/ Doing(k, SwitchingOff)
           /\ Doing(k, SwitchingOn \cup SwitchingOff)
                  <=> Doing(k, SwitchingOn) \/ Doing(k, SwitchingOff)
BY DEF Doing, Coding, SwitchingOn, SwitchingOff

LEMMA ApartNext ==
    ASSUME NEW k
    PROVE  /\ ~ (Doing(k, {"claiming"})' /\ Doing(k, SwitchingOn)')
           /\ ~ (Doing(k, {"claiming"})' /\ Doing(k, SwitchingOff)')
           /\ ~ (Doing(k, SwitchingOn)' /\ Doing(k, SwitchingOff)')
           /\ Doing(k, Coding)'
                  <=> Doing(k, {"claiming"})' \/ Doing(k, SwitchingOn)' \/ Doing(k, SwitchingOff)'
           /\ Doing(k, SwitchingOn \cup SwitchingOff)'
                  <=> Doing(k, SwitchingOn)' \/ Doing(k, SwitchingOff)'
BY DEF Doing, Coding, SwitchingOn, SwitchingOff

(* Requests that go on as they were. *)
LEMMA GoingOn ==
    ASSUME NEW k \in Handler, job'[k] = job[k], Doing(k, Coding)'
    PROVE  GoesOn(k)
BY DEF GoesOn, Doing, Coding, SwitchingOn, SwitchingOff

LEMMA NoneStarts ==
    ASSUME ~ Starts(Watched)
    PROVE  GoOn
BY GoingOn DEF GoOn, Starts, Doing, Coding, Watched, SwitchingOn, SwitchingOff

LEMMA StepsKept ==
    ASSUME Basics, Sensible, StepsInv, GoOn, UNCHANGED <<made, exempt>>,
           UNCHANGED <<factor.present, factor.confirmed, factor.secret, factor.lastStep>>,
           \A x \in Secret : x[1] = "step" => spent'[x] = spent[x]
    PROVE  StepsInv'
<1> USE DEF StepsInv
<1>1. \A g \in Issued, t \in Step : spent'[<<"step", g, t>>] = spent[<<"step", g, t>>]
    BY SecretKinds
<1>2. made \in Nat /\ \A g \in 1..made : g \in Issued
    BY StateKind DEF Basics, Sensible, Issued
<1>3. StepsSpent' /\ Unmade'
    BY <1>1 DEF StepsSpent, Unmade, Exempt
<1>4. Known'
    <2>1. ASSUME NEW k \in Handler, Doing(k, Coding)'
          PROVE  job'[k].secret \in 1..made
        <3>1. GoesOn(k) => Doing(k, Coding)
            BY Apart DEF GoesOn
        <3> QED
            BY <2>1, <3>1 DEF GoOn, GoesOn, Begins, Known
    <2> QED
        BY <2>1 DEF Known
<1>5. ASSUME NEW g \in 1..made, Unspent(g)
      PROVE  \A t \in Step : Freed(g, t) \/ spent'[<<"step", g, t>>] = 0
    BY <1>1, <1>2, <1>5 DEF Unspent, Exempt, Freed
<1>6. Unconfirmed'
    <2>1. ASSUME ~ factor.confirmed, NEW h \in Handler, Doing(h, SwitchingOn)', ~ job'[h].gone
          PROVE  job'[h].secret \in 1..made /\ Unspent(job'[h].secret)
        <3>1. CASE GoesOn(h)
            <4>1. job'[h].secret = job[h].secret /\ Doing(h, SwitchingOn) /\ ~ job[h].gone
                BY <2>1, <3>1, ApartNext DEF GoesOn
            <4> QED
                BY <2>1, <4>1, Apart DEF Unconfirmed, Known
        <3>2. CASE Begins(h)
            BY <2>1, <3>2 DEF Unconfirmed, Known, Begins
        <3> QED
            BY <2>1, <3>1, <3>2, ApartNext DEF GoOn
    <2> QED
        BY <1>5, <2>1 DEF Unconfirmed, Known, Unspent, Exempt, Freed
<1>7. Claims'
    <2> SUFFICES ASSUME NEW k \in Handler, Doing(k, {"claiming"})'
                 PROVE  \/ Freed(job'[k].secret, job'[k].step)
                        \/ factor.confirmed /\ job'[k].secret = factor.secret
        BY DEF Claims, Exempt, Freed
    <2>1. CASE GoesOn(k)
        BY <2>1, ApartNext DEF GoesOn, Claims, Exempt, Freed
    <2>2. CASE Begins(k)
        BY <2>2, ApartNext DEF Begins
    <2> QED
        BY <2>1, <2>2, ApartNext DEF GoOn
<1> QED
    BY <1>3, <1>4, <1>6, <1>7

LEMMA StepsSetup ==
    ASSUME Basics, Sensible, StepsInv, NEW s \in Session, Setup(s)
    PROVE  StepsInv'
<1> USE DEF StepsInv
<1>1. /\ made' = made + 1 /\ job' = job /\ spent' = spent /\ exempt' = exempt /\ ~ factor.confirmed
      /\ factor'.present /\ factor'.secret = made' /\ ~ factor'.confirmed
      /\ made' \in Issued /\ made \in Nat /\ Issued \subseteq Int
    BY StateKind DEF Setup, Issued, Basics, Sensible
<1>2. \A t \in Step : spent[<<"step", made', t>>] = 0
    BY <1>1 DEF Unmade
<1>3. StepsSpent' /\ Unmade'
    BY <1>1, <1>2 DEF StepsSpent, Unmade, Exempt
<1>4. Known'
    BY <1>1 DEF Known, Doing
<1>5. Unconfirmed'
    BY <1>1, <1>2 DEF Unconfirmed, Unspent, Exempt, Doing
<1>6. Claims'
    BY <1>1 DEF Claims, Exempt, Doing
<1> QED
    BY <1>3, <1>4, <1>5, <1>6

(* A code is accepted: it is exempt from now on, or was unspent and is not     *)
(* after the last step of the confirmed factor, as nothing spent is.           *)
LEMMA StepsAccepted ==
    ASSUME Basics, Sensible, StepsInv, made' = made, exempt \subseteq exempt',
           NEW g0 \in 1..made, NEW t0 \in Step, Accept(<<"step", g0, t0>>),
           \A k \in Handler : Doing(k, Coding)' => GoesOn(k),
           factor'.confirmed => factor'.present,
           factor'.present => factor'.secret \in 1..made,
           \/ Freed(g0, t0)
           \/ /\ spent[<<"step", g0, t0>>] = 0 /\ factor'.confirmed
              /\ g0 = factor'.secret => t0 <= factor'.lastStep,
           \A g \in Issued, t \in Step :
               g = factor'.secret /\ spent[<<"step", g, t>>] = 1 => Freed(g, t) \/ t <= factor'.lastStep,
           ~ factor'.confirmed =>
               /\ Freed(g0, t0)
               /\ factor'.present => Unspent(factor'.secret)
               /\ \A k \in Handler : Doing(k, SwitchingOn) /\ ~ job[k].gone /\ ~ job'[k].gone =>
                      Unspent(job[k].secret),
           \A k \in Handler : Doing(k, {"claiming"}) /\ job'[k] = job[k] =>
               \/ Freed(job[k].secret, job[k].step)
               \/ factor'.confirmed /\ job[k].secret = factor'.secret,
           \A k \in Handler : Doing(k, {"claiming"})' => job'[k] = job[k]
    PROVE  StepsInv'
<1> USE DEF StepsInv
<1> DEFINE x == <<"step", g0, t0>>
<1>1. made \in Nat /\ g0 \in Issued /\ (\A g \in 1..made : g \in Issued) /\ g0 <= made
    BY StateKind DEF Basics, Sensible, Issued
<1>2. x \in Secret
    BY <1>1, SecretKinds
<1>3. /\ spent'[x] = spent[x] + 1
      /\ \A g \in Issued, t \in Step :
             g # g0 \/ t # t0 => spent'[<<"step", g, t>>] = spent[<<"step", g, t>>]
    <2>1. spent'[x] = spent[x] + 1 /\ \A y \in Secret \ {x} : spent'[y] = spent[y]
        BY <1>2, Accepting DEF Basics
    <2>2. \A g \in Issued, t \in Step : g # g0 \/ t # t0 => <<"step", g, t>> \in Secret \ {x}
        BY SecretKinds
    <2> QED
        BY <2>1, <2>2
<1>4. \A g, t : Exempt(g, t) => Freed(g, t)
    BY DEF Exempt, Freed
<1>5. StepsSpent'
    <2> SUFFICES ASSUME NEW g \in Issued, NEW t \in Step, ~ Freed(g, t)
                 PROVE  \/ spent'[<<"step", g, t>>] = 0
                        \/ /\ spent'[<<"step", g, t>>] = 1
                           /\ g = factor'.secret => t <= factor'.lastStep
        BY DEF StepsSpent, Exempt, Freed
    <2>1. CASE g = g0 /\ t = t0
        BY <1>3, <2>1
    <2>2. CASE g # g0 \/ t # t0
        BY <1>3, <1>4, <2>2 DEF StepsSpent
    <2> QED
        BY <2>1, <2>2
<1>6. Unmade'
    <2> SUFFICES ASSUME NEW g \in Issued, NEW t \in Step, g > made
                 PROVE  spent'[<<"step", g, t>>] = 0
        BY DEF Unmade
    <2>1. g # g0
        BY <1>1 DEF Issued
    <2> QED
        BY <1>3, <2>1 DEF Unmade
<1>7. Known'
    <2>1. ASSUME NEW k \in Handler, Doing(k, Coding)'
          PROVE  job'[k].secret \in 1..made
        <3>1. Doing(k, Coding) /\ job'[k].secret = job[k].secret
            BY <2>1, Apart DEF GoesOn
        <3> QED
            BY <3>1 DEF Known
    <2> QED
        BY <2>1 DEF Known
<1>8. ASSUME NEW g \in 1..made, Unspent(g), ~ factor'.confirmed
      PROVE  \A t \in Step : Freed(g, t) \/ spent'[<<"step", g, t>>] = 0
    BY <1>1, <1>3, <1>4, <1>8 DEF Unspent
<1>9. Unconfirmed'
    <2>1. ASSUME ~ factor'.confirmed, NEW h \in Handler, Doing(h, SwitchingOn)', ~ job'[h].gone
          PROVE  job'[h].secret \in 1..made /\ Unspent(job'[h].secret)
        <3>1. Doing(h, SwitchingOn) /\ job'[h].secret = job[h].secret /\ ~ job[h].gone
            BY <2>1, ApartNext DEF GoesOn
        <3> QED
            BY <2>1, <3>1, Apart DEF Known
    <2> QED
        BY <1>8, <2>1 DEF Unconfirmed, Unspent, Exempt, Freed
<1>10. Claims'
    <2> SUFFICES ASSUME NEW k \in Handler, Doing(k, {"claiming"})'
                 PROVE  \/ Freed(job'[k].secret, job'[k].step)
                        \/ factor'.confirmed /\ job'[k].secret = factor'.secret
        BY DEF Claims, Exempt, Freed
    <2>1. job'[k] = job[k] /\ Doing(k, {"claiming"})
        BY DEF Doing
    <2> QED
        BY <2>1
<1> QED
    BY <1>5, <1>6, <1>7, <1>9, <1>10

(* A confirmation that comes first spends a code of an unspent secret; a late  *)
(* one exempts its own and what it reopens.                                    *)
LEMMA StepsEnabled ==
    ASSUME Basics, Sensible, StepsInv, CodesInv, NEW h \in Handler, Enable(h)
    PROVE  StepsInv'
<1> USE DEF StepsInv
<1>1. /\ Doing(h, {"replacing"}) /\ job[h] \in Replacing /\ made' = made
      /\ Accept(CodeOf(h)) /\ exempt' = exempt \cup Reopened(h) /\ job'[h] = Idle
      /\ \A k \in Handler \ {h} : job'[k] = job[k]
    BY EnableStep
<1>2. /\ Doing(h, SwitchingOn) /\ job[h].secret \in 1..made /\ job[h].step \in Step
      /\ job[h].step \in Int /\ \A t \in Step : t \in Int
    BY <1>1, Apart DEF Known, Doing, SwitchingOn, Replacing, Step, Sensible
<1>3. ASSUME NEW k \in Handler, Doing(k, Coding)'
      PROVE  GoesOn(k) /\ job'[k] = job[k]
    <2>1. k # h
        BY <1>1, <1>3 DEF Doing, Idle, Coding, SwitchingOn, SwitchingOff
    <2> QED
        BY <1>1, <1>3, <2>1, GoingOn
<1>4. ~ job[h].gone => factor.present
    BY <1>2 DEF CodesInv, Confirmations
<1>5. made \in Nat /\ factor.lastStep \in Int
    BY StateKind DEF Basics, Sensible, FactorRow
<1>6. \A g, t : Exempt(g, t) => Freed(g, t)
    BY <1>1 DEF Exempt, Freed
<1>7. \A k \in Handler : Doing(k, {"claiming"})' => job'[k] = job[k]
    BY <1>3, ApartNext
<1>8. \A k \in Handler : Doing(k, {"claiming"}) =>
          \/ Freed(job[k].secret, job[k].step)
          \/ factor.confirmed /\ job[k].secret = factor.secret
    BY <1>6 DEF Claims
<1>9. CASE job[h].gone
    <2>1. factor' = factor /\ Freed(job[h].secret, job[h].step)
        BY <1>1, <1>9, EnableStep DEF Reopened, Freed, CodeOf
    <2>2. /\ factor'.confirmed => factor'.present
          /\ factor'.present => factor'.secret \in 1..made
          /\ ~ factor'.confirmed =>
                 /\ factor'.present => Unspent(factor'.secret)
                 /\ \A k \in Handler : Doing(k, SwitchingOn) /\ ~ job[k].gone => Unspent(job[k].secret)
        BY <2>1 DEF Known, Unconfirmed
    <2>3. \A g \in Issued, t \in Step :
              g = factor'.secret /\ spent[<<"step", g, t>>] = 1 => Freed(g, t) \/ t <= factor'.lastStep
        BY <1>6, <2>1 DEF StepsSpent
    <2> QED
        BY <1>1, <1>2, <1>3, <1>7, <1>8, <2>1, <2>2, <2>3, StepsAccepted DEF CodeOf
<1>10. CASE ~ job[h].gone
    <2>1. /\ factor'.confirmed /\ factor'.present /\ factor'.secret = factor.secret
          /\ factor'.lastStep = job[h].step /\ factor.secret \in 1..made
        BY <1>4, <1>10, EnableStep DEF Known
    <2>2. Freed(job[h].secret, job[h].step) \/ spent[<<"step", job[h].secret, job[h].step>>] = 0
        <3>1. CASE factor.confirmed
            BY <1>1, <3>1 DEF Reopened, Freed, CodeOf
        <3>2. CASE ~ factor.confirmed
            <4>1. Unspent(job[h].secret)
                BY <1>2, <1>10, <3>2 DEF Unconfirmed
            <4> QED
                BY <1>2, <1>6, <4>1 DEF Unspent
        <3> QED
            BY <3>1, <3>2
    <2>3. ASSUME NEW g \in Issued, NEW t \in Step, g = factor'.secret, spent[<<"step", g, t>>] = 1
          PROVE  Freed(g, t) \/ t <= factor'.lastStep
        <3>1. CASE factor.confirmed
            <4>1. Exempt(g, t) \/ t <= factor.lastStep
                BY <2>1, <2>3 DEF StepsSpent
            <4>2. CASE t <= factor.lastStep /\ t > job[h].step
                <5>1. t \in job[h].step + 1 .. factor.lastStep
                    BY <1>2, <1>5, <4>2
                <5>2. <<"step", factor.secret, t>> \in Reopened(h)
                    BY <1>10, <3>1, <5>1 DEF Reopened
                <5> QED
                    BY <1>1, <2>1, <2>3, <5>2 DEF Freed
            <4> QED
                BY <1>2, <1>6, <2>1, <4>1, <4>2
        <3>2. CASE ~ factor.confirmed
            <4>1. Unspent(factor.secret)
                BY <1>4, <1>10, <3>2 DEF Unconfirmed
            <4> QED
                BY <1>6, <2>1, <2>3, <4>1 DEF Unspent
        <3> QED
            BY <3>1, <3>2
    <2>4. job[h].secret = factor'.secret => job[h].step <= factor'.lastStep
        BY <1>2, <2>1
    <2>5. \A k \in Handler : Doing(k, {"claiming"}) =>
              \/ Freed(job[k].secret, job[k].step)
              \/ factor'.confirmed /\ job[k].secret = factor'.secret
        BY <1>8, <2>1
    <2> QED
        BY <1>1, <1>2, <1>3, <1>7, <2>1, <2>2, <2>3, <2>4, <2>5, StepsAccepted DEF CodeOf
<1> QED
    BY <1>9, <1>10

(* A step is claimed after the last one, of the confirmed factor's secret.     *)
LEMMA StepsClaimed ==
    ASSUME Basics, Sensible, StepsInv, NEW h \in Handler, ClaimTimeStep(h),
           factor.present, factor.lastStep < job[h].step
    PROVE  StepsInv'
<1> USE DEF StepsInv
<1>1. /\ factor' = [factor EXCEPT !.lastStep = job[h].step] /\ Accept(CodeOf(h))
      /\ UNCHANGED <<made, exempt>> /\ Doing(h, {"claiming"})
      /\ job' = [job EXCEPT ![h] = [at |-> "rotating", session |-> @.session]]
    BY DEF ClaimTimeStep, Doing
<1>2. /\ job[h].secret \in 1..made /\ job[h].step \in Step
      /\ job[h].step \in Int /\ \A t \in Step : t \in Int
    BY <1>1, Apart DEF Known, Doing, Basics, Kinds, Fits, Step, Sensible
<1>3. /\ factor'.confirmed = factor.confirmed /\ factor'.present = factor.present
      /\ factor'.secret = factor.secret /\ factor'.lastStep = job[h].step
      /\ factor.lastStep \in Int /\ made \in 0..MaxSecrets
    <2>1. factor \in FactorRow /\ made \in 0..MaxSecrets
        BY StateKind DEF Basics
    <2>2. factor.lastStep \in Int
        BY <2>1 DEF FactorRow
    <2>3. factor'.confirmed = factor.confirmed /\ factor'.present = factor.present
          /\ factor'.secret = factor.secret /\ factor'.lastStep = job[h].step
        BY <1>1, <2>1 DEF FactorRow
    <2> QED
        BY <2>1, <2>2, <2>3
<1>4. ASSUME NEW k \in Handler, Doing(k, Coding)'
      PROVE  GoesOn(k) /\ job'[k] = job[k]
    <2>1. job'[h].at = "rotating" /\ \A j \in Handler \ {h} : job'[j] = job[j]
        BY <1>1 DEF Basics, Kinds
    <2>2. k # h
        BY <1>4, <2>1 DEF Doing, Coding, SwitchingOn, SwitchingOff
    <2> QED
        BY <1>4, <2>1, <2>2, GoingOn
<1>5. job[h].secret \in Issued
    BY <1>2, <1>3 DEF Sensible, Issued
<1>6. \/ Exempt(job[h].secret, job[h].step)
      \/ /\ spent[<<"step", job[h].secret, job[h].step>>] = 0 /\ factor.confirmed
         /\ job[h].secret = factor.secret
    <2>1. \/ Exempt(job[h].secret, job[h].step)
          \/ factor.confirmed /\ job[h].secret = factor.secret
        BY <1>1 DEF Claims
    <2>2. \/ Exempt(job[h].secret, job[h].step)
          \/ spent[<<"step", job[h].secret, job[h].step>>] = 0
          \/ job[h].secret = factor.secret => job[h].step <= factor.lastStep
        BY <1>2, <1>5 DEF StepsSpent
    <2> QED
        BY <1>2, <1>3, <2>1, <2>2
<1>7. \A g, t : Exempt(g, t) => Freed(g, t)
    BY <1>1 DEF Exempt, Freed
<1>8. ASSUME NEW g \in Issued, NEW t \in Step, g = factor'.secret, spent[<<"step", g, t>>] = 1
      PROVE  Freed(g, t) \/ t <= factor'.lastStep
    <2>1. Exempt(g, t) \/ t <= factor.lastStep
        BY <1>3, <1>8 DEF StepsSpent
    <2> QED
        BY <1>2, <1>3, <1>7, <2>1
<1>9. \A k \in Handler : Doing(k, {"claiming"}) =>
          \/ Freed(job[k].secret, job[k].step)
          \/ factor'.confirmed /\ job[k].secret = factor'.secret
    BY <1>3, <1>7 DEF Claims
<1>10. \A k \in Handler : Doing(k, {"claiming"})' => job'[k] = job[k]
    BY <1>4, ApartNext
<1>11. \/ Freed(job[h].secret, job[h].step)
       \/ /\ spent[<<"step", job[h].secret, job[h].step>>] = 0 /\ factor'.confirmed
          /\ job[h].secret = factor'.secret => job[h].step <= factor'.lastStep
    BY <1>2, <1>3, <1>6, <1>7
<1>12. /\ factor'.confirmed => factor'.present
       /\ factor'.present => factor'.secret \in 1..made
       /\ ~ factor'.confirmed =>
              /\ Freed(job[h].secret, job[h].step)
              /\ factor'.present => Unspent(factor'.secret)
              /\ \A k \in Handler : Doing(k, SwitchingOn) /\ ~ job[k].gone => Unspent(job[k].secret)
    BY <1>3, <1>11 DEF Known, Unconfirmed
<1> QED
    BY <1>1, <1>2, <1>4, <1>8, <1>9, <1>10, <1>11, <1>12, StepsAccepted DEF CodeOf

(* The code that switches the factor off is exempt, and what is under way to   *)
(* be claimed; no request confirms the row that was there.                     *)
LEMMA StepsRemoved ==
    ASSUME Basics, Sensible, StepsInv, NEW h \in Handler, RemoveFactor(h)
    PROVE  StepsInv'
<1> USE DEF StepsInv
<1>1. /\ factor' = NoFactor /\ Accept(CodeOf(h)) /\ made' = made /\ Doing(h, {"deleting"})
      /\ CodeOf(h) \in exempt' /\ exempt \subseteq exempt' /\ job'[h] = Idle
      /\ \A k \in Handler : Doing(k, {"claiming"}) => CodeOf(k) \in exempt'
      /\ \A k \in Handler \ {h} :
             IF Doing(k, SwitchingOn)
             THEN Informed(k) /\ job'[k].crossed = job[k].crossed /\ job'[k].gone
             ELSE job'[k] = job[k]
    BY RemoveFactorStep
<1>2. /\ job[h].secret \in 1..made /\ job[h].step \in Step
      /\ ~ factor'.present /\ ~ factor'.confirmed /\ factor'.secret = 0 /\ made \in Nat
    <2>1. Doing(h, Coding)
        BY <1>1 DEF Doing, Coding, SwitchingOff
    <2>2. job[h].secret \in 1..made
        BY <2>1 DEF Known
    <2>3. job[h].step \in Step
        BY <1>1 DEF Doing, Basics, Kinds, Fits
    <2>4. ~ factor'.present /\ ~ factor'.confirmed /\ factor'.secret = 0
        BY <1>1 DEF NoFactor
    <2>5. made \in Nat
        BY StateKind DEF Basics, Sensible
    <2> QED
        BY <2>2, <2>3, <2>4, <2>5
<1>3. ASSUME NEW k \in Handler, Doing(k, Coding)'
      PROVE  GoesOn(k) /\ (Doing(k, SwitchingOn) => job'[k].gone)
    <2>1. k # h
        BY <1>1, <1>3 DEF Doing, Idle, Coding, SwitchingOn, SwitchingOff
    <2>2. CASE Doing(k, SwitchingOn)
        BY <1>1, <2>1, <2>2 DEF Informed, GoesOn, Doing
    <2>3. CASE ~ Doing(k, SwitchingOn)
        BY <1>1, <1>3, <2>1, <2>3, GoingOn
    <2> QED
        BY <2>2, <2>3
<1>4. \A k \in Handler : Doing(k, {"claiming"})' => job'[k] = job[k]
    <2> SUFFICES ASSUME NEW k \in Handler, Doing(k, {"claiming"})' PROVE job'[k] = job[k]
        OBVIOUS
    <2>1. k # h /\ ~ Doing(k, SwitchingOn)
        BY <1>1 DEF Doing, Idle, Informed, SwitchingOn
    <2> QED
        BY <1>1, <2>1
<1>5. \A k \in Handler : Doing(k, SwitchingOn) => job'[k].gone
    <2> SUFFICES ASSUME NEW k \in Handler, Doing(k, SwitchingOn) PROVE job'[k].gone
        OBVIOUS
    <2>1. k # h
        BY <1>1 DEF Doing, SwitchingOn
    <2> QED
        BY <1>1, <2>1
<1>6. Freed(job[h].secret, job[h].step)
    BY <1>1 DEF Freed, CodeOf
<1>7. \A k \in Handler : Doing(k, {"claiming"}) => Freed(job[k].secret, job[k].step)
    BY <1>1 DEF Freed, CodeOf
<1>8. \A g \in Issued : g # factor'.secret
    BY <1>2 DEF Issued
<1> QED
    BY <1>1, <1>2, <1>3, <1>4, <1>5, <1>6, <1>7, <1>8, StepsAccepted DEF CodeOf

-----------------------------------------------------------------------------
(* The other secrets. *)

LEMMA SecretsKept ==
    ASSUME SecretsInv, UNCHANGED <<code, enrolled>>,
           \A x \in Secret : x[1] # "step" => spent'[x] = spent[x],
           \A l \in Link : link[l] = "used" => link'[l] = "used"
    PROVE  SecretsInv'
BY SecretKinds DEF SecretsInv, CodesSpent, LinksSpent

(* Accepting a TOTP code leaves the other secrets as they are.                *)
LEMMA CodeAccepted ==
    ASSUME Ghosts, NEW h \in Handler, Accept(CodeOf(h))
    PROVE  \A x \in Secret : x[1] # "step" => spent'[x] = spent[x]
BY Accepting DEF CodeOf

LEMMA SecretsRemoved ==
    ASSUME Basics, SecretsInv, NEW h \in Handler, RemoveFactor(h)
    PROVE  SecretsInv'
<1>1. \A x \in Secret : x[1] # "step" => spent'[x] = spent[x]
    BY CodeAccepted DEF RemoveFactor, Basics
<1>2. link' = link /\ enrolled' = enrolled /\ code' \subseteq code
    BY DEF RemoveFactor
<1> QED
    BY <1>1, <1>2, SecretKinds DEF SecretsInv, CodesSpent, LinksSpent

(* The codes of the new enrollment are new.                                    *)
LEMMA SecretsEnabled ==
    ASSUME Basics, Sensible, SecretsInv, NEW h \in Handler, Enable(h)
    PROVE  SecretsInv'
<1>1. /\ link' = link /\ enrolled' = enrolled + 1 /\ enrolled' \in Number
      /\ code' = (code \ job[h].codes) \cup {<<"code", enrolled', n>> : n \in 1..CodeCount}
    BY EnableStep
<1>2. \A x \in Secret : x[1] # "step" => spent'[x] = spent[x]
    BY EnableStep, CodeAccepted DEF Basics
<1>3. CodesSpent'
    <2> SUFFICES ASSUME NEW e \in Number, NEW n \in 1..CodeCount
                 PROVE  /\ spent'[<<"code", e, n>>] <= 1
                        /\ e > enrolled' \/ <<"code", e, n>> \in code'
                               => spent'[<<"code", e, n>>] = 0
        BY DEF CodesSpent
    <2>1. spent'[<<"code", e, n>>] = spent[<<"code", e, n>>]
        BY <1>2, SecretKinds
    <2>2. <<"code", e, n>> \in code' => <<"code", e, n>> \in code \/ e = enrolled'
        BY <1>1
    <2>3. e > enrolled' \/ e = enrolled' => e > enrolled
        BY <1>1 DEF Number, Basics, Ghosts
    <2> QED
        BY <2>1, <2>2, <2>3 DEF SecretsInv, CodesSpent
<1>4. LinksSpent'
    <2>1. \A l \in Link : spent'[<<"link", l>>] = spent[<<"link", l>>]
        BY <1>2, SecretKinds
    <2> QED
        BY <1>1, <2>1 DEF SecretsInv, LinksSpent
<1> QED
    BY <1>3, <1>4 DEF SecretsInv

LEMMA SecretsUsed ==
    ASSUME Basics, Sensible, StepsInv, SecretsInv, NEW h \in Handler, Using(h)
    PROVE  StepsInv' /\ SecretsInv'
<1>1. enrolled' = enrolled /\ code' \subseteq code
      /\ \A l \in Link : link[l] = "used" => link'[l] = "used"
    BY UsingStep DEF Older, Unused
<1>a. UNCHANGED <<made, exempt>> /\ GoOn
    BY UsingStep, NoneStarts
<1> USE DEF SecretsInv
<1>2. CASE ClaimTimeStep(h)
    <2>1. CASE factor.present /\ factor.lastStep < job[h].step
        <3>1. Accept(CodeOf(h)) /\ UNCHANGED <<code, link, enrolled>>
            BY <1>2, <2>1 DEF ClaimTimeStep
        <3>2. \A x \in Secret : x[1] # "step" => spent'[x] = spent[x]
            BY <3>1, CodeAccepted DEF Basics
        <3> QED
            BY <1>1, <1>2, <2>1, <3>1, <3>2, StepsClaimed, SecretsKept
    <2>2. CASE ~ (factor.present /\ factor.lastStep < job[h].step)
        <3>1. UNCHANGED <<factor, spent, code, enrolled>>
            BY <1>2, <2>2 DEF ClaimTimeStep
        <3> QED
            BY <1>1, <1>a, <3>1, StepsKept, SecretsKept
    <2> QED
        BY <2>1, <2>2
<1>3. CASE ApplyReset(h)
    <2>1. job[h].link \in Link
        BY <1>3 DEF ApplyReset, Basics, Kinds, Fits
    <2>2. CASE link[job[h].link] \in {"open", "expired"}
        <3> DEFINE x == <<"link", job[h].link>>
        <3>1. /\ link' = [link EXCEPT ![job[h].link] = "used"]
              /\ Accept(x) /\ UNCHANGED <<factor, code, enrolled>>
            BY <1>3, <2>2 DEF ApplyReset
        <3>2. x \in Secret /\ x[1] = "link"
            BY <2>1, SecretKinds
        <3>3. spent'[x] = 1 /\ \A y \in Secret \ {x} : spent'[y] = spent[y]
            BY <2>1, <2>2, <3>1, <3>2, Accepting DEF Basics, LinksSpent
        <3>4. \A y \in Secret : y[1] # "link" => spent'[y] = spent[y]
            BY <3>2, <3>3
        <3>5. CodesSpent'
            <4>1. \A e \in Number, n \in 1..CodeCount : spent'[<<"code", e, n>>] = spent[<<"code", e, n>>]
                BY <3>4, SecretKinds
            <4> QED
                BY <3>1, <4>1 DEF CodesSpent
        <3>6. LinksSpent'
            <4> SUFFICES ASSUME NEW l \in Link
                         PROVE  /\ spent'[<<"link", l>>] <= 1
                                /\ link'[l] # "used" => spent'[<<"link", l>>] = 0
                BY DEF LinksSpent
            <4>1. CASE l = job[h].link
                BY <3>1, <3>3, <4>1, StateKind DEF Basics
            <4>2. CASE l # job[h].link
                <5>1. spent'[<<"link", l>>] = spent[<<"link", l>>]
                    BY <3>3, <4>2, SecretKinds
                <5> QED
                    BY <1>1, <5>1 DEF LinksSpent
            <4> QED
                BY <4>1, <4>2
        <3>7. StepsInv'
            BY <1>a, <3>1, <3>4, StepsKept
        <3> QED
            BY <3>5, <3>6, <3>7
    <2>3. CASE link[job[h].link] \notin {"open", "expired"}
        <3>1. UNCHANGED <<factor, spent, code, enrolled>>
            BY <1>3, <2>3 DEF ApplyReset
        <3> QED
            BY <1>1, <1>a, <3>1, StepsKept, SecretsKept
    <2> QED
        BY <2>2, <2>3
<1>4. CASE \E s \in Session : \E x \in code : ConsumeRecoveryCode(h, s, x)
    <2>1. PICK s \in Session, x \in code : ConsumeRecoveryCode(h, s, x)
        BY <1>4
    <2>2. x \in Secret /\ code' = code \ {x} /\ UNCHANGED <<factor, link, enrolled>> /\ Accept(x)
        BY <2>1, StateKind DEF ConsumeRecoveryCode, Basics
    <2>3. spent'[x] = spent[x] + 1 /\ \A y \in Secret \ {x} : spent'[y] = spent[y]
        BY <2>2, Accepting DEF Basics
    <2>4. PICK e \in Number, n \in 1..CodeCount : x = <<"code", e, n>>
        BY <2>1, <2>2, SecretKinds DEF Basics, Ghosts
    <2>5. spent'[x] = 1 /\ ~ (e > enrolled)
        <3>1. x[2] <= enrolled /\ x[2] = e /\ enrolled \in Int /\ e \in Int
            BY <2>1, <2>4, SecretKinds DEF Basics, Ghosts, Number
        <3>2. spent[x] = 0
            BY <2>1, <2>4 DEF CodesSpent
        <3> QED
            BY <2>3, <3>1, <3>2
    <2>6. StepsInv' /\ LinksSpent'
        <3>1. \A y \in Secret : y[1] # "code" => spent'[y] = spent[y]
            BY <2>3, <2>4, SecretKinds
        <3> QED
            BY <1>a, <2>2, <3>1, SecretKinds, StepsKept DEF LinksSpent
    <2>7. CodesSpent'
        <3> SUFFICES ASSUME NEW d \in Number, NEW m \in 1..CodeCount
                     PROVE  /\ spent'[<<"code", d, m>>] <= 1
                            /\ d > enrolled' \/ <<"code", d, m>> \in code'
                                   => spent'[<<"code", d, m>>] = 0
            BY DEF CodesSpent
        <3>1. CASE <<"code", d, m>> = x
            <4>1. d = e
                BY <2>4, <3>1, SecretKinds
            <4> QED
                BY <2>2, <2>5, <3>1, <4>1
        <3>2. CASE <<"code", d, m>> # x
            <4>1. spent'[<<"code", d, m>>] = spent[<<"code", d, m>>]
                BY <2>3, <3>2, SecretKinds
            <4> QED
                BY <2>2, <4>1 DEF CodesSpent
        <3> QED
            BY <3>1, <3>2
    <2> QED
        BY <2>6, <2>7
<1> QED
    BY <1>2, <1>3, <1>4 DEF Using

-----------------------------------------------------------------------------
(* The lock.                                                                 *)

LEMMA Refusals ==
    ASSUME Sensible
    PROVE  /\ Cardinality(Handler) \in Nat
           /\ IsFiniteSet(Refusing) /\ Cardinality(Refusing) \in Nat
           /\ Cardinality(Refusing) <= Cardinality(Handler)
<1>1. Refusing \subseteq Handler /\ IsFiniteSet(Handler)
    BY DEF Refusing, Sensible
<1> QED
    BY <1>1, FS_Subset, FS_CardinalityType

(* Each lock that runs out makes room for as many guesses as requests.        *)
LEMMA Rooms ==
    ASSUME NEW e \in Nat, NEW n \in Nat
    PROVE  /\ e * n \in Nat /\ (e + 1) * n = e * n + n
           /\ 0 * n = 0
OBVIOUS

LEMMA LockKept ==
    ASSUME Basics, Sensible, LockInv, Refusing' \subseteq Refusing,
           UNCHANGED <<account.failed, account.locked, expired>>
    PROVE  LockInv'
<1>1. IsFiniteSet(Refusing) /\ Cardinality(Refusing) \in Nat
    BY Refusals
<1>2. Cardinality(Refusing') \in Nat /\ Cardinality(Refusing') <= Cardinality(Refusing)
    BY <1>1, FS_Subset, FS_CardinalityType
<1>3. account.failed \in Nat
    BY StateKind DEF Basics, AccountRow
<1>4. expired \in Nat /\ Cardinality(Handler) \in Nat
    BY Refusals DEF Basics, Ghosts
<1>5. (expired + 1) * Cardinality(Handler) \in Nat /\ LockoutThreshold \in Nat
    BY <1>4, Rooms DEF Sensible
<1>6. account.failed + Cardinality(Refusing)
          <= LockoutThreshold - 1 + (expired + 1) * Cardinality(Handler)
    BY DEF LockInv, LockHolds, Refusing
<1>7. account.failed + Cardinality(Refusing')
          <= LockoutThreshold - 1 + (expired + 1) * Cardinality(Handler)
    BY <1>1, <1>2, <1>3, <1>5, <1>6
<1>8. LockHolds'
    BY <1>7 DEF LockHolds, Refusing
<1>9. Unlocked'
    BY DEF LockInv, Unlocked
<1> QED
    BY <1>8, <1>9 DEF LockInv

(* The count starts again.                                                    *)
LEMMA LockCleared ==
    ASSUME Sensible, account'.failed = 0, expired' = 0
    PROVE  LockInv'
<1>1. /\ Cardinality(Handler) \in Nat /\ Cardinality(Refusing') \in Nat
      /\ Cardinality(Refusing') <= Cardinality(Handler)
    <2>1. Refusing' \subseteq Handler /\ IsFiniteSet(Handler)
        BY DEF Refusing, Sensible
    <2> QED
        BY <2>1, FS_Subset, FS_CardinalityType
<1>2. (expired' + 1) * Cardinality(Handler) = Cardinality(Handler)
      /\ expired' * Cardinality(Handler) = 0
    BY <1>1, Rooms
<1>3. account'.failed + Cardinality(Refusing')
          <= LockoutThreshold - 1 + (expired' + 1) * Cardinality(Handler)
    BY <1>1, <1>2 DEF Sensible
<1>4. account'.failed <= LockoutThreshold - 1 + expired' * Cardinality(Handler)
    BY <1>2 DEF Sensible
<1> QED
    BY <1>3, <1>4 DEF LockInv, LockHolds, Unlocked, Refusing

(* A guess begins while there is no lock.                                      *)
LEMMA LockTried ==
    ASSUME Basics, Sensible, LockInv, NEW h \in Handler, NEW right \in BOOLEAN, ReadAccount(h, right)
    PROVE  LockInv'
<1>1. account' = account /\ expired' = expired /\ ~ account.locked
    BY DEF ReadAccount, ghosts
<1>2. Cardinality(Refusing') \in Nat /\ Cardinality(Refusing') <= Cardinality(Handler)
    <2>1. Refusing' \subseteq Handler /\ IsFiniteSet(Handler)
        BY DEF Refusing, Sensible
    <2> QED
        BY <2>1, FS_Subset, FS_CardinalityType
<1>3. expired \in Nat /\ Cardinality(Handler) \in Nat /\ account.failed \in Nat
    BY Refusals, StateKind DEF Basics, Ghosts, AccountRow
<1>4. /\ expired * Cardinality(Handler) \in Nat
      /\ (expired + 1) * Cardinality(Handler) = expired * Cardinality(Handler) + Cardinality(Handler)
    BY <1>3, Rooms
<1>5. account.failed <= LockoutThreshold - 1 + expired * Cardinality(Handler)
    BY <1>1 DEF LockInv, Unlocked
<1>6. account.failed + Cardinality(Refusing')
          <= LockoutThreshold - 1 + (expired + 1) * Cardinality(Handler)
    BY <1>2, <1>3, <1>4, <1>5 DEF Sensible
<1> QED
    BY <1>1, <1>5, <1>6 DEF LockInv, LockHolds, Unlocked, Refusing

(* A failure is counted that was under way.                                    *)
LEMMA LockCounted ==
    ASSUME Basics, Sensible, LockInv, NEW h \in Handler, CountFailure(h)
    PROVE  LockInv'
<1>1. /\ account'.failed = account.failed + 1 /\ expired' = expired
      /\ ~ account'.locked => account.failed + 1 < LockoutThreshold
      /\ account.failed \in Nat /\ expired \in Nat
    <2> DEFINE lock == account.locked \/ account.failed + 1 >= LockoutThreshold
    <2>1. account' = [account EXCEPT !.failed = @ + 1, !.locked = lock] /\ expired' = expired
        BY DEF CountFailure, ghosts
    <2>2. account \in AccountRow /\ account.failed \in Nat /\ expired \in Nat
        BY StateKind DEF Basics, Ghosts, AccountRow
    <2>3. account'.failed = account.failed + 1 /\ account'.locked = lock
        BY <2>1, <2>2 DEF AccountRow
    <2>4. ~ lock => account.failed + 1 < LockoutThreshold
        BY <2>2 DEF Sensible
    <2> HIDE DEF lock
    <2> QED
        BY <2>1, <2>2, <2>3, <2>4
<1>2. Refusing' = Refusing \ {h} /\ h \in Refusing
    BY DEF CountFailure, Finish, Idle, Refusing, Doing, Basics, Kinds
<1>3. Cardinality(Refusing') = Cardinality(Refusing) - 1 /\ Cardinality(Refusing) \in Nat
      /\ Cardinality(Handler) \in Nat
    BY <1>2, Refusals, FS_RemoveElement
<1>4. /\ expired * Cardinality(Handler) \in Nat
      /\ (expired + 1) * Cardinality(Handler) \in Nat
    BY <1>1, <1>3, Rooms
<1>5. account.failed + Cardinality(Refusing)
          <= LockoutThreshold - 1 + (expired + 1) * Cardinality(Handler)
    BY DEF LockInv, LockHolds, Refusing
<1>6. account'.failed + Cardinality(Refusing')
          <= LockoutThreshold - 1 + (expired' + 1) * Cardinality(Handler)
    BY <1>1, <1>3, <1>4, <1>5 DEF Sensible
<1>7. ~ account'.locked => account'.failed <= LockoutThreshold - 1 + expired' * Cardinality(Handler)
    BY <1>1, <1>4 DEF Sensible
<1> QED
    BY <1>6, <1>7 DEF LockInv, LockHolds, Unlocked, Refusing

(* The lock runs out.                                                          *)
LEMMA LockEnds ==
    ASSUME Basics, Sensible, LockInv, job' = job,
           account' = [account EXCEPT !.locked = FALSE], expired' = expired + 1
    PROVE  LockInv'
<1>1. account'.failed = account.failed /\ account.failed \in Nat /\ expired \in Nat
    BY StateKind DEF Basics, Ghosts, AccountRow
<1>2. Refusing' = Refusing /\ Cardinality(Refusing) \in Nat /\ Cardinality(Handler) \in Nat
    BY Refusals DEF Refusing, Doing
<1>3. /\ (expired + 1) * Cardinality(Handler) \in Nat
      /\ (expired' + 1) * Cardinality(Handler)
             = (expired + 1) * Cardinality(Handler) + Cardinality(Handler)
    <2>1. expired + 1 \in Nat
        BY <1>1
    <2> QED
        BY <1>2, <2>1, Rooms
<1>4. account.failed + Cardinality(Refusing)
          <= LockoutThreshold - 1 + (expired + 1) * Cardinality(Handler)
    BY DEF LockInv, LockHolds, Refusing
<1>5. account'.failed + Cardinality(Refusing')
          <= LockoutThreshold - 1 + (expired' + 1) * Cardinality(Handler)
    BY <1>1, <1>2, <1>3, <1>4 DEF Sensible
<1>6. account'.failed <= LockoutThreshold - 1 + expired' * Cardinality(Handler)
    BY <1>1, <1>2, <1>3, <1>4 DEF Sensible
<1> QED
    BY <1>5, <1>6 DEF LockInv, LockHolds, Unlocked, Refusing

(* Nothing else touches the count or begins a guess.                           *)
LEMMA LockStep ==
    ASSUME Basics, Sensible, LockInv, [Next]_vars
    PROVE  LockInv'
<1>1. ASSUME NEW h \in Handler, NEW new, job' = [job EXCEPT ![h] = new], new.at # "refusing",
             account' = account, expired' = expired
      PROVE  LockInv'
    <2>1. Refusing' \subseteq Refusing
        BY <1>1 DEF Refusing, Doing, Basics, Kinds
    <2> QED
        BY <1>1, <2>1, LockKept
<1>a. ASSUME NEW h \in Handler, job'[h].at # "refusing", \A k \in Handler \ {h} : job'[k] = job[k],
             account' = account, expired' = expired
      PROVE  LockInv'
    <2>1. Refusing' \subseteq Refusing
        BY <1>a DEF Refusing, Doing
    <2> QED
        BY <1>a, <2>1, LockKept
<1>2. ASSUME job' = job, account'.failed = account.failed, account'.locked = account.locked,
             expired' = expired
      PROVE  LockInv'
    <2>1. Refusing' \subseteq Refusing
        BY <1>2 DEF Refusing, Doing
    <2> QED
        BY <1>2, <2>1, LockKept
<1>3. Idle.at # "refusing"
    BY DEF Idle
<1>4. CASE Direct
    <2>1. CASE \E s \in Session : ChangePassword(s) \/ Logout(s) \/ \E t \in Session : RevokeOwn(s, t)
        BY <1>2, <2>1 DEF ChangePassword, Logout, RevokeOwn, ghosts
    <2>2. CASE \E status \in {"active", "disabled"} : SetStatus(status)
        BY <1>2, <2>2, StateKind DEF SetStatus, ghosts, AccountRow, Basics
    <2>3. CASE EnforceMfa
        BY <1>2, <2>3, StateKind DEF EnforceMfa, ghosts, AccountRow, Basics
    <2>4. CASE Passing
        BY <1>2, <2>4, LockEnds DEF Passing, TimePasses
    <2>5. CASE UNCHANGED vars
        BY <1>2, <2>5 DEF vars
    <2> QED
        BY <1>4, <2>1, <2>2, <2>3, <2>4, <2>5 DEF Direct
<1>5. CASE \E s \in Session : Setup(s)
    BY <1>2, <1>5 DEF Setup
<1>6. ASSUME NEW h \in Handler, Calm(h)
      PROVE  LockInv'
    <2>1. CASE \E right \in BOOLEAN : ReadAccount(h, right)
        BY <2>1, LockTried
    <2>2. CASE CountFailure(h)
        BY <2>2, LockCounted
    <2>3. CASE ClearFailures(h)
        BY <2>3, LockCleared, StateKind DEF ClearFailures, AccountRow, Basics
    <2>4. CASE OpenSession(h)
        BY <1>1, <1>3, <2>4 DEF OpenSession, Finish, ghosts
    <2>5. CASE \E s \in Session : WrongCode(h, s)
        <3>1. PICK s \in Session : WrongCode(h, s)
            BY <2>5
        <3> DEFINE new == [at |-> "counting", session |-> s]
        <3>2. new.at # "refusing" /\ job' = [job EXCEPT ![h] = new]
            BY <3>1 DEF WrongCode, Start
        <3> QED
            BY <1>1, <3>1, <3>2 DEF WrongCode, ghosts
    <2>6. CASE Rotate(h)
        BY <1>1, <1>3, <2>6 DEF Rotate, Finish, ghosts
    <2>7. CASE RecordMfaFailure(h)
        <3> DEFINE new == IF session[job[h].session].failures + 1 >= MaxMfaAttempts
                          THEN [at |-> "ending", session |-> job[h].session] ELSE Idle
        <3>1. new.at # "refusing"
            BY <1>3
        <3>2. job' = [job EXCEPT ![h] = new]
            BY <2>7 DEF RecordMfaFailure
        <3> HIDE DEF new
        <3> QED
            BY <1>1, <2>7, <3>1, <3>2 DEF RecordMfaFailure, ghosts
    <2>8. CASE EndSession(h)
        BY <1>1, <1>3, <2>8 DEF EndSession, Finish, ghosts
    <2>9. CASE \E l \in Link : FindLink(h, l)
        <3>1. PICK l \in Link : FindLink(h, l)
            BY <2>9
        <3> DEFINE new == [at |-> "resetting", link |-> l]
        <3>2. new.at # "refusing" /\ job' = [job EXCEPT ![h] = new]
            BY <3>1 DEF FindLink, Start
        <3> QED
            BY <1>1, <3>1, <3>2 DEF FindLink, ghosts
    <2>10. CASE Die(h)
        BY <1>1, <1>3, <2>10 DEF Die, Finish, ghosts
    <2> QED
        BY <1>6, <2>1, <2>2, <2>3, <2>4, <2>5, <2>6, <2>7, <2>8, <2>9, <2>10 DEF Calm
<1>7. ASSUME NEW h \in Handler, Using(h)
      PROVE  LockInv'
    <2>1. CASE ClaimTimeStep(h)
        BY <1>1, <2>1 DEF ClaimTimeStep
    <2>2. CASE ApplyReset(h)
        <3>1. CASE link[job[h].link] \in {"open", "expired"}
            BY <2>2, <3>1, LockCleared, StateKind DEF ApplyReset, AccountRow, Basics
        <3>2. CASE link[job[h].link] \notin {"open", "expired"}
            BY <1>1, <1>3, <2>2, <3>2 DEF ApplyReset, Finish
        <3> QED
            BY <3>1, <3>2
    <2>3. CASE \E s \in Session : \E x \in code : ConsumeRecoveryCode(h, s, x)
        <3>1. PICK s \in Session, x \in code : ConsumeRecoveryCode(h, s, x)
            BY <2>3
        <3> DEFINE new == [at |-> "rotating", session |-> s]
        <3>2. new.at # "refusing" /\ job' = [job EXCEPT ![h] = new]
            BY <3>1 DEF ConsumeRecoveryCode, Start
        <3> QED
            BY <1>1, <3>1, <3>2 DEF ConsumeRecoveryCode
    <2> QED
        BY <1>7, <2>1, <2>2, <2>3 DEF Using
<1>8. ASSUME NEW h \in Handler, Switching(h)
      PROVE  LockInv'
    <2>1. CASE \E s \in Session, t \in Step : CheckEnrollment(h, s, t)
        BY <1>a, <2>1, CheckEnrollmentStep DEF CheckEnrollment, ghosts
    <2>2. CASE \E s \in Session, t \in Step : CheckCode(h, s, t)
        BY <1>a, <2>2, CheckCodeStep DEF CheckCode, ghosts
    <2>3. CASE \E s \in Session, t \in Step : CheckDisable(h, s, t)
        <3>1. PICK s \in Session, t \in Step : CheckDisable(h, s, t)
            BY <2>3
        <3>2. Refusing' \subseteq Refusing
            <4> SUFFICES ASSUME NEW k \in Handler, job'[k].at = "refusing"
                         PROVE  job[k].at = "refusing"
                BY DEF Refusing, Doing
            <4> QED
                BY <3>1, CheckDisableStep DEF Informed
        <3>3. account' = account /\ expired' = expired
            BY <3>1 DEF CheckDisable, ghosts
        <3> QED
            BY <3>2, <3>3, LockKept
    <2>4. CASE ReplaceCodes(h)
        BY <1>a, <2>4, ReplaceCodesStep DEF ReplaceCodes, ghosts
    <2>5. CASE Enable(h)
        BY <1>a, <1>3, <2>5, EnableStep DEF Enable
    <2>6. CASE DeleteCodes(h)
        BY <1>a, <2>6, DeleteCodesStep DEF DeleteCodes, ghosts
    <2>7. CASE RemoveFactor(h)
        <3>1. Refusing' \subseteq Refusing
            <4> SUFFICES ASSUME NEW k \in Handler, job'[k].at = "refusing"
                         PROVE  job[k].at = "refusing"
                BY DEF Refusing, Doing
            <4> QED
                BY <1>3, <2>7, RemoveFactorStep DEF Informed
        <3>2. account' = account /\ expired' = expired
            BY <2>7 DEF RemoveFactor
        <3> QED
            BY <3>1, <3>2, LockKept
    <2> QED
        BY <1>8, <2>1, <2>2, <2>3, <2>4, <2>5, <2>6, <2>7 DEF Switching
<1>9. ASSUME NEW h \in Handler, Linking(h)
      PROVE  LockInv'
    <2>1. CASE SendLink(h)
        BY <1>1, <1>3, <2>1 DEF SendLink, Finish, ghosts
    <2>2. CASE \E l \in Link : RetireLinks(h, l)
        BY <1>a, <2>2, RetireLinksStep DEF RetireLinks
    <2> QED
        BY <1>9, <2>1, <2>2 DEF Linking
<1> QED
    BY <1>4, <1>5, <1>6, <1>7, <1>8, <1>9, Steps

-----------------------------------------------------------------------------
(* The recovery codes in force are one set.                                 *)

LEMMA CodesKept ==
    ASSUME CodesInv, ~ Starts(SwitchingOn \cup SwitchingOff), astray' = astray,
           factor'.present = factor.present, factor'.confirmed = factor.confirmed,
           code' \subseteq code
    PROVE  CodesInv'
<1>1. ASSUME NEW k \in Handler, job'[k].at \in SwitchingOn \cup SwitchingOff
      PROVE  job'[k] = job[k]
    BY <1>1 DEF Starts
<1>2. Confirmations'
    BY <1>1 DEF CodesInv, Confirmations, Doing
<1>3. OneHolder'
    BY <1>1 DEF CodesInv, OneHolder, Doing, SwitchingOn
<1>4. Snapshots'
    BY <1>1 DEF CodesInv, Snapshots, Recent, Doing, SwitchingOn, SwitchingOff
<1>5. OneSetOfCodes'
    BY DEF CodesInv, OneSetOfCodes
<1> QED
    BY <1>2, <1>3, <1>4, <1>5 DEF CodesInv

(* A factor that is not confirmed has no codes but those left behind.       *)
LEMMA CodesSetup ==
    ASSUME Basics, CodesInv, NEW s \in Session, Setup(s)
    PROVE  CodesInv'
<1>1. job' = job /\ code' = code /\ astray' = astray /\ factor'.present /\ ~ factor.confirmed
    BY DEF Setup
<1>2. \A x \in code : x[2] \in astray
    BY <1>1 DEF CodesInv, OneSetOfCodes
<1>3. Confirmations' /\ OneHolder' /\ Snapshots'
    BY <1>1 DEF CodesInv, Confirmations, OneHolder, Snapshots, Recent, Doing
<1> QED
    BY <1>1, <1>2, <1>3 DEF CodesInv, OneSetOfCodes

LEMMA CodesChecked ==
    ASSUME Basics, CodesInv, NEW h \in Handler, NEW s \in Session, NEW t \in Step,
           CheckEnrollment(h, s, t)
    PROVE  CodesInv'
<1>1. /\ Untouched /\ job'[h].at = "enabling" /\ ~ job'[h].gone
      /\ (\E k \in Handler : Doing(k, SwitchingOff)) => job'[h].crossed
      /\ \A k \in Handler \ {h} : job'[k] = job[k]
    BY CheckEnrollmentStep
<1>2. factor.present
    BY DEF CheckEnrollment
<1>3. Confirmations'
    BY <1>1, <1>2 DEF CodesInv, Confirmations, Doing, Untouched, SwitchingOff
<1>4. OneHolder' /\ Snapshots'
    BY <1>1 DEF CodesInv, OneHolder, Snapshots, Recent, Doing, Untouched
<1> QED
    BY <1>1, <1>3, <1>4 DEF CodesInv, OneSetOfCodes, Untouched

LEMMA CodesSeen ==
    ASSUME Basics, CodesInv, NEW h \in Handler, ReplaceCodes(h)
    PROVE  CodesInv'
<1>1. /\ Untouched /\ Doing(h, {"enabling"}) /\ (job[h].gone \/ RowIsFree)
      /\ job'[h].at = "replacing" /\ job'[h].gone = job[h].gone
      /\ job'[h].crossed = job[h].crossed /\ job'[h].codes = code
      /\ \A k \in Handler \ {h} : job'[k] = job[k]
    BY ReplaceCodesStep
<1>2. Confirmations'
    BY <1>1 DEF CodesInv, Confirmations, Doing, Untouched, SwitchingOn, SwitchingOff
<1>3. OneHolder'
    BY <1>1 DEF CodesInv, OneHolder, Doing, RowIsFree
<1>4. Snapshots'
    BY <1>1 DEF CodesInv, Snapshots, Recent, Doing, Untouched
<1> QED
    BY <1>1, <1>2, <1>3, <1>4 DEF CodesInv, OneSetOfCodes, Untouched

(* Unless it ran beside a switch-off, a confirmation leaves none of the      *)
(* codes before it; if it did, the ones it makes are not counted.            *)
LEMMA CodesEnabled ==
    ASSUME Basics, Sensible, CodesInv, NEW h \in Handler, Enable(h)
    PROVE  CodesInv'
<1>1. /\ Doing(h, {"replacing"}) /\ job'[h] = Idle
      /\ code' = (code \ job[h].codes) \cup {<<"code", enrolled', n>> : n \in 1..CodeCount}
      /\ astray' = IF job[h].crossed THEN astray \cup {enrolled'} ELSE astray
      /\ \A k \in Handler \ {h} : job'[k] = job[k]
    BY EnableStep
<1>2. factor'.present = factor.present /\ (factor.confirmed => factor'.confirmed)
    BY EnableStep
<1>3. Idle.at \notin SwitchingOn /\ Idle.at \notin SwitchingOff /\ Idle.at = "idle"
    BY DEF Idle, SwitchingOn, SwitchingOff
<1>4. Confirmations'
    BY <1>1, <1>2, <1>3 DEF CodesInv, Confirmations, Doing
<1>5. OneHolder'
    BY <1>1, <1>3 DEF CodesInv, OneHolder, Doing
<1>6. ASSUME NEW x, Recent(x)'
      PROVE  \/ Recent(x) /\ x \notin job[h].codes
             \/ ~ job[h].crossed /\ x[2] = enrolled'
    BY <1>1, <1>6 DEF Recent
<1>7. CASE job[h].crossed
    <2>1. \A x : Recent(x)' => Recent(x)
        BY <1>6, <1>7
    <2>2. Snapshots'
        BY <1>1, <1>3, <2>1 DEF CodesInv, Snapshots, Doing
    <2>3. OneSetOfCodes'
        BY <1>2, <2>1 DEF CodesInv, OneSetOfCodes, Recent
    <2> QED
        BY <1>4, <1>5, <2>2, <2>3 DEF CodesInv
<1>8. CASE ~ job[h].crossed
    <2>1. ~ job[h].gone
        BY <1>1, <1>8 DEF CodesInv, Confirmations, Doing, SwitchingOn
    <2>2. \A x \in Secret : ~ (Recent(x) /\ x \notin job[h].codes)
        BY <1>1, <1>8 DEF CodesInv, Snapshots
    <2>3. \A x \in code' : x \in Secret
        BY EnableStep, StateKind DEF Basics, TypeOK
    <2>4. \A x : Recent(x)' => x[2] = enrolled'
        BY <1>6, <2>2, <2>3 DEF Recent
    <2>5. factor'.confirmed
        BY <2>1, EnableStep
    <2>6. OneSetOfCodes'
        BY <2>4, <2>5 DEF OneSetOfCodes, Recent
    <2>7. ASSUME NEW k \in Handler \ {h}
          PROVE  ~ Doing(k, {"deleting"}) /\ ~ (Doing(k, {"replacing"}) /\ ~ job[k].crossed)
        <3>1. ~ Doing(k, {"deleting"})
            BY <1>1, <1>8 DEF CodesInv, Confirmations, Doing, SwitchingOn, SwitchingOff
        <3>2. Doing(k, {"replacing"}) /\ ~ job[k].crossed => ~ job[k].gone
            BY DEF CodesInv, Confirmations, Doing, SwitchingOn
        <3> QED
            BY <1>1, <2>1, <3>1, <3>2 DEF CodesInv, OneHolder
    <2>8. Snapshots'
        BY <1>1, <1>3, <2>7 DEF Snapshots, Doing
    <2> QED
        BY <1>4, <1>5, <2>6, <2>8 DEF CodesInv
<1> QED
    BY <1>7, <1>8

LEMMA CodesAtRisk ==
    ASSUME Basics, CodesInv, NEW h \in Handler, NEW s \in Session, NEW t \in Step,
           CheckDisable(h, s, t)
    PROVE  CodesInv'
<1>1. /\ Untouched /\ job'[h].at = "removing"
      /\ \A k \in Handler \ {h} :
             IF Doing(k, SwitchingOn)
             THEN Informed(k) /\ job'[k].gone = job[k].gone /\ job'[k].crossed
             ELSE job'[k] = job[k]
    BY CheckDisableStep
<1>2. ASSUME NEW k \in Handler, Doing(k, SwitchingOn)'
      PROVE  k # h /\ Doing(k, SwitchingOn) /\ job'[k].at = job[k].at
             /\ job'[k].gone = job[k].gone /\ job'[k].crossed
    BY <1>1, <1>2 DEF Doing, Informed, SwitchingOn
<1>3. Confirmations'
    BY <1>1, <1>2 DEF CodesInv, Confirmations, Untouched
<1>4. OneHolder'
    BY <1>2 DEF CodesInv, OneHolder, Doing, SwitchingOn
<1>5. ASSUME NEW k \in Handler, Doing(k, {"deleting"})'
      PROVE  job'[k] = job[k]
    BY <1>1, <1>5 DEF Doing, Informed, SwitchingOn
<1>6. Snapshots'
    BY <1>1, <1>2, <1>5 DEF CodesInv, Snapshots, Recent, Doing, Untouched, SwitchingOn
<1> QED
    BY <1>1, <1>3, <1>4, <1>6 DEF CodesInv, OneSetOfCodes, Untouched

LEMMA CodesToDelete ==
    ASSUME Basics, CodesInv, NEW h \in Handler, DeleteCodes(h)
    PROVE  CodesInv'
<1>1. /\ Untouched /\ Doing(h, {"removing"})
      /\ job'[h].at = "deleting" /\ job'[h].codes = code
      /\ \A k \in Handler \ {h} : job'[k] = job[k]
    BY DeleteCodesStep
<1>2. Confirmations'
    BY <1>1 DEF CodesInv, Confirmations, Doing, Untouched, SwitchingOn, SwitchingOff
<1>3. OneHolder'
    BY <1>1 DEF CodesInv, OneHolder, Doing
<1>4. Snapshots'
    BY <1>1 DEF CodesInv, Snapshots, Recent, Doing, Untouched
<1> QED
    BY <1>1, <1>2, <1>3, <1>4 DEF CodesInv, OneSetOfCodes, Untouched

LEMMA CodesRemoved ==
    ASSUME Basics, CodesInv, NEW h \in Handler, RemoveFactor(h)
    PROVE  CodesInv'
<1>1. /\ Doing(h, {"deleting"}) /\ astray' = astray /\ code' = code \ job[h].codes
      /\ job'[h] = Idle
      /\ \A k \in Handler \ {h} :
             IF Doing(k, SwitchingOn)
             THEN Informed(k) /\ job'[k].crossed = job[k].crossed /\ job'[k].gone
             ELSE job'[k] = job[k]
    BY RemoveFactorStep
<1>2. \A x \in code' : x[2] \in astray
    BY <1>1, StateKind DEF CodesInv, Snapshots, Recent, Basics
<1>3. ASSUME NEW k \in Handler, Doing(k, SwitchingOn)'
      PROVE  k # h /\ Doing(k, SwitchingOn) /\ job'[k].crossed = job[k].crossed /\ job'[k].gone
    BY <1>1, <1>3 DEF Doing, Informed, SwitchingOn, Idle
<1>4. ASSUME NEW k \in Handler, Doing(k, SwitchingOn)'
      PROVE  job'[k].crossed
    BY <1>1, <1>3, <1>4 DEF CodesInv, Confirmations, Doing, SwitchingOff
<1>5. Confirmations' /\ OneHolder'
    BY <1>3, <1>4 DEF Confirmations, OneHolder, Doing, SwitchingOn
<1>6. Snapshots' /\ OneSetOfCodes'
    BY <1>1, <1>2 DEF Snapshots, Recent, OneSetOfCodes
<1> QED
    BY <1>5, <1>6 DEF CodesInv

-----------------------------------------------------------------------------
(* The newest link is the one that works.                                   *)

LEMMA LinksKept ==
    ASSUME LinksInv, Kinds, ~ Starts({"asking"}), beside' = beside, \A l \in Link : Older(l)
    PROVE  LinksInv'
<1>1. ASSUME NEW k \in Handler, Doing(k, {"asking"})'
      PROVE  job'[k] = job[k] /\ Doing(k, {"asking"}) /\ job[k].link \in Link
    BY <1>1 DEF Starts, Doing, Kinds, Fits
<1>2. \A l \in Link : /\ (l \in Unused)' => l \in Unused
                      /\ link[l] = "none" <=> link'[l] = "none"
                      /\ link'[l] = "open" => link[l] = "open"
    BY DEF Older, Unused
<1>3. Asking'
    BY <1>1, <1>2 DEF LinksInv, Asking, Neighbours
<1>4. Neighbourly'
    BY <1>2 DEF LinksInv, Neighbourly, Neighbours
<1> QED
    BY <1>3, <1>4 DEF LinksInv

(* A new request has seen every unused link, and is the neighbour of those   *)
(* under way.                                                                *)
LEMMA LinksAsked ==
    ASSUME Basics, LinksInv, NEW h \in Handler, NEW l \in Link, RetireLinks(h, l)
    PROVE  LinksInv'
<1>1. /\ link' = link /\ link[l] = "none"
      /\ \A k \in Handler : Doing(k, {"asking"}) => job[k].link # l
      /\ job'[h].at = "asking" /\ job'[h].link = l /\ job'[h].retired = Unused
      /\ \A k, m \in Link \ {l} : Neighbours(k, m) => Neighbours(k, m)'
      /\ \A k \in Handler : Doing(k, {"asking"}) =>
             Neighbours(job[k].link, l)' /\ Neighbours(l, job[k].link)'
      /\ \A k \in Handler \ {h} : job'[k] = job[k]
    BY RetireLinksStep
<1>2. Unused' = Unused /\ l \notin Unused
    BY <1>1 DEF Unused
<1>3. ASSUME NEW k \in Handler \ {h}, Doing(k, {"asking"})'
      PROVE  /\ job'[k] = job[k] /\ Doing(k, {"asking"})
             /\ job[k].link \in Link \ {l} /\ link[job[k].link] = "none"
    BY <1>1, <1>3 DEF Doing, LinksInv, Asking, Basics, Kinds, Fits
<1>4. ASSUME NEW k \in Handler, Doing(k, {"asking"})'
      PROVE  /\ link'[job'[k].link] = "none"
             /\ \A m \in Link :
                    /\ (m \in Unused)' => \/ m \in job'[k].retired
                                         \/ /\ <<m, job'[k].link>> \in beside'
                                            /\ <<job'[k].link, m>> \in beside'
                    /\ m \in job'[k].retired => link'[m] # "none"
    <2>1. CASE k = h
        BY <1>1, <1>2, <2>1 DEF Unused
    <2>2. CASE k # h
        <3>1. /\ job'[k] = job[k] /\ Doing(k, {"asking"})
              /\ job[k].link \in Link \ {l} /\ link[job[k].link] = "none"
            BY <1>3, <1>4, <2>2
        <3>2. ASSUME NEW m \in Link, m \in Unused
              PROVE  \/ m \in job[k].retired
                     \/ <<m, job[k].link>> \in beside' /\ <<job[k].link, m>> \in beside'
            BY <1>1, <1>2, <3>1, <3>2 DEF LinksInv, Asking, Neighbours
        <3>3. \A m \in Link : m \in job[k].retired => link[m] # "none"
            BY <3>1 DEF LinksInv, Asking
        <3> QED
            BY <1>1, <1>2, <3>1, <3>2, <3>3
    <2> QED
        BY <2>1, <2>2
<1>5. ASSUME NEW j \in Handler, NEW k \in Handler,
             Doing(j, {"asking"})', Doing(k, {"asking"})', j # k
      PROVE  /\ job'[j].link # job'[k].link
             /\ <<job'[j].link, job'[k].link>> \in beside'
             /\ <<job'[k].link, job'[j].link>> \in beside'
    <2>1. CASE j = h
        BY <1>1, <1>3, <1>5, <2>1 DEF Neighbours
    <2>2. CASE k = h
        BY <1>1, <1>3, <1>5, <2>2 DEF Neighbours
    <2>3. CASE j # h /\ k # h
        <3>1. /\ job'[j] = job[j] /\ Doing(j, {"asking"}) /\ job[j].link \in Link \ {l}
              /\ job'[k] = job[k] /\ Doing(k, {"asking"}) /\ job[k].link \in Link \ {l}
            BY <1>3, <1>5, <2>3
        <3>2. job[j].link # job[k].link /\ Neighbours(job[j].link, job[k].link)
            BY <1>5, <3>1 DEF LinksInv, Asking
        <3> QED
            BY <1>1, <3>1, <3>2 DEF Neighbours
    <2> QED
        BY <2>1, <2>2, <2>3
<1>6. Asking'
    BY <1>4, <1>5 DEF Asking, Neighbours
<1>7. Neighbourly'
    <2> SUFFICES ASSUME NEW k \in Link, NEW m \in Link,
                        link'[k] = "open", link'[m] = "open", k # m
                 PROVE  Neighbours(k, m)'
        BY DEF Neighbourly, Neighbours
    <2> QED
        BY <1>1 DEF LinksInv, Neighbourly
<1> QED
    BY <1>6, <1>7 DEF LinksInv

(* What is open beside the new link is what its request had not seen.        *)
LEMMA LinksSent ==
    ASSUME Basics, LinksInv, NEW h \in Handler, SendLink(h)
    PROVE  LinksInv'
<1>1. /\ beside' = beside /\ Doing(h, {"asking"}) /\ job[h].link \in Link
      /\ \A k \in Link : link'[k] = IF k = job[h].link THEN "open"
                                    ELSE IF k \in job[h].retired THEN "used" ELSE link[k]
      /\ job'[h] = Idle /\ Idle.at \notin {"asking"}
      /\ \A k \in Handler \ {h} : job'[k] = job[k]
    BY SendLinkStep DEF Untouched, Idle
<1>2. ASSUME NEW k \in Handler, Doing(k, {"asking"})'
      PROVE  /\ k # h /\ job'[k] = job[k] /\ Doing(k, {"asking"}) /\ job[k].link \in Link
             /\ job[k].link # job[h].link /\ Neighbours(job[h].link, job[k].link)
             /\ link[job[k].link] = "none"
    BY <1>1, <1>2 DEF Doing, LinksInv, Asking, Basics, Kinds, Fits
<1>3. ASSUME NEW k \in Handler, Doing(k, {"asking"})'
      PROVE  /\ link'[job'[k].link] = "none"
             /\ \A m \in Link :
                    /\ (m \in Unused)' => m \in job'[k].retired \/ Neighbours(m, job'[k].link)
                    /\ m \in job'[k].retired => link'[m] # "none"
    <2>1. /\ job'[k] = job[k] /\ Doing(k, {"asking"}) /\ job[k].link \in Link
          /\ job[k].link # job[h].link /\ Neighbours(job[h].link, job[k].link)
          /\ link[job[k].link] = "none"
        BY <1>2, <1>3
    <2>2. link'[job[k].link] = "none"
        BY <1>1, <2>1 DEF LinksInv, Asking
    <2>3. ASSUME NEW m \in Link, (m \in Unused)'
          PROVE  m \in job[k].retired \/ Neighbours(m, job[k].link)
        <3>1. CASE m = job[h].link
            BY <2>1, <3>1
        <3>2. CASE m # job[h].link
            <4>1. m \in Unused
                BY <1>1, <2>3, <3>2 DEF Unused
            <4> QED
                BY <2>1, <4>1 DEF LinksInv, Asking
        <3> QED
            BY <3>1, <3>2
    <2>4. ASSUME NEW m \in Link, m \in job[k].retired
          PROVE  link'[m] # "none"
        BY <1>1, <2>1, <2>4 DEF LinksInv, Asking
    <2> QED
        BY <2>1, <2>2, <2>3, <2>4
<1>4. Asking'
    <2>1. ASSUME NEW j \in Handler, NEW k \in Handler,
                 Doing(j, {"asking"})', Doing(k, {"asking"})', j # k
          PROVE  job'[j].link # job'[k].link /\ Neighbours(job'[j].link, job'[k].link)
        <3>1. /\ job'[j] = job[j] /\ Doing(j, {"asking"})
              /\ job'[k] = job[k] /\ Doing(k, {"asking"})
            BY <1>2, <2>1
        <3> QED
            BY <2>1, <3>1 DEF LinksInv, Asking
    <2> QED
        BY <1>1, <1>3, <2>1 DEF Asking, Neighbours
<1>5. Neighbourly'
    <2>1. ASSUME NEW m \in Link, m # job[h].link, link'[m] = "open"
          PROVE  link[m] = "open" /\ Neighbours(m, job[h].link)
        BY <1>1, <2>1 DEF LinksInv, Asking, Unused
    <2> SUFFICES ASSUME NEW k \in Link, NEW m \in Link,
                        link'[k] = "open", link'[m] = "open", k # m
                 PROVE  Neighbours(k, m)
        BY <1>1 DEF Neighbourly, Neighbours
    <2>2. CASE k = job[h].link \/ m = job[h].link
        BY <2>1, <2>2 DEF Neighbours
    <2>3. CASE k # job[h].link /\ m # job[h].link
        BY <2>1, <2>3 DEF LinksInv, Neighbourly
    <2> QED
        BY <2>2, <2>3
<1> QED
    BY <1>4, <1>5 DEF LinksInv

-----------------------------------------------------------------------------
LEMMA InitInv ==
    ASSUME Init, Sensible
    PROVE  IdentityInv
<1>1. TypeOK
    BY DEF Init, Sensible, TypeOK, AccountRow, FactorRow, NoFactor, SessionRow, NoSession, LinkRow
<1>2. Kinds
    BY DEF Init, Kinds, Fits, Idle
<1>3. Ghosts
    BY DEF Init, Ghosts, Sensible
<1>4. SecretsInv
    BY SecretKinds DEF Init, SecretsInv, CodesSpent, LinksSpent
<1>5. StepsInv
    <2>1. \A g \in Issued, t \in Step : spent[<<"step", g, t>>] = 0
        BY SecretKinds DEF Init
    <2>2. /\ ~ factor.present /\ ~ factor.confirmed
          /\ \A h \in Handler : job[h].at = "idle"
        BY DEF Init, NoFactor, Idle
    <2>3. StepsSpent /\ Unmade
        BY <2>1 DEF StepsSpent, Unmade
    <2>4. Known /\ Unconfirmed /\ Claims
        BY <2>2 DEF Known, Unconfirmed, Claims, Doing, Coding, SwitchingOn, SwitchingOff
    <2> QED
        BY <2>3, <2>4 DEF StepsInv
<1>6. LockInv
    <2>1. Refusing = {}
        BY DEF Init, Refusing, Doing, Idle
    <2>2. Cardinality(Refusing) = 0 /\ Cardinality(Handler) \in Nat
        <3>1. Cardinality(Handler) \in Nat
            BY Refusals
        <3>2. Cardinality({}) = 0
            BY FS_EmptySet
        <3> QED
            BY <2>1, <3>1, <3>2
    <2>3. account.failed = 0 /\ expired = 0
        BY DEF Init
    <2>4. (expired + 1) * Cardinality(Handler) = Cardinality(Handler)
          /\ expired * Cardinality(Handler) = 0
        <3>1. (0 + 1) * Cardinality(Handler) = 0 * Cardinality(Handler) + Cardinality(Handler)
              /\ 0 * Cardinality(Handler) = 0
            BY <2>2, Rooms
        <3> QED
            BY <2>2, <2>3, <3>1
    <2>5. account.failed + Cardinality(Refusing)
              <= LockoutThreshold - 1 + (expired + 1) * Cardinality(Handler)
        BY <2>2, <2>3, <2>4 DEF Sensible
    <2>6. account.failed <= LockoutThreshold - 1 + expired * Cardinality(Handler)
        BY <2>3, <2>4 DEF Sensible
    <2> QED
        BY <2>5, <2>6 DEF LockInv, LockHolds, Unlocked, Refusing
<1>7. CodesInv
    BY DEF Init, CodesInv, Confirmations, OneHolder, Snapshots, Recent, OneSetOfCodes,
           Doing, Idle, SwitchingOn, SwitchingOff
<1>8. LinksInv
    BY DEF Init, LinksInv, Asking, Neighbourly, Doing, Idle
<1> QED
    BY <1>1, <1>2, <1>3, <1>4, <1>5, <1>6, <1>7, <1>8 DEF IdentityInv

LEMMA NextInv ==
    ASSUME IdentityInv, Sensible, [Next]_vars
    PROVE  IdentityInv'
<1>1. Basics /\ StepsInv /\ LockInv /\ SecretsInv /\ CodesInv /\ LinksInv
    BY DEF IdentityInv, Basics
<1>2. SUFFICES Basics' /\ StepsInv' /\ SecretsInv' /\ CodesInv' /\ LinksInv'
    BY <1>1, LockStep DEF IdentityInv, Basics
<1>3. ASSUME ~ Starts(Watched)
      PROVE  ~ Starts(SwitchingOn \cup SwitchingOff) /\ ~ Starts({"asking"})
    BY <1>3 DEF Starts, Watched, SwitchingOn, SwitchingOff
<1>4. ASSUME \A l \in Link : Older(l)
      PROVE  \A l \in Link : link[l] = "used" => link'[l] = "used"
    BY <1>4 DEF Older, Unused
<1>5. CASE Direct
    <2>1. Basics' /\ Untouched /\ (\A l \in Link : Older(l)) /\ ~ Starts(Watched)
        BY <1>1, <1>5, DirectStep DEF Starts
    <2> QED
        BY <1>1, <1>3, <1>4, <2>1, SecretsKept, StepsKept, NoneStarts, CodesKept, LinksKept DEF Untouched, Basics
<1>6. CASE \E s \in Session : Setup(s)
    <2>1. PICK s \in Session : Setup(s)
        BY <1>6
    <2>2. Basics' /\ ~ Starts({"asking"}) /\ beside' = beside /\ \A l \in Link : Older(l)
        BY <1>1, <2>1, SetupStep DEF Starts, Older, Setup
    <2>3. UNCHANGED <<code, enrolled, spent, link>>
        BY <2>1 DEF Setup
    <2> QED
        BY <1>1, <2>1, <2>2, <2>3, SecretsKept, StepsSetup, CodesSetup, LinksKept DEF Basics
<1>7. ASSUME NEW h \in Handler, Calm(h)
      PROVE  Basics' /\ StepsInv' /\ SecretsInv' /\ CodesInv' /\ LinksInv'
    <2>1. Basics' /\ Untouched /\ (\A l \in Link : Older(l)) /\ ~ Starts(Watched)
        BY <1>1, <1>7, CalmStep DEF Older
    <2> QED
        BY <1>1, <1>3, <1>4, <2>1, SecretsKept, StepsKept, NoneStarts, CodesKept, LinksKept DEF Untouched, Basics
<1>8. ASSUME NEW h \in Handler, Using(h)
      PROVE  Basics' /\ StepsInv' /\ SecretsInv' /\ CodesInv' /\ LinksInv'
    BY <1>1, <1>3, <1>8, UsingStep, SecretsUsed, CodesKept, LinksKept DEF Basics
<1>9. ASSUME NEW h \in Handler, Switching(h)
      PROVE  Basics' /\ StepsInv' /\ SecretsInv' /\ CodesInv' /\ LinksInv'
    <2>1. CASE \E s \in Session, t \in Step : CheckEnrollment(h, s, t)
        <3>1. PICK s \in Session, t \in Step : CheckEnrollment(h, s, t)
            BY <2>1
        <3>2. Basics' /\ Untouched /\ link' = link /\ ~ Starts({"asking"})
            BY <1>1, <3>1, CheckEnrollmentStep DEF Starts
        <3>3. GoOn
            <4> SUFFICES ASSUME NEW k \in Handler, Doing(k, Coding)'
                         PROVE  GoesOn(k) \/ Begins(k)
                BY DEF GoOn
            <4>1. CASE k = h
                <5>1. factor.present
                    BY <3>1 DEF CheckEnrollment
                <5> QED
                    BY <1>1, <3>1, <4>1, <5>1, CheckEnrollmentStep DEF Begins, Doing, SwitchingOn
            <4>2. CASE k # h
                BY <1>1, <3>1, <4>2, CheckEnrollmentStep, GoingOn
            <4> QED
                BY <4>1, <4>2
        <3> QED
            BY <1>1, <3>1, <3>2, <3>3, SecretsKept, StepsKept, CodesChecked, LinksKept DEF Untouched, Older, Basics
    <2>7. CASE \E s \in Session, t \in Step : CheckCode(h, s, t)
        <3>1. PICK s \in Session, t \in Step : CheckCode(h, s, t)
            BY <2>7
        <3>2. /\ Basics' /\ Untouched /\ link' = link /\ ~ Starts({"asking"})
              /\ ~ Starts(SwitchingOn \cup SwitchingOff)
            BY <1>1, <3>1, CheckCodeStep DEF Starts, SwitchingOn, SwitchingOff
        <3>3. GoOn
            <4> SUFFICES ASSUME NEW k \in Handler, Doing(k, Coding)'
                         PROVE  GoesOn(k) \/ Begins(k)
                BY DEF GoOn
            <4>1. CASE k = h
                BY <1>1, <3>1, <4>1, CheckCodeStep DEF Begins, Doing, StepsInv, Known
            <4>2. CASE k # h
                BY <1>1, <3>1, <4>2, CheckCodeStep, GoingOn
            <4> QED
                BY <4>1, <4>2
        <3> QED
            BY <1>1, <3>1, <3>2, <3>3, SecretsKept, StepsKept, CodesKept, LinksKept DEF Untouched, Older, Basics
    <2>2. CASE \E s \in Session, t \in Step : CheckDisable(h, s, t)
        <3>1. PICK s \in Session, t \in Step : CheckDisable(h, s, t)
            BY <2>2
        <3>2. Basics' /\ Untouched /\ link' = link /\ ~ Starts({"asking"})
            BY <1>1, <3>1, CheckDisableStep DEF Starts, Informed, Doing, SwitchingOn
        <3>3. GoOn
            <4> SUFFICES ASSUME NEW k \in Handler, Doing(k, Coding)'
                         PROVE  GoesOn(k) \/ Begins(k)
                BY DEF GoOn
            <4>1. CASE k = h
                BY <1>1, <3>1, <4>1, CheckDisableStep
                   DEF Begins, Doing, SwitchingOff, StepsInv, Known
            <4>2. CASE k # h /\ Doing(k, SwitchingOn)
                BY <1>1, <3>1, <4>2, CheckDisableStep DEF GoesOn, Informed, Doing
            <4>3. CASE k # h /\ ~ Doing(k, SwitchingOn)
                BY <1>1, <3>1, <4>3, CheckDisableStep, GoingOn
            <4> QED
                BY <4>1, <4>2, <4>3
        <3> QED
            BY <1>1, <3>1, <3>2, <3>3, SecretsKept, StepsKept, CodesAtRisk, LinksKept DEF Untouched, Older, Basics
    <2>3. CASE ReplaceCodes(h)
        <3>1. Basics' /\ Untouched /\ link' = link /\ ~ Starts({"asking"})
            BY <1>1, <2>3, ReplaceCodesStep DEF Starts
        <3>2. GoOn
            <4> SUFFICES ASSUME NEW k \in Handler, Doing(k, Coding)'
                         PROVE  GoesOn(k)
                BY DEF GoOn
            <4>1. CASE k = h
                BY <1>1, <2>3, <4>1, ReplaceCodesStep DEF GoesOn, Doing, SwitchingOn
            <4>2. CASE k # h
                BY <1>1, <2>3, <4>2, ReplaceCodesStep, GoingOn
            <4> QED
                BY <4>1, <4>2
        <3> QED
            BY <1>1, <2>3, <3>1, <3>2, SecretsKept, StepsKept, CodesSeen, LinksKept DEF Untouched, Older, Basics
    <2>4. CASE Enable(h)
        <3>1. Basics' /\ beside' = beside /\ link' = link
            BY <1>1, <2>4, EnableStep
        <3>2. job'[h] = Idle /\ \A k \in Handler \ {h} : job'[k] = job[k]
            BY <1>1, <2>4, EnableStep
        <3>3. ~ Starts({"asking"})
            BY <3>2 DEF Starts, Idle
        <3> QED
            BY <1>1, <2>4, <3>1, <3>3, SecretsEnabled, StepsEnabled, CodesEnabled, LinksKept DEF Older, Basics
    <2>5. CASE DeleteCodes(h)
        <3>1. Basics' /\ Untouched /\ link' = link /\ ~ Starts({"asking"})
            BY <1>1, <2>5, DeleteCodesStep DEF Starts
        <3>2. GoOn
            <4> SUFFICES ASSUME NEW k \in Handler, Doing(k, Coding)'
                         PROVE  GoesOn(k)
                BY DEF GoOn
            <4>1. CASE k = h
                BY <1>1, <2>5, <4>1, DeleteCodesStep DEF GoesOn, Doing, SwitchingOff
            <4>2. CASE k # h
                BY <1>1, <2>5, <4>2, DeleteCodesStep, GoingOn
            <4> QED
                BY <4>1, <4>2
        <3> QED
            BY <1>1, <2>5, <3>1, <3>2, SecretsKept, StepsKept, CodesToDelete, LinksKept DEF Untouched, Older, Basics
    <2>6. CASE RemoveFactor(h)
        <3>1. Basics' /\ beside' = beside /\ link' = link /\ ~ Starts({"asking"})
            BY <1>1, <2>6, RemoveFactorStep DEF Starts, Idle, Informed, Doing, SwitchingOn
        <3> QED
            BY <1>1, <2>6, <3>1, SecretsRemoved, StepsRemoved, CodesRemoved, LinksKept DEF Older, Basics
    <2> QED
        BY <1>9, <2>1, <2>7, <2>2, <2>3, <2>4, <2>5, <2>6 DEF Switching
<1>10. ASSUME NEW h \in Handler, Linking(h)
       PROVE  Basics' /\ StepsInv' /\ SecretsInv' /\ CodesInv' /\ LinksInv'
    <2>1. CASE SendLink(h)
        <3>1. /\ Basics' /\ Untouched /\ ~ Starts(SwitchingOn \cup SwitchingOff)
              /\ ~ Starts(Watched)
              /\ \A l \in Link : link[l] = "used" => link'[l] = "used"
            <4>1. Basics' /\ Untouched /\ Doing(h, {"asking"})
                BY <1>1, <2>1, SendLinkStep
            <4>2. ~ Starts(SwitchingOn \cup SwitchingOff) /\ ~ Starts(Watched)
                BY <1>1, <2>1, SendLinkStep DEF Starts, Idle, SwitchingOn, SwitchingOff, Watched
            <4>3. link[job[h].link] = "none"
                BY <1>1, <4>1 DEF LinksInv, Asking
            <4> QED
                BY <1>1, <2>1, <4>1, <4>2, <4>3, SendLinkStep
        <3> QED
            BY <1>1, <2>1, <3>1, SecretsKept, StepsKept, NoneStarts, CodesKept, LinksSent DEF Untouched
    <2>2. CASE \E l \in Link : RetireLinks(h, l)
        <3>1. PICK l \in Link : RetireLinks(h, l)
            BY <2>2
        <3>2. /\ Basics' /\ UNCHANGED <<factor, code, link, made, enrolled, spent, exempt, astray>>
              /\ ~ Starts(SwitchingOn \cup SwitchingOff)
            BY <1>1, <3>1, RetireLinksStep DEF Starts, SwitchingOn, SwitchingOff
        <3>3. GoOn
            <4> SUFFICES ASSUME NEW k \in Handler, Doing(k, Coding)'
                         PROVE  GoesOn(k)
                BY DEF GoOn
            <4>1. k # h
                BY <1>1, <3>1, RetireLinksStep DEF Doing, Coding, SwitchingOn, SwitchingOff
            <4> QED
                BY <1>1, <3>1, <4>1, RetireLinksStep, GoingOn
        <3> QED
            BY <1>1, <3>1, <3>2, <3>3, SecretsKept, StepsKept, CodesKept, LinksAsked
    <2> QED
        BY <1>10, <2>1, <2>2 DEF Linking
<1> QED
    BY <1>5, <1>6, <1>7, <1>8, <1>9, <1>10, Steps

(* The inductive invariant holds of every behaviour.                       *)
THEOREM IdentityInvariance == ASSUME Sensible PROVE Spec => []IdentityInv
<1>1. Init => IdentityInv
    BY InitInv
<1>2. IdentityInv /\ [Next]_vars => IdentityInv'
    BY NextInv
<1> QED
    BY <1>1, <1>2, PTL DEF Spec

(* The rows of the identity tables keep their types.                       *)
THEOREM IdentityTypes == ASSUME Sensible PROVE Spec => []TypeOK
<1>1. IdentityInv => TypeOK
    BY DEF IdentityInv
<1> QED
    BY <1>1, IdentityInvariance, PTL

(* However many requests the auth, mfa and password services answer at the *)
(* same moment: a secret works once, the lock lets no more guesses through *)
(* than requests were under way when it fell, the recovery codes are those *)
(* of one enrollment of a confirmed factor and the open reset link is the  *)
(* newest.  The exceptions are part of the statement: the TOTP codes in    *)
(* exempt, the enrollments in astray, the pairs of links in beside.        *)
THEOREM SignInStaysExact == ASSUME Sensible PROVE Spec => []SignInIsExact
<1>1. IdentityInv => SignInIsExact
    <2> SUFFICES ASSUME IdentityInv PROVE SignInIsExact
        OBVIOUS
    <2>1. SecretsWorkOnce
        <3> SUFFICES ASSUME NEW x \in Secret \ exempt PROVE spent[x] <= 1
            BY DEF SecretsWorkOnce
        <3>1. CASE \E g \in Issued, t \in Step : x = <<"step", g, t>>
            BY <3>1 DEF IdentityInv, StepsInv, StepsSpent, Exempt
        <3>2. CASE \E e \in Number, n \in 1..CodeCount : x = <<"code", e, n>>
            BY <3>2 DEF IdentityInv, SecretsInv, CodesSpent
        <3>3. CASE \E l \in Link : x = <<"link", l>>
            BY <3>3 DEF IdentityInv, SecretsInv, LinksSpent
        <3> QED
            BY <3>1, <3>2, <3>3, SecretKinds
    <2>2. LockHolds /\ OneSetOfCodes
        BY DEF IdentityInv, LockInv, CodesInv
    <2>3. NewestLinkWorks
        BY DEF IdentityInv, LinksInv, Neighbourly, Neighbours, NewestLinkWorks
    <2> QED
        BY <2>1, <2>2, <2>3 DEF SignInIsExact
<1> QED
    BY <1>1, IdentityInvariance, PTL
=============================================================================
