---------------------------- MODULE StaffAccess ----------------------------
(***************************************************************************)
(* Staff accounts: invitations and their links, roles, disabling, and the  *)
(* rule that an active administrator must remain.  A handler's steps are   *)
(* its reads, taken in READ COMMITTED with no lock on the account, and its *)
(* commit.  The guard of assertAnotherAdmin is an advisory lock held until *)
(* the transaction ends.  Ending the sessions of a disabled account is     *)
(* left to the identity module, the audit entry to AuditChain.             *)
(***************************************************************************)
EXTENDS Integers, FiniteSets

CONSTANTS User,             \* people, named by their e-mail
          Founder,          \* those who are administrators at the start
          Worker,           \* transactions in progress
          MaxTokens,        \* bound: invitation links issued
          MaxGrants,        \* bound: roles given to existing accounts
          None

Role == {"admin", "secretary"}
Token == 1..MaxTokens

VARIABLES
    account,    \* per person: does the account exist, its status and password
    assigned,   \* user_role_assignments: user, role and the row's id
    token,      \* user_invitations
    issued,     \* links issued so far
    grants,     \* roles given so far, which number the assignments
    uses,       \* ghost: times each link set a password
    tx          \* per worker: the handler, its step and what it has read
vars == <<account, assigned, token, issued, grants, uses, tx>>

NoAccount == [status |-> "none", password |-> FALSE]
NoToken == [user |-> None, accepted |-> FALSE, revoked |-> FALSE, expired |-> FALSE]
NoTx == [op |-> "idle", at |-> "idle", user |-> None, row |-> None, links |-> {}]

Row(u, r, id) == [user |-> u, role |-> r, id |-> id]
HasRole(u, r) == \E a \in assigned : a.user = u /\ a.role = r

Init == /\ account = [u \in User |-> IF u \in Founder
                                     THEN [status |-> "active", password |-> TRUE]
                                     ELSE NoAccount]
        /\ assigned = {Row(u, "admin", 0) : u \in Founder}
        /\ token = [t \in Token |-> NoToken]
        /\ issued = 0 /\ grants = 0
        /\ uses = [t \in Token |-> 0]
        /\ tx = [w \in Worker |-> NoTx]

Exists(u) == account[u].status # "none"
Usable(u) == account[u].status = "active" /\ account[u].password
ActiveAdmin(u) == Usable(u) /\ HasRole(u, "admin")
Manages(u) == Usable(u) /\ HasRole(u, "admin")      \* users.manage is the admin's
-----------------------------------------------------------------------------
(* One statement each after their checks: they commit in one step.         *)

NewToken(u) == [NoToken EXCEPT !.user = u]

Invite(u, r) ==
    /\ \E a \in User : Manages(a)
    /\ ~Exists(u)
    /\ issued < MaxTokens
    /\ account' = [account EXCEPT ![u] = [status |-> "active", password |-> FALSE]]
    /\ assigned' = assigned \cup {Row(u, r, 0)}
    /\ issued' = issued + 1
    /\ token' = [token EXCEPT ![issued + 1] = NewToken(u)]
    /\ UNCHANGED <<grants, uses, tx>>

AssignRole(u, r) ==
    /\ \E a \in User : Manages(a)
    /\ Exists(u) /\ ~HasRole(u, r)
    /\ grants < MaxGrants /\ grants' = grants + 1
    /\ assigned' = assigned \cup {Row(u, r, grants + 1)}
    /\ UNCHANGED <<account, token, issued, uses, tx>>

\* The command line: make the account if there is none, and an administrator of it.
EnsureAdmin(u) ==
    /\ grants < MaxGrants /\ grants' = grants + 1
    /\ IF Exists(u) THEN UNCHANGED account
       ELSE \E password \in BOOLEAN :
                account' = [account EXCEPT ![u] = [status |-> "active", password |-> password]]
    /\ assigned' = IF HasRole(u, "admin") THEN assigned
                   ELSE assigned \cup {Row(u, "admin", grants + 1)}
    /\ UNCHANGED <<token, issued, uses, tx>>

Enable(u) == /\ \E a \in User \ {u} : Manages(a)
             /\ Exists(u)
             /\ account' = [account EXCEPT ![u].status = "active"]
             /\ UNCHANGED <<assigned, token, issued, grants, uses, tx>>

Expire(t) == /\ token[t] # NoToken /\ ~token[t].expired
             /\ token' = [token EXCEPT ![t].expired = TRUE]
             /\ UNCHANGED <<account, assigned, issued, grants, uses, tx>>
-----------------------------------------------------------------------------
(* Disabling an account and taking a role away.                            *)

AdminRow(u) == IF HasRole(u, "admin")
               THEN CHOOSE a \in assigned : a.user = u /\ a.role = "admin" ELSE None

Reading(w, op, u, row) ==
    /\ tx[w] = NoTx
    /\ tx' = [tx EXCEPT ![w] = [op |-> op, at |-> "read", user |-> u, row |-> row,
                                links |-> {}]]
    /\ UNCHANGED <<account, assigned, token, issued, grants, uses>>

\* One cannot disable oneself.
ReadToDisable(w, u) == /\ \E a \in User \ {u} : Manages(a)
                       /\ Exists(u)
                       /\ Reading(w, "disable", u, AdminRow(u))

ReadToRemove(w, row) == /\ \E a \in User : Manages(a)
                        /\ row \in assigned
                        /\ Reading(w, "remove", row.user, row)

Guarded(w) == tx[w].at = "guarded"
NeedsGuard(w) == tx[w].row # None /\ tx[w].row.role = "admin"

\* MUTANT: the advisory lock is not taken
AssertWithoutLock(w) ==
    /\ tx[w].op \in {"disable", "remove"} /\ tx[w].at = "read" /\ NeedsGuard(w)
    /\ \E u \in User \ {tx[w].user} : ActiveAdmin(u)
    /\ tx' = [tx EXCEPT ![w].at = "guarded"]
    /\ UNCHANGED <<account, assigned, token, issued, grants, uses>>
\* With nobody else to administer, the handler refuses: see Abandon.
AssertAnotherAdmin(w) ==
    /\ tx[w].op \in {"disable", "remove"} /\ tx[w].at = "read" /\ NeedsGuard(w)
    /\ \A v \in Worker : ~Guarded(v)
    /\ \E u \in User \ {tx[w].user} : ActiveAdmin(u)
    /\ tx' = [tx EXCEPT ![w].at = "guarded"]
    /\ UNCHANGED <<account, assigned, token, issued, grants, uses>>

Disable(w) ==
    /\ tx[w].op = "disable"
    /\ Guarded(w) \/ ~NeedsGuard(w)
    /\ account' = [account EXCEPT ![tx[w].user].status = "disabled"]
    /\ tx' = [tx EXCEPT ![w] = NoTx]
    /\ UNCHANGED <<assigned, token, issued, grants, uses>>

RemoveAssignment(w) ==
    /\ tx[w].op = "remove"
    /\ Guarded(w) \/ ~NeedsGuard(w)
    /\ assigned' = assigned \ {tx[w].row}
    /\ tx' = [tx EXCEPT ![w] = NoTx]
    /\ UNCHANGED <<account, token, issued, grants, uses>>
-----------------------------------------------------------------------------
(* Invitation links.                                                       *)

Open(t) == token[t] # NoToken /\ ~token[t].accepted /\ ~token[t].revoked
Invited(u) == account[u].status = "active" /\ ~account[u].password

ReadToResend(w, u) == /\ \E a \in User : Manages(a)
                      /\ Invited(u)
                      /\ Reading(w, "resend", u, None)

\* The UPDATE sees the links committed when it starts, waits for those another
\* transaction is changing, and then looks at them again.
SeeOpenLinks(w) ==
    /\ tx[w].op = "resend" /\ tx[w].at = "read"
    /\ tx' = [tx EXCEPT ![w].at = "revoking",
                        ![w].links = {t \in Token : Open(t) /\ token[t].user = tx[w].user}]
    /\ UNCHANGED <<account, assigned, token, issued, grants, uses>>

Reissue(w) ==
    /\ tx[w].op = "resend" /\ tx[w].at = "revoking"
    /\ issued < MaxTokens /\ issued' = issued + 1
    /\ token' = [t \in Token |->
                    IF t = issued + 1 THEN NewToken(tx[w].user)
                    ELSE IF t \in tx[w].links /\ Open(t) THEN [token[t] EXCEPT !.revoked = TRUE]
                    ELSE token[t]]
    /\ tx' = [tx EXCEPT ![w] = NoTx]
    /\ UNCHANGED <<account, assigned, grants, uses>>

FindOpen(w, t) ==
    /\ tx[w] = NoTx
    /\ Open(t) /\ ~token[t].expired /\ Invited(token[t].user)
    /\ tx' = [tx EXCEPT ![w] = [op |-> "accept", at |-> "read", user |-> token[t].user,
                                row |-> None, links |-> {t}]]
    /\ UNCHANGED <<account, assigned, token, issued, grants, uses>>

\* A weak password or a link used meanwhile rolls back: see Abandon.
Accept(w) ==
    \E t \in tx[w].links :
    /\ tx[w].op = "accept"
    /\ ~token[t].accepted
    /\ token' = [token EXCEPT ![t].accepted = TRUE]
    /\ account' = [account EXCEPT ![tx[w].user].password = TRUE]
    /\ uses' = [uses EXCEPT ![t] = @ + 1]
    /\ tx' = [tx EXCEPT ![w] = NoTx]
    /\ UNCHANGED <<assigned, issued, grants>>

\* A handler refuses, or its process dies: rolled back.
Abandon(w) == /\ tx[w] # NoTx
              /\ tx' = [tx EXCEPT ![w] = NoTx]
              /\ UNCHANGED <<account, assigned, token, issued, grants, uses>>
-----------------------------------------------------------------------------
Next == \/ \E u \in User : \/ \E r \in Role : Invite(u, r) \/ AssignRole(u, r)
                           \/ EnsureAdmin(u) \/ Enable(u)
        \/ \E t \in Token : Expire(t)
        \/ \E w \in Worker :
             \/ \E u \in User : ReadToDisable(w, u) \/ ReadToResend(w, u)
             \/ \E row \in assigned : ReadToRemove(w, row)
             \/ AssertAnotherAdmin(w) \/ Disable(w) \/ RemoveAssignment(w)
             \/ SeeOpenLinks(w) \/ Reissue(w)
             \/ \E t \in Token : FindOpen(w, t)
             \/ Accept(w) \/ Abandon(w)

Spec == Init /\ [][Next]_vars
=============================================================================
