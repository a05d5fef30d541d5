------------------------- MODULE StaffAccessProofs -------------------------
(***************************************************************************)
(* Proofs about StaffAccess: for any number of people, administrators and  *)
(* transactions, taking administrators away leaves one, and an invitation  *)
(* works once.                                                             *)
(*                                                                         *)
(* assertAnotherAdmin lets one transaction at a time past the count of     *)
(* administrators, and what it counted stays true to that transaction's    *)
(* end (GuardHolds): another one that disables somebody without the guard  *)
(* has read that they are no administrator, and as long as no role is      *)
(* given to an account that exists they do not become one.                 *)
(***************************************************************************)
EXTENDS StaffAccessProperties, TLAPS

(* Somebody is an administrator at the start, and an empty column is not   *)
(* mistaken for an assignment.                                             *)
Sensible == /\ Founder \subseteq User /\ Founder # {}
            /\ None \notin Assignment
            /\ MaxTokens \in Nat /\ MaxGrants \in Nat

-----------------------------------------------------------------------------
(* The inductive invariant. *)

(* What a transaction has read about the account it is to change. *)
BegunBy(w) ==
    /\ tx[w].op # "idle" => tx[w].user \in User
    /\ tx[w].at = "guarded" => tx[w].op \in {"disable", "remove"} /\ NeedsGuard(w)
    /\ tx[w].op = "remove" => tx[w].row # None
    /\ tx[w].row # None => tx[w].row.user = tx[w].user
    /\ tx[w].op = "disable" =>
          /\ tx[w].row # None => tx[w].row.role = "admin"
          /\ tx[w].row = None /\ grants = 0
                => Exists(tx[w].user) /\ ~HasRole(tx[w].user, "admin")
    /\ tx[w].op = "accept" => \A t \in tx[w].links : t <= issued
Begun == \A w \in Worker : BegunBy(w)

(* One transaction at a time is past the guard, and what let it pass holds. *)
OneGuard == \A v, w \in Worker : Guarded(v) /\ Guarded(w) => v = w
GuardHolds == grants = 0 =>
    \A w \in Worker : Guarded(w) => \E u \in User \ {tx[w].user} : ActiveAdmin(u)

(* A link is somebody's once it is issued, and not there to be followed before. *)
Links == \A t \in Token : IF t <= issued THEN token[t].user \in User
                           ELSE token[t] = NoToken /\ uses[t] = 0

StaffInv == TypeOK /\ Begun /\ OneGuard /\ GuardHolds /\ Links /\ StaffIsSafe

-----------------------------------------------------------------------------
(* Steps. *)
AccountRow == [status : {"none", "active", "disabled"}, password : BOOLEAN]
TokenRow == [user : User \cup {None}, accepted : BOOLEAN, revoked : BOOLEAN, expired : BOOLEAN]
TxRow == [op : {"idle", "disable", "remove", "resend", "accept"},
          at : {"idle", "read", "guarded", "revoking"},
          user : User \cup {None}, row : Assignment \cup {None}, links : SUBSET Token]

Begins(w) == \/ \E u \in User : ReadToDisable(w, u) \/ ReadToResend(w, u)
             \/ \E row \in assigned : ReadToRemove(w, row)
             \/ \E t \in Token : FindOpen(w, t)
Ends(w) == Disable(w) \/ RemoveAssignment(w) \/ Reissue(w) \/ Accept(w) \/ Abandon(w)
Directly == \/ \E u \in User : \/ \E r \in Role : Invite(u, r) \/ AssignRole(u, r)
                               \/ EnsureAdmin(u) \/ Enable(u)
            \/ \E t \in Token : Expire(t)
            \/ UNCHANGED vars

LEMMA Steps ==
    ASSUME [Next]_vars
    PROVE  \/ Directly
           \/ \E w \in Worker : Begins(w) \/ AssertAnotherAdmin(w) \/ SeeOpenLinks(w) \/ Ends(w)
BY DEF Next, Directly, Begins, Ends

LEMMA StateKind ==
    ASSUME TypeOK
    PROVE  /\ account \in [User -> AccountRow] /\ assigned \in SUBSET Assignment
           /\ token \in [Token -> TokenRow] /\ uses \in [Token -> 0..1]
           /\ issued \in 0..MaxTokens /\ grants \in 0..MaxGrants
           /\ tx \in [Worker -> TxRow]
BY DEF TypeOK, AccountRow, TokenRow, TxRow

LEMMA TxKind ==
    ASSUME TypeOK, NEW w \in Worker
    PROVE  /\ tx[w] \in TxRow
           /\ tx[w].op \in {"idle", "disable", "remove", "resend", "accept"}
           /\ tx[w].at \in {"idle", "read", "guarded", "revoking"}
           /\ tx[w].user \in User \cup {None} /\ tx[w].row \in Assignment \cup {None}
           /\ tx[w].links \in SUBSET Token
<1>1. tx[w] \in TxRow
    BY StateKind
<1> QED
    BY <1>1 DEF TxRow

(* What a transaction becomes. *)
Becomes(w, op, at, user, row, links) ==
    /\ tx' \in [Worker -> TxRow]
    /\ tx'[w].op = op /\ tx'[w].at = at /\ tx'[w].user = user
    /\ tx'[w].row = row /\ tx'[w].links = links
    /\ \A v \in Worker \ {w} : tx'[v] = tx[v]

LEMMA Becoming ==
    ASSUME TypeOK, NEW w \in Worker, NEW new \in TxRow, tx' = [tx EXCEPT ![w] = new]
    PROVE  Becomes(w, new.op, new.at, new.user, new.row, new.links)
<1>1. tx \in [Worker -> TxRow]
    BY StateKind
<1>2. tx' \in [Worker -> TxRow] /\ tx'[w] = new /\ \A v \in Worker \ {w} : tx'[v] = tx[v]
    BY <1>1
<1> QED
    BY <1>2 DEF Becomes

LEMMA AdminRowKind ==
    ASSUME TypeOK, NEW u \in User
    PROVE  /\ AdminRow(u) \in Assignment \cup {None}
           /\ AdminRow(u) # None => AdminRow(u).user = u /\ AdminRow(u).role = "admin"
           /\ Sensible /\ AdminRow(u) = None => ~HasRole(u, "admin")
<1>1. CASE HasRole(u, "admin")
    <2>1. PICK a \in assigned : a = AdminRow(u) /\ a.user = u /\ a.role = "admin"
        BY <1>1 DEF HasRole, AdminRow
    <2>2. a \in Assignment
        BY StateKind
    <2> QED
        BY <2>1, <2>2 DEF Sensible
<1>2. CASE ~HasRole(u, "admin")
    BY <1>2 DEF AdminRow
<1> QED
    BY <1>1, <1>2

LEMMA TxSteps ==
    ASSUME TypeOK, NEW w \in Worker
    PROVE  /\ \A u \in User :
                 /\ ReadToDisable(w, u) => Becomes(w, "disable", "read", u, AdminRow(u), {})
                 /\ ReadToResend(w, u) => Becomes(w, "resend", "read", u, None, {})
           /\ \A row \in assigned :
                 ReadToRemove(w, row) => Becomes(w, "remove", "read", row.user, row, {})
           /\ \A t \in Token :
                 FindOpen(w, t) => Becomes(w, "accept", "read", token[t].user, None, {t})
           /\ AssertAnotherAdmin(w)
                 => Becomes(w, tx[w].op, "guarded", tx[w].user, tx[w].row, tx[w].links)
           /\ SeeOpenLinks(w) =>
                 Becomes(w, "resend", "revoking", tx[w].user, tx[w].row,
                         {t \in Token : Open(t) /\ token[t].user = tx[w].user})
           /\ Ends(w) => Becomes(w, "idle", "idle", None, None, {})
<1>1. ASSUME NEW op \in {"disable", "remove", "resend", "accept"}, NEW u \in User \cup {None},
             NEW row \in Assignment \cup {None}, NEW links \in SUBSET Token,
             tx' = [tx EXCEPT ![w] = [op |-> op, at |-> "read", user |-> u, row |-> row,
                                      links |-> links]]
      PROVE  Becomes(w, op, "read", u, row, links)
    <2>1. PICK new : new = [op |-> op, at |-> "read", user |-> u, row |-> row, links |-> links]
        OBVIOUS
    <2>2. /\ new \in TxRow /\ new.op = op /\ new.at = "read" /\ new.user = u
          /\ new.row = row /\ new.links = links
        BY <2>1 DEF TxRow
    <2>3. tx' = [tx EXCEPT ![w] = new]
        BY <1>1, <2>1
    <2> QED
        BY <2>2, <2>3, Becoming
<1>2. ASSUME NEW op \in {"disable", "remove", "resend", "accept"}, NEW u \in User,
             NEW row \in Assignment \cup {None}, Reading(w, op, u, row)
      PROVE  Becomes(w, op, "read", u, row, {})
    BY <1>1, <1>2 DEF Reading
<1>3. ASSUME NEW u \in User, ReadToDisable(w, u)
      PROVE  Becomes(w, "disable", "read", u, AdminRow(u), {})
    BY <1>2, <1>3, AdminRowKind DEF ReadToDisable
<1>4. ASSUME NEW u \in User, ReadToResend(w, u)
      PROVE  Becomes(w, "resend", "read", u, None, {})
    BY <1>2, <1>4 DEF ReadToResend
<1>5. ASSUME NEW row \in assigned, ReadToRemove(w, row)
      PROVE  Becomes(w, "remove", "read", row.user, row, {})
    <2>1. row \in Assignment
        BY StateKind
    <2>2. row.user \in User
        BY <2>1 DEF Assignment
    <2> QED
        BY <1>2, <1>5, <2>1, <2>2 DEF ReadToRemove
<1>6. ASSUME NEW t \in Token, FindOpen(w, t)
      PROVE  Becomes(w, "accept", "read", token[t].user, None, {t})
    <2>1. token[t] \in TokenRow
        BY StateKind
    <2>2. token[t].user \in User \cup {None}
        BY <2>1 DEF TokenRow
    <2> QED
        BY <1>1, <1>6, <2>2 DEF FindOpen
<1>7. ASSUME AssertAnotherAdmin(w)
      PROVE  Becomes(w, tx[w].op, "guarded", tx[w].user, tx[w].row, tx[w].links)
    <2>1. PICK row \in TxRow : row = tx[w]
        BY TxKind
    <2>2. PICK new : new = [row EXCEPT !.at = "guarded"]
        OBVIOUS
    <2>3. /\ new \in TxRow /\ new.at = "guarded" /\ new.op = row.op /\ new.user = row.user
          /\ new.row = row.row /\ new.links = row.links
        BY <2>2 DEF TxRow
    <2>4. tx' = [tx EXCEPT ![w] = new]
        BY <1>7, <2>1, <2>2, StateKind DEF AssertAnotherAdmin
    <2> QED
        BY <2>1, <2>3, <2>4, Becoming
<1>8. ASSUME SeeOpenLinks(w)
      PROVE  Becomes(w, "resend", "revoking", tx[w].user, tx[w].row,
                     {t \in Token : Open(t) /\ token[t].user = tx[w].user})
    <2>1. PICK row \in TxRow : row = tx[w]
        BY TxKind
    <2>2. PICK links \in SUBSET Token :
             links = {t \in Token : Open(t) /\ token[t].user = tx[w].user}
        OBVIOUS
    <2>3. PICK new : new = [row EXCEPT !.at = "revoking", !.links = links]
        OBVIOUS
    <2>4. /\ new \in TxRow /\ new.at = "revoking" /\ new.op = row.op /\ new.user = row.user
          /\ new.row = row.row /\ new.links = links
        BY <2>3 DEF TxRow
    <2>5. tx' = [tx EXCEPT ![w] = new] /\ row.op = "resend"
        BY <1>8, <2>1, <2>2, <2>3, StateKind DEF SeeOpenLinks
    <2> QED
        BY <2>1, <2>2, <2>4, <2>5, Becoming
<1>9. ASSUME Ends(w)
      PROVE  Becomes(w, "idle", "idle", None, None, {})
    <2>1. PICK new : new = [op |-> "idle", at |-> "idle", user |-> None, row |-> None,
                            links |-> {}]
        OBVIOUS
    <2>2. /\ new \in TxRow /\ new.op = "idle" /\ new.at = "idle" /\ new.user = None
          /\ new.row = None /\ new.links = {}
        BY <2>1 DEF TxRow
    <2>3. tx' = [tx EXCEPT ![w] = new]
        BY <1>9, <2>1
        DEF Ends, Disable, RemoveAssignment, Reissue, Accept, Abandon, NoTx
    <2> QED
        BY <2>2, <2>3, Becoming
<1> QED
    BY <1>3, <1>4, <1>5, <1>6, <1>7, <1>8, <1>9

-----------------------------------------------------------------------------
(* What becomes of an account. *)
Account(u, status, password) ==
    /\ account' \in [User -> AccountRow]
    /\ account'[u].status = status /\ account'[u].password = password
    /\ \A v \in User \ {u} : account'[v] = account[v]

LEMMA AccountKind ==
    ASSUME TypeOK, NEW u \in User
    PROVE  /\ account[u] \in AccountRow /\ account[u].password \in BOOLEAN
           /\ account[u].status \in {"none", "active", "disabled"}
<1>1. account[u] \in AccountRow
    BY StateKind
<1> QED
    BY <1>1 DEF AccountRow

LEMMA AccountSet ==
    ASSUME TypeOK, NEW u \in User, NEW new \in AccountRow,
           account' = [account EXCEPT ![u] = new]
    PROVE  Account(u, new.status, new.password)
<1>1. account \in [User -> AccountRow]
    BY StateKind
<1>2. /\ account' \in [User -> AccountRow] /\ account'[u] = new
      /\ \A v \in User \ {u} : account'[v] = account[v]
    BY <1>1
<1> QED
    BY <1>2 DEF Account

LEMMA AccountSteps ==
    ASSUME TypeOK, Begun, NEW u \in User
    PROVE  /\ \A r \in Role : Invite(u, r) => Account(u, "active", FALSE)
           /\ EnsureAdmin(u) => \/ UNCHANGED account
                                \/ ~Exists(u) /\ \E p \in BOOLEAN : Account(u, "active", p)
           /\ Enable(u) => Account(u, "active", account[u].password)
           /\ \A w \in Worker :
                 /\ Disable(w) =>
                       /\ tx[w].user \in User
                       /\ Account(tx[w].user, "disabled", account[tx[w].user].password)
                 /\ Accept(w) => /\ tx[w].user \in User
                                 /\ Account(tx[w].user, account[tx[w].user].status, TRUE)
<1>1. ASSUME NEW p \in BOOLEAN,
             account' = [account EXCEPT ![u] = [status |-> "active", password |-> p]]
      PROVE  Account(u, "active", p)
    <2>1. PICK new : new = [status |-> "active", password |-> p]
        OBVIOUS
    <2>2. new \in AccountRow /\ new.status = "active" /\ new.password = p
        BY <2>1 DEF AccountRow
    <2>3. account' = [account EXCEPT ![u] = new]
        BY <1>1, <2>1
    <2> QED
        BY <2>2, <2>3, AccountSet
<1>2. ASSUME NEW v \in User, NEW s \in {"active", "disabled"},
             account' = [account EXCEPT ![v].status = s]
      PROVE  Account(v, s, account[v].password)
    <2>1. PICK row \in AccountRow : row = account[v]
        BY AccountKind
    <2>2. PICK new : new = [row EXCEPT !.status = s]
        OBVIOUS
    <2>3. new \in AccountRow /\ new.status = s /\ new.password = row.password
        BY <2>2 DEF AccountRow
    <2>4. account' = [account EXCEPT ![v] = new]
        BY <1>2, <2>1, <2>2, StateKind
    <2> QED
        BY <2>1, <2>3, <2>4, AccountSet
<1>3. ASSUME NEW v \in User, account' = [account EXCEPT ![v].password = TRUE]
      PROVE  Account(v, account[v].status, TRUE)
    <2>1. PICK row \in AccountRow : row = account[v]
        BY AccountKind
    <2>2. PICK new : new = [row EXCEPT !.password = TRUE]
        OBVIOUS
    <2>3. new \in AccountRow /\ new.status = row.status /\ new.password = TRUE
        BY <2>2 DEF AccountRow
    <2>4. account' = [account EXCEPT ![v] = new]
        BY <1>3, <2>1, <2>2, StateKind
    <2> QED
        BY <2>1, <2>3, <2>4, AccountSet
<1>4. ASSUME NEW r \in Role, Invite(u, r)
      PROVE  Account(u, "active", FALSE)
    BY <1>1, <1>4 DEF Invite
<1>5. ASSUME EnsureAdmin(u)
      PROVE  \/ UNCHANGED account
             \/ ~Exists(u) /\ \E p \in BOOLEAN : Account(u, "active", p)
    BY <1>1, <1>5 DEF EnsureAdmin
<1>6. ASSUME Enable(u)
      PROVE  Account(u, "active", account[u].password)
    BY <1>2, <1>6 DEF Enable
<1>7. ASSUME NEW w \in Worker, Disable(w)
      PROVE  /\ tx[w].user \in User
             /\ Account(tx[w].user, "disabled", account[tx[w].user].password)
    <2>1. tx[w].user \in User
        BY <1>7 DEF Begun, BegunBy, Disable
    <2> QED
        BY <1>2, <1>7, <2>1 DEF Disable
<1>8. ASSUME NEW w \in Worker, Accept(w)
      PROVE  /\ tx[w].user \in User
             /\ Account(tx[w].user, account[tx[w].user].status, TRUE)
    <2>1. tx[w].user \in User
        BY <1>8 DEF Begun, BegunBy, Accept
    <2> QED
        BY <1>3, <1>8, <2>1 DEF Accept
<1> QED
    BY <1>4, <1>5, <1>6, <1>7, <1>8

(* Who is an administrator stays one, but for the account a transaction    *)
(* that disables or removes is about.                                      *)
Kept(u) == /\ Exists(u) => Exists(u)'
           /\ ActiveAdmin(u) => ActiveAdmin(u)'

LEMMA DirectlyKeeps ==
    ASSUME TypeOK, Begun, Directly, NEW v \in User
    PROVE  Kept(v) /\ UNCHANGED tx
<1>1. ASSUME NEW u \in User, NEW r \in Role, Invite(u, r)
      PROVE  Kept(v) /\ UNCHANGED tx
    <2>1. /\ Account(u, "active", FALSE) /\ assigned \subseteq assigned' /\ UNCHANGED tx
          /\ ~Exists(u)
        BY <1>1, AccountSteps DEF Invite
    <2>2. \A x \in User \ {u} : account'[x] = account[x]
        BY <2>1 DEF Account
    <2>3. account'[u].status = "active" /\ account[u].status = "none"
        BY <2>1 DEF Account, Exists
    <2>4. HasRole(v, "admin") => HasRole(v, "admin")'
        BY <2>1 DEF HasRole
    <2> QED
        BY <2>1, <2>2, <2>3, <2>4 DEF Kept, Exists, ActiveAdmin, Usable
<1>2. ASSUME NEW u \in User, NEW r \in Role, AssignRole(u, r)
      PROVE  Kept(v) /\ UNCHANGED tx
    BY <1>2 DEF AssignRole, Kept, Exists, ActiveAdmin, Usable, HasRole
<1>3. ASSUME NEW u \in User, EnsureAdmin(u)
      PROVE  Kept(v) /\ UNCHANGED tx
    <2>1. assigned \subseteq assigned' /\ UNCHANGED tx
        BY <1>3 DEF EnsureAdmin
    <2>2. HasRole(v, "admin") => HasRole(v, "admin")'
        BY <2>1 DEF HasRole
    <2>3. CASE UNCHANGED account
        BY <2>1, <2>2, <2>3 DEF Kept, Exists, ActiveAdmin, Usable
    <2>4. ASSUME ~Exists(u), NEW p \in BOOLEAN, Account(u, "active", p)
          PROVE  Kept(v)
        <3>1. \A x \in User \ {u} : account'[x] = account[x]
            BY <2>4 DEF Account
        <3>2. account'[u].status = "active" /\ account[u].status = "none"
            BY <2>4 DEF Account, Exists
        <3> QED
            BY <2>2, <3>1, <3>2 DEF Kept, Exists, ActiveAdmin, Usable
    <2> QED
        BY <1>3, <2>1, <2>3, <2>4, AccountSteps
<1>4. ASSUME NEW u \in User, Enable(u)
      PROVE  Kept(v) /\ UNCHANGED tx
    <2>1. /\ Account(u, "active", account[u].password) /\ assigned \subseteq assigned'
          /\ UNCHANGED tx
        BY <1>4, AccountSteps DEF Enable
    <2>2. /\ \A x \in User \ {u} : account'[x] = account[x]
          /\ account'[u].status = "active" /\ account'[u].password = account[u].password
        BY <2>1 DEF Account
    <2>3. HasRole(v, "admin") => HasRole(v, "admin")'
        BY <2>1 DEF HasRole
    <2> QED
        BY <2>1, <2>2, <2>3 DEF Kept, Exists, ActiveAdmin, Usable
<1>5. ASSUME UNCHANGED <<account, assigned, tx>>
      PROVE  Kept(v) /\ UNCHANGED tx
    BY <1>5 DEF Kept, Exists, ActiveAdmin, Usable, HasRole
<1>6. ASSUME NEW t \in Token, Expire(t)
      PROVE  UNCHANGED <<account, assigned, tx>>
    BY <1>6 DEF Expire
<1> QED
    BY <1>1, <1>2, <1>3, <1>4, <1>5, <1>6 DEF Directly, vars

LEMMA TransactionKeeps ==
    ASSUME TypeOK, Begun, NEW v \in User, NEW w \in Worker
    PROVE  /\ Begins(w) \/ AssertAnotherAdmin(w) \/ SeeOpenLinks(w) \/ Reissue(w)
                \/ Accept(w) \/ Abandon(w) => Kept(v)
           /\ (Disable(w) \/ RemoveAssignment(w)) /\ v # tx[w].user => Kept(v)
           /\ RemoveAssignment(w) /\ ~NeedsGuard(w) => Kept(v)
           /\ Ends(w) /\ Exists(v) => Exists(v)'
<1>1. ASSUME UNCHANGED <<account, assigned>>
      PROVE  Kept(v)
    BY <1>1 DEF Kept, Exists, ActiveAdmin, Usable, HasRole
<1>2. ASSUME Begins(w) \/ AssertAnotherAdmin(w) \/ SeeOpenLinks(w) \/ Reissue(w) \/ Abandon(w)
      PROVE  UNCHANGED <<account, assigned>>
    BY <1>2 DEF Begins, AssertAnotherAdmin, SeeOpenLinks, Reissue, Abandon, ReadToDisable,
                ReadToResend, ReadToRemove, FindOpen, Reading
<1>3. ASSUME Accept(w)
      PROVE  Kept(v)
    <2>1. /\ tx[w].user \in User /\ assigned \subseteq assigned'
          /\ Account(tx[w].user, account[tx[w].user].status, TRUE)
        BY <1>3, AccountSteps DEF Accept
    <2>2. /\ \A x \in User \ {tx[w].user} : account'[x] = account[x]
          /\ account'[tx[w].user].status = account[tx[w].user].status
          /\ account'[tx[w].user].password = TRUE
        BY <2>1 DEF Account
    <2>3. HasRole(v, "admin") => HasRole(v, "admin")'
        BY <2>1 DEF HasRole
    <2> QED
        BY <2>1, <2>2, <2>3 DEF Kept, Exists, ActiveAdmin, Usable
<1>4. ASSUME Disable(w)
      PROVE  (v # tx[w].user => Kept(v)) /\ (Exists(v) => Exists(v)')
    <2>1. /\ tx[w].user \in User /\ UNCHANGED assigned
          /\ Account(tx[w].user, "disabled", account[tx[w].user].password)
        BY <1>4, AccountSteps DEF Disable
    <2>2. /\ \A x \in User \ {tx[w].user} : account'[x] = account[x]
          /\ account'[tx[w].user].status = "disabled"
        BY <2>1 DEF Account
    <2>3. HasRole(v, "admin") => HasRole(v, "admin")'
        BY <2>1 DEF HasRole
    <2> QED
        BY <2>1, <2>2, <2>3 DEF Kept, Exists, ActiveAdmin, Usable
<1>5. ASSUME RemoveAssignment(w)
      PROVE  /\ v # tx[w].user \/ ~NeedsGuard(w) => Kept(v)
             /\ Exists(v) => Exists(v)'
    <2>1. /\ UNCHANGED account /\ assigned' = assigned \ {tx[w].row}
          /\ tx[w].row # None /\ tx[w].row.user = tx[w].user
        BY <1>5 DEF RemoveAssignment, Begun, BegunBy
    <2>2. ASSUME v # tx[w].user \/ ~NeedsGuard(w), HasRole(v, "admin")
          PROVE  HasRole(v, "admin")'
        <3>1. PICK a \in assigned : a.user = v /\ a.role = "admin"
            BY <2>2 DEF HasRole
        <3>2. a # tx[w].row
            BY <2>1, <2>2, <3>1 DEF NeedsGuard
        <3> QED
            BY <2>1, <3>1, <3>2 DEF HasRole
    <2> QED
        BY <2>1, <2>2 DEF Kept, Exists, ActiveAdmin, Usable
<1> QED
    BY <1>1, <1>2, <1>3, <1>4, <1>5 DEF Ends, Kept

-----------------------------------------------------------------------------
(* As long as no role is given to an account that exists, one that is no   *)
(* administrator does not become one.                                      *)
LEMMA NoNewAdmins ==
    ASSUME TypeOK, Begun, [Next]_vars, grants' = 0
    PROVE  /\ grants = 0
           /\ \A u \in User : Exists(u) /\ ~HasRole(u, "admin")
                                => Exists(u)' /\ ~HasRole(u, "admin")'
<1>1. \A u \in User : Exists(u) => Exists(u)'
    <2> SUFFICES ASSUME NEW u \in User
                 PROVE  Exists(u) => Exists(u)'
        OBVIOUS
    <2>1. Directly => (Exists(u) => Exists(u)')
        BY DirectlyKeeps DEF Kept
    <2>2. ASSUME NEW w \in Worker, Begins(w) \/ AssertAnotherAdmin(w) \/ SeeOpenLinks(w) \/ Ends(w)
          PROVE  Exists(u) => Exists(u)'
        BY <2>2, TransactionKeeps DEF Kept
    <2> QED
        BY <2>1, <2>2, Steps
<1>2. grants \in Int /\ grants >= 0
    BY StateKind
<1>3. ASSUME NEW w \in Worker, Begins(w) \/ AssertAnotherAdmin(w) \/ SeeOpenLinks(w) \/ Ends(w)
      PROVE  grants' = grants /\ assigned' \subseteq assigned
    BY <1>3
    DEF Begins, AssertAnotherAdmin, SeeOpenLinks, Ends, ReadToDisable, ReadToResend, ReadToRemove,
        FindOpen, Reading, Disable, RemoveAssignment, Reissue, Accept, Abandon
<1>4. ASSUME NEW x \in User, NEW r \in Role, Invite(x, r)
      PROVE  /\ grants' = grants /\ ~Exists(x)
             /\ \A a \in assigned' : a \in assigned \/ a.user = x
    BY <1>4 DEF Invite, Row
<1>5. ASSUME NEW x \in User, (\E r \in Role : AssignRole(x, r)) \/ EnsureAdmin(x)
      PROVE  FALSE
    <2>1. grants' = grants + 1
        BY <1>5 DEF AssignRole, EnsureAdmin
    <2> QED
        BY <1>2, <2>1
<1>6. ASSUME (\E x \in User : Enable(x)) \/ (\E t \in Token : Expire(t)) \/ UNCHANGED vars
      PROVE  UNCHANGED <<grants, assigned>>
    BY <1>6 DEF Enable, Expire, vars
<1>7. \/ grants' = grants /\ assigned' \subseteq assigned
      \/ \E x \in User : /\ grants' = grants /\ ~Exists(x)
                         /\ \A a \in assigned' : a \in assigned \/ a.user = x
    BY <1>3, <1>4, <1>5, <1>6, Steps DEF Directly
<1> QED
    BY <1>1, <1>7 DEF HasRole

LEMMA IssuedGrows ==
    ASSUME TypeOK, [Next]_vars
    PROVE  issued \in Int /\ issued' \in Int /\ issued <= issued'
<1>1. issued \in Int
    BY StateKind
<1>2. issued' = issued \/ issued' = issued + 1
    BY Steps
    DEF Directly, Invite, AssignRole, EnsureAdmin, Enable, Expire, vars, Begins, ReadToDisable,
        ReadToResend, ReadToRemove, FindOpen, Reading, AssertAnotherAdmin, SeeOpenLinks, Ends,
        Disable, RemoveAssignment, Reissue, Accept, Abandon
<1> QED
    BY <1>1, <1>2

LEMMA BegunStep ==
    ASSUME Sensible, TypeOK, Begun, Links, [Next]_vars
    PROVE  Begun'
<1> SUFFICES ASSUME NEW v \in Worker
             PROVE  BegunBy(v)'
    BY DEF Begun
<1>0. BegunBy(v)
    BY DEF Begun
<1>1. CASE tx'[v] = tx[v]
    <2>1. ASSUME tx[v].op = "disable", tx[v].row = None, grants' = 0
          PROVE  Exists(tx[v].user)' /\ ~HasRole(tx[v].user, "admin")'
        <3>1. PICK u \in User : u = tx[v].user
            BY <1>0, <2>1 DEF BegunBy
        <3>2. grants = 0
            BY <2>1, NoNewAdmins
        <3>3. Exists(u) /\ ~HasRole(u, "admin")
            BY <1>0, <2>1, <3>1, <3>2 DEF BegunBy
        <3>4. Exists(u)' /\ ~HasRole(u, "admin")'
            BY <2>1, <3>3, NoNewAdmins
        <3> QED
            BY <1>1, <3>1, <3>4 DEF Exists, HasRole
    <2>2. ASSUME tx[v].op = "accept", NEW t \in tx[v].links
          PROVE  t <= issued'
        <3>1. t \in Int /\ t <= issued
            BY <1>0, <2>2, TxKind DEF BegunBy, Token
        <3> QED
            BY <3>1, IssuedGrows
    <2> QED
        BY <1>0, <1>1, <2>1, <2>2 DEF BegunBy, NeedsGuard, Exists, HasRole
<1>2. ASSUME NEW u \in User, ReadToDisable(v, u)
      PROVE  BegunBy(v)'
    <2>1. Becomes(v, "disable", "read", u, AdminRow(u), {})
        BY <1>2, TxSteps
    <2>2. UNCHANGED <<account, assigned, grants>> /\ Exists(u)
        BY <1>2 DEF ReadToDisable, Reading
    <2>3. PICK row : /\ row = AdminRow(u)
                     /\ row # None => row.user = u /\ row.role = "admin"
                     /\ row = None => ~HasRole(u, "admin")
        BY AdminRowKind
    <2>4. row = None => Exists(u)' /\ ~HasRole(u, "admin")'
        BY <2>2, <2>3 DEF Exists, HasRole
    <2>5. tx'[v].op = "disable" /\ tx'[v].at = "read" /\ tx'[v].user = u /\ tx'[v].row = row
        BY <2>1, <2>3 DEF Becomes
    <2> QED
        BY <2>3, <2>4, <2>5 DEF BegunBy, Exists, HasRole
<1>3. ASSUME NEW u \in User, ReadToResend(v, u)
      PROVE  BegunBy(v)'
    <2>1. Becomes(v, "resend", "read", u, None, {})
        BY <1>3, TxSteps
    <2> QED
        BY <2>1 DEF Becomes, BegunBy
<1>4. ASSUME NEW row \in assigned, ReadToRemove(v, row)
      PROVE  BegunBy(v)'
    <2>1. Becomes(v, "remove", "read", row.user, row, {})
        BY <1>4, TxSteps
    <2>2. row \in Assignment
        BY StateKind
    <2>3. row # None /\ row.user \in User
        BY <2>2 DEF Sensible, Assignment
    <2> QED
        BY <2>1, <2>3 DEF Becomes, BegunBy
<1>5. ASSUME NEW t \in Token, FindOpen(v, t)
      PROVE  BegunBy(v)'
    <2>1. Becomes(v, "accept", "read", token[t].user, None, {t})
        BY <1>5, TxSteps
    <2>2. t <= issued /\ token[t].user \in User
        BY <1>5 DEF FindOpen, Open, Links
    <2>3. issued' = issued
        BY <1>5 DEF FindOpen
    <2> QED
        BY <2>1, <2>2, <2>3 DEF Becomes, BegunBy
<1>6. ASSUME AssertAnotherAdmin(v)
      PROVE  BegunBy(v)'
    <2>1. /\ Becomes(v, tx[v].op, "guarded", tx[v].user, tx[v].row, tx[v].links)
          /\ tx[v].op \in {"disable", "remove"} /\ NeedsGuard(v)
        BY <1>6, TxSteps DEF AssertAnotherAdmin
    <2>2. /\ tx'[v].op = tx[v].op /\ tx'[v].user = tx[v].user /\ tx'[v].row = tx[v].row
          /\ tx'[v].at = "guarded"
        BY <2>1 DEF Becomes
    <2>3. NeedsGuard(v)' /\ tx[v].row # None
        BY <2>1, <2>2 DEF NeedsGuard
    <2> QED
        BY <1>0, <2>1, <2>2, <2>3 DEF BegunBy
<1>7. ASSUME SeeOpenLinks(v)
      PROVE  BegunBy(v)'
    <2>1. PICK links : Becomes(v, "resend", "revoking", tx[v].user, tx[v].row, links)
        BY <1>7, TxSteps
    <2>2. tx[v].op = "resend"
        BY <1>7 DEF SeeOpenLinks
    <2>3. /\ tx'[v].op = "resend" /\ tx'[v].at = "revoking"
          /\ tx'[v].user = tx[v].user /\ tx'[v].row = tx[v].row
        BY <2>1 DEF Becomes
    <2> QED
        BY <1>0, <2>2, <2>3 DEF BegunBy
<1>8. ASSUME Ends(v)
      PROVE  BegunBy(v)'
    <2>1. Becomes(v, "idle", "idle", None, None, {})
        BY <1>8, TxSteps
    <2> QED
        BY <2>1 DEF Becomes, BegunBy
<1>9. CASE Directly
    BY <1>1, <1>9, DirectlyKeeps, StateKind DEF Sensible
<1>10. ASSUME NEW w \in Worker \ {v},
              Begins(w) \/ AssertAnotherAdmin(w) \/ SeeOpenLinks(w) \/ Ends(w)
       PROVE  tx'[v] = tx[v]
    BY <1>10, TxSteps DEF Begins, Becomes
<1> QED
    BY <1>1, <1>2, <1>3, <1>4, <1>5, <1>6, <1>7, <1>8, <1>9, <1>10, Steps DEF Begins

-----------------------------------------------------------------------------
(* The guard. *)
LEMMA OneGuardStep ==
    ASSUME Sensible, TypeOK, Begun, OneGuard, [Next]_vars
    PROVE  OneGuard'
<1>1. ASSUME \A v \in Worker : Guarded(v)' => Guarded(v)
      PROVE  OneGuard'
    BY <1>1 DEF OneGuard
<1>2. CASE Directly
    <2>1. tx' = tx
        BY <1>2, DirectlyKeeps DEF Sensible
    <2> QED
        BY <1>1, <2>1 DEF Guarded
<1>3. ASSUME NEW w \in Worker, Begins(w) \/ SeeOpenLinks(w) \/ Ends(w)
      PROVE  OneGuard'
    <2>1. tx'[w].at # "guarded" /\ \A v \in Worker \ {w} : tx'[v] = tx[v]
        BY <1>3, TxSteps DEF Begins, Becomes
    <2> QED
        BY <1>1, <2>1 DEF Guarded
<1>4. ASSUME NEW w \in Worker, AssertAnotherAdmin(w)
      PROVE  OneGuard'
    <2>1. \A v \in Worker \ {w} : tx'[v] = tx[v]
        BY <1>4, TxSteps DEF Becomes
    <2>2. \A v \in Worker \ {w} : ~Guarded(v)'
        BY <1>4, <2>1 DEF AssertAnotherAdmin, Guarded
    <2> QED
        BY <2>2 DEF OneGuard
<1> QED
    BY <1>2, <1>3, <1>4, Steps

(* A transaction that goes on without the guard takes no administrator away. *)
LEMMA UnguardedKeeps ==
    ASSUME TypeOK, Begun, grants = 0, NEW w \in Worker, ~Guarded(w),
           Disable(w) \/ RemoveAssignment(w), NEW u \in User, ActiveAdmin(u)
    PROVE  Kept(u)
<1>1. ~NeedsGuard(w)
    BY DEF Disable, RemoveAssignment
<1>2. CASE RemoveAssignment(w)
    BY <1>1, <1>2, TransactionKeeps
<1>3. CASE Disable(w)
    <2>1. BegunBy(w) /\ tx[w].op = "disable"
        BY <1>3 DEF Begun, Disable
    <2>2. tx[w].row = None
        BY <1>1, <2>1 DEF BegunBy, NeedsGuard
    <2>3. ~HasRole(tx[w].user, "admin")
        BY <2>1, <2>2 DEF BegunBy
    <2>4. u # tx[w].user
        BY <2>3 DEF ActiveAdmin
    <2> QED
        BY <1>3, <2>4, TransactionKeeps
<1> QED
    BY <1>2, <1>3

LEMMA GuardHoldsStep ==
    ASSUME Sensible, TypeOK, Begun, OneGuard, GuardHolds, [Next]_vars
    PROVE  GuardHolds'
<1> SUFFICES ASSUME grants' = 0, NEW v \in Worker, Guarded(v)'
             PROVE  \E u \in User \ {tx'[v].user} : ActiveAdmin(u)'
    BY DEF GuardHolds
<1>0. grants = 0
    BY NoNewAdmins
<1>1. ASSUME tx'[v] = tx[v], \A u \in User \ {tx[v].user} : ActiveAdmin(u) => Kept(u)
      PROVE  \E u \in User \ {tx'[v].user} : ActiveAdmin(u)'
    <2>1. Guarded(v)
        BY <1>1 DEF Guarded
    <2>2. PICK u \in User \ {tx[v].user} : ActiveAdmin(u)
        BY <1>0, <2>1 DEF GuardHolds
    <2>3. ActiveAdmin(u)'
        BY <1>1, <2>2 DEF Kept
    <2> QED
        BY <1>1, <2>2, <2>3
<1>2. CASE Directly
    BY <1>1, <1>2, DirectlyKeeps DEF Sensible
<1>3. ASSUME NEW w \in Worker \ {v},
             Begins(w) \/ AssertAnotherAdmin(w) \/ SeeOpenLinks(w) \/ Ends(w)
      PROVE  \E u \in User \ {tx'[v].user} : ActiveAdmin(u)'
    <2>1. tx'[v] = tx[v]
        BY <1>3, TxSteps DEF Begins, Becomes
    <2>2. ~Guarded(w)
        BY <2>1 DEF OneGuard, Guarded
    <2>3. ASSUME NEW u \in User, ActiveAdmin(u)
          PROVE  Kept(u)
        BY <1>0, <1>3, <2>2, <2>3, TransactionKeeps, UnguardedKeeps DEF Ends
    <2> QED
        BY <1>1, <2>1, <2>3
<1>4. ASSUME Begins(v) \/ SeeOpenLinks(v) \/ Ends(v)
      PROVE  FALSE
    BY <1>4, TxSteps DEF Begins, Becomes, Guarded
<1>5. ASSUME AssertAnotherAdmin(v)
      PROVE  \E u \in User \ {tx'[v].user} : ActiveAdmin(u)'
    <2>1. PICK u \in User \ {tx[v].user} : ActiveAdmin(u)
        BY <1>5 DEF AssertAnotherAdmin
    <2>2. tx'[v].user = tx[v].user
        BY <1>5, TxSteps DEF Becomes
    <2>3. ActiveAdmin(u)'
        BY <1>5, <2>1, TransactionKeeps DEF Kept
    <2> QED
        BY <2>1, <2>2, <2>3
<1> QED
    BY <1>2, <1>3, <1>4, <1>5, Steps

LEMMA AdminStep ==
    ASSUME Sensible, TypeOK, Begun, GuardHolds, DemotionsLeaveAnAdmin, [Next]_vars
    PROVE  DemotionsLeaveAnAdmin'
<1> SUFFICES ASSUME grants' = 0
             PROVE  \E u \in User : ActiveAdmin(u)'
    BY DEF DemotionsLeaveAnAdmin, AnAdminRemains
<1>0. grants = 0
    BY NoNewAdmins
<1>1. PICK u \in User : ActiveAdmin(u)
    BY <1>0 DEF DemotionsLeaveAnAdmin, AnAdminRemains
<1>2. CASE Kept(u)
    BY <1>1, <1>2 DEF Kept
<1>3. ASSUME NEW w \in Worker, Disable(w) \/ RemoveAssignment(w), Guarded(w)
      PROVE  \E x \in User : ActiveAdmin(x)'
    <2>1. PICK x \in User \ {tx[w].user} : ActiveAdmin(x)
        BY <1>0, <1>3 DEF GuardHolds
    <2>2. Kept(x)
        BY <1>3, <2>1, TransactionKeeps
    <2> QED
        BY <2>1, <2>2 DEF Kept
<1>4. ASSUME NEW w \in Worker, Disable(w) \/ RemoveAssignment(w), ~Guarded(w)
      PROVE  Kept(u)
    BY <1>0, <1>1, <1>4, UnguardedKeeps
<1>5. ASSUME NEW w \in Worker, Begins(w) \/ AssertAnotherAdmin(w) \/ SeeOpenLinks(w)
                                 \/ Reissue(w) \/ Accept(w) \/ Abandon(w)
      PROVE  Kept(u)
    BY <1>5, TransactionKeeps
<1> QED
    BY <1>2, <1>3, <1>4, <1>5, DirectlyKeeps, Steps DEF Ends

-----------------------------------------------------------------------------
(* Links. *)
Same(t) == /\ token'[t].accepted = token[t].accepted /\ token'[t].user = token[t].user
           /\ token[t] = NoToken => token'[t] = NoToken
Issues == /\ issued' = issued + 1 /\ issued + 1 \in Token /\ UNCHANGED uses
          /\ token' \in [Token -> TokenRow]
          /\ token'[issued + 1].user \in User /\ ~token'[issued + 1].accepted
          /\ \A t \in Token \ {issued + 1} : Same(t)
Uses(t) == /\ UNCHANGED issued /\ t <= issued /\ ~token[t].accepted
           /\ token' \in [Token -> TokenRow] /\ uses' = [uses EXCEPT ![t] = @ + 1]
           /\ token'[t].accepted /\ token'[t].user = token[t].user
           /\ \A s \in Token \ {t} : Same(s)
Ages == /\ UNCHANGED <<issued, uses>> /\ token' \in [Token -> TokenRow]
        /\ \A t \in Token : Same(t)

LEMMA NewTokenKind ==
    ASSUME NEW u \in User
    PROVE  NewToken(u) \in TokenRow /\ NewToken(u).user = u /\ ~NewToken(u).accepted
<1>1. PICK row : row = [user |-> None, accepted |-> FALSE, revoked |-> FALSE, expired |-> FALSE]
    OBVIOUS
<1>2. row \in TokenRow /\ ~row.accepted
    BY <1>1 DEF TokenRow
<1>3. NewToken(u) = [row EXCEPT !.user = u]
    BY <1>1 DEF NewToken, NoToken
<1> QED
    BY <1>2, <1>3 DEF TokenRow

LEMMA LinkSteps ==
    ASSUME Sensible, TypeOK, Begun, Links, [Next]_vars
    PROVE  Issues \/ Ages \/ \E t \in Token : Uses(t)
<1>0. token \in [Token -> TokenRow] /\ issued \in Int /\ 0 <= issued
    BY StateKind
<1>1. ASSUME UNCHANGED <<token, issued, uses>>
      PROVE  Ages
    BY <1>0, <1>1 DEF Ages, Same
<1>2. ASSUME NEW u \in User, NEW r \in Role, Invite(u, r)
      PROVE  Issues
    <2>1. PICK n \in Token : n = issued + 1
        BY <1>0, <1>2 DEF Invite, Token, Sensible
    <2>2. PICK new \in TokenRow : new = NewToken(u) /\ new.user = u /\ ~new.accepted
        BY NewTokenKind
    <2>3. token' = [token EXCEPT ![n] = new] /\ issued' = n /\ UNCHANGED uses
        BY <1>2, <2>1, <2>2 DEF Invite
    <2>4. /\ token' \in [Token -> TokenRow] /\ token'[n] = new
          /\ \A t \in Token \ {n} : token'[t] = token[t]
        BY <1>0, <2>3
    <2> QED
        BY <2>1, <2>2, <2>3, <2>4 DEF Issues, Same
<1>3. ASSUME NEW w \in Worker, Reissue(w)
      PROVE  Issues
    <2>1. PICK n \in Token : n = issued + 1
        BY <1>0, <1>3 DEF Reissue, Token, Sensible
    <2>2. tx[w].user \in User
        BY <1>3 DEF Reissue, Begun, BegunBy
    <2>3. PICK new \in TokenRow : new = NewToken(tx[w].user) /\ new.user \in User /\ ~new.accepted
        BY <2>2, NewTokenKind
    <2>4. /\ token' = [t \in Token |->
                          IF t = n THEN new
                          ELSE IF t \in tx[w].links /\ Open(t)
                               THEN [token[t] EXCEPT !.revoked = TRUE]
                               ELSE token[t]]
          /\ issued' = n /\ UNCHANGED uses
        BY <1>3, <2>1, <2>3 DEF Reissue
    <2>5. ASSUME NEW t \in Token, t # n
          PROVE  token'[t] \in TokenRow /\ Same(t)
        <3>1. PICK row \in TokenRow : row = token[t]
            BY <1>0
        <3>2. CASE t \in tx[w].links /\ Open(t)
            <4>1. token'[t] = [row EXCEPT !.revoked = TRUE] /\ token[t] # NoToken
                BY <2>4, <2>5, <3>1, <3>2 DEF Open
            <4>2. /\ token'[t] \in TokenRow /\ token'[t].user = row.user
                  /\ token'[t].accepted = row.accepted
                BY <4>1 DEF TokenRow
            <4> QED
                BY <3>1, <4>1, <4>2 DEF Same
        <3>3. CASE ~(t \in tx[w].links /\ Open(t))
            BY <2>4, <2>5, <3>1, <3>3 DEF Same
        <3> QED
            BY <3>2, <3>3
    <2>6. token'[n] = new
        BY <2>4
    <2>7. token' \in [Token -> TokenRow]
        <3>1. \A t \in Token : token'[t] \in TokenRow
            BY <2>3, <2>5, <2>6
        <3>2. token' = [t \in Token |-> token'[t]]
            BY <2>4
        <3> QED
            BY <3>1, <3>2
    <2> QED
        BY <2>1, <2>3, <2>4, <2>5, <2>6, <2>7 DEF Issues
<1>4. ASSUME NEW t \in Token, Expire(t)
      PROVE  Ages
    <2>1. PICK row \in TokenRow : row = token[t] /\ row # NoToken
        BY <1>0, <1>4 DEF Expire
    <2>2. PICK new : new = [row EXCEPT !.expired = TRUE]
        OBVIOUS
    <2>3. new \in TokenRow /\ new.user = row.user /\ new.accepted = row.accepted
        BY <2>2 DEF TokenRow
    <2>4. token' = [token EXCEPT ![t] = new] /\ UNCHANGED <<issued, uses>>
        BY <1>0, <1>4, <2>1, <2>2 DEF Expire
    <2>5. /\ token' \in [Token -> TokenRow] /\ token'[t] = new
          /\ \A s \in Token \ {t} : token'[s] = token[s]
        BY <1>0, <2>3, <2>4
    <2> QED
        BY <2>1, <2>3, <2>4, <2>5 DEF Ages, Same
<1>5. ASSUME NEW w \in Worker, Accept(w)
      PROVE  \E t \in Token : Uses(t)
    <2>0. tx[w].links \in SUBSET Token /\ tx[w].op = "accept" /\ BegunBy(w)
        BY <1>5, TxKind DEF Accept, Begun
    <2>1. PICK t \in tx[w].links :
             /\ ~token[t].accepted
             /\ token' = [token EXCEPT ![t].accepted = TRUE]
             /\ uses' = [uses EXCEPT ![t] = @ + 1] /\ UNCHANGED issued
        BY <1>5 DEF Accept
    <2>2. t \in Token /\ t <= issued
        BY <2>0, <2>1 DEF BegunBy
    <2>3. PICK row \in TokenRow : row = token[t]
        BY <1>0, <2>2
    <2>4. PICK new : new = [row EXCEPT !.accepted = TRUE]
        OBVIOUS
    <2>5. new \in TokenRow /\ new.user = row.user /\ new.accepted
        BY <2>4 DEF TokenRow
    <2>6. token' = [token EXCEPT ![t] = new]
        BY <1>0, <2>1, <2>3, <2>4
    <2>7. /\ token' \in [Token -> TokenRow] /\ token'[t] = new
          /\ \A s \in Token \ {t} : token'[s] = token[s]
        BY <1>0, <2>2, <2>5, <2>6
    <2>8. Uses(t)
        BY <2>1, <2>2, <2>3, <2>5, <2>7 DEF Uses, Same
    <2> QED
        BY <2>2, <2>8
<1>6. ASSUME \/ \E u \in User : (\E r \in Role : AssignRole(u, r)) \/ EnsureAdmin(u) \/ Enable(u)
             \/ UNCHANGED vars
             \/ \E w \in Worker : \/ Begins(w) \/ AssertAnotherAdmin(w) \/ SeeOpenLinks(w)
                                  \/ Disable(w) \/ RemoveAssignment(w) \/ Abandon(w)
      PROVE  UNCHANGED <<token, issued, uses>>
    BY <1>6
    DEF AssignRole, EnsureAdmin, Enable, vars, Begins, ReadToDisable, ReadToResend, ReadToRemove,
        FindOpen, Reading, AssertAnotherAdmin, SeeOpenLinks, Disable, RemoveAssignment, Abandon
<1> QED
    BY <1>1, <1>2, <1>3, <1>4, <1>5, <1>6, Steps DEF Directly, Ends

LEMMA LinksStep ==
    ASSUME Sensible, TypeOK, Begun, Links, LinkUsedOnce, [Next]_vars
    PROVE  Links' /\ LinkUsedOnce' /\ uses' \in [Token -> 0..1]
<1>0. /\ uses \in [Token -> 0..1] /\ issued \in Int /\ \A t \in Token : t \in Int
      /\ \A t \in Token : uses[t] <= 1 /\ (uses[t] = 1 <=> token[t].accepted)
    BY StateKind DEF LinkUsedOnce, Token
<1> DEFINE Sound(t) ==
           /\ IF t <= issued' THEN token'[t].user \in User
              ELSE token'[t] = NoToken /\ uses'[t] = 0
           /\ uses'[t] <= 1 /\ (uses'[t] = 1 <=> token'[t].accepted)
<1>1. ASSUME NEW t \in Token, Same(t), uses'[t] = uses[t], t <= issued' => t <= issued
      PROVE  Sound(t)
    <2>1. token'[t].user = token[t].user /\ token'[t].accepted = token[t].accepted
        BY <1>1 DEF Same
    <2>2. uses'[t] <= 1 /\ (uses'[t] = 1 <=> token'[t].accepted)
        BY <1>0, <1>1, <2>1
    <2>3. CASE t <= issued
        BY <2>1, <2>2, <2>3, <1>0, <1>1, IssuedGrows DEF Links
    <2>4. CASE ~(t <= issued)
        <3>1. token[t] = NoToken /\ uses[t] = 0
            BY <2>4 DEF Links
        <3>2. token'[t] = NoToken /\ uses'[t] = 0 /\ ~(t <= issued')
            BY <1>1, <2>4, <3>1 DEF Same
        <3> QED
            BY <2>2, <3>2
    <2> QED
        BY <2>3, <2>4
<1>2. ASSUME Ages
      PROVE  uses' \in [Token -> 0..1] /\ \A t \in Token : Sound(t)
    BY <1>0, <1>1, <1>2 DEF Ages
<1>3. ASSUME Issues
      PROVE  uses' \in [Token -> 0..1] /\ \A t \in Token : Sound(t)
    <2>1. PICK n \in Token : /\ n = issued + 1 /\ issued' = n /\ token'[n].user \in User
                             /\ ~token'[n].accepted /\ uses' = uses
                             /\ \A t \in Token \ {n} : Same(t)
        BY <1>3 DEF Issues
    <2>2. n > issued /\ uses[n] = 0
        BY <1>0, <2>1 DEF Links
    <2>3. Sound(n)
        <3>1. uses'[n] = 0 /\ n <= issued'
            BY <1>0, <2>1, <2>2
        <3> QED
            BY <2>1, <3>1
    <2>4. ASSUME NEW t \in Token \ {n}
          PROVE  Sound(t)
        <3>1. t <= issued' => t <= issued
            BY <1>0, <2>1
        <3>2. Same(t) /\ uses'[t] = uses[t]
            BY <2>1
        <3> HIDE DEF Sound
        <3> QED
            BY <1>1, <3>1, <3>2
    <2> QED
        BY <1>0, <2>1, <2>3, <2>4
<1>4. ASSUME NEW s \in Token, Uses(s)
      PROVE  uses' \in [Token -> 0..1] /\ \A t \in Token : Sound(t)
    <2>1. uses[s] = 0
        <3>1. uses[s] \in 0..1 /\ uses[s] # 1
            BY <1>0, <1>4 DEF Uses
        <3> QED
            BY <3>1
    <2>2. uses' = [uses EXCEPT ![s] = 1]
        BY <1>0, <1>4, <2>1 DEF Uses
    <2>3. uses' \in [Token -> 0..1] /\ uses'[s] = 1 /\ \A t \in Token \ {s} : uses'[t] = uses[t]
        BY <1>0, <2>2
    <2>4. /\ issued' = issued /\ s <= issued /\ token'[s].accepted
          /\ token'[s].user = token[s].user /\ \A t \in Token \ {s} : Same(t)
        BY <1>4 DEF Uses
    <2>5. Sound(s)
        <3>1. token'[s].user \in User
            BY <2>4 DEF Links
        <3> QED
            BY <2>3, <2>4, <3>1
    <2>6. ASSUME NEW t \in Token \ {s}
          PROVE  Sound(t)
        <3>1. Same(t) /\ uses'[t] = uses[t] /\ (t <= issued' => t <= issued)
            BY <2>3, <2>4
        <3> HIDE DEF Sound
        <3> QED
            BY <1>1, <3>1
    <2> QED
        BY <2>3, <2>5, <2>6
<1>5. uses' \in [Token -> 0..1] /\ \A t \in Token : Sound(t)
    <2> HIDE DEF Sound
    <2> QED
        BY <1>2, <1>3, <1>4, LinkSteps
<1> QED
    BY <1>5 DEF Links, LinkUsedOnce, Token

-----------------------------------------------------------------------------
LEMMA TypeStep ==
    ASSUME Sensible, TypeOK, Begun, Links, LinkUsedOnce, [Next]_vars
    PROVE  TypeOK'
<1>0. /\ account \in [User -> AccountRow] /\ assigned \in SUBSET Assignment
      /\ issued \in 0..MaxTokens /\ grants \in 0..MaxGrants /\ tx \in [Worker -> TxRow]
      /\ MaxTokens \in Nat /\ MaxGrants \in Nat
    BY StateKind DEF Sensible
<1>1. account' \in [User -> AccountRow]
    <2>1. ASSUME Directly
          PROVE  account' \in [User -> AccountRow]
        BY <1>0, <2>1, AccountSteps
        DEF Directly, Account, AssignRole, Expire, vars
    <2>2. ASSUME NEW w \in Worker, Disable(w) \/ Accept(w)
          PROVE  account' \in [User -> AccountRow]
        BY <2>2, AccountSteps DEF Sensible, Account
    <2>3. ASSUME NEW w \in Worker, \/ Begins(w) \/ AssertAnotherAdmin(w) \/ SeeOpenLinks(w)
                                   \/ RemoveAssignment(w) \/ Reissue(w) \/ Abandon(w)
          PROVE  account' = account
        BY <2>3
        DEF Begins, ReadToDisable, ReadToResend, ReadToRemove, FindOpen, Reading,
            AssertAnotherAdmin, SeeOpenLinks, RemoveAssignment, Reissue, Abandon
    <2> QED
        BY <1>0, <2>1, <2>2, <2>3, Steps DEF Ends
<1>2. assigned' \in SUBSET Assignment /\ grants' \in 0..MaxGrants
    <2>1. ASSUME NEW u \in User, NEW r \in Role, NEW n \in 0..MaxGrants
          PROVE  Row(u, r, n) \in Assignment
        BY <2>1 DEF Row, Assignment
    <2>2. ASSUME NEW u \in User, NEW r \in Role, Invite(u, r)
          PROVE  assigned' \in SUBSET Assignment /\ grants' \in 0..MaxGrants
        <3>1. Row(u, r, 0) \in Assignment
            BY <1>0, <2>1
        <3> QED
            BY <1>0, <2>2, <3>1 DEF Invite
    <2>3. ASSUME NEW u \in User, NEW r \in Role, grants < MaxGrants, grants' = grants + 1,
                 assigned' = assigned \/ assigned' = assigned \cup {Row(u, r, grants + 1)}
          PROVE  assigned' \in SUBSET Assignment /\ grants' \in 0..MaxGrants
        <3>1. grants + 1 \in 0..MaxGrants
            BY <1>0, <2>3
        <3>2. Row(u, r, grants + 1) \in Assignment
            BY <2>1, <3>1
        <3> QED
            BY <1>0, <2>3, <3>1, <3>2
    <2>4. ASSUME NEW u \in User, (\E r \in Role : AssignRole(u, r)) \/ EnsureAdmin(u)
          PROVE  assigned' \in SUBSET Assignment /\ grants' \in 0..MaxGrants
        BY <2>3, <2>4 DEF AssignRole, EnsureAdmin, Role
    <2>5. ASSUME NEW w \in Worker, \/ Begins(w) \/ AssertAnotherAdmin(w) \/ SeeOpenLinks(w)
                                   \/ Ends(w)
          PROVE  assigned' \subseteq assigned /\ grants' = grants
        BY <2>5
        DEF Begins, ReadToDisable, ReadToResend, ReadToRemove, FindOpen, Reading,
            AssertAnotherAdmin, SeeOpenLinks, Ends, RemoveAssignment, Reissue, Abandon, Disable,
            Accept
    <2>6. ASSUME (\E x \in User : Enable(x)) \/ (\E t \in Token : Expire(t)) \/ UNCHANGED vars
          PROVE  UNCHANGED <<grants, assigned>>
        BY <2>6 DEF Enable, Expire, vars
    <2> QED
        BY <1>0, <2>2, <2>4, <2>5, <2>6, Steps DEF Directly
<1>3. token' \in [Token -> TokenRow] /\ issued' \in 0..MaxTokens
    BY <1>0, LinkSteps DEF Issues, Ages, Uses, Token
<1>4. tx' \in [Worker -> TxRow]
    <2>1. Directly => tx' = tx
        BY DirectlyKeeps DEF Sensible
    <2>2. ASSUME NEW w \in Worker, \/ Begins(w) \/ AssertAnotherAdmin(w) \/ SeeOpenLinks(w)
                                   \/ Ends(w)
          PROVE  tx' \in [Worker -> TxRow]
        BY <2>2, TxSteps DEF Begins, Becomes
    <2> QED
        BY <1>0, <2>1, <2>2, Steps
<1>5. uses' \in [Token -> 0..1]
    BY LinksStep
<1> QED
    BY <1>1, <1>2, <1>3, <1>4, <1>5 DEF TypeOK, AccountRow, TokenRow, TxRow

LEMMA InitHolds ==
    ASSUME Sensible, Init
    PROVE  StaffInv
<1>1. /\ assigned = {Row(u, "admin", 0) : u \in Founder} /\ issued = 0 /\ grants = 0
      /\ token = [t \in Token |-> NoToken] /\ uses = [t \in Token |-> 0]
      /\ tx = [w \in Worker |-> NoTx]
      /\ account = [u \in User |-> IF u \in Founder THEN [status |-> "active", password |-> TRUE]
                                  ELSE NoAccount]
    BY DEF Init
<1>2. TypeOK
    <2>1. account \in [User -> AccountRow]
        BY <1>1 DEF NoAccount, AccountRow
    <2>2. assigned \in SUBSET Assignment
        BY <1>1 DEF Sensible, Row, Assignment, Role
    <2>3. NoToken \in TokenRow
        BY DEF NoToken, TokenRow
    <2>4. NoTx \in TxRow
        BY DEF NoTx, TxRow
    <2>5. token \in [Token -> TokenRow] /\ uses \in [Token -> 0..1] /\ tx \in [Worker -> TxRow]
        BY <1>1, <2>3, <2>4
    <2>6. issued \in 0..MaxTokens /\ grants \in 0..MaxGrants
        BY <1>1 DEF Sensible
    <2> QED
        BY <2>1, <2>2, <2>5, <2>6 DEF TypeOK, AccountRow, TokenRow, TxRow
<1>3. \A w \in Worker : tx[w].op = "idle" /\ tx[w].at = "idle" /\ tx[w].row = None
    BY <1>1 DEF NoTx
<1>4. Begun /\ OneGuard /\ GuardHolds
    BY <1>3 DEF Begun, BegunBy, OneGuard, GuardHolds, Guarded
<1>5. \A t \in Token : /\ token[t] = NoToken /\ uses[t] = 0 /\ ~token[t].accepted
                       /\ ~(t <= issued)
    BY <1>1 DEF NoToken, Token, Sensible
<1>6. Links /\ LinkUsedOnce
    BY <1>5 DEF Links, LinkUsedOnce
<1>7. DemotionsLeaveAnAdmin
    <2>1. PICK u \in Founder : u \in User
        BY DEF Sensible
    <2>2. account[u].status = "active" /\ account[u].password
        BY <1>1, <2>1
    <2>3. HasRole(u, "admin")
        <3>1. PICK a \in assigned : a = [user |-> u, role |-> "admin", id |-> 0]
            BY <1>1, <2>1 DEF Row
        <3> QED
            BY <3>1 DEF HasRole
    <2> QED
        BY <2>1, <2>2, <2>3 DEF DemotionsLeaveAnAdmin, AnAdminRemains, ActiveAdmin, Usable
<1> QED
    BY <1>2, <1>4, <1>6, <1>7 DEF StaffInv, StaffIsSafe

(* The inductive invariant holds whatever transactions disable, remove,    *)
(* invite, resend and accept at the same moment (users.service.ts and      *)
(* invitations.service.ts).                                                *)
THEOREM StaffInvariance ==
    ASSUME Sensible
    PROVE  Spec => []StaffInv
<1>1. Init => StaffInv
    BY InitHolds
<1>2. StaffInv /\ [Next]_vars => StaffInv'
    <2> SUFFICES ASSUME StaffInv, [Next]_vars
                 PROVE  StaffInv'
        OBVIOUS
    <2>1. TypeOK /\ Begun /\ OneGuard /\ GuardHolds /\ Links /\ DemotionsLeaveAnAdmin
          /\ LinkUsedOnce
        BY DEF StaffInv, StaffIsSafe
    <2>2. TypeOK' /\ Begun' /\ Links' /\ LinkUsedOnce'
        BY <2>1, TypeStep, BegunStep, LinksStep
    <2>3. OneGuard' /\ GuardHolds' /\ DemotionsLeaveAnAdmin'
        BY <2>1, OneGuardStep, GuardHoldsStep, AdminStep
    <2> QED
        BY <2>2, <2>3 DEF StaffInv, StaffIsSafe
<1> QED
    BY <1>1, <1>2, PTL DEF Spec

(* Accounts, assignments, links and transactions are always well formed    *)
(* (users.service.ts and invitations.service.ts).                          *)
THEOREM StaffTypes ==
    ASSUME Sensible
    PROVE  Spec => []TypeOK
<1>1. StaffInv => TypeOK
    BY DEF StaffInv
<1> QED
    BY <1>1, StaffInvariance, PTL

(* "Two admins demoting each other at the same moment can't both succeed"  *)
(* (users.service 305-306) and "a link can't be used twice"                *)
(* (invitations.service 56), for any number of people and transactions.    *)
THEOREM StaffStaysSafe ==
    ASSUME Sensible
    PROVE  Spec => []StaffIsSafe
<1>1. StaffInv => StaffIsSafe
    BY DEF StaffInv
<1> QED
    BY <1>1, StaffInvariance, PTL
=============================================================================
