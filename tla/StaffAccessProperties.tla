----------------------- MODULE StaffAccessProperties -----------------------
EXTENDS StaffAccess

Assignment == [user : User, role : Role, id : 0..MaxGrants]

(* Every variable has its type.                                            *)
TypeOK ==
    /\ account \in [User -> [status : {"none", "active", "disabled"}, password : BOOLEAN]]
    /\ assigned \subseteq Assignment
    /\ token \in [Token -> [user : User \cup {None}, accepted : BOOLEAN,
                            revoked : BOOLEAN, expired : BOOLEAN]]
    /\ issued \in 0..MaxTokens /\ grants \in 0..MaxGrants
    /\ uses \in [Token -> 0..1]
    /\ tx \in [Worker -> [op : {"idle", "disable", "remove", "resend", "accept"},
                          at : {"idle", "read", "guarded", "revoking"},
                          user : User \cup {None}, row : Assignment \cup {None},
                          links : SUBSET Token]]

(* "The last active admin can't be removed or disabled" (README 270):      *)
(* somebody who can sign in is an administrator at all times.  A role      *)
(* given while an account is being disabled breaks it (users.service 135). *)
AnAdminRemains == \E u \in User : ActiveAdmin(u)

(* What the guard does keep: however disabling, enabling, removing roles,  *)
(* inviting and accepting interleave, as long as no role is given to an    *)
(* account that exists ("two admins demoting each other at the same moment *)
(* can't both succeed", users.service 305-306).                            *)
DemotionsLeaveAnAdmin == grants = 0 => AnAdminRemains

(* An account is activated by a link once at most, whoever follows it at   *)
(* the same time: "a link can't be used twice" (invitations.service 56),   *)
(* and an accepted link is never open again.                               *)
LinkUsedOnce == \A t \in Token :
    uses[t] <= 1 /\ (uses[t] = 1 <=> token[t].accepted)

(* Staff accounts under concurrent administration, taken together.          *)
StaffIsSafe == DemotionsLeaveAnAdmin /\ LinkUsedOnce
=============================================================================
