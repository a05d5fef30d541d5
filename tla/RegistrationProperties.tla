----------------------- MODULE RegistrationProperties -----------------------
(***************************************************************************)
(* What is asked of Registration.                                          *)
(***************************************************************************)
EXTENDS Registration

TypeOK ==
    /\ application \in [Application -> ApplicationRow \cup {NoRow}]
    /\ student \in [Student -> StudentRow \cup {NoRow}]
    /\ guardian \in [Student -> SUBSET UNION List]
    /\ edited \subseteq Application \cup Student

(* The form on the website makes one open application for a person and a   *)
(* course, however often and however fast it is sent (submitFromWebsite:   *)
(* "the lock makes this hold for simultaneous requests too"), unless staff *)
(* changed one of them afterwards.                                         *)
OneOpenRequest ==
    \A a, b \in Application \ Free(application) :
        /\ a # b /\ application[a].online /\ application[b].online
        /\ application[a].who = application[b].who
        /\ application[a].course = application[b].course
        /\ {application[a].status, application[b].status} \cap ClosedStatuses = {}
        => edited \cap {a, b} # {}

(* Registration happens once: a confirmed or enrolled application has its  *)
(* student and only such a one (or one withdrawn since) has; a student     *)
(* registered from an application is the one it names, so a double click,  *)
(* a rejection at the same moment or a failure half way leaves neither a   *)
(* second student nor one without application (convert).                   *)
RegisteredOnce ==
    /\ \A a \in Application \ Free(application) :
           /\ application[a].status \in {"confirmed", "enrolled"} => application[a].student # None
           /\ application[a].student # None
                  => application[a].status \in {"confirmed", "enrolled", "withdrawn"}
    /\ \A s \in Student \ Free(student) :
           student[s].from # None => application[student[s].from].student = s

(* The same person is never added twice by imports that skip duplicates,   *)
(* two of them at once, one sent again or one with the person twice        *)
(* ("Imports take one lock", "a retry of the same file finds those         *)
(* students already there").                                               *)
ImportedOnce ==
    \A s, t \in Student \ Free(student) :
        /\ s # t /\ student[s].by = "import" /\ student[t].by = "import"
        /\ edited \cap {s, t} = {}
        => <<student[s].who, student[t].who>> \notin Alike

(* The guardians of a student are a list somebody sent, never a mixture of *)
(* two replaced at once (setGuardians: "two people editing the record      *)
(* together get a 412 instead of overwriting each other").                 *)
GuardiansAreOneList == \A s \in Student : guardian[s] \in List

(* Registration, taken together. *)
RegistrationIsExact == OneOpenRequest /\ RegisteredOnce /\ ImportedOnce /\ GuardiansAreOneList

(* Every committed change of stage is one the pipeline allows from the     *)
(* stage before it, though each was checked on a row read earlier; a       *)
(* finished application never moves again, and a retest keeps it placed    *)
(* (APPLICATION_TRANSITIONS).                                              *)
StageFollows ==
    \A a \in Application :
        application[a] # NoRow /\ application'[a].status # application[a].status
            => application'[a].status \in Transitions(application[a].status)
StagesFollowThePipeline == [][StageFollows]_vars
=============================================================================
