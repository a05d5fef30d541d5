------------------------------- MODULE Office -------------------------------
(***************************************************************************)
(* The parts of the office that do not share tables, checked side by side: *)
(* a behaviour is about one part, chosen at its start, and keeps that      *)
(* part's variables in the registers v1 .. v18.  The audit log keeps its   *)
(* own.  Interactions between parts are in the modules that compose them.  *)
(***************************************************************************)
EXTENDS AuditChainProperties

CONSTANTS
    Worker, Thing, Other, Guest, None,      \* handlers, and ids of whatever a part is about
    Totals, Plans, MaxPayment, Discounts,   \* of Money
    User, Founder, MaxTokens, MaxGrants,    \* of Staff
    Person, Offer, List, Alike, File, Tried, PlacementOn, MaxChanges,    \* of Admission
    Label, Code, MaxTime, MaxVersion,       \* of Config
    MaxSwitches,                            \* of Switches
    ValidDays, MaxDocuments, MaxDay,        \* of Papers
    BranchCode, Pattern, Calendar, FiscalYearStart, Base, MaxRecords,     \* of Numbers
    Installment, DueDate, CreatedOn, FirstDay,                            \* of Reminders
    Title, MaxPostTime, MaxPostVersion,     \* of Blog
    Listed, Granularity, PageSize, Date, MaxListed, LastTick,   \* of Lists
    Landing, MaxRowVersion, MaxIntents, MaxPresses                \* of Browser

VARIABLES part, v1, v2, v3, v4, v5, v6, v7, v8, v9, v10, v11, v12, v13, v14, v15, v16, v17, v18

office == <<part, vars, v1, v2, v3, v4, v5, v6, v7, v8, v9, v10, v11, v12, v13, v14, v15, v16, v17, v18>>

-----------------------------------------------------------------------------
Money == INSTANCE MoneyFlowRun WITH
    parts <- v1, subtotal <- v2, received <- v3, waived <- v4

Staff == INSTANCE StaffAccessProofs WITH
    account <- v1, assigned <- v2, token <- v3, issued <- v4, grants <- v5, uses <- v6, tx <- v7

(* The second factor, and apart from it passwords, their links and the lock-out: *)
(* the two meet in the session only, which each of them has.                     *)
SignIn == INSTANCE IdentityProofs WITH
    Handler <- Worker, Session <- {Guest}, Link <- {},
    LockoutThreshold <- 1, MaxMfaAttempts <- 1, CodeCount <- 1,
    MaxStep <- 0, MaxSecrets <- 2, MaxEnrollments <- 2, MaxFailures <- 0,
    account <- v1, session <- v2, factor <- v3, code <- v4, link <- v5, clock <- v6, job <- v7,
    expired <- v8, made <- v9, enrolled <- v10, spent <- v11, exempt <- v12, astray <- v13,
    beside <- v14

Passwords == INSTANCE IdentityProofs WITH
    Handler <- Worker, Session <- {Guest}, Link <- Other,
    LockoutThreshold <- 2, MaxMfaAttempts <- 1, CodeCount <- 1,
    MaxStep <- 1, MaxSecrets <- 0, MaxEnrollments <- 0, MaxFailures <- 4,
    account <- v1, session <- v2, factor <- v3, code <- v4, link <- v5, clock <- v6, job <- v7,
    expired <- v8, made <- v9, enrolled <- v10, spent <- v11, exempt <- v12, astray <- v13,
    beside <- v14

Admission == INSTANCE RegistrationProperties WITH
    Application <- Thing, Student <- Other, Course <- Offer,
    application <- v1, student <- v2, guardian <- v3, edited <- v4, tx <- v5

Numbers == INSTANCE Numbering WITH
    Branch <- BranchCode,
    numberSeries <- v1, numberCounters <- v2, records <- v3, today <- v4, tx <- v5

Config == INSTANCE Records WITH
    Row <- Thing,
    table <- v1, rows <- v2, form <- v3, branchLock <- v4

Switches == INSTANCE Settings WITH
    Course <- Thing \cup {Guest}, Department <- Other, Term <- Thing, MaxChanges <- MaxSwitches,
    page <- v1, enabled <- v2, requires <- v3, version <- v4, institution <- v5,
    departments <- v6, overrides <- v7, changes <- v8, tx <- v9

Papers == INSTANCE Documents WITH
    Name <- Thing,
    student <- v1, completed <- v2, owed <- v3, requiresPaidInFull <- v4, certificates <- v5,
    studentCards <- v6, today <- v7, tx <- v8

Reminders == INSTANCE FeeReminders WITH
    enabled <- v1, open <- v2, contact <- v3, reminderLog <- v4, mailed <- v5, today <- v6, tx <- v7

Blog == INSTANCE Posts WITH
    Post <- Thing, MaxTime <- MaxPostTime, MaxVersion <- MaxPostVersion,
    posts <- v1, given <- v2, now <- v3, tx <- v4

Lists == INSTANCE Paging WITH
    List <- Listed, Millisecond <- Granularity, Limit <- PageSize, Chosen <- Date,
    MaxRows <- MaxListed, MaxClock <- LastTick,
    list <- v1, rows <- v2, tx <- v3, lastId <- v4, clock <- v5, cursor <- v6, seen <- v7,
    staying <- v8

Browser == INSTANCE Portal WITH
    First <- Landing, MaxVersion <- MaxRowVersion,
    page <- v1, holds <- v2, on <- v3, change <- v4, query <- v5, row <- v6, view <- v7,
    fetch <- v8, form <- v9, presses <- v10, sent <- v11, waiting <- v12, answer <- v13,
    done <- v14, stored <- v15, shown <- v16, overtaken <- v17, blind <- v18

(* Somebody is an administrator at first, and no row is mistaken for none. *)
ASSUME StaffAssumption == /\ Founder \subseteq User /\ Founder # {}
                          /\ None \notin Staff!Assignment
                          /\ MaxTokens \in Nat /\ MaxGrants \in Nat

(* Money is counted in whole santims, and a plan's shares, in basis points, are the *)
(* whole of the total: planIsValid (contracts billing 82-89).                       *)
ASSUME MoneyAssumption == /\ Totals \subseteq Nat /\ MaxPayment \in Nat
                          /\ \A plan \in Plans : /\ plan \in Seq(Nat)
                                                 /\ Money!SumFunction(plan) = 10000
                          /\ Discounts \subseteq {"fixed", "percent"} \X Nat

(* Titles are words in a row. *)
ASSUME PostAssumption == /\ \A title \in Title : /\ Len(title) \in Nat
                                                  /\ title = [k \in 1..Len(title) |-> title[k]]
                         /\ MaxPostTime \in Nat /\ MaxPostVersion \in Nat

ASSUME DocumentAssumption == ValidDays \in Nat /\ MaxDocuments \in Nat /\ MaxDay \in Nat

(* An institution's days are dates, one after the other. *)
ASSUME NumberingAssumption == /\ Calendar \in Seq([year : Nat, month : Nat, day : Nat])
                              /\ Calendar # <<>>

(* Days are counted from some day on. *)
ASSUME ReminderAssumption == /\ DueDate \in [Installment -> Int]
                             /\ CreatedOn \in [Installment -> Int] /\ FirstDay \in Int

(* Dates are counted like the clock's ticks, of which a millisecond has some. *)
ASSUME PagingAssumption == /\ Listed \subseteq DOMAIN Lists!Lists
                           /\ Granularity \in Nat \ {0} /\ PageSize \in Nat \ {0}
                           /\ Date \subseteq Nat

(* A table has finitely many rows, and there are finitely many requests at a time. *)
ASSUME TableAssumption == IsFiniteSet(Thing) /\ IsFiniteSet(Other) /\ IsFiniteSet(Worker)

(* Staff choose the stages that no other handler sets, people look alike to each *)
(* other, and a row of a file that can become a student names one.               *)
ASSUME AdmissionAssumption ==
    /\ Tried \subseteq {"contacted", "placement_scheduled", "offered", "rejected", "withdrawn",
                        "expired"}
    /\ None \notin Thing \cup Other \cup Person
    /\ \A pair \in Alike : <<pair[2], pair[1]>> \in Alike
    /\ {} \in List
    /\ \A file \in File : /\ file \in Seq(Admission!FileRow)
                          /\ \A k \in DOMAIN file : file[k].valid => file[k].who # None

(* The walk starts from pages there are.  What the proofs about the portal rely on in   *)
(* its tables is evaluated for all of their rows.                                      *)
ASSUME PortalAssumption == /\ Landing \subseteq DOMAIN Browser!Pages
                           /\ Browser!TablesFit
                           /\ MaxIntents \in Nat \ {0}

-----------------------------------------------------------------------------
(* The registers from the n-th on, which a part with fewer variables leaves empty. *)
From15 == <<v15, v16, v17, v18>>
From10 == <<v10, v11, v12, v13, v14, From15>>
From9  == <<v9, From10>>
From8  == <<v8, From9>>
From6  == <<v6, v7, From8>>
From5  == <<v5, From6>>
From1  == <<v1, v2, v3, v4, From5>>

Uses(n) ==
    /\ IF n < 4 THEN v1 = 0 /\ v2 = 0 /\ v3 = 0 /\ v4 = 0 ELSE TRUE
    /\ IF n < 5 THEN v5 = 0 ELSE TRUE
    /\ IF n < 7 THEN v6 = 0 /\ v7 = 0 ELSE TRUE
    /\ IF n < 8 THEN v8 = 0 ELSE TRUE
    /\ IF n < 9 THEN v9 = 0 ELSE TRUE
    /\ IF n < 14 THEN v10 = 0 /\ v11 = 0 /\ v12 = 0 /\ v13 = 0 /\ v14 = 0 ELSE TRUE
    /\ IF n < 18 THEN v15 = 0 /\ v16 = 0 /\ v17 = 0 /\ v18 = 0 ELSE TRUE

OfficeInit ==
    /\ Init
    /\ \/ part = "audit" /\ Uses(0)
       \/ part = "money" /\ Money!Init /\ Uses(4)
       \/ part = "staff" /\ Staff!Init /\ Uses(7)
       \/ part = "identity" /\ SignIn!Init /\ Uses(14)
       \/ part = "passwords" /\ Passwords!Init /\ Uses(14)
       \/ part = "registration" /\ Admission!Init /\ Uses(5)
       \/ part = "numbering" /\ Numbers!Init /\ Uses(5)
       \/ part = "records" /\ Config!Init /\ Uses(4)
       \/ part = "settings" /\ Switches!Init /\ Uses(9)
       \/ part = "documents" /\ Papers!Init /\ Uses(8)
       \/ part = "reminders" /\ Reminders!Init /\ Uses(7)
       \/ part = "posts" /\ Blog!Init /\ Uses(4)
       \/ part = "paging" /\ Lists!Init /\ Uses(8)
       \/ part = "portal" /\ Browser!Init /\ Uses(18)

OfficeNext ==
    \/ part = "audit" /\ Next /\ UNCHANGED <<part, From1>>
    \/ part = "money" /\ Money!Next /\ UNCHANGED <<part, vars, From5>>
    \/ part = "staff" /\ Staff!Next /\ UNCHANGED <<part, vars, From8>>
    \/ part = "identity" /\ SignIn!Next /\ UNCHANGED <<part, vars, From15>>
    \/ part = "passwords" /\ Passwords!Next /\ UNCHANGED <<part, vars, From15>>
    \/ part = "registration" /\ Admission!Next /\ UNCHANGED <<part, vars, From6>>
    \/ part = "numbering" /\ Numbers!Next /\ UNCHANGED <<part, vars, From6>>
    \/ part = "records" /\ Config!Next /\ UNCHANGED <<part, vars, From5>>
    \/ part = "settings" /\ Switches!Next /\ UNCHANGED <<part, vars, From10>>
    \/ part = "documents" /\ Papers!Next /\ UNCHANGED <<part, vars, From9>>
    \/ part = "reminders" /\ Reminders!Next /\ UNCHANGED <<part, vars, From8>>
    \/ part = "posts" /\ Blog!Next /\ UNCHANGED <<part, vars, From5>>
    \/ part = "paging" /\ Lists!Next /\ UNCHANGED <<part, vars, From9>>
    \/ part = "portal" /\ Browser!Next /\ UNCHANGED <<part, vars>>

OfficeSpec == OfficeInit /\ [][OfficeNext]_office

-----------------------------------------------------------------------------
(* The properties of the parts, each of a behaviour that is about its part; the  *)
(* audit log's are the ones of its own module.                                   *)

(* Not a santim is lost or made, and the loops compute what they promise     *)
(* (buildInstallments, allocatePayment and applyDiscount of money-flow.ts).  *)
MoneyIsExact == part = "money" => Money!MoneyIsExact

(* Staff accounts under concurrent administration: an administrator remains  *)
(* while roles are only taken away, and an invitation works once             *)
(* (users.service.ts and invitations.service.ts).                            *)
StaffIsSafe == part = "staff" => Staff!StaffIsSafe

(* Whatever requests run at the same moment, a secret works once, the lock   *)
(* lets no more passwords through than requests were under way when it fell, *)
(* one set of recovery codes and one reset link are in force (the auth, mfa, *)
(* accounts and password services).  Stated with it are its exceptions: TOTP *)
(* codes that a switch-off took or a late confirmation reopened, a           *)
(* confirmation beside a switch-off, two links asked for at once.            *)
SignInIsExact ==
    /\ part = "identity" => SignIn!SignInIsExact
    /\ part = "passwords" => Passwords!SignInIsExact

(* One open request of a person for a course, one student of an application, *)
(* no person imported twice, guardians that are one list                     *)
(* (applications.service.ts, students.service.ts,                            *)
(* student-import.service.ts).                                               *)
RegistrationIsExact == part = "registration" => Admission!RegistrationIsExact

(* Every committed change of an application's stage is one the pipeline      *)
(* allows from the stage before it (transition, convert and markEnrolled of  *)
(* applications.service.ts).                                                 *)
StagesFollowThePipeline == [][part = "registration" => Admission!StageFollows]_office

(* Numbers of a series have no gap in their scope and never print the same   *)
(* (numbering.service.ts).                                                   *)
NumbersAreExact == part = "numbering" => Numbers!NumbersAreExact

(* Configuration records under concurrent, partial and stale edits: rows     *)
(* stay sound, nobody but the one set-up of the institution overwrites a     *)
(* change they have not seen, a branch stays active (updateWithVersion, the  *)
(* services that call it, and setup.service.ts, which does not).             *)
RecordsHold ==
    [][part = "records" => Config!RowsAreSound' /\ Config!EditsAreSafe]_office

(* Modules have the modules they require, no course needs itself, the set-up *)
(* is completed once, keeps the departments there are, and is the only       *)
(* change of the institution's row by somebody who had not seen it (modules, *)
(* setup, institution and courses services).                                 *)
SettingsHold ==
    [][part = "settings" => Switches!SettingsConsistent' /\ Switches!KeepsWhatWasMade]_office

(* One certificate of an enrollment and one card of a student verify, and    *)
(* what a scan says only changes from valid to expired to revoked            *)
(* (certificates.service.ts, student-cards.service.ts,                       *)
(* verification.service.ts).                                                 *)
DocumentsAreTrue ==
    [][part = "documents" => Papers!OneVerifies' /\ Papers!AnswersOnlyWorsen]_office

(* A stage is emailed exactly when it is logged as queued, once, and a run   *)
(* that ends without error leaves nothing out (fee-reminders.service.ts).    *)
RemindersAreExact ==
    [][part = "reminders" => Reminders!MailedAsLogged' /\ Reminders!NothingLeftOut]_office

(* Nobody who may only draft edits a post that is live or scheduled, or      *)
(* removes one that nobody has changed since they loaded it, and a new slug  *)
(* is free when inserted (posts.service.ts).                                 *)
PostsAreGuarded ==
    [][part = "posts" => Blog!SlugsStayFree' /\ Blog!PublishersDecide]_office

(* A walk through a list shows rows in order, none twice at the same place   *)
(* (one whose sort date is edited may come again), and misses none but a row *)
(* stamped in the millisecond of one it showed (packages/db/src/pagination.ts). *)
PagesAreExact == part = "paging" => Lists!PagesAreExact

(* Whoever comes to a screen by the links they are shown may use everything  *)
(* the screen offers them (the permission checks of the portal against the   *)
(* API's guards).                                                            *)
NoDeadButton == part = "portal" => Browser!NoDeadButton

(* What a person sets out to do is done once at most, and is done when they  *)
(* are told so, whatever the network loses (the idempotency keys of the      *)
(* portal's forms); only the import screen, which keeps its key, may tell    *)
(* them what it did before with the same values.                             *)
OneEffectPerIntent == part = "portal" => Browser!OneEffectPerIntent

(* A quiet screen shows at least what the person was told they changed (the  *)
(* invalidations of the portal's query cache).                               *)
OwnChangesShow == part = "portal" => Browser!OwnChangesShow

(* A change that carries a version never replaces values its form did not    *)
(* show (the If-Match of the portal's forms).                                *)
NoBlindOverwrite == part = "portal" => Browser!NoBlindOverwrite
=============================================================================
