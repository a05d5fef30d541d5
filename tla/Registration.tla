---------------------------- MODULE Registration ----------------------------
(***************************************************************************)
(* From first contact to student: modules/admissions, modules/students and *)
(* modules/imports, which register the same people from three sides.       *)
(*                                                                         *)
(* A worker is an API process handling one request in one READ COMMITTED   *)
(* transaction (see Billing).  Locks are not variables here: which lock is *)
(* held follows from what the open transactions have done (the operators   *)
(* under "Locks").  A handler that only writes at its end does so in its   *)
(* last step.  A person stands for the name, phone and email in a row, by  *)
(* which applications and students are compared.                           *)
(***************************************************************************)
EXTENDS Integers, Sequences, FiniteSets, FiniteSetsExt

CONSTANTS Application, \* ids of application rows
          Student,     \* ids of student rows
          Person,      \* who fills in a form: name, phone, email
          Course,
          List,        \* the lists of guardians a caller may send, the empty one too
          File,        \* CSV files: sequences of [who, valid]
          Alike,       \* pairs of people the duplicate search takes for one, <<p, p>> among them
          Tried,       \* bound: the stages staff choose
          PlacementOn, \* whether the placement module is on
          Worker,      \* request handlers
          None,
          MaxChanges   \* bound: changes to all rows together

VARIABLES application, \* applications: [Application -> row or NoRow]
          student,     \* students
          guardian,    \* student_guardians of each student, as a set
          edited,      \* ghost: rows whose person or course staff have changed
          tx           \* what each worker's open transaction has done

rows == <<application, student, guardian, edited>>
vars == <<application, student, guardian, edited, tx>>

NoRow == [status |-> "none"]
Idle  == [step |-> "idle"]

-----------------------------------------------------------------------------
(* Rows and the pipeline.                                                  *)

ApplicationStatus ==
    {"submitted", "contacted", "placement_scheduled", "placed", "offered",
     "confirmed", "enrolled", "rejected", "withdrawn", "expired"}

(* createdBy is null in a row the website made: online. *)
ApplicationRow ==
    [status : ApplicationStatus, who : Person, course : Course,
     student : Student \cup {None}, online : BOOLEAN, version : Nat]

(* from and by are ghosts: the application a student was registered from,  *)
(* and which handler did it.                                               *)
StudentRow ==
    [status : {"active"}, who : Person, version : Nat,
     from : Application \cup {None}, by : {"desk", "import", "import_all"}]

ClosedStatuses == {"rejected", "withdrawn", "expired", "enrolled"}

Transitions(from) ==
    CASE from = "submitted" -> {"contacted", "placement_scheduled", "placed",
                                "offered", "rejected", "withdrawn"}
      [] from = "contacted" -> {"placement_scheduled", "placed", "offered",
                                "rejected", "withdrawn"}
      [] from = "placement_scheduled" -> {"placed", "contacted", "offered",
                                          "rejected", "withdrawn"}
      [] from = "placed"    -> {"offered", "rejected", "withdrawn"}
      [] from = "offered"   -> {"confirmed", "rejected", "withdrawn", "expired"}
      [] from = "confirmed" -> {"enrolled", "withdrawn"}
      [] OTHER              -> {}

PlacementFrom == {"submitted", "contacted", "placement_scheduled", "placed"}

(* duplicates.find: across every branch, on the rows the transaction sees. *)
Candidates(who, seen) == {p \in seen : <<who, p>> \in Alike}
StudentsNow == {student[s].who : s \in {t \in Student : student[t] # NoRow}}

(* A parsed row of a file: validate() reduces it to whether it can become  *)
(* a student (its person, an active branch where the caller may add, a     *)
(* known category, a whole guardian or none, no required custom field).    *)
FileRow == [who : Person \cup {None}, valid : BOOLEAN]

(* Bounds of the model: row ids, and changes to rows. *)
Free(table)  == {r \in DOMAIN table : table[r] = NoRow}
Versions(table) ==
    MapThenSumSet(LAMBDA r : table[r].version, DOMAIN table \ Free(table))
ChangesLeft  == Versions(application) + Versions(student) < MaxChanges

-----------------------------------------------------------------------------
(* Locks.                                                                  *)

(* SELECT ... FOR UPDATE in convert; the UPDATE in setGuardians. *)
ApplicationHeld(a) == \E v \in Worker : /\ tx[v].step \in {"converting", "registering"}
                                        /\ tx[v].app = a
StudentHeld(s)     == \E v \in Worker : /\ tx[v].step = "replacing" /\ tx[v].student = s

(* pg_advisory_xact_lock('emis.pre_registration', phone) and               *)
(* ('emis.student_import').                                                *)
PhoneHeld(who) == \E v \in Worker : tx[v].step = "submitting" /\ tx[v].who = who
ImportHeld     == \E v \in Worker : tx[v].step = "importing"

(* The first student an import adds takes the counter row of the student   *)
(* numbers and the audit log's lock, until the import ends: nobody else    *)
(* who records anything can commit meanwhile.                              *)
AuditFree == \A v \in Worker : tx[v].step = "importing" => tx[v].added = <<>>

Begin(w, work) ==
    /\ tx[w] = Idle
    /\ tx' = [tx EXCEPT ![w] = work]
    /\ UNCHANGED rows

Commit(w) == AuditFree /\ tx' = [tx EXCEPT ![w] = Idle]

(* Any error, a lost connection or a killed process: nothing was done. *)
Abort(w) ==
    /\ tx[w] # Idle
    /\ tx' = [tx EXCEPT ![w] = Idle]
    /\ UNCHANGED rows

-----------------------------------------------------------------------------
Init ==
    /\ application = [a \in Application |-> NoRow]
    /\ student = [s \in Student |-> NoRow]
    /\ guardian = [s \in Student |-> {}]
    /\ edited = {}
    /\ tx = [w \in Worker |-> Idle]

NewApplication(who, course, online) ==
    /\ ChangesLeft
    /\ \E a \in Free(application) :
           application' = [application EXCEPT ![a] =
               [status |-> "submitted", who |-> who, course |-> course,
                student |-> None, online |-> online, version |-> 1]]
    /\ UNCHANGED <<student, guardian, edited>>

(* applications.create, by staff: no look at other applications.           *)
Create(w, who, course) ==
    /\ tx[w] = Idle
    /\ Commit(w)
    /\ NewApplication(who, course, FALSE)

OpenRequest(who, course) ==
    \E a \in Application \ Free(application) :
        /\ application[a].who = who /\ application[a].course = course
        /\ application[a].status \notin ClosedStatuses

(* applications.submitFromWebsite: lock the phone number, look for an open *)
(* application for the course; with one there is nothing to do.            *)
LookForRequest(w, who, course) ==
    /\ ~ PhoneHeld(who)
    /\ ~ OpenRequest(who, course)
    /\ Begin(w, [step |-> "submitting", who |-> who, course |-> course])

CommitRequest(w) ==
    /\ tx[w].step = "submitting"
    /\ Commit(w)
    /\ NewApplication(tx[w].who, tx[w].course, TRUE)

-----------------------------------------------------------------------------
(* Changing an application: read without a lock, checked, then written     *)
(* where the version is still the one the caller knows (updateWithVersion).*)
(* A caller whose version was old already is refused in any case, so the   *)
(* version is taken as that of the row read.                               *)

Editing(w, a, row) ==
    /\ application[a] # NoRow
    /\ Begin(w, [step |-> "editing", app |-> a, row |-> row])
    /\ ChangesLeft

(* applications.update: new details, only while it is open. *)
Update(w, a, who, course) ==
    /\ application[a] # NoRow
    /\ application[a].status \notin ClosedStatuses
    /\ Editing(w, a, [application[a] EXCEPT !.who = who, !.course = course])

(* applications.transition. *)
Transition(w, a, to) ==
    /\ to \in Transitions(application[a].status)
    /\ to = "placement_scheduled" => PlacementOn
    /\ Editing(w, a, [application[a] EXCEPT !.status = to])

(* applications.recordPlacement, also of a retest. *)
RecordPlacement(w, a) ==
    /\ PlacementOn
    /\ application[a].status \in PlacementFrom
    /\ Editing(w, a, [application[a] EXCEPT !.status = "placed"])

Written(a, row) ==
    application' = [application EXCEPT ![a] = [row EXCEPT !.version = @ + 1]]

(* Mutant: the row is written whatever its version. *)
CommitEditUnversioned(w) ==
    /\ tx[w].step = "editing"
    /\ ~ ApplicationHeld(tx[w].app)
    /\ Commit(w)
    /\ Written(tx[w].app, [tx[w].row EXCEPT !.student = application[tx[w].app].student])
    /\ UNCHANGED <<student, guardian, edited>>

CommitEdit(w) ==
    /\ tx[w].step = "editing"
    /\ ~ ApplicationHeld(tx[w].app)
    /\ Commit(w)
    /\ LET a == tx[w].app
           row == tx[w].row
       IN  /\ application[a].version = row.version
           /\ Written(a, row)
           /\ edited' = IF row.who # application[a].who \/ row.course # application[a].course
                        THEN edited \cup {a} ELSE edited
    /\ UNCHANGED <<student, guardian>>

(* applications.markEnrolled, from the transaction that gives a seat. *)
MarkEnrolled(w, s) ==
    /\ tx[w] = Idle
    /\ ChangesLeft
    /\ \E a \in Application \ Free(application) :
           application[a].student = s /\ application[a].status = "confirmed"
    /\ Commit(w)
    /\ application' =
           [a \in Application |->
               IF /\ application[a] # NoRow
                  /\ application[a].student = s /\ application[a].status = "confirmed"
               THEN [application[a] EXCEPT !.status = "enrolled", !.version = @ + 1]
               ELSE application[a]]
    /\ UNCHANGED <<student, guardian, edited>>

-----------------------------------------------------------------------------
(* Registering a student.                                                  *)

NewStudent(s, who, from, by, list) ==
    /\ student' = [student EXCEPT ![s] =
           [status |-> "active", who |-> who, version |-> 1, from |-> from, by |-> by]]
    /\ guardian' = [guardian EXCEPT ![s] = list]

(* students.create at the desk: refused while the person looks like a      *)
(* student, unless the clerk says it is someone else.  The search takes no *)
(* lock.                                                                   *)
LookForStudent(w, who, confirmNotDuplicate) ==
    /\ confirmNotDuplicate \/ Candidates(who, StudentsNow) = {}
    /\ Begin(w, [step |-> "registering", app |-> None, who |-> who])
    /\ ChangesLeft

(* applications.convert locks the application, then links a student or     *)
(* registers one as students.create does.                                  *)
LockToConvert(w, a) ==
    /\ ~ ApplicationHeld(a)
    /\ application[a].status = "offered"
    /\ application[a].student = None
    /\ Begin(w, [step |-> "converting", app |-> a, version |-> application[a].version])
    /\ ChangesLeft

LookToConvert(w, confirmNotDuplicate) ==
    /\ tx[w].step = "converting"
    /\ confirmNotDuplicate
          \/ Candidates(application[tx[w].app].who, StudentsNow) = {}
    /\ tx' = [tx EXCEPT ![w] = [step |-> "registering", app |-> tx[w].app,
                                version |-> tx[w].version,
                                who |-> application[tx[w].app].who]]
    /\ UNCHANGED rows

Confirm(a, version, s) ==
    /\ application[a].version = version
    /\ Written(a, [application[a] EXCEPT !.status = "confirmed", !.student = s])

CommitLink(w, s) ==
    /\ tx[w].step = "converting"
    /\ student[s] # NoRow
    /\ Commit(w)
    /\ Confirm(tx[w].app, tx[w].version, s)
    /\ UNCHANGED <<student, guardian, edited>>

CommitStudent(w) ==
    /\ tx[w].step = "registering"
    /\ Commit(w)
    /\ \E s \in Free(student), list \in List :
           /\ tx[w].app # None => list = {}
           /\ NewStudent(s, tx[w].who, tx[w].app, "desk", list)
           /\ IF tx[w].app = None THEN UNCHANGED application
              ELSE Confirm(tx[w].app, tx[w].version, s)
    /\ UNCHANGED edited

(* students.update: details or status, under the version the caller knows. *)
UpdateStudent(w, s, who) ==
    /\ student[s] # NoRow
    /\ Begin(w, [step |-> "amending", student |-> s, version |-> student[s].version,
                 who |-> who])
    /\ ChangesLeft

CommitUpdateStudent(w) ==
    /\ tx[w].step = "amending"
    /\ ~ StudentHeld(tx[w].student)
    /\ student[tx[w].student].version = tx[w].version
    /\ Commit(w)
    /\ student' = [student EXCEPT ![tx[w].student].who = tx[w].who,
                                  ![tx[w].student].version = @ + 1]
    /\ edited' = IF tx[w].who # student[tx[w].student].who
                 THEN edited \cup {tx[w].student} ELSE edited
    /\ UNCHANGED <<application, guardian>>

(* Mutant: the list is replaced without touching the student's row. *)
ReplaceUnlocked(w, s, list) ==
    /\ student[s] # NoRow
    /\ Begin(w, [step |-> "replacing", student |-> s, version |-> student[s].version,
                 seen |-> guardian[s], list |-> list])
    /\ ChangesLeft

(* students.setGuardians: the version moves on first, which locks the row; *)
(* then the list seen is deleted and the new one inserted.                 *)
ReplaceGuardians(w, s, list) ==
    /\ student[s] # NoRow
    /\ ~ StudentHeld(s)
    /\ Begin(w, [step |-> "replacing", student |-> s, version |-> student[s].version,
                 seen |-> guardian[s], list |-> list])
    /\ ChangesLeft

CommitGuardians(w) ==
    /\ tx[w].step = "replacing"
    /\ Commit(w)
    /\ LET s == tx[w].student
       IN  /\ student' = [student EXCEPT ![s].version = @ + 1]
           /\ guardian' = [guardian EXCEPT ![s] = (@ \ tx[w].seen) \cup tx[w].list]
    /\ UNCHANGED <<application, edited>>

-----------------------------------------------------------------------------
(* StudentImportService.run: one import at a time, row after row in one    *)
(* transaction that sees its own rows.                                     *)

StartImport(w, file, onDuplicate) ==
    /\ ~ ImportHeld
    /\ Len(file) > 0
    /\ Begin(w, [step |-> "importing", file |-> file, onDuplicate |-> onDuplicate,
                 adding |-> FALSE, added |-> <<>>])

PeopleAdded(w) == {tx[w].added[k] : k \in DOMAIN tx[w].added}

(* A row that does not validate is left out; one that looks like a student *)
(* is left out when the caller said skip; the rest go through              *)
(* students.create, already confirmed.                                     *)
Adds(w, row) ==
    /\ row.valid
    /\ \/ tx[w].onDuplicate = "import"
       \/ Candidates(row.who, StudentsNow \cup PeopleAdded(w)) = {}

LookAtRow(w) ==
    /\ tx[w].step = "importing" /\ ~ tx[w].adding
    /\ tx[w].file # <<>>
    /\ tx' = IF Adds(w, Head(tx[w].file)) THEN [tx EXCEPT ![w].adding = TRUE]
             ELSE [tx EXCEPT ![w].file = Tail(@)]
    /\ UNCHANGED rows

NobodyElseAdds(w) ==
    \A v \in Worker \ {w} : tx[v].step = "importing" => tx[v].added = <<>>

AddRow(w) ==
    /\ tx[w].step = "importing" /\ tx[w].adding
    /\ NobodyElseAdds(w)
    /\ tx' = [tx EXCEPT ![w].file = Tail(@), ![w].adding = FALSE,
                        ![w].added = Append(@, Head(tx[w].file).who)]
    /\ UNCHANGED rows

(* commit: what the rows added is kept; what was skipped needs no row. *)
CommitImport(w) ==
    /\ tx[w].step = "importing"
    /\ tx[w].file = <<>>
    /\ ChangesLeft
    /\ NobodyElseAdds(w)
    /\ \E ids \in kSubset(Len(tx[w].added), Free(student)) :
       \E who \in [ids -> PeopleAdded(w)] :
           /\ \A p \in PeopleAdded(w) :
                  Cardinality({s \in ids : who[s] = p})
                      = Cardinality({k \in DOMAIN tx[w].added : tx[w].added[k] = p})
           /\ student' = [s \in Student |->
                  IF s \notin ids THEN student[s]
                  ELSE [status |-> "active", who |-> who[s], version |-> 1, from |-> None,
                        by |-> IF tx[w].onDuplicate = "skip" THEN "import" ELSE "import_all"]]
    /\ tx' = [tx EXCEPT ![w] = Idle]
    /\ UNCHANGED <<application, guardian, edited>>

(* preview runs the same steps and ends them with DryRunRollback: an import *)
(* that aborts.                                                            *)

-----------------------------------------------------------------------------
Admitting(w) ==
    \/ \E who \in Person, course \in Course :
           \/ Create(w, who, course)
           \/ LookForRequest(w, who, course)
           \/ \E a \in Application : Update(w, a, who, course)
    \/ CommitRequest(w)
    \/ \E a \in Application :
           \/ \E to \in Tried : Transition(w, a, to)
           \/ RecordPlacement(w, a)
           \/ LockToConvert(w, a)
    \/ CommitEdit(w)
    \/ \E confirmed \in BOOLEAN : LookToConvert(w, confirmed)
    \/ \E s \in Student : CommitLink(w, s) \/ MarkEnrolled(w, s)

Registering(w) ==
    \/ \E who \in Person, confirmed \in BOOLEAN : LookForStudent(w, who, confirmed)
    \/ CommitStudent(w)
    \/ \E s \in Student : \/ \E who \in Person : UpdateStudent(w, s, who)
                          \/ \E list \in List : ReplaceGuardians(w, s, list)
    \/ CommitUpdateStudent(w)
    \/ CommitGuardians(w)

Importing(w) ==
    \/ \E file \in File, onDuplicate \in {"skip", "import"} : StartImport(w, file, onDuplicate)
    \/ LookAtRow(w)
    \/ AddRow(w)
    \/ CommitImport(w)

Next == \E w \in Worker : Admitting(w) \/ Registering(w) \/ Importing(w) \/ Abort(w)

Spec == Init /\ [][Next]_vars
=============================================================================
