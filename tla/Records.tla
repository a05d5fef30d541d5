------------------------------ MODULE Records ------------------------------
(***************************************************************************)
(* The institution's configuration records: branches, departments, lists,   *)
(* custom fields, programs, courses, years, intakes, holidays, shifts,      *)
(* rooms, prices and payment plans.  They share one protocol.  A person     *)
(* opens a record and sees its version; the handler reads the stored row,   *)
(* checks the change against it, and writes the given columns only if the   *)
(* version is still the one the person saw.  One handler does not: the      *)
(* set-up writes the institution's row over whatever it holds, once.  A     *)
(* behaviour exercises one table, chosen at the start.                      *)
(*                                                                          *)
(* Columns no rule looks at (names, descriptions, sort orders) are one      *)
(* column, label.  The unit, program or course a new row belongs to is the  *)
(* same for all rows, exists and is active.                                 *)
(***************************************************************************)
EXTENDS Naturals

CONSTANTS
    Worker,      \* people at work, one request each at a time
    Row,         \* ids a new row may be given
    Label,       \* free text
    Code,        \* codes, names and dates that a unique index is on
    MaxTime,     \* dates and times of day are 1..MaxTime
    MaxVersion   \* bound on the edits of a row

VARIABLES
    table,       \* the table this behaviour is about
    rows,        \* its rows
    form,        \* what each person has open and is sending
    branchLock   \* who holds the advisory lock emis.branches: nobody or one worker

vars == <<table, rows, form, branchLock>>

Absent == [version |-> 0]                       \* an id not yet given out
Gone   == [version |-> 0, deleted |-> TRUE]     \* and one that is not given out again
Closed == [step |-> "closed"]
Null   == 0           \* SQL's NULL among the times
Time   == 1..MaxTime

(* What a row of each table holds, as its request schema lets it be sent. *)
Branch        == [code : Code, isActive : BOOLEAN]
Department    == [code : Code, label : Label, isActive : BOOLEAN]
Descriptor    == [code : Code, label : Label, isActive : BOOLEAN]
CustomField   == [key : Code, fieldType : {"select", "text"}, options : 0..2]
Institution   == [label : Label, certificateRequiresPaidInFull : BOOLEAN, setupCompleted : BOOLEAN]
Program       == [code : Code, label : Label, isPublished : BOOLEAN]
Course        == [code : Code, label : Label, isActive : BOOLEAN]
AcademicYear  == [name : Code, startDate : Time, endDate : Time]
Intake        == [opensAt : Time \cup {Null}, closesAt : Time \cup {Null}]
Holiday       == [date : Code, label : Label]
Shift         == [code : Code, startTime : Time, endTime : Time]
Room          == [code : Code, capacity : 1..2, isActive : BOOLEAN]
FeeStructure  == [effectiveFrom : Code, label : Label, isActive : BOOLEAN]
PaymentPlan   == [name : Code, isDefault : BOOLEAN, isActive : BOOLEAN]

Holding ==
    [branch |-> Branch, department |-> Department, descriptor |-> Descriptor,
     custom_field |-> CustomField, institution |-> Institution, program |-> Program,
     course |-> Course, academic_year |-> AcademicYear, intake |-> Intake,
     holiday |-> Holiday, shift |-> Shift, room |-> Room, fee_structure |-> FeeStructure,
     payment_plan |-> PaymentPlan]

Table == DOMAIN Holding

IsRow(row) == "is" \in DOMAIN row
Stored == {r \in Row : IsRow(rows[r])}

(* Columns an update may name: codes, keys and types are fixed at creation. *)
Changeable(t, content) ==
    DOMAIN content \ CASE t \in {"academic_year", "holiday", "payment_plan"} -> {}
                       [] t = "custom_field" -> {"key", "fieldType"}
                       [] OTHER -> {"code", "effectiveFrom", "setupCompleted"}

(* A year's update is not partial: it always sends all three. *)
Inputs ==
    [t \in Table |->
        IF t = "academic_year" THEN AcademicYear
        ELSE UNION {{[f \in names |-> c[f]] : names \in SUBSET Changeable(t, c)} : c \in Holding[t]}]

(* The schemas' own checks on the values one request gives together. *)
endsAfterStart(input) ==
    {"startTime", "endTime"} \subseteq DOMAIN input => input.endTime > input.startTime

afterStart(input) == input.endDate > input.startDate

registrationWindowOk(input) ==
    /\ {"opensAt", "closesAt"} \subseteq DOMAIN input
    /\ input.opensAt # Null
    /\ input.closesAt # Null
    => input.closesAt > input.opensAt

(* The custom-field schema and CustomFieldsService.checkOptions. *)
checkOptions(fieldType, options) ==
    IF fieldType = "select" THEN options >= 2 ELSE options = 0

ParsesAs(input) ==
    CASE table = "shift" -> endsAfterStart(input)
      [] table = "academic_year" -> afterStart(input)
      [] table = "intake" -> registrationWindowOk(input)
      [] OTHER -> TRUE

-----------------------------------------------------------------------------
(* The unique indexes and the exclusion constraint on years. *)
KeyOf(content) ==
    CASE table = "academic_year" -> content.name
      [] table = "payment_plan" -> content.name
      [] table = "holiday" -> content.date
      [] table = "custom_field" -> content.key
      [] table = "fee_structure" -> content.effectiveFrom
      [] OTHER -> content.code

HasKey == table \notin {"institution", "intake"}

Overlap(a, b) == a.startDate < b.endDate /\ b.startDate < a.endDate

ConstraintsHold(rs) ==
    \A r, s \in Row : r # s /\ IsRow(rs[r]) /\ IsRow(rs[s]) =>
        /\ HasKey => KeyOf(rs[r].is) # KeyOf(rs[s].is)
        /\ table = "academic_year" => ~Overlap(rs[r].is, rs[s].is)
        /\ table = "payment_plan" => ~(rs[r].is.isDefault /\ rs[s].is.isDefault)

(* The first version of a row as its create handler stores it. *)
New(content) == [version |-> 1, is |-> content]

(* A new row is in use, unpublished, and not yet retired. *)
AsCreated(content) ==
    /\ "isActive" \in DOMAIN content => content.isActive
    /\ "isPublished" \in DOMAIN content => ~content.isPublished
    /\ table = "custom_field" => checkOptions(content.fieldType, content.options)
    /\ ParsesAs(content)

Init ==
    /\ table \in Table
    /\ form = [w \in Worker |-> Closed]
    /\ branchLock = {}
    /\ IF table = "institution"
       THEN \E r \in Row, c \in Institution :
               rows = [s \in Row |-> IF s = r THEN New(c) ELSE Absent]
       ELSE rows = [r \in Row |-> Absent]

-----------------------------------------------------------------------------
(* clearDefault: no plan is the default any more.  It does not touch versions. *)
clearDefault(rs) ==
    [r \in Row |-> IF IsRow(rs[r]) /\ rs[r].is.isDefault
                   THEN [rs[r] EXCEPT !.is.isDefault = FALSE] ELSE rs[r]]

(* What is inserted, beside what is done to the other rows first. *)
Insert(content) ==
    \E r \in {s \in Row : rows[s] = Absent} :
        LET others == IF table = "payment_plan" /\ content.isDefault THEN clearDefault(rows) ELSE rows
        IN  /\ ConstraintsHold([others EXCEPT ![r] = New(content)])
            /\ rows' = [others EXCEPT ![r] = New(content)]

(* Bound: rows that no index or rule relates to each other; one shows them all. *)
Unrelated == {"intake"}

Create(name) ==
    /\ table = name
    /\ table \in Unrelated => Stored = {}
    /\ \E content \in Holding[name] : AsCreated(content) /\ Insert(content)
    /\ UNCHANGED <<table, form, branchLock>>

createBranch     == Create("branch")
createDepartment == Create("department")
createDescriptor == Create("descriptor")
createField      == Create("custom_field")
createProgram    == Create("program")
createCourse     == Create("course")
createYear       == Create("academic_year")
createIntake     == Create("intake")
createHoliday    == Create("holiday")
createShift      == Create("shift")
createRoom       == Create("room")
createStructure  == Create("fee_structure")
createPlan       == Create("payment_plan")

(* SetupService.complete, in the transaction that locks the institution's row and finds *)
(* it not yet set up: the wizard's columns go over the row, whatever its version.  The  *)
(* branches, departments and list values it inserts come like any other, one by one.    *)
completeSetup ==
    /\ table = "institution"
    /\ \E r \in Stored, content \in Institution :
          /\ ~rows[r].is.setupCompleted
          /\ content.setupCompleted
          /\ rows' = [rows EXCEPT ![r] = [version |-> rows[r].version + 1, is |-> content]]
    /\ UNCHANGED <<table, form, branchLock>>

(* deleteHoliday: holidays alone are deleted, whatever version was seen. *)
deleteHoliday ==
    /\ table = "holiday"
    /\ \E r \in Stored : rows' = [rows EXCEPT ![r] = Gone]
    /\ UNCHANGED <<table, form, branchLock>>

-----------------------------------------------------------------------------
(* A person opens a record and prepares a change to it. *)
Open(w, r, input) ==
    /\ form[w] = Closed
    /\ r \in Stored
    /\ rows[r].version < MaxVersion
    /\ ParsesAs(input)
    /\ form' = [form EXCEPT ![w] = [step |-> "open", row |-> r, seen |-> rows[r], input |-> input]]
    /\ UNCHANGED <<table, rows, branchLock>>

(* The handler of a sent form reads the stored row, and goes on. *)
Read(w) == form' = [form EXCEPT ![w].step = "checked"]

Before(w) == rows[form[w].row].is

(* The columns given win over those of the row. *)
Merged(input, content) ==
    [f \in DOMAIN input \cup DOMAIN content |-> IF f \in DOMAIN input THEN input[f] ELSE content[f]]

Sending(w, name) == table = name /\ form[w].step = "open" /\ form[w].row \in Stored

(* The handlers that check nothing against the row they read. *)
Update(w, name) ==
    /\ Sending(w, name)
    /\ Read(w)
    /\ UNCHANGED <<table, rows, branchLock>>

updateDepartment(w)  == Update(w, "department")
updateDescriptor(w)  == Update(w, "descriptor")
updateInstitution(w) == Update(w, "institution")
updateProgram(w)     == Update(w, "program")
updateCourse(w)      == Update(w, "course")
updateYear(w)        == Update(w, "academic_year")
updateHoliday(w)     == Update(w, "holiday")
updateRoom(w)        == Update(w, "room")
updateStructure(w)   == Update(w, "fee_structure")
updatePlan(w)        == Update(w, "payment_plan")

(* updateShift: a one-sided change of the hours is checked with the stored side. *)
updateShift(w) ==
    /\ Sending(w, "shift")
    /\ LET merged == Merged(form[w].input, Before(w)) IN merged.endTime > merged.startTime
    /\ Read(w)
    /\ UNCHANGED <<table, rows, branchLock>>

updateIntake(w) ==
    /\ Sending(w, "intake")
    /\ registrationWindowOk(Merged(form[w].input, Before(w)))
    /\ Read(w)
    /\ UNCHANGED <<table, rows, branchLock>>

updateField(w) ==
    /\ Sending(w, "custom_field")
    /\ "options" \in DOMAIN form[w].input =>
          checkOptions(Before(w).fieldType, form[w].input.options)
    /\ Read(w)
    /\ UNCHANGED <<table, rows, branchLock>>

Deactivates(w) ==
    "isActive" \in DOMAIN form[w].input /\ ~form[w].input.isActive /\ Before(w).isActive

ActiveOthers(r) == {s \in Stored \ {r} : rows[s].is.isActive}

(* assertAnotherActiveBranch: one person at a time may deactivate. *)
updateBranch(w) ==
    /\ Sending(w, "branch")
    /\ IF Deactivates(w)
       THEN /\ branchLock = {}
            /\ ActiveOthers(form[w].row) # {}
            /\ branchLock' = {w}
       ELSE UNCHANGED branchLock
    /\ Read(w)
    /\ UNCHANGED <<table, rows>>

(* The columns an update really sets. *)
Columns(input) ==
    IF table = "payment_plan" /\ "isActive" \in DOMAIN input /\ ~input.isActive
    THEN Merged([isDefault |-> FALSE], input) ELSE input

Updated(row, input) == [version |-> row.version + 1, is |-> Merged(Columns(input), row.is)]

Settled(rs, r, input) ==
    LET others == IF table = "payment_plan" /\ "isDefault" \in DOMAIN input /\ input.isDefault
                  THEN clearDefault(rs) ELSE rs
    IN  [others EXCEPT ![r] = Updated(others[r], input)]

Finish(w) ==
    /\ form' = [form EXCEPT ![w] = Closed]
    /\ branchLock' = branchLock \ {w}
    /\ UNCHANGED table

(* Mutant: the version the person saw is not compared. *)
SaveAnyway(w) ==
    /\ form[w].step = "checked"
    /\ LET r == form[w].row
       IN  /\ r \in Stored
           /\ ConstraintsHold(Settled(rows, r, form[w].input))
           /\ rows' = Settled(rows, r, form[w].input)
    /\ Finish(w)

(* updateWithVersion and the commit. *)
Save(w) ==
    /\ form[w].step = "checked"
    /\ LET r == form[w].row
       IN  /\ rows[r].version = form[w].seen.version
           /\ ConstraintsHold(Settled(rows, r, form[w].input))
           /\ rows' = Settled(rows, r, form[w].input)
    /\ Finish(w)

(* A refusal (404, 409, 412, 422) or any failure: nothing is stored. *)
Refuse(w) ==
    /\ form[w] # Closed
    /\ Finish(w)
    /\ UNCHANGED rows

Creating ==
    \/ createBranch \/ createDepartment \/ createDescriptor \/ createField \/ createProgram
    \/ createCourse \/ createYear \/ createIntake \/ createHoliday \/ createShift \/ createRoom
    \/ createStructure \/ createPlan

Updating(w) ==
    \/ updateBranch(w) \/ updateDepartment(w) \/ updateDescriptor(w) \/ updateField(w)
    \/ updateInstitution(w) \/ updateProgram(w) \/ updateCourse(w) \/ updateYear(w)
    \/ updateIntake(w) \/ updateHoliday(w) \/ updateShift(w) \/ updateRoom(w)
    \/ updateStructure(w) \/ updatePlan(w)

Next ==
    \/ Creating
    \/ completeSetup
    \/ deleteHoliday
    \/ \E w \in Worker, r \in Row : \E input \in Inputs[table] : Open(w, r, input)
    \/ \E w \in Worker :
          \/ Updating(w)
          \/ Save(w) \/ Refuse(w)

Spec == Init /\ [][Next]_vars

-----------------------------------------------------------------------------
(* What every stored row must be, however many edits led to it. *)
Sound(content) ==
    CASE table = "shift" -> content.endTime > content.startTime
      [] table = "academic_year" -> content.endDate > content.startDate
      [] table = "intake" -> registrationWindowOk(content)
      [] table = "custom_field" -> checkOptions(content.fieldType, content.options)
      [] OTHER -> TRUE

(* The default is taken away from a plan without its version, so it is not *)
(* part of what a person is promised to have seen.                         *)
Watched(content) == [f \in DOMAIN content \ {"isDefault"} |-> content[f]]

IsSetUp(rs, r) == table = "institution" /\ rs[r].is.setupCompleted

(* A step that changes a stored row carries a change whose author had seen the *)
(* row exactly as it was, unless it is the institution's set-up.               *)
AuthorHadSeen ==
    \A r \in Stored : IsRow(rows'[r]) /\ Watched(rows'[r].is) # Watched(rows[r].is) =>
        \/ ~IsSetUp(rows, r) /\ IsSetUp(rows', r)
        \/ \E w \in Worker : /\ form[w] # Closed /\ form'[w] = Closed
                             /\ form[w].row = r
                             /\ Watched(form[w].seen.is) = Watched(rows[r].is)

(* The set-up is not undone: it overwrites once at most. *)
StaysSetUp == \A r \in Stored : IsSetUp(rows, r) => IsSetUp(rows', r)

SomeBranchActive(rs) == \E r \in Row : IsRow(rs[r]) /\ rs[r].is.isActive

RowsAreSound == \A r \in Stored : Sound(rows[r].is)

EditsAreSafe ==
    /\ AuthorHadSeen
    /\ StaysSetUp
    /\ table = "branch" /\ SomeBranchActive(rows) => SomeBranchActive(rows')

(* Configuration records stay right under concurrent, partial and stale edits: *)
(* hours, windows and years never end before they begin although each side may *)
(* be changed alone, nobody but the set-up, once and on the institution's row, *)
(* overwrites a change they have not seen, and once there is an active branch  *)
(* one remains.                                                                *)
RecordsHold == []RowsAreSound /\ [][EditsAreSafe]_vars

=============================================================================
