----------------------------- MODULE Settings -----------------------------
(***************************************************************************)
(* The settings that are changed as a whole: module switches, the first-run *)
(* set-up, the institution's wording and the prerequisites of courses.      *)
(* Several people use one settings page at once; which page a behaviour is  *)
(* about is chosen at the start.                                            *)
(***************************************************************************)
EXTENDS Naturals, FiniteSets

CONSTANTS
    Worker,
    Course,        \* the courses of one program
    Department,    \* department codes; the same goes for branches and list values
    Term,          \* words an institution can rename
    MaxChanges     \* bound on the changes that commit

VARIABLES
    page,          \* the settings page this behaviour is about
    enabled,       \* module_settings: the modules that are on
    requires,      \* course_prerequisites
    version,       \* of each course
    institution,   \* its row: who wrote it last, its version, how often the set-up was completed
    departments,   \* who made each department: "nobody", "admin", "preset", "custom"
    overrides,     \* terminology_overrides: rows of wording, each with the change that made it
    changes,       \* changes committed so far
    tx             \* each worker's transaction

vars == <<page, enabled, requires, version, institution, departments, overrides, changes, tx>>

Page == {"modules", "setup", "terminology", "prerequisites"}

(* Every other module requires nothing and is required by nothing. *)
MODULES == [website |-> {}, pre_registration |-> {"website"}]
Module  == DOMAIN MODULES

Idle == [step |-> "idle"]

Init ==
    /\ page \in Page
    /\ enabled = Module
    /\ requires = [c \in Course |-> {}]
    /\ version = [c \in Course |-> 1]
    /\ institution = [by |-> "nobody", version |-> 1, setUps |-> 0]
    /\ departments = [d \in Department |-> "nobody"]
    /\ overrides = {}
    /\ changes = 0
    /\ tx = [w \in Worker |-> Idle]

-----------------------------------------------------------------------------
Goes(w, step) == tx[w].step = step

Begin(w, request) ==
    /\ Goes(w, "idle")
    /\ changes < MaxChanges
    /\ tx' = [tx EXCEPT ![w] = request]
    /\ UNCHANGED <<page, enabled, requires, version, institution, departments, overrides, changes>>

Commit(w) ==
    /\ changes' = changes + 1
    /\ tx' = [tx EXCEPT ![w] = Idle]
    /\ UNCHANGED page

(* The page's lock: emis.modules, emis.prerequisites:<program>, the institution's row. *)
LockFree == \A w \in Worker : ~Goes(w, "locked")

Take(w) ==
    /\ tx' = [tx EXCEPT ![w].step = "locked"]
    /\ UNCHANGED <<page, enabled, requires, version, institution, departments, overrides, changes>>

(* Any refusal or failure. *)
Abort(w) ==
    /\ ~Goes(w, "idle")
    /\ tx' = [tx EXCEPT ![w] = Idle]
    /\ UNCHANGED <<page, enabled, requires, version, institution, departments, overrides, changes>>

-----------------------------------------------------------------------------
(* ModulesService.set, up to the lock. *)
AskToSwitch(w, key, on) ==
    /\ page = "modules"
    /\ Begin(w, [step |-> "asked", key |-> key, on |-> on])

(* A module may be on only with what it requires, off only without dependents. *)
MayBe(key, on) ==
    IF on THEN MODULES[key] \subseteq enabled
          ELSE \A other \in enabled : key \notin MODULES[other]

(* Mutant: the switches are checked without the lock. *)
CheckUnlocked(w) ==
    /\ page = "modules"
    /\ Goes(w, "asked")
    /\ MayBe(tx[w].key, tx[w].on)
    /\ Take(w)

CheckSwitch(w) ==
    /\ page = "modules"
    /\ Goes(w, "asked")
    /\ LockFree
    /\ MayBe(tx[w].key, tx[w].on)
    /\ Take(w)

CommitSwitch(w) ==
    /\ page = "modules"
    /\ Goes(w, "locked")
    /\ enabled' = IF tx[w].on THEN enabled \cup {tx[w].key} ELSE enabled \ {tx[w].key}
    /\ Commit(w)
    /\ UNCHANGED <<requires, version, institution, departments, overrides>>

-----------------------------------------------------------------------------
(* SetupService.complete: presets give departments, custom ones win over them. *)
AskToSetUp(w, preset, custom) ==
    /\ page = "setup"
    /\ Begin(w, [step |-> "asked", preset |-> preset, custom |-> custom])

LockInstitution(w) ==
    /\ page = "setup"
    /\ Goes(w, "asked")
    /\ LockFree
    /\ institution.setUps = 0
    /\ Take(w)

Chosen(w, d) ==
    IF d \in tx[w].custom THEN "custom"
    ELSE IF d \in tx[w].preset THEN "preset" ELSE "nobody"

(* onConflictDoNothing: the departments an administrator made first are kept.  Not so *)
(* the institution's row, which is written whatever its version.                      *)
CommitSetup(w) ==
    /\ page = "setup"
    /\ Goes(w, "locked")
    /\ departments' = [d \in Department |-> IF departments[d] = "nobody" THEN Chosen(w, d)
                                            ELSE departments[d]]
    /\ institution' = [by |-> "setup", version |-> institution.version + 1,
                       setUps |-> institution.setUps + 1]
    /\ Commit(w)
    /\ UNCHANGED <<enabled, requires, version, overrides>>

(* OrganizationService.createDepartment, from the Settings page meanwhile. *)
createDepartment(d) ==
    /\ page = "setup"
    /\ changes < MaxChanges
    /\ departments[d] = "nobody"
    /\ departments' = [departments EXCEPT ![d] = "admin"]
    /\ changes' = changes + 1
    /\ UNCHANGED <<page, enabled, requires, version, institution, overrides, tx>>

(* InstitutionService.update, of a row that somebody opened on that page: its UPDATE *)
(* waits for a set-up that has the row, and needs the version that was seen.         *)
OpenInstitution(w) ==
    /\ page = "setup"
    /\ Begin(w, [step |-> "open", seen |-> institution])

updateInstitution(w) ==
    /\ page = "setup"
    /\ Goes(w, "open")
    /\ LockFree
    /\ institution.version = tx[w].seen.version
    /\ institution' = [institution EXCEPT !.by = "admin", !.version = @ + 1]
    /\ Commit(w)
    /\ UNCHANGED <<enabled, requires, version, departments, overrides>>

-----------------------------------------------------------------------------
(* TerminologyService.set takes no lock.  Its DELETE sees the rows committed when  *)
(* it starts, waits for whoever is deleting one of them, and removes those that    *)
(* are still there.                                                                *)
AskToRename(w, terms) ==
    /\ page = "terminology"
    /\ Begin(w, [step |-> "asked", terms |-> terms])

StartDelete(w) ==
    /\ page = "terminology"
    /\ Goes(w, "asked")
    /\ tx' = [tx EXCEPT ![w] = [step |-> "deleting", terms |-> tx[w].terms, found |-> overrides]]
    /\ UNCHANGED <<page, enabled, requires, version, institution, departments, overrides, changes>>

FinishDelete(w) ==
    /\ page = "terminology"
    /\ Goes(w, "deleting")
    /\ \A v \in Worker \ {w} : Goes(v, "deleted") => tx[v].found \cap tx[w].found = {}
    /\ tx' = [tx EXCEPT ![w] = [step |-> "deleted", terms |-> tx[w].terms,
                                found |-> tx[w].found \cap overrides]]
    /\ UNCHANGED <<page, enabled, requires, version, institution, departments, overrides, changes>>

(* The INSERT fails if a row of the same term is there that the DELETE did not see. *)
CommitRename(w) ==
    /\ page = "terminology"
    /\ Goes(w, "deleted")
    /\ LET kept == overrides \ tx[w].found
       IN  /\ \A row \in kept : row.term \notin tx[w].terms
           /\ overrides' = kept \cup {[term |-> t, by |-> changes] : t \in tx[w].terms}
    /\ Commit(w)
    /\ UNCHANGED <<enabled, requires, version, institution, departments>>

-----------------------------------------------------------------------------
(* Everything the given courses need, directly or through others. *)
Needed(graph, ids) ==
    LET within[n \in 0..Cardinality(Course)] ==
          IF n = 0 THEN ids ELSE within[n - 1] \cup UNION {graph[c] : c \in within[n - 1]}
    IN  within[Cardinality(Course)]

wouldCreateCycle(graph, c, ids) == c \in Needed(graph, ids)

(* CoursesService.setPrerequisites: the person saw a version of the course. *)
AskPrerequisites(w, c, ids) ==
    /\ page = "prerequisites"
    /\ Begin(w, [step |-> "asked", course |-> c, ids |-> ids, seen |-> version[c]])

LockProgram(w) ==
    /\ page = "prerequisites"
    /\ Goes(w, "asked")
    /\ LockFree
    /\ tx[w].course \notin tx[w].ids
    /\ ~wouldCreateCycle(requires, tx[w].course, tx[w].ids)
    /\ Take(w)

CommitPrerequisites(w) ==
    /\ page = "prerequisites"
    /\ Goes(w, "locked")
    /\ version[tx[w].course] = tx[w].seen
    /\ version' = [version EXCEPT ![tx[w].course] = @ + 1]
    /\ requires' = [requires EXCEPT ![tx[w].course] = tx[w].ids]
    /\ Commit(w)
    /\ UNCHANGED <<enabled, institution, departments, overrides>>

(* CoursesService.update by somebody else, without the program's lock. *)
updateCourse(c) ==
    /\ page = "prerequisites"
    /\ changes < MaxChanges
    /\ version' = [version EXCEPT ![c] = @ + 1]
    /\ changes' = changes + 1
    /\ UNCHANGED <<page, enabled, requires, institution, departments, overrides, tx>>

Asking(w) ==
    \/ \E key \in Module, on \in BOOLEAN : AskToSwitch(w, key, on)
    \/ \E preset, custom \in SUBSET Department : AskToSetUp(w, preset, custom)
    \/ OpenInstitution(w)
    \/ \E terms \in SUBSET Term : AskToRename(w, terms)
    \/ \E c \in Course, ids \in SUBSET Course : AskPrerequisites(w, c, ids)

Next ==
    \/ \E w \in Worker :
          \/ Asking(w)
          \/ CheckSwitch(w) \/ CommitSwitch(w)
          \/ LockInstitution(w) \/ CommitSetup(w) \/ updateInstitution(w)
          \/ StartDelete(w) \/ FinishDelete(w) \/ CommitRename(w)
          \/ LockProgram(w) \/ CommitPrerequisites(w)
          \/ Abort(w)
    \/ \E d \in Department : createDepartment(d)
    \/ \E c \in Course : updateCourse(c)

Spec == Init /\ [][Next]_vars

-----------------------------------------------------------------------------
SettingsConsistent ==
    /\ \A key \in enabled : MODULES[key] \subseteq enabled
    /\ \A c \in Course : c \notin Needed(requires, requires[c])
    /\ institution.setUps <= 1

(* The row is changed by somebody who saw it as it was, or by the first set-up. *)
InstitutionIsSeen ==
    institution' # institution =>
        \/ institution.setUps = 0 /\ institution'.setUps = 1
        \/ \E w \in Worker : Goes(w, "open") /\ tx[w].seen = institution /\ tx'[w] = Idle

KeepsWhatWasMade ==
    /\ \A d \in Department : departments[d] # "nobody" => departments'[d] = departments[d]
    /\ InstitutionIsSeen

(* Settings that depend on each other stay consistent however many people     *)
(* change them at once: a module that is on has every module it requires, no  *)
(* course needs itself through its prerequisites (so enrollment stays         *)
(* possible), and the set-up is completed once.  It keeps the departments an  *)
(* administrator had already made, but writes over whatever they had already  *)
(* put into the institution's own row; nothing else changes that row unseen.  *)
SettingsHold == []SettingsConsistent /\ [][KeepsWhatWasMade]_vars

=============================================================================
