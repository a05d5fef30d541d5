----------------------------- MODULE Enrollment -----------------------------
(***************************************************************************)
(* Seats, the waitlist, withdrawals and results: modules/cohorts, with the *)
(* two things other modules do to it, resizing a room (catalog) and        *)
(* finishing a student's application (admissions).                         *)
(*                                                                         *)
(* A worker is an API process handling one request in one READ COMMITTED   *)
(* transaction (see Billing).  Enrolling, withdrawing and changing a class *)
(* hold the row lock of the class from their first step to their last.     *)
(* Recording a result and resizing a room do not take it, so both may      *)
(* commit between the moment a worker counts the seats and the moment its  *)
(* own rows are committed.                                                 *)
(***************************************************************************)
EXTENDS Integers, FiniteSets

CONSTANTS Student,
          Existing,  \* students registered some other way than from an application
          Applicant, \* students with an offered application, existing or new
          Cohort,   \* classes
          Room,
          Place,    \* ids of enrollment rows
          Worker,   \* request handlers
          NoOne,    \* no worker
          Size      \* the limits a class or a room may be given

ASSUME NoOneIsNoWorker == NoOne \notin Worker
ASSUME StudentsComeFromSomewhere == Existing \cup Applicant = Student
ASSUME SizesArePositive == Size \subseteq Nat \ {0}
ASSUME PlacesAreFinite == IsFiniteSet(Place)

VARIABLES cohort,      \* [Cohort -> [status, maxSize, room]]
          capacity,    \* [Room -> Size]
          enrollment,  \* enrollments: [Place -> row or NoPlace]
          application, \* status of the student's application
          cohortLock,  \* who holds the row lock of a class
          tx           \* what each worker's open transaction has done

rows == <<cohort, capacity, enrollment, application>>
vars == <<cohort, capacity, enrollment, application, cohortLock, tx>>

-----------------------------------------------------------------------------
CohortStatus == {"planned", "open", "running", "completed", "cancelled"}

Transitions(status) ==
    CASE status = "planned" -> {"open", "cancelled"}
      [] status = "open"    -> {"planned", "running", "cancelled"}
      [] status = "running" -> {"completed"}
      [] OTHER              -> {}

Enrolling(c) == cohort[c].status \in {"open", "running"}

NoPlace == [status |-> "none"]
Idle    == [step |-> "idle"]

(* waitedAt orders the waitlist of a class (0: seated directly); seated    *)
(* says that enrolledAt is set.                                            *)
PlaceRow == [status : {"waitlisted", "active", "completed", "failed", "withdrawn"},
             student : Student, cohort : Cohort, version : Nat, waitedAt : Nat,
             seated : BOOLEAN]

PlacesOf(c)  == {e \in Place : enrollment[e] # NoPlace /\ enrollment[e].cohort = c}
Active(c)    == {e \in PlacesOf(c) : enrollment[e].status = "active"}
Waiting(c)   == {e \in PlacesOf(c) : enrollment[e].status = "waitlisted"}
FirstOf(set) == {e \in set : \A f \in set : enrollment[e].waitedAt <= enrollment[f].waitedAt}

(* positions(): the place in the line, counted from 1. *)
Position(e) ==
    Cardinality({f \in Waiting(enrollment[e].cohort) :
                    enrollment[f].waitedAt <= enrollment[e].waitedAt})

(* seatsOf: the smaller of the class's limit and its room's seats. *)
SeatsFor(maxSize, room) == IF maxSize <= capacity[room] THEN maxSize ELSE capacity[room]
Seats(c) == SeatsFor(cohort[c].maxSize, cohort[c].room)

(* A student exists once registered: from the start, or by converting an   *)
(* application.                                                            *)
Registered(s) == s \in Existing \/ application[s] # "offered"

(* What enroll refuses a second of. *)
HasPlace(s, c) ==
    \E e \in PlacesOf(c) : /\ enrollment[e].student = s
                           /\ enrollment[e].status \in {"waitlisted", "active", "completed"}

(* applications.markEnrolled, called for a student given a seat. *)
MarkEnrolled(students) ==
    application' = [s \in Student |-> IF s \in students /\ application[s] = "confirmed"
                                      THEN "enrolled" ELSE application[s]]

-----------------------------------------------------------------------------
(* Classes as cohorts.create leaves them; nothing checks that a class's    *)
(* limit fits its room.                                                    *)
Init ==
    /\ cohort \in [Cohort -> [status : {"planned"}, maxSize : Size, room : Room]]
    /\ capacity \in [Room -> Size]
    /\ enrollment = [e \in Place |-> NoPlace]
    /\ application = [s \in Student |-> IF s \in Applicant THEN "offered" ELSE "none"]
    /\ cohortLock = [c \in Cohort |-> NoOne]
    /\ tx = [w \in Worker |-> Idle]

Release(w) ==
    /\ cohortLock' = [c \in Cohort |-> IF cohortLock[c] = w THEN NoOne ELSE cohortLock[c]]
    /\ tx' = [tx EXCEPT ![w] = Idle]

(* Start working on class c under its lock. *)
LockCohort(w, c, work) ==
    /\ cohortLock[c] = NoOne
    /\ cohortLock' = [cohortLock EXCEPT ![c] = w]
    /\ tx' = [tx EXCEPT ![w] = work]
    /\ UNCHANGED rows

-----------------------------------------------------------------------------
(* enrollments.enroll                                                      *)

(* Bound of the model: the program's row ids never run out. *)
PlaceLeft ==
    Cardinality({v \in Worker : tx[v].step \in {"enrolling", "placing"}})
        < Cardinality({e \in Place : enrollment[e] = NoPlace})

LockToEnroll(w, s, c) ==
    /\ tx[w] = Idle
    /\ PlaceLeft
    /\ Enrolling(c)
    /\ Registered(s)
    /\ ~ HasPlace(s, c)
    /\ LockCohort(w, c, [step |-> "enrolling", student |-> s, cohort |-> c])

(* Mutant: the lock given back with the count, as the test that removes the *)
(* lock does.                                                              *)
CountSeatsAndUnlock(w) ==
    /\ tx[w].step = "enrolling"
    /\ LET c == tx[w].cohort
       IN  /\ tx' = [tx EXCEPT ![w] =
                  [step |-> "placing", student |-> tx[w].student, cohort |-> c,
                   hasSeat |-> Cardinality(Active(c)) < Seats(c)]]
           /\ cohortLock' = [cohortLock EXCEPT ![c] = NoOne]
    /\ UNCHANGED rows

CountSeats(w) ==
    /\ tx[w].step = "enrolling"
    /\ LET c == tx[w].cohort
       IN  tx' = [tx EXCEPT ![w] =
               [step |-> "placing", student |-> tx[w].student, cohort |-> c,
                hasSeat |-> Cardinality(Active(c)) < Seats(c)]]
    /\ UNCHANGED <<rows, cohortLock>>

CommitEnroll(w) ==
    /\ tx[w].step = "placing"
    /\ LET c       == tx[w].cohort
           hasSeat == tx[w].hasSeat
           now     == Cardinality({e \in PlacesOf(c) : enrollment[e].waitedAt > 0}) + 1
       IN  /\ \E e \in Place :
                  /\ enrollment[e] = NoPlace
                  /\ enrollment' = [enrollment EXCEPT ![e] =
                        [status |-> IF hasSeat THEN "active" ELSE "waitlisted",
                         student |-> tx[w].student, cohort |-> c, version |-> 1,
                         waitedAt |-> IF hasSeat THEN 0 ELSE now, seated |-> hasSeat]]
           /\ MarkEnrolled(IF hasSeat THEN {tx[w].student} ELSE {})
    /\ Release(w)
    /\ UNCHANGED <<cohort, capacity>>

-----------------------------------------------------------------------------
(* enrollments.withdraw                                                    *)

(* The row is read before the class is locked; expectedVersion is at most  *)
(* the version read, and a smaller one is refused.                         *)
ReadToWithdraw(w, e) ==
    /\ tx[w] = Idle
    /\ enrollment[e].status \in {"active", "waitlisted"}
    /\ tx' = [tx EXCEPT ![w] =
           [step |-> "found", place |-> e, was |-> enrollment[e].status,
            version |-> enrollment[e].version]]
    /\ UNCHANGED <<rows, cohortLock>>

LockToWithdraw(w) ==
    /\ tx[w].step = "found"
    /\ LockCohort(w, enrollment[tx[w].place].cohort,
           [step |-> "leaving", place |-> tx[w].place, was |-> tx[w].was,
            version |-> tx[w].version])

(* updateWithVersion: the row is still as it was read.  It is asked at the *)
(* commit: the UPDATE locks the row, so what held then holds until then.   *)
StillAsRead(w) == enrollment[tx[w].place].version = tx[w].version

(* Mutant: the one who has waited least. *)
PromotableNewest(c, e, was) ==
    IF /\ was = "active"
       /\ cohort[c].status # "cancelled"
       /\ Cardinality(Active(c) \ {e}) < Seats(c)
    THEN {f \in Waiting(c) : \A g \in Waiting(c) : enrollment[g].waitedAt <= enrollment[f].waitedAt}
    ELSE {}

(* promoteWaiting's count and choice, after the row itself is withdrawn. *)
Promotable(c, e, was) ==
    IF /\ was = "active"
       /\ cohort[c].status # "cancelled"
       /\ Cardinality(Active(c) \ {e}) < Seats(c)
    THEN FirstOf(Waiting(c)) ELSE {}

CountFreedSeat(w) ==
    /\ tx[w].step = "leaving"
    /\ StillAsRead(w)
    /\ LET e == tx[w].place
       IN  tx' = [tx EXCEPT ![w] =
               [step |-> "promoting", place |-> e, version |-> tx[w].version,
                next |-> Promotable(enrollment[e].cohort, e, tx[w].was)]]
    /\ UNCHANGED <<rows, cohortLock>>

(* Mutant: markEnrolled forgotten when the seat comes from the waitlist. *)
CommitWithdrawOnly(w) ==
    /\ tx[w].step = "promoting"
    /\ StillAsRead(w)
    /\ LET e    == tx[w].place
           next == tx[w].next
       IN  enrollment' = [f \in Place |->
                  IF f = e THEN [enrollment[f] EXCEPT !.status = "withdrawn", !.version = @ + 1]
                  ELSE IF f \in next
                       THEN [enrollment[f] EXCEPT !.status = "active", !.seated = TRUE,
                                                  !.version = @ + 1]
                  ELSE enrollment[f]]
    /\ Release(w)
    /\ UNCHANGED <<cohort, capacity, application>>

CommitWithdraw(w) ==
    /\ tx[w].step = "promoting"
    /\ StillAsRead(w)
    /\ LET e    == tx[w].place
           next == tx[w].next
       IN  /\ enrollment' = [f \in Place |->
                  IF f = e THEN [enrollment[f] EXCEPT !.status = "withdrawn", !.version = @ + 1]
                  ELSE IF f \in next
                       THEN [enrollment[f] EXCEPT !.status = "active", !.seated = TRUE,
                                                  !.version = @ + 1]
                  ELSE enrollment[f]]
           /\ MarkEnrolled({enrollment[f].student : f \in next})
    /\ Release(w)
    /\ UNCHANGED <<cohort, capacity>>

-----------------------------------------------------------------------------
(* enrollments.recordResult: no class lock; the completion rules decide    *)
(* between completed and failed.                                           *)
ReadToRecord(w, e, outcome) ==
    /\ tx[w] = Idle
    /\ enrollment[e].status = "active"
    /\ tx' = [tx EXCEPT ![w] =
           [step |-> "recording", place |-> e, version |-> enrollment[e].version,
            outcome |-> outcome]]
    /\ UNCHANGED <<rows, cohortLock>>

(* Mutant: an update that does not ask for the version. *)
CommitResultBlindly(w) ==
    /\ tx[w].step = "recording"
    /\ enrollment' = [enrollment EXCEPT ![tx[w].place].status = tx[w].outcome,
                                        ![tx[w].place].version = @ + 1]
    /\ Release(w)
    /\ UNCHANGED <<cohort, capacity, application>>

CommitResult(w) ==
    /\ tx[w].step = "recording"
    /\ StillAsRead(w)
    /\ enrollment' = [enrollment EXCEPT ![tx[w].place].status = tx[w].outcome,
                                        ![tx[w].place].version = @ + 1]
    /\ Release(w)
    /\ UNCHANGED <<cohort, capacity, application>>

(* 412: someone else changed the row in the meantime. *)
RefuseStale(w) ==
    /\ tx[w].step \in {"leaving", "promoting", "recording"}
    /\ ~ StillAsRead(w)
    /\ Release(w)
    /\ UNCHANGED rows

-----------------------------------------------------------------------------
(* cohorts.update, cohorts.setStatus                                       *)

LockToUpdate(w, c, maxSize, room) ==
    /\ tx[w] = Idle
    /\ cohort[c].status \notin {"completed", "cancelled"}
    /\ room # cohort[c].room => cohort[c].status # "running"
    /\ Cardinality(Active(c)) <= SeatsFor(maxSize, room)
    /\ LockCohort(w, c, [step |-> "updating", cohort |-> c,
                         row |-> [cohort[c] EXCEPT !.maxSize = maxSize, !.room = room]])

(* Mutant: only seats in use stop a class from being cancelled. *)
LockToMoveDespiteLine(w, c, to) ==
    /\ tx[w] = Idle
    /\ to \in Transitions(cohort[c].status)
    /\ to \in {"cancelled", "completed"} => Active(c) = {}
    /\ LockCohort(w, c, [step |-> "updating", cohort |-> c,
                         row |-> [cohort[c] EXCEPT !.status = to]])

LockToMove(w, c, to) ==
    /\ tx[w] = Idle
    /\ to \in Transitions(cohort[c].status)
    /\ to \in {"cancelled", "completed"} => Active(c) = {}
    /\ to = "cancelled" => Waiting(c) = {}
    /\ LockCohort(w, c, [step |-> "updating", cohort |-> c,
                         row |-> [cohort[c] EXCEPT !.status = to]])

CommitCohort(w) ==
    /\ tx[w].step = "updating"
    /\ cohort' = [cohort EXCEPT ![tx[w].cohort] = tx[w].row]
    /\ Release(w)
    /\ UNCHANGED <<capacity, enrollment, application>>

Abort(w) ==
    /\ tx[w] # Idle
    /\ Release(w)
    /\ UNCHANGED rows

-----------------------------------------------------------------------------
(* facilities.updateRoom: looks at no class. *)
UpdateRoom(r, seats) ==
    /\ seats # capacity[r]
    /\ capacity' = [capacity EXCEPT ![r] = seats]
    /\ UNCHANGED <<cohort, enrollment, application, cohortLock, tx>>

(* applications.convert: the application is confirmed, registering the     *)
(* student or linking one that exists.                                     *)
Convert(s) ==
    /\ application[s] = "offered"
    /\ application' = [application EXCEPT ![s] = "confirmed"]
    /\ UNCHANGED <<cohort, capacity, enrollment, cohortLock, tx>>

Handling(w) ==
    \/ \E s \in Student, c \in Cohort : LockToEnroll(w, s, c)
    \/ CountSeats(w) \/ CommitEnroll(w)
    \/ \E e \in Place : ReadToWithdraw(w, e)
    \/ LockToWithdraw(w) \/ CountFreedSeat(w) \/ CommitWithdraw(w)
    \/ \E e \in Place, outcome \in {"completed", "failed"} : ReadToRecord(w, e, outcome)
    \/ CommitResult(w) \/ RefuseStale(w)
    \/ \E c \in Cohort, maxSize \in Size, room \in Room : LockToUpdate(w, c, maxSize, room)
    \/ \E c \in Cohort, to \in CohortStatus : LockToMove(w, c, to)
    \/ CommitCohort(w)
    \/ Abort(w)

Next ==
    \/ \E w \in Worker : Handling(w)
    \/ \E r \in Room, seats \in Size : UpdateRoom(r, seats)
    \/ \E s \in Student : Convert(s)

Spec == Init /\ [][Next]_vars

(* A request that has begun goes on, and is served when it waits for a lock. *)
Finishing(w) ==
    \/ CountSeats(w) \/ CommitEnroll(w)
    \/ LockToWithdraw(w) \/ CountFreedSeat(w) \/ CommitWithdraw(w)
    \/ CommitResult(w) \/ RefuseStale(w) \/ CommitCohort(w)

FairSpec == Spec /\ \A w \in Worker : SF_vars(Finishing(w))

=============================================================================
