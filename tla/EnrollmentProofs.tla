-------------------------- MODULE EnrollmentProofs --------------------------
(***************************************************************************)
(* Proofs about Enrollment for any number of classes, places, students and *)
(* request handlers.                                                       *)
(*                                                                         *)
(* The argument is the one the code relies on: while a class's row lock is *)
(* held, nothing happens to the class but results recorded on its active   *)
(* rows (CalmWhileHeld), which frees seats and changes nobody in the line; *)
(* and a row whose version is still the one read is the row that was read. *)
(***************************************************************************)
EXTENDS EnrollmentProperties, FiniteSetTheorems, TLAPS

(* Bound to the class lock from the first step of the work to the last. *)
Holding == \A w \in Worker :
    /\ tx[w].step \in {"enrolling", "placing", "updating"} => cohortLock[tx[w].cohort] = w
    /\ tx[w].step \in {"leaving", "promoting"}
          => cohortLock[enrollment[tx[w].place].cohort] = w

(* A row whose version is the one a worker read is the row it read. *)
AsRead == \A w \in Worker :
    tx[w].step \in {"found", "leaving", "promoting", "recording"} =>
        /\ enrollment[tx[w].place] \in PlaceRow
        /\ tx[w].version <= enrollment[tx[w].place].version
        /\ StillAsRead(w) =>
              /\ tx[w].step \in {"found", "leaving"} => enrollment[tx[w].place].status = tx[w].was
              /\ tx[w].step = "promoting"
                    => enrollment[tx[w].place].status \in {"active", "waitlisted"}
              /\ tx[w].step = "recording" => enrollment[tx[w].place].status = "active"

(* What enroll checked and counted under the lock is still so. *)
EntersSoundly(w, s, c) ==
    /\ Enrolling(c) /\ Registered(s) /\ ~HasPlace(s, c)
    /\ tx[w].step = "placing" /\ tx[w].hasSeat => Cardinality(Active(c)) < cohort[c].maxSize
Entering == \A w \in Worker :
    tx[w].step \in {"enrolling", "placing"} => EntersSoundly(w, tx[w].student, tx[w].cohort)

(* What withdraw counted and chose under the lock is still so. *)
PromotesSoundly(e, next, c) ==
    /\ next \subseteq FirstOf(Waiting(c))
    /\ next # {} => Cardinality(Active(c) \ {e}) < cohort[c].maxSize
Promoting == \A w \in Worker :
    tx[w].step = "promoting" =>
        /\ PromotesSoundly(tx[w].place, tx[w].next, enrollment[tx[w].place].cohort)
        /\ tx[w].next # {} /\ StillAsRead(w) => enrollment[tx[w].place].status = "active"

(* What update and setStatus counted under the lock is still so. *)
FitsRow(c, row) ==
    /\ Cardinality(Active(c)) <= row.maxSize
    /\ row.status \in {"cancelled", "completed"} => Active(c) = {}
    /\ row.status = "cancelled" => Waiting(c) = {}
Updating == \A w \in Worker :
    tx[w].step = "updating" => FitsRow(tx[w].cohort, tx[w].row)

(* Each who waits in a class has a time of their own. *)
Waited(c) == {e \in PlacesOf(c) : enrollment[e].waitedAt > 0}
Line == \A c \in Cohort : \A e \in PlacesOf(c) :
    /\ enrollment[e].waitedAt <= Cardinality(Waited(c))
    /\ enrollment[e].status = "waitlisted" => enrollment[e].waitedAt > 0
    /\ \A f \in PlacesOf(c) :
          e # f /\ enrollment[e].waitedAt > 0 => enrollment[e].waitedAt # enrollment[f].waitedAt

(* Whoever has a place was registered. *)
Applied ==
    /\ \A s \in Student \ Existing : application[s] # "none"
    /\ \A e \in Place : enrollment[e] # NoPlace => Registered(enrollment[e].student)
-----------------------------------------------------------------------------
(* What a worker's open transaction looks like at each step. *)
LEMMA TxKind ==
    ASSUME TypeOK, NEW w \in Worker
    PROVE  /\ tx[w].step \in {"enrolling", "placing"} => tx[w].student \in Student /\ tx[w].cohort \in Cohort
           /\ tx[w].step = "placing" => tx[w].hasSeat \in BOOLEAN
           /\ tx[w].step \in {"found", "leaving", "promoting", "recording"}
                 => tx[w].place \in Place /\ tx[w].version \in Nat
           /\ tx[w].step \in {"found", "leaving"} => tx[w].was \in {"active", "waitlisted"}
           /\ tx[w].step = "promoting" => tx[w].next \subseteq Place
           /\ tx[w].step = "recording" => tx[w].outcome \in {"completed", "failed"}
           /\ tx[w].step = "updating"
                 => /\ tx[w].cohort \in Cohort
                    /\ tx[w].row \in [status : CohortStatus, maxSize : Size, room : Room]
           /\ tx[w] = Idle <=> tx[w].step = "idle"
<1>1. tx[w] \in Tx \cup {Idle}
    BY DEF TypeOK
<1> QED
    BY <1>1 DEF Tx, Idle

(* A place is empty or a row of the table. *)
LEMMA PlaceKind ==
    ASSUME TypeOK, NEW e \in Place
    PROVE  /\ enrollment[e] = NoPlace <=> enrollment[e].status = "none"
           /\ enrollment[e] # NoPlace <=> enrollment[e] \in PlaceRow
           /\ enrollment[e] \in PlaceRow
                => /\ enrollment[e].student \in Student /\ enrollment[e].cohort \in Cohort
                   /\ enrollment[e].version \in Nat /\ enrollment[e].waitedAt \in Nat
                   /\ enrollment[e].status
                         \in {"waitlisted", "active", "completed", "failed", "withdrawn"}
<1>1. enrollment[e] \in PlaceRow \cup {NoPlace}
    BY DEF TypeOK
<1>2. NoPlace.status = "none"
    BY DEF NoPlace
<1>3. \A row \in PlaceRow :
         row.status \in {"waitlisted", "active", "completed", "failed", "withdrawn"}
    BY DEF PlaceRow
<1>4. \A row \in PlaceRow :
         row.student \in Student /\ row.cohort \in Cohort /\ row.version \in Nat
         /\ row.waitedAt \in Nat
    BY DEF PlaceRow
<1> QED
    BY <1>1, <1>2, <1>3, <1>4

(* The sets counted are finite, and counting is monotone. *)
LEMMA Counted ==
    ASSUME NEW S \in SUBSET Place
    PROVE  /\ IsFiniteSet(S) /\ Cardinality(S) \in Nat
           /\ \A T \in SUBSET S : Cardinality(T) <= Cardinality(S)
<1>1. IsFiniteSet(S)
    BY PlacesAreFinite, FS_Subset
<1> QED
    BY <1>1, FS_CardinalityType, FS_Subset

-----------------------------------------------------------------------------
(* A step advances one worker's transaction, and as long as it is only     *)
(* advancing, no row changes.                                              *)
Advances(w) ==
    \/ \E s \in Student, c \in Cohort : LockToEnroll(w, s, c)
    \/ CountSeats(w)
    \/ \E e \in Place : ReadToWithdraw(w, e)
    \/ LockToWithdraw(w) \/ CountFreedSeat(w)
    \/ \E e \in Place, outcome \in {"completed", "failed"} : ReadToRecord(w, e, outcome)
    \/ \E c \in Cohort, maxSize \in Size, room \in Room : LockToUpdate(w, c, maxSize, room)
    \/ \E c \in Cohort, to \in CohortStatus : LockToMove(w, c, to)
Commits(w) == CommitEnroll(w) \/ CommitWithdraw(w) \/ CommitResult(w) \/ CommitCohort(w)
GivesUp(w) == (RefuseStale(w) \/ Abort(w)) /\ Release(w) /\ UNCHANGED rows
Outside == /\ UNCHANGED <<cohort, enrollment, cohortLock, tx>>
           /\ \/ UNCHANGED application
              \/ \E s \in Student : Convert(s)

LEMMA Steps ==
    ASSUME [Next]_vars
    PROVE  Outside \/ \E w \in Worker : Advances(w) \/ Commits(w) \/ GivesUp(w)
<1>1. CASE UNCHANGED vars
    BY <1>1 DEF vars, Outside
<1>2. ASSUME NEW w \in Worker, Handling(w)
      PROVE  Advances(w) \/ Commits(w) \/ GivesUp(w)
    BY <1>2 DEF Handling, Advances, Commits, GivesUp, RefuseStale, Abort
<1>3. ASSUME NEW r \in Room, NEW seats \in Size, UpdateRoom(r, seats)
      PROVE  Outside
    BY <1>3 DEF UpdateRoom, Outside
<1>4. ASSUME NEW s \in Student, Convert(s)
      PROVE  Outside
    BY <1>4 DEF Convert, Outside
<1> QED
    BY <1>1, <1>2, <1>3, <1>4 DEF Next

LEMMA Advancing ==
    ASSUME TypeOK, NEW w \in Worker, Advances(w)
    PROVE  /\ UNCHANGED rows
           /\ \A v \in Worker \ {w} : tx'[v] = tx[v]
           /\ \A c \in Cohort : cohortLock'[c] # cohortLock[c] => cohortLock[c] = NoOne
           /\ cohortLock' \in [Cohort -> Worker \cup {NoOne}]
<1>1. tx \in [Worker -> Tx \cup {Idle}] /\ cohortLock \in [Cohort -> Worker \cup {NoOne}]
    BY DEF TypeOK
<1> DEFINE Goal == /\ UNCHANGED rows
                   /\ \A v \in Worker \ {w} : tx'[v] = tx[v]
                   /\ \A c \in Cohort : cohortLock'[c] # cohortLock[c] => cohortLock[c] = NoOne
                   /\ cohortLock' \in [Cohort -> Worker \cup {NoOne}]
<1>2. ASSUME NEW c, NEW work, LockCohort(w, c, work)
      PROVE  Goal
    BY <1>1, <1>2 DEF LockCohort
<1>3. ASSUME NEW work, tx' = [tx EXCEPT ![w] = work], UNCHANGED <<rows, cohortLock>>
      PROVE  Goal
    BY <1>1, <1>3
<1>4. ASSUME NEW s \in Student, NEW c \in Cohort, LockToEnroll(w, s, c)
      PROVE  Goal
    BY <1>2, <1>4 DEF LockToEnroll
<1>5. ASSUME CountSeats(w)
      PROVE  Goal
    BY <1>3, <1>5 DEF CountSeats
<1>6. ASSUME NEW e \in Place, ReadToWithdraw(w, e)
      PROVE  Goal
    BY <1>3, <1>6 DEF ReadToWithdraw
<1>7. ASSUME LockToWithdraw(w)
      PROVE  Goal
    BY <1>2, <1>7 DEF LockToWithdraw
<1>8. ASSUME CountFreedSeat(w)
      PROVE  Goal
    BY <1>3, <1>8 DEF CountFreedSeat
<1>9. ASSUME NEW e \in Place, NEW outcome \in {"completed", "failed"}, ReadToRecord(w, e, outcome)
      PROVE  Goal
    BY <1>3, <1>9 DEF ReadToRecord
<1>10. ASSUME NEW c \in Cohort, NEW maxSize \in Size, NEW room \in Room,
              LockToUpdate(w, c, maxSize, room)
       PROVE  Goal
    BY <1>2, <1>10 DEF LockToUpdate
<1>11. ASSUME NEW c \in Cohort, NEW to \in CohortStatus, LockToMove(w, c, to)
       PROVE  Goal
    BY <1>2, <1>11 DEF LockToMove
<1> QED
    BY <1>4, <1>5, <1>6, <1>7, <1>8, <1>9, <1>10, <1>11 DEF Advances

LEMMA Releasing ==
    ASSUME TypeOK, NEW w \in Worker, Release(w)
    PROVE  /\ tx'[w] = Idle /\ \A v \in Worker \ {w} : tx'[v] = tx[v]
           /\ tx' \in [Worker -> Tx \cup {Idle}]
           /\ \A c \in Cohort : cohortLock'[c] = IF cohortLock[c] = w THEN NoOne
                                                 ELSE cohortLock[c]
           /\ cohortLock' \in [Cohort -> Worker \cup {NoOne}]
<1>1. tx \in [Worker -> Tx \cup {Idle}] /\ cohortLock \in [Cohort -> Worker \cup {NoOne}]
    BY DEF TypeOK
<1> QED
    BY <1>1 DEF Release

-----------------------------------------------------------------------------
(* What the commits write. *)
Moved(e, status) ==
    /\ enrollment[e] \in PlaceRow /\ enrollment'[e] \in PlaceRow
    /\ enrollment'[e].status = status
    /\ enrollment'[e].version = enrollment[e].version + 1
    /\ enrollment'[e].student = enrollment[e].student
    /\ enrollment'[e].cohort = enrollment[e].cohort
    /\ enrollment'[e].waitedAt = enrollment[e].waitedAt
Enrolled(w, e) ==
    /\ enrollment[e] = NoPlace /\ enrollment'[e] \in PlaceRow
    /\ enrollment'[e].status = IF tx[w].hasSeat THEN "active" ELSE "waitlisted"
    /\ enrollment'[e].student = tx[w].student /\ enrollment'[e].cohort = tx[w].cohort
    /\ enrollment'[e].waitedAt = IF tx[w].hasSeat THEN 0
                                 ELSE Cardinality(Waited(tx[w].cohort)) + 1
    /\ enrollment'[e].seated = tx[w].hasSeat
    /\ \A f \in Place \ {e} : enrollment'[f] = enrollment[f]

LEMMA EnrollWrites ==
    ASSUME TypeOK, NEW w \in Worker, CommitEnroll(w)
    PROVE  /\ enrollment' \in [Place -> PlaceRow \cup {NoPlace}]
           /\ \E e \in Place : Enrolled(w, e)
<1>1. tx[w].student \in Student /\ tx[w].cohort \in Cohort /\ tx[w].hasSeat \in BOOLEAN
    BY TxKind DEF CommitEnroll
<1>2. Waited(tx[w].cohort) \in SUBSET Place
    BY DEF Waited, PlacesOf
<1>3. Cardinality(Waited(tx[w].cohort)) \in Nat
    BY <1>2, Counted
<1> DEFINE now == Cardinality(Waited(tx[w].cohort)) + 1
           row == [status |-> IF tx[w].hasSeat THEN "active" ELSE "waitlisted",
                   student |-> tx[w].student, cohort |-> tx[w].cohort, version |-> 1,
                   waitedAt |-> IF tx[w].hasSeat THEN 0 ELSE now, seated |-> tx[w].hasSeat]
<1>4. now \in Nat
    BY <1>3
<1>5. row \in PlaceRow
    <2> HIDE DEF now
    <2> QED
        BY <1>1, <1>4 DEF PlaceRow
<1>6. PICK e \in Place : enrollment[e] = NoPlace /\ enrollment' = [enrollment EXCEPT ![e] = row]
    BY DEF CommitEnroll, Waited
<1>7. enrollment \in [Place -> PlaceRow \cup {NoPlace}]
    BY DEF TypeOK
<1>8. enrollment'[e] = row /\ \A f \in Place \ {e} : enrollment'[f] = enrollment[f]
    BY <1>6, <1>7
<1>9. enrollment' \in [Place -> PlaceRow \cup {NoPlace}]
    BY <1>5, <1>6, <1>7
<1> QED
    BY <1>5, <1>6, <1>8, <1>9 DEF Enrolled

LEMMA RowSeated ==
    ASSUME NEW row \in PlaceRow,
           NEW new, new = [row EXCEPT !.status = "active", !.seated = TRUE, !.version = @ + 1]
    PROVE  /\ new \in PlaceRow /\ new.status = "active" /\ new.version = row.version + 1
           /\ new.student = row.student /\ new.cohort = row.cohort
           /\ new.waitedAt = row.waitedAt /\ new.seated = TRUE
<1>1. PICK k \in Nat : k = row.version + 1
    BY DEF PlaceRow
<1>2. new = [row EXCEPT !.status = "active", !.seated = TRUE, !.version = k]
    BY <1>1
<1>3. new \in PlaceRow
    BY <1>2 DEF PlaceRow
<1>4. new.status = "active" /\ new.version = k /\ new.seated = TRUE
    BY <1>2 DEF PlaceRow
<1>5. new.student = row.student /\ new.cohort = row.cohort /\ new.waitedAt = row.waitedAt
    BY <1>2 DEF PlaceRow
<1> QED
    BY <1>1, <1>3, <1>4, <1>5

LEMMA RowMoved ==
    ASSUME NEW e \in Place, enrollment[e] \in PlaceRow,
           NEW status \in {"waitlisted", "active", "completed", "failed", "withdrawn"},
           enrollment'[e] = [enrollment[e] EXCEPT !.status = status, !.version = @ + 1]
    PROVE  Moved(e, status) /\ enrollment'[e].seated = enrollment[e].seated
<1>1. PICK row \in PlaceRow, k \in Nat : row = enrollment[e] /\ k = row.version + 1
    BY DEF PlaceRow
<1>2. PICK new : new = enrollment'[e]
    OBVIOUS
<1>3. new = [row EXCEPT !.status = status, !.version = k]
    BY <1>1, <1>2
<1>4. new \in PlaceRow
    BY <1>3 DEF PlaceRow
<1>5. new.status = status /\ new.version = k /\ new.seated = row.seated
    BY <1>3 DEF PlaceRow
<1>6. new.student = row.student /\ new.cohort = row.cohort /\ new.waitedAt = row.waitedAt
    BY <1>3 DEF PlaceRow
<1> QED
    BY <1>1, <1>2, <1>4, <1>5, <1>6 DEF Moved

(* The row that leaves is the one read, and is not one that is promoted. *)
LEMMA Leaver ==
    ASSUME TypeOK, AsRead, Promoting, NEW w \in Worker, tx[w].step = "promoting",
           StillAsRead(w)
    PROVE  /\ tx[w].place \in Place /\ enrollment[tx[w].place] \in PlaceRow
           /\ enrollment[tx[w].place].status \in {"active", "waitlisted"}
           /\ enrollment[tx[w].place].cohort \in Cohort
           /\ tx[w].next \subseteq Place /\ tx[w].place \notin tx[w].next
           /\ \A f \in tx[w].next : /\ enrollment[f] \in PlaceRow
                                    /\ enrollment[f].status = "waitlisted"
                                    /\ enrollment[f].cohort = enrollment[tx[w].place].cohort
<1>1. tx[w].place \in Place /\ tx[w].next \subseteq Place
    BY TxKind
<1>2. /\ enrollment[tx[w].place] \in PlaceRow
      /\ enrollment[tx[w].place].status \in {"active", "waitlisted"}
    BY DEF AsRead
<1>3. enrollment[tx[w].place].cohort \in Cohort
    BY <1>1, <1>2, PlaceKind
<1>4. tx[w].next \subseteq Waiting(enrollment[tx[w].place].cohort)
    BY DEF Promoting, PromotesSoundly, FirstOf
<1>5. tx[w].next # {} => enrollment[tx[w].place].status = "active"
    BY DEF Promoting
<1>6. tx[w].place \notin tx[w].next
    BY <1>4, <1>5 DEF Waiting
<1>7. \A f \in tx[w].next : /\ enrollment[f] # NoPlace /\ f \in Place
                            /\ enrollment[f].status = "waitlisted"
                            /\ enrollment[f].cohort = enrollment[tx[w].place].cohort
    BY <1>4 DEF Waiting, PlacesOf
<1> QED
    BY <1>1, <1>2, <1>3, <1>6, <1>7, PlaceKind

LEMMA WithdrawWrites ==
    ASSUME TypeOK, AsRead, Promoting, NEW w \in Worker, CommitWithdraw(w)
    PROVE  /\ enrollment' \in [Place -> PlaceRow \cup {NoPlace}]
           /\ Moved(tx[w].place, "withdrawn")
           /\ enrollment'[tx[w].place].seated = enrollment[tx[w].place].seated
           /\ \A f \in tx[w].next : Moved(f, "active") /\ enrollment'[f].seated = TRUE
           /\ \A f \in Place : f # tx[w].place /\ f \notin tx[w].next
                                  => enrollment'[f] = enrollment[f]
<1>1. tx[w].step = "promoting" /\ StillAsRead(w)
    BY DEF CommitWithdraw
<1>2. PICK e \in Place : e = tx[w].place
    BY <1>1, Leaver
<1>3. /\ enrollment[e] \in PlaceRow /\ e \notin tx[w].next /\ tx[w].next \subseteq Place
      /\ \A f \in tx[w].next : enrollment[f] \in PlaceRow
    BY <1>1, <1>2, Leaver
<1>4. enrollment' = [f \in Place |->
          IF f = e THEN [enrollment[f] EXCEPT !.status = "withdrawn", !.version = @ + 1]
          ELSE IF f \in tx[w].next
               THEN [enrollment[f] EXCEPT !.status = "active", !.seated = TRUE,
                                          !.version = @ + 1]
          ELSE enrollment[f]]
    BY <1>2 DEF CommitWithdraw
<1>5. enrollment'[e] = [enrollment[e] EXCEPT !.status = "withdrawn", !.version = @ + 1]
    BY <1>4
<1>6. \A f \in tx[w].next :
         enrollment'[f] = [enrollment[f] EXCEPT !.status = "active", !.seated = TRUE,
                                                !.version = @ + 1]
    BY <1>3, <1>4
<1>7. \A f \in Place : f # e /\ f \notin tx[w].next => enrollment'[f] = enrollment[f]
    BY <1>4
<1>8. Moved(e, "withdrawn") /\ enrollment'[e].seated = enrollment[e].seated
    BY <1>3, <1>5, RowMoved
<1>9. \A f \in tx[w].next : Moved(f, "active") /\ enrollment'[f].seated = TRUE
    <2> SUFFICES ASSUME NEW f \in tx[w].next
                 PROVE  Moved(f, "active") /\ enrollment'[f].seated = TRUE
        OBVIOUS
    <2>1. enrollment[f] \in PlaceRow
          /\ enrollment'[f] = [enrollment[f] EXCEPT !.status = "active", !.seated = TRUE,
                                                    !.version = @ + 1]
        BY <1>3, <1>6
    <2> QED
        BY <2>1, RowSeated DEF Moved
<1>10. enrollment \in [Place -> PlaceRow \cup {NoPlace}]
    BY DEF TypeOK
<1>11. \A f \in Place : enrollment'[f] \in PlaceRow \cup {NoPlace}
    BY <1>7, <1>8, <1>9, <1>10 DEF Moved
<1>13. enrollment' \in [Place -> PlaceRow \cup {NoPlace}]
    BY <1>4, <1>11
<1> QED
    BY <1>2, <1>7, <1>8, <1>9, <1>13

LEMMA ResultWrites ==
    ASSUME TypeOK, AsRead, NEW w \in Worker, CommitResult(w)
    PROVE  /\ enrollment' \in [Place -> PlaceRow \cup {NoPlace}]
           /\ tx[w].place \in Place /\ tx[w].outcome \in {"completed", "failed"}
           /\ enrollment[tx[w].place].status = "active"
           /\ Moved(tx[w].place, tx[w].outcome)
           /\ enrollment'[tx[w].place].seated = enrollment[tx[w].place].seated
           /\ \A f \in Place \ {tx[w].place} : enrollment'[f] = enrollment[f]
<1>1. tx[w].step = "recording" /\ StillAsRead(w)
    BY DEF CommitResult
<1>2. tx[w].place \in Place /\ tx[w].outcome \in {"completed", "failed"}
    BY <1>1, TxKind
<1>3. PICK e \in Place, o \in {"completed", "failed"} : e = tx[w].place /\ o = tx[w].outcome
    BY <1>2
<1>4. enrollment[e] \in PlaceRow /\ enrollment[e].status = "active"
    BY <1>1, <1>3 DEF AsRead
<1>5. /\ enrollment \in [Place -> PlaceRow \cup {NoPlace}]
      /\ enrollment' = [enrollment EXCEPT ![e].status = o, ![e].version = @ + 1]
    BY <1>3 DEF CommitResult, TypeOK
<1>6. enrollment'[e] = [enrollment[e] EXCEPT !.status = o, !.version = @ + 1]
    BY <1>5
<1>7. \A f \in Place \ {e} : enrollment'[f] = enrollment[f]
    BY <1>5
<1>8. Moved(e, o) /\ enrollment'[e].seated = enrollment[e].seated
    BY <1>4, <1>6, RowMoved
<1>9. enrollment' \in [Place -> PlaceRow \cup {NoPlace}]
    BY <1>5, <1>7, <1>8 DEF Moved
<1> QED
    BY <1>2, <1>3, <1>4, <1>7, <1>8, <1>9

LEMMA CohortWrites ==
    ASSUME TypeOK, NEW w \in Worker, CommitCohort(w)
    PROVE  /\ tx[w].cohort \in Cohort /\ cohort'[tx[w].cohort] = tx[w].row
           /\ \A c \in Cohort \ {tx[w].cohort} : cohort'[c] = cohort[c]
           /\ cohort' \in [Cohort -> [status : CohortStatus, maxSize : Size, room : Room]]
           /\ UNCHANGED enrollment
<1>1. /\ tx[w].cohort \in Cohort
      /\ tx[w].row \in [status : CohortStatus, maxSize : Size, room : Room]
    BY TxKind DEF CommitCohort
<1>2. cohort \in [Cohort -> [status : CohortStatus, maxSize : Size, room : Room]]
    BY DEF TypeOK
<1> QED
    BY <1>1, <1>2 DEF CommitCohort

(* The life of a row: it appears, and every later change counts a version. *)
Moves(e) ==
    \/ enrollment[e].status = "waitlisted" /\ (Moved(e, "active") \/ Moved(e, "withdrawn"))
    \/ /\ enrollment[e].status = "active"
       /\ Moved(e, "completed") \/ Moved(e, "failed") \/ Moved(e, "withdrawn")
LEMMA RowLife ==
    ASSUME TypeOK, AsRead, Promoting, [Next]_vars, NEW e \in Place
    PROVE  \/ enrollment'[e] = enrollment[e]
           \/ Moves(e)
           \/ enrollment[e] = NoPlace /\ \E w \in Worker : CommitEnroll(w) /\ Enrolled(w, e)
<1>1. CASE Outside
    BY <1>1 DEF Outside
<1>2. ASSUME NEW w \in Worker, Advances(w) \/ GivesUp(w)
      PROVE  enrollment' = enrollment
    BY <1>2, Advancing DEF GivesUp, rows
<1>3. ASSUME NEW w \in Worker, CommitEnroll(w)
      PROVE  enrollment'[e] = enrollment[e] \/ (enrollment[e] = NoPlace /\ Enrolled(w, e))
    BY <1>3, EnrollWrites DEF Enrolled
<1>4. ASSUME NEW w \in Worker, CommitWithdraw(w)
      PROVE  enrollment'[e] = enrollment[e] \/ Moves(e)
    <2>1. tx[w].step = "promoting" /\ StillAsRead(w)
        BY <1>4 DEF CommitWithdraw
    <2>2. CASE e = tx[w].place
        BY <1>4, <2>1, <2>2, Leaver, WithdrawWrites DEF Moves
    <2>3. CASE e \in tx[w].next
        BY <1>4, <2>1, <2>3, Leaver, WithdrawWrites DEF Moves
    <2> QED
        BY <1>4, <2>2, <2>3, WithdrawWrites
<1>5. ASSUME NEW w \in Worker, CommitResult(w)
      PROVE  enrollment'[e] = enrollment[e] \/ Moves(e)
    BY <1>5, ResultWrites DEF Moves
<1>6. ASSUME NEW w \in Worker, CommitCohort(w)
      PROVE  enrollment' = enrollment
    BY <1>6, CohortWrites
<1> QED
    BY <1>1, <1>2, <1>3, <1>4, <1>5, <1>6, Steps DEF Commits

LEMMA RowsWritten ==
    ASSUME TypeOK, [Next]_vars
    PROVE  \/ UNCHANGED enrollment
           \/ \E w \in Worker : CommitEnroll(w) \/ CommitWithdraw(w) \/ CommitResult(w)
<1>1. CASE Outside
    BY <1>1 DEF Outside
<1>2. ASSUME NEW w \in Worker, Advances(w) \/ GivesUp(w)
      PROVE  UNCHANGED enrollment
    BY <1>2, Advancing DEF GivesUp, rows
<1>3. ASSUME NEW w \in Worker, CommitCohort(w)
      PROVE  UNCHANGED enrollment
    BY <1>3, CohortWrites
<1> QED
    BY <1>1, <1>2, <1>3, Steps DEF Commits

LEMMA TxLife ==
    ASSUME TypeOK, [Next]_vars, NEW w \in Worker
    PROVE  tx'[w] = tx[w] \/ tx'[w] = Idle \/ (Advances(w) /\ UNCHANGED rows)
<1>1. CASE Outside
    BY <1>1 DEF Outside
<1>2. ASSUME NEW v \in Worker, Advances(v)
      PROVE  tx'[w] = tx[w] \/ (Advances(w) /\ UNCHANGED rows)
    BY <1>2, Advancing
<1>3. ASSUME NEW v \in Worker, Commits(v) \/ GivesUp(v)
      PROVE  tx'[w] = tx[w] \/ tx'[w] = Idle
    <2>1. Release(v)
        BY <1>3 DEF Commits, GivesUp, CommitEnroll, CommitWithdraw, CommitResult, CommitCohort
    <2> QED
        BY <2>1, Releasing
<1> QED
    BY <1>1, <1>2, <1>3, Steps

(* Only its holder gives a class lock back, and only by ending. *)
LEMMA LockKept ==
    ASSUME TypeOK, [Next]_vars, NEW w \in Worker, NEW c \in Cohort, cohortLock[c] = w,
           tx'[w] = tx[w], tx[w] # Idle
    PROVE  cohortLock'[c] = w
<1>1. CASE Outside
    BY <1>1 DEF Outside
<1>2. ASSUME NEW v \in Worker, Advances(v)
      PROVE  cohortLock'[c] = w
    BY <1>2, Advancing, NoOneIsNoWorker
<1>3. ASSUME NEW v \in Worker, Commits(v) \/ GivesUp(v)
      PROVE  cohortLock'[c] = w
    <2>1. Release(v)
        BY <1>3 DEF Commits, GivesUp, CommitEnroll, CommitWithdraw, CommitResult, CommitCohort
    <2> QED
        BY <2>1, Releasing
<1> QED
    BY <1>1, <1>2, <1>3, Steps

-----------------------------------------------------------------------------
(* While a class is locked, only results are recorded in it. *)
Calm(c) ==
    /\ cohort'[c] = cohort[c]
    /\ \A e \in Place :
          \/ enrollment'[e] = enrollment[e]
          \/ /\ enrollment[e] = NoPlace \/ enrollment[e].cohort # c
             /\ enrollment'[e].cohort # c
          \/ enrollment[e].status = "active"
             /\ \E outcome \in {"completed", "failed"} : Moved(e, outcome)

LEMMA CalmWhileHeld ==
    ASSUME TypeOK, Holding, AsRead, Promoting, [Next]_vars, NEW c \in Cohort,
           cohortLock[c] \in Worker, cohortLock'[c] = cohortLock[c]
    PROVE  Calm(c)
<1>0. ASSUME UNCHANGED <<cohort, enrollment>>
      PROVE  Calm(c)
    BY <1>0 DEF Calm
<1>1. CASE Outside
    BY <1>0, <1>1 DEF Outside
<1>2. ASSUME NEW w \in Worker, Advances(w) \/ GivesUp(w)
      PROVE  Calm(c)
    BY <1>0, <1>2, Advancing DEF GivesUp, rows
<1>r. ASSUME NEW w \in Worker, Release(w)
      PROVE  cohortLock[c] # w
    BY <1>r, Releasing, NoOneIsNoWorker
<1>3. ASSUME NEW w \in Worker, CommitEnroll(w)
      PROVE  Calm(c)
    <2>1. tx[w].cohort # c
        BY <1>3, <1>r DEF Holding, CommitEnroll
    <2> QED
        BY <1>3, <2>1, EnrollWrites DEF Enrolled, Calm, CommitEnroll
<1>4. ASSUME NEW w \in Worker, CommitWithdraw(w)
      PROVE  Calm(c)
    <2>1. enrollment[tx[w].place].cohort # c
        BY <1>4, <1>r DEF Holding, CommitWithdraw
    <2>2. UNCHANGED cohort /\ tx[w].step = "promoting" /\ StillAsRead(w)
        BY <1>4 DEF CommitWithdraw
    <2>3. \A f \in tx[w].next : enrollment[f].cohort # c
        BY <2>1, <2>2, Leaver
    <2>4. ASSUME NEW e \in Place, e = tx[w].place \/ e \in tx[w].next
          PROVE  enrollment[e].cohort # c /\ enrollment'[e].cohort # c
        <3>1. Moved(e, "withdrawn") \/ Moved(e, "active")
            BY <1>4, <2>4, WithdrawWrites
        <3>2. enrollment'[e].cohort = enrollment[e].cohort
            BY <3>1 DEF Moved
        <3> QED
            BY <2>1, <2>3, <2>4, <3>2
    <2>5. ASSUME NEW e \in Place, e # tx[w].place, e \notin tx[w].next
          PROVE  enrollment'[e] = enrollment[e]
        BY <1>4, <2>5, WithdrawWrites
    <2> QED
        BY <2>2, <2>4, <2>5 DEF Calm
<1>5. ASSUME NEW w \in Worker, CommitResult(w)
      PROVE  Calm(c)
    BY <1>5, ResultWrites DEF Calm, CommitResult
<1>6. ASSUME NEW w \in Worker, CommitCohort(w)
      PROVE  Calm(c)
    <2>1. tx[w].cohort # c
        BY <1>6, <1>r DEF Holding, CommitCohort
    <2> QED
        BY <1>6, <2>1, CohortWrites DEF Calm
<1> QED
    BY <1>1, <1>2, <1>3, <1>4, <1>5, <1>6, Steps DEF Commits

LEMMA CalmKeeps ==
    ASSUME TypeOK, TypeOK', NEW c \in Cohort, Calm(c)
    PROVE  /\ Active(c)' \subseteq Active(c)
           /\ Waiting(c)' = Waiting(c)
           /\ FirstOf(Waiting(c))' = FirstOf(Waiting(c))
           /\ \A s \in Student : HasPlace(s, c)' => HasPlace(s, c)
           /\ Cardinality(Active(c)') <= Cardinality(Active(c))
           /\ \A e \in Place : Cardinality(Active(c)' \ {e}) <= Cardinality(Active(c) \ {e})
<1>1. Active(c)' \subseteq Active(c)
    BY DEF Calm, Active, PlacesOf, Moved, NoPlace
<1>2. Waiting(c)' = Waiting(c) /\ \A e \in Waiting(c) : enrollment'[e] = enrollment[e]
    BY DEF Calm, Waiting, PlacesOf, Moved, NoPlace
<1>3. FirstOf(Waiting(c))' = FirstOf(Waiting(c))
    BY <1>2 DEF FirstOf
<1>4. \A s \in Student : HasPlace(s, c)' => HasPlace(s, c)
    <2> SUFFICES ASSUME NEW s \in Student, HasPlace(s, c)'
                 PROVE  HasPlace(s, c)
        OBVIOUS
    <2>1. PICK e \in Place : /\ enrollment'[e] # NoPlace /\ enrollment'[e].cohort = c
                             /\ enrollment'[e].student = s
                             /\ enrollment'[e].status \in {"waitlisted", "active", "completed"}
        BY DEF HasPlace, PlacesOf
    <2>2. CASE enrollment'[e] = enrollment[e]
        BY <2>1, <2>2 DEF HasPlace, PlacesOf
    <2>3. CASE enrollment[e].status = "active"
               /\ \E outcome \in {"completed", "failed"} : Moved(e, outcome)
        BY <2>1, <2>3 DEF HasPlace, PlacesOf, Moved, NoPlace
    <2> QED
        BY <2>1, <2>2, <2>3 DEF Calm
<1>5. Active(c) \subseteq Place
    BY DEF Active, PlacesOf
<1>6. \A e \in Place : Active(c)' \ {e} \subseteq Active(c) \ {e} /\ Active(c) \ {e} \subseteq Place
    BY <1>1, <1>5
<1> QED
    BY <1>1, <1>2, <1>3, <1>4, <1>5, <1>6, Counted

-----------------------------------------------------------------------------
(* Type correctness. *)
LEMMA AdvanceTypes ==
    ASSUME TypeOK, AsRead, NEW w \in Worker, Advances(w)
    PROVE  tx' \in [Worker -> Tx \cup {Idle}]
<1>1. /\ tx \in [Worker -> Tx \cup {Idle}]
      /\ cohort \in [Cohort -> [status : CohortStatus, maxSize : Size, room : Room]]
    BY DEF TypeOK
<1>2. ASSUME NEW work \in Tx, tx' = [tx EXCEPT ![w] = work]
      PROVE  tx' \in [Worker -> Tx \cup {Idle}]
    BY <1>1, <1>2
<1>3. ASSUME NEW s \in Student, NEW c \in Cohort, LockToEnroll(w, s, c)
      PROVE  tx' \in [Worker -> Tx \cup {Idle}]
    <2>1. [step |-> "enrolling", student |-> s, cohort |-> c] \in Tx
        BY DEF Tx
    <2> QED
        BY <1>2, <1>3, <2>1 DEF LockToEnroll, LockCohort
<1>4. ASSUME CountSeats(w)
      PROVE  tx' \in [Worker -> Tx \cup {Idle}]
    <2>1. tx[w].student \in Student /\ tx[w].cohort \in Cohort
        BY <1>4, TxKind DEF CountSeats
    <2>2. \A b \in BOOLEAN : [step |-> "placing", student |-> tx[w].student,
                              cohort |-> tx[w].cohort, hasSeat |-> b] \in Tx
        BY <2>1 DEF Tx
    <2>3. (Cardinality(Active(tx[w].cohort)) < Seats(tx[w].cohort)) \in BOOLEAN
        OBVIOUS
    <2> QED
        BY <1>2, <1>4, <2>2, <2>3 DEF CountSeats
<1>5. ASSUME NEW e \in Place, ReadToWithdraw(w, e)
      PROVE  tx' \in [Worker -> Tx \cup {Idle}]
    <2>1. enrollment[e].status \in {"active", "waitlisted"} /\ enrollment[e].version \in Nat
        BY <1>5, PlaceKind DEF ReadToWithdraw
    <2>2. [step |-> "found", place |-> e, was |-> enrollment[e].status,
           version |-> enrollment[e].version] \in Tx
        BY <2>1 DEF Tx
    <2> QED
        BY <1>2, <1>5, <2>2 DEF ReadToWithdraw
<1>6. ASSUME LockToWithdraw(w)
      PROVE  tx' \in [Worker -> Tx \cup {Idle}]
    <2>1. tx[w].place \in Place /\ tx[w].version \in Nat /\ tx[w].was \in {"active", "waitlisted"}
        BY <1>6, TxKind DEF LockToWithdraw
    <2>2. [step |-> "leaving", place |-> tx[w].place, was |-> tx[w].was,
           version |-> tx[w].version] \in Tx
        BY <2>1 DEF Tx
    <2> QED
        BY <1>2, <1>6, <2>2 DEF LockToWithdraw, LockCohort
<1>7. ASSUME CountFreedSeat(w)
      PROVE  tx' \in [Worker -> Tx \cup {Idle}]
    <2> DEFINE next == Promotable(enrollment[tx[w].place].cohort, tx[w].place, tx[w].was)
    <2>1. tx[w].place \in Place /\ tx[w].version \in Nat
        BY <1>7, TxKind DEF CountFreedSeat
    <2>2. next \subseteq Place
        BY DEF Promotable, FirstOf, Waiting, PlacesOf
    <2> HIDE DEF next
    <2>3. [step |-> "promoting", place |-> tx[w].place, version |-> tx[w].version,
           next |-> next] \in Tx
        BY <2>1, <2>2 DEF Tx
    <2>4. tx' = [tx EXCEPT ![w] = [step |-> "promoting", place |-> tx[w].place,
                                   version |-> tx[w].version, next |-> next]]
        BY <1>7 DEF CountFreedSeat, next
    <2> QED
        BY <1>2, <2>3, <2>4
<1>8. ASSUME NEW e \in Place, NEW outcome \in {"completed", "failed"}, ReadToRecord(w, e, outcome)
      PROVE  tx' \in [Worker -> Tx \cup {Idle}]
    <2>1. enrollment[e].version \in Nat
        BY <1>8, PlaceKind DEF ReadToRecord
    <2>2. [step |-> "recording", place |-> e, version |-> enrollment[e].version,
           outcome |-> outcome] \in Tx
        BY <2>1 DEF Tx
    <2> QED
        BY <1>2, <1>8, <2>2 DEF ReadToRecord
<1>9. ASSUME NEW c \in Cohort, NEW maxSize \in Size, NEW room \in Room,
             LockToUpdate(w, c, maxSize, room)
      PROVE  tx' \in [Worker -> Tx \cup {Idle}]
    <2>1. [cohort[c] EXCEPT !.maxSize = maxSize, !.room = room]
              \in [status : CohortStatus, maxSize : Size, room : Room]
        BY <1>1
    <2>2. [step |-> "updating", cohort |-> c,
           row |-> [cohort[c] EXCEPT !.maxSize = maxSize, !.room = room]] \in Tx
        BY <2>1 DEF Tx
    <2> QED
        BY <1>2, <1>9, <2>2 DEF LockToUpdate, LockCohort
<1>10. ASSUME NEW c \in Cohort, NEW to \in CohortStatus, LockToMove(w, c, to)
       PROVE  tx' \in [Worker -> Tx \cup {Idle}]
    <2>1. [cohort[c] EXCEPT !.status = to]
              \in [status : CohortStatus, maxSize : Size, room : Room]
        BY <1>1
    <2>2. [step |-> "updating", cohort |-> c, row |-> [cohort[c] EXCEPT !.status = to]] \in Tx
        BY <2>1 DEF Tx
    <2> QED
        BY <1>2, <1>10, <2>2 DEF LockToMove, LockCohort
<1> QED
    BY <1>3, <1>4, <1>5, <1>6, <1>7, <1>8, <1>9, <1>10 DEF Advances

LEMMA ApplicationStep ==
    ASSUME TypeOK, [Next]_vars
    PROVE  /\ application' \in [Student -> {"none", "offered", "confirmed", "enrolled"}]
           /\ \A s \in Student :
                 \/ application'[s] = application[s]
                 \/ application[s] = "offered" /\ application'[s] = "confirmed"
                 \/ application[s] = "confirmed" /\ application'[s] = "enrolled"
           /\ capacity' \in [Room -> Size]
<1>1. /\ application \in [Student -> {"none", "offered", "confirmed", "enrolled"}]
      /\ capacity \in [Room -> Size]
    BY DEF TypeOK
<1> DEFINE Goal ==
           /\ application' \in [Student -> {"none", "offered", "confirmed", "enrolled"}]
           /\ \A s \in Student :
                 \/ application'[s] = application[s]
                 \/ application[s] = "offered" /\ application'[s] = "confirmed"
                 \/ application[s] = "confirmed" /\ application'[s] = "enrolled"
           /\ capacity' \in [Room -> Size]
<1>2. ASSUME UNCHANGED <<application, capacity>>
      PROVE  Goal
    BY <1>1, <1>2
<1>3. ASSUME NEW who, MarkEnrolled(who), UNCHANGED capacity
      PROVE  Goal
    BY <1>1, <1>3 DEF MarkEnrolled
<1>4. ASSUME NEW s \in Student, Convert(s)
      PROVE  Goal
    BY <1>1, <1>4 DEF Convert
<1>5. ASSUME NEW r \in Room, NEW seats \in Size, UpdateRoom(r, seats)
      PROVE  Goal
    BY <1>1, <1>5 DEF UpdateRoom
<1>6. ASSUME NEW w \in Worker, Advances(w)
      PROVE  Goal
    BY <1>2, <1>6, Advancing DEF rows
<1>7. ASSUME NEW w \in Worker, CommitEnroll(w) \/ CommitWithdraw(w)
      PROVE  Goal
    BY <1>3, <1>7 DEF CommitEnroll, CommitWithdraw
<1>8. ASSUME NEW w \in Worker, CommitResult(w) \/ CommitCohort(w) \/ RefuseStale(w) \/ Abort(w)
      PROVE  Goal
    BY <1>2, <1>8 DEF CommitResult, CommitCohort, RefuseStale, Abort, rows
<1>9. CASE UNCHANGED vars
    BY <1>2, <1>9 DEF vars
<1> QED
    BY <1>4, <1>5, <1>6, <1>7, <1>8, <1>9 DEF Next, Handling, Advances

LEMMA TypeStep ==
    ASSUME TypeOK, AsRead, Promoting, [Next]_vars
    PROVE  TypeOK'
<1>1. /\ enrollment \in [Place -> PlaceRow \cup {NoPlace}]
      /\ cohort \in [Cohort -> [status : CohortStatus, maxSize : Size, room : Room]]
      /\ cohortLock \in [Cohort -> Worker \cup {NoOne}] /\ tx \in [Worker -> Tx \cup {Idle}]
    BY DEF TypeOK
<1> DEFINE Goal ==
      /\ enrollment' \in [Place -> PlaceRow \cup {NoPlace}]
      /\ cohort' \in [Cohort -> [status : CohortStatus, maxSize : Size, room : Room]]
      /\ cohortLock' \in [Cohort -> Worker \cup {NoOne}] /\ tx' \in [Worker -> Tx \cup {Idle}]
<1>2. ASSUME Outside
      PROVE  Goal
    BY <1>1, <1>2 DEF Outside
<1>3. ASSUME NEW w \in Worker, Advances(w)
      PROVE  Goal
    BY <1>1, <1>3, Advancing, AdvanceTypes DEF rows
<1>4. ASSUME NEW w \in Worker, GivesUp(w)
      PROVE  Goal
    BY <1>1, <1>4, Releasing DEF GivesUp, rows
<1>5. ASSUME NEW w \in Worker, Commits(w)
      PROVE  Goal
    <2>1. Release(w)
        BY <1>5 DEF Commits, CommitEnroll, CommitWithdraw, CommitResult, CommitCohort
    <2>2. cohortLock' \in [Cohort -> Worker \cup {NoOne}] /\ tx' \in [Worker -> Tx \cup {Idle}]
        BY <2>1, Releasing
    <2>3. CASE CommitCohort(w)
        BY <1>1, <2>2, <2>3, CohortWrites
    <2>4. CASE CommitEnroll(w)
        BY <1>1, <2>2, <2>4, EnrollWrites DEF CommitEnroll
    <2>5. CASE CommitWithdraw(w)
        BY <1>1, <2>2, <2>5, WithdrawWrites DEF CommitWithdraw
    <2>6. CASE CommitResult(w)
        BY <1>1, <2>2, <2>6, ResultWrites DEF CommitResult
    <2> QED
        BY <1>5, <2>3, <2>4, <2>5, <2>6 DEF Commits
<1> QED
    BY <1>2, <1>3, <1>4, <1>5, Steps, ApplicationStep DEF TypeOK

-----------------------------------------------------------------------------
(* What an open transaction found under its lock, or read with a version,  *)
(* is still so when it goes on.                                            *)
LEMMA SeatsBound ==
    ASSUME TypeOK, NEW maxSize \in Size, NEW room \in Room
    PROVE  SeatsFor(maxSize, room) \in Nat /\ SeatsFor(maxSize, room) <= maxSize
<1>1. capacity[room] \in Nat /\ maxSize \in Nat
    BY SizesArePositive DEF TypeOK
<1> QED
    BY <1>1 DEF SeatsFor

LEMMA ClassKind ==
    ASSUME TypeOK, NEW c \in Cohort
    PROVE  /\ cohort[c].status \in CohortStatus /\ cohort[c].maxSize \in Size
           /\ cohort[c].room \in Room /\ cohort[c].maxSize \in Nat
<1>1. cohort[c] \in [status : CohortStatus, maxSize : Size, room : Room]
    BY DEF TypeOK
<1> QED
    BY <1>1, SizesArePositive

(* A row that was there stays, in its class; the version tells if it moved. *)
LEMMA RowStays ==
    ASSUME TypeOK, AsRead, Promoting, [Next]_vars, NEW e \in Place, enrollment[e] \in PlaceRow
    PROVE  /\ enrollment'[e] \in PlaceRow
           /\ enrollment'[e].cohort = enrollment[e].cohort
           /\ enrollment'[e].student = enrollment[e].student
           /\ enrollment'[e].waitedAt = enrollment[e].waitedAt
           /\ \/ enrollment'[e] = enrollment[e]
              \/ enrollment'[e].version = enrollment[e].version + 1
<1>1. enrollment[e] # NoPlace
    BY PlaceKind
<1> QED
    BY <1>1, RowLife DEF Moves, Moved

LEMMA HoldingStep ==
    ASSUME TypeOK, Holding, AsRead, Promoting, [Next]_vars
    PROVE  Holding'
<1> SUFFICES ASSUME NEW w \in Worker
             PROVE  /\ tx'[w].step \in {"enrolling", "placing", "updating"}
                          => cohortLock'[tx'[w].cohort] = w
                    /\ tx'[w].step \in {"leaving", "promoting"}
                          => cohortLock'[enrollment'[tx'[w].place].cohort] = w
    BY DEF Holding
<1>0. tx \in [Worker -> Tx \cup {Idle}] /\ cohortLock \in [Cohort -> Worker \cup {NoOne}]
    BY DEF TypeOK
<1>1. CASE tx'[w] = tx[w]
    <2>1. tx[w].step \in {"enrolling", "placing", "updating", "leaving", "promoting"}
          => tx[w] # Idle
        BY DEF Idle
    <2>2. ASSUME tx[w].step \in {"enrolling", "placing", "updating"}
          PROVE  cohortLock'[tx[w].cohort] = w
        <3>1. tx[w].cohort \in Cohort /\ cohortLock[tx[w].cohort] = w
            BY <2>2, TxKind DEF Holding
        <3> QED
            BY <1>1, <2>1, <2>2, <3>1, LockKept
    <2>3. ASSUME tx[w].step \in {"leaving", "promoting"}
          PROVE  cohortLock'[enrollment'[tx[w].place].cohort] = w
        <3>1. tx[w].place \in Place /\ enrollment[tx[w].place] \in PlaceRow
            BY <2>3, TxKind DEF AsRead
        <3>2. /\ enrollment[tx[w].place].cohort \in Cohort
              /\ enrollment'[tx[w].place].cohort = enrollment[tx[w].place].cohort
            BY <3>1, PlaceKind, RowStays
        <3>3. cohortLock[enrollment[tx[w].place].cohort] = w
            BY <2>3 DEF Holding
        <3> QED
            BY <1>1, <2>1, <2>3, <3>2, <3>3, LockKept
    <2> QED
        BY <1>1, <2>2, <2>3
<1>2. CASE tx'[w] = Idle
    BY <1>2 DEF Idle
<1>3. CASE Advances(w) /\ UNCHANGED rows
    <2>1. UNCHANGED enrollment
        BY <1>3 DEF rows
    <2>2. ASSUME NEW s \in Student, NEW c \in Cohort, LockToEnroll(w, s, c)
          PROVE  tx'[w].step = "enrolling" /\ cohortLock'[tx'[w].cohort] = w
        BY <1>0, <2>2 DEF LockToEnroll, LockCohort
    <2>3. ASSUME CountSeats(w)
          PROVE  tx'[w].step = "placing" /\ cohortLock'[tx'[w].cohort] = w
        BY <1>0, <2>3 DEF CountSeats, Holding
    <2>4. ASSUME NEW e \in Place, ReadToWithdraw(w, e)
          PROVE  tx'[w].step = "found"
        BY <1>0, <2>4 DEF ReadToWithdraw
    <2>5. ASSUME LockToWithdraw(w)
          PROVE  tx'[w].step = "leaving" /\ cohortLock'[enrollment'[tx'[w].place].cohort] = w
        <3>1. tx[w].place \in Place /\ enrollment[tx[w].place] \in PlaceRow
            BY <2>5, TxKind DEF AsRead, LockToWithdraw
        <3>2. enrollment[tx[w].place].cohort \in Cohort
            BY <3>1, PlaceKind
        <3> QED
            BY <1>0, <2>1, <2>5, <3>2 DEF LockToWithdraw, LockCohort
    <2>6. ASSUME CountFreedSeat(w)
          PROVE  tx'[w].step = "promoting" /\ cohortLock'[enrollment'[tx'[w].place].cohort] = w
        BY <1>0, <2>1, <2>6 DEF CountFreedSeat, Holding
    <2>7. ASSUME NEW e \in Place, NEW outcome \in {"completed", "failed"},
                 ReadToRecord(w, e, outcome)
          PROVE  tx'[w].step = "recording"
        BY <1>0, <2>7 DEF ReadToRecord
    <2>8. ASSUME NEW c \in Cohort, NEW maxSize \in Size, NEW room \in Room,
                 LockToUpdate(w, c, maxSize, room)
          PROVE  tx'[w].step = "updating" /\ cohortLock'[tx'[w].cohort] = w
        BY <1>0, <2>8 DEF LockToUpdate, LockCohort
    <2>9. ASSUME NEW c \in Cohort, NEW to \in CohortStatus, LockToMove(w, c, to)
          PROVE  tx'[w].step = "updating" /\ cohortLock'[tx'[w].cohort] = w
        BY <1>0, <2>9 DEF LockToMove, LockCohort
    <2> QED
        BY <1>3, <2>2, <2>3, <2>4, <2>5, <2>6, <2>7, <2>8, <2>9 DEF Advances
<1> QED
    BY <1>1, <1>2, <1>3, TxLife

LEMMA AsReadStep ==
    ASSUME TypeOK, AsRead, Promoting, [Next]_vars
    PROVE  AsRead'
<1> DEFINE Good(w) ==
           /\ enrollment[tx[w].place] \in PlaceRow
           /\ tx[w].version <= enrollment[tx[w].place].version
           /\ StillAsRead(w) =>
              /\ tx[w].step \in {"found", "leaving"} => enrollment[tx[w].place].status = tx[w].was
              /\ tx[w].step = "promoting"
                    => enrollment[tx[w].place].status \in {"active", "waitlisted"}
              /\ tx[w].step = "recording" => enrollment[tx[w].place].status = "active"
<1> SUFFICES ASSUME NEW w \in Worker,
                    tx'[w].step \in {"found", "leaving", "promoting", "recording"}
             PROVE  Good(w)'
    BY DEF AsRead
<1>0. tx \in [Worker -> Tx \cup {Idle}]
    BY DEF TypeOK
<1>1. CASE tx'[w] = tx[w]
    <2>1. Good(w)
        BY <1>1 DEF AsRead
    <2>2. tx[w].place \in Place /\ tx[w].version \in Nat
        BY <1>1, TxKind
    <2>3. enrollment[tx[w].place].version \in Nat
        BY <2>1, <2>2, PlaceKind
    <2>4. enrollment'[tx[w].place] \in PlaceRow
        BY <2>1, <2>2, RowStays
    <2>5. CASE enrollment'[tx[w].place] = enrollment[tx[w].place]
        BY <1>1, <2>1, <2>5 DEF StillAsRead
    <2>6. CASE enrollment'[tx[w].place].version = enrollment[tx[w].place].version + 1
        <3>1. tx[w].version < enrollment'[tx[w].place].version
            BY <2>1, <2>2, <2>3, <2>6
        <3> QED
            BY <1>1, <2>2, <2>3, <2>4, <2>6, <3>1 DEF StillAsRead
    <2> QED
        BY <2>1, <2>2, <2>5, <2>6, RowStays
<1>2. CASE tx'[w] = Idle
    BY <1>2 DEF Idle
<1>3. CASE Advances(w) /\ UNCHANGED rows
    <2>1. UNCHANGED enrollment
        BY <1>3 DEF rows
    <2>2. ASSUME NEW s \in Student, NEW c \in Cohort, LockToEnroll(w, s, c)
          PROVE  tx'[w].step = "enrolling"
        BY <1>0, <2>2 DEF LockToEnroll, LockCohort
    <2>3. ASSUME CountSeats(w)
          PROVE  tx'[w].step = "placing"
        BY <1>0, <2>3 DEF CountSeats
    <2>4. ASSUME NEW e \in Place, ReadToWithdraw(w, e)
          PROVE  Good(w)'
        <3>1. tx'[w] = [step |-> "found", place |-> e, was |-> enrollment[e].status,
                        version |-> enrollment[e].version]
            BY <1>0, <2>4 DEF ReadToWithdraw
        <3>2. enrollment[e] \in PlaceRow /\ enrollment[e].version \in Nat
            BY <2>4, PlaceKind DEF ReadToWithdraw
        <3> QED
            BY <2>1, <3>1, <3>2 DEF StillAsRead
    <2>5. ASSUME LockToWithdraw(w)
          PROVE  Good(w)'
        <3>1. tx'[w] = [step |-> "leaving", place |-> tx[w].place, was |-> tx[w].was,
                        version |-> tx[w].version]
            BY <1>0, <2>5 DEF LockToWithdraw, LockCohort
        <3>2. Good(w) /\ tx[w].step = "found"
            BY <2>5 DEF AsRead, LockToWithdraw
        <3> QED
            BY <2>1, <3>1, <3>2 DEF StillAsRead
    <2>6. ASSUME CountFreedSeat(w)
          PROVE  Good(w)'
        <3>1. /\ tx'[w].step = "promoting" /\ tx'[w].place = tx[w].place
              /\ tx'[w].version = tx[w].version
            BY <1>0, <2>6 DEF CountFreedSeat
        <3>2. Good(w) /\ tx[w].step = "leaving" /\ tx[w].was \in {"active", "waitlisted"}
            BY <2>6, TxKind DEF AsRead, CountFreedSeat
        <3> QED
            BY <2>1, <3>1, <3>2 DEF StillAsRead
    <2>7. ASSUME NEW e \in Place, NEW outcome \in {"completed", "failed"},
                 ReadToRecord(w, e, outcome)
          PROVE  Good(w)'
        <3>1. tx'[w] = [step |-> "recording", place |-> e, version |-> enrollment[e].version,
                        outcome |-> outcome]
            BY <1>0, <2>7 DEF ReadToRecord
        <3>2. enrollment[e] \in PlaceRow /\ enrollment[e].version \in Nat
              /\ enrollment[e].status = "active"
            BY <2>7, PlaceKind DEF ReadToRecord
        <3> QED
            BY <2>1, <3>1, <3>2 DEF StillAsRead
    <2>8. ASSUME NEW c \in Cohort, NEW maxSize \in Size, NEW room \in Room,
                 LockToUpdate(w, c, maxSize, room)
          PROVE  tx'[w].step = "updating"
        BY <1>0, <2>8 DEF LockToUpdate, LockCohort
    <2>9. ASSUME NEW c \in Cohort, NEW to \in CohortStatus, LockToMove(w, c, to)
          PROVE  tx'[w].step = "updating"
        BY <1>0, <2>9 DEF LockToMove, LockCohort
    <2> QED
        BY <1>3, <2>2, <2>3, <2>4, <2>5, <2>6, <2>7, <2>8, <2>9 DEF Advances
<1> QED
    BY <1>1, <1>2, <1>3, TxLife

(* The steps at which something has been counted, and the count. *)
BeganEnrolling(w) == \E s \in Student, c \in Cohort :
    /\ LockToEnroll(w, s, c)
    /\ tx'[w] = [step |-> "enrolling", student |-> s, cohort |-> c]
CountedSeats(w) ==
    /\ CountSeats(w)
    /\ tx'[w] = [step |-> "placing", student |-> tx[w].student, cohort |-> tx[w].cohort,
                 hasSeat |-> Cardinality(Active(tx[w].cohort)) < Seats(tx[w].cohort)]
CountedFreed(w) ==
    /\ CountFreedSeat(w)
    /\ tx'[w] = [step |-> "promoting", place |-> tx[w].place, version |-> tx[w].version,
                 next |-> Promotable(enrollment[tx[w].place].cohort, tx[w].place, tx[w].was)]
BeganUpdating(w) == \E c \in Cohort, maxSize \in Size, room \in Room :
    /\ LockToUpdate(w, c, maxSize, room)
    /\ tx'[w] = [step |-> "updating", cohort |-> c,
                 row |-> [cohort[c] EXCEPT !.maxSize = maxSize, !.room = room]]
BeganMoving(w) == \E c \in Cohort, to \in CohortStatus :
    /\ LockToMove(w, c, to)
    /\ tx'[w] = [step |-> "updating", cohort |-> c, row |-> [cohort[c] EXCEPT !.status = to]]

LEMMA Counting ==
    ASSUME TypeOK, NEW w \in Worker, Advances(w)
    PROVE  \/ tx'[w].step \in {"found", "leaving", "recording"}
           \/ tx'[w].step = "enrolling" /\ BeganEnrolling(w)
           \/ tx'[w].step = "placing" /\ CountedSeats(w)
           \/ tx'[w].step = "promoting" /\ CountedFreed(w)
           \/ tx'[w].step = "updating" /\ (BeganUpdating(w) \/ BeganMoving(w))
<1>0. tx \in [Worker -> Tx \cup {Idle}]
    BY DEF TypeOK
<1>1. ASSUME NEW e \in Place, ReadToWithdraw(w, e)
      PROVE  tx'[w].step = "found"
    BY <1>0, <1>1 DEF ReadToWithdraw
<1>2. ASSUME LockToWithdraw(w)
      PROVE  tx'[w].step = "leaving"
    BY <1>0, <1>2 DEF LockToWithdraw, LockCohort
<1>3. ASSUME NEW e \in Place, NEW outcome \in {"completed", "failed"}, ReadToRecord(w, e, outcome)
      PROVE  tx'[w].step = "recording"
    BY <1>0, <1>3 DEF ReadToRecord
<1>4. ASSUME NEW s \in Student, NEW c \in Cohort, LockToEnroll(w, s, c)
      PROVE  tx'[w].step = "enrolling" /\ BeganEnrolling(w)
    <2>1. tx'[w] = [step |-> "enrolling", student |-> s, cohort |-> c]
        BY <1>0, <1>4 DEF LockToEnroll, LockCohort
    <2> QED
        BY <1>4, <2>1 DEF BeganEnrolling
<1>5. ASSUME CountSeats(w)
      PROVE  tx'[w].step = "placing" /\ CountedSeats(w)
    <2>1. tx'[w] = [step |-> "placing", student |-> tx[w].student, cohort |-> tx[w].cohort,
                    hasSeat |-> Cardinality(Active(tx[w].cohort)) < Seats(tx[w].cohort)]
        BY <1>0, <1>5 DEF CountSeats
    <2> QED
        BY <1>5, <2>1 DEF CountedSeats
<1>6. ASSUME CountFreedSeat(w)
      PROVE  tx'[w].step = "promoting" /\ CountedFreed(w)
    <2>1. tx'[w] = [step |-> "promoting", place |-> tx[w].place, version |-> tx[w].version,
                    next |-> Promotable(enrollment[tx[w].place].cohort, tx[w].place, tx[w].was)]
        BY <1>0, <1>6 DEF CountFreedSeat
    <2> QED
        BY <1>6, <2>1 DEF CountedFreed
<1>7. ASSUME NEW c \in Cohort, NEW maxSize \in Size, NEW room \in Room,
             LockToUpdate(w, c, maxSize, room)
      PROVE  tx'[w].step = "updating" /\ BeganUpdating(w)
    <2>1. tx'[w] = [step |-> "updating", cohort |-> c,
                    row |-> [cohort[c] EXCEPT !.maxSize = maxSize, !.room = room]]
        BY <1>0, <1>7 DEF LockToUpdate, LockCohort
    <2>2. tx'[w].step = "updating"
        BY <2>1
    <2>3. BeganUpdating(w)
        BY <1>7, <2>1 DEF BeganUpdating
    <2> QED
        BY <2>2, <2>3
<1>8. ASSUME NEW c \in Cohort, NEW to \in CohortStatus, LockToMove(w, c, to)
      PROVE  tx'[w].step = "updating" /\ BeganMoving(w)
    <2>1. tx'[w] = [step |-> "updating", cohort |-> c,
                    row |-> [cohort[c] EXCEPT !.status = to]]
        BY <1>0, <1>8 DEF LockToMove, LockCohort
    <2> QED
        BY <1>8, <2>1 DEF BeganMoving
<1> QED
    BY <1>1, <1>2, <1>3, <1>4, <1>5, <1>6, <1>7, <1>8 DEF Advances

LEMMA EnteringStep ==
    ASSUME TypeOK, TypeOK', Holding, AsRead, Promoting, Entering, [Next]_vars
    PROVE  Entering'
<1> SUFFICES ASSUME NEW w \in Worker, tx'[w].step \in {"enrolling", "placing"}
             PROVE  EntersSoundly(w, tx[w].student, tx[w].cohort)'
    BY DEF Entering
<1>1. CASE tx'[w] = tx[w]
    <2>1. PICK c \in Cohort, s \in Student : c = tx[w].cohort /\ s = tx[w].student
        BY <1>1, TxKind
    <2>2. EntersSoundly(w, s, c) /\ cohortLock[c] = w
        BY <1>1, <2>1 DEF Entering, Holding
    <2>3. tx[w] # Idle
        BY <1>1 DEF Idle
    <2>4. Calm(c)
        BY <1>1, <2>2, <2>3, LockKept, CalmWhileHeld
    <2>5. Enrolling(c)' /\ Registered(s)' /\ ~HasPlace(s, c)'
        <3>1. Registered(s)'
            BY <2>2, ApplicationStep DEF EntersSoundly, Registered
        <3>2. ~HasPlace(s, c)'
            BY <2>2, <2>4, CalmKeeps DEF EntersSoundly
        <3> QED
            BY <2>2, <2>4, <3>1, <3>2 DEF EntersSoundly, Enrolling, Calm
    <2>6. tx[w].step = "placing" /\ tx[w].hasSeat
          => Cardinality(Active(c)') < cohort'[c].maxSize
        <3>1. Cardinality(Active(c)') <= Cardinality(Active(c)) /\ cohort'[c] = cohort[c]
            BY <2>4, CalmKeeps DEF Calm
        <3>2. Cardinality(Active(c)) \in Nat /\ Cardinality(Active(c)') \in Nat
            BY Counted DEF Active, PlacesOf
        <3>3. cohort[c].maxSize \in Nat
            BY ClassKind
        <3> QED
            BY <2>2, <3>1, <3>2, <3>3 DEF EntersSoundly
    <2> QED
        BY <1>1, <2>1, <2>5, <2>6 DEF EntersSoundly
<1>2. CASE tx'[w] = Idle
    BY <1>2 DEF Idle
<1>3. CASE Advances(w) /\ UNCHANGED rows
    <2>1. UNCHANGED <<cohort, enrollment, application>>
        BY <1>3 DEF rows
    <2>2. \A c \in Cohort : Active(c)' = Active(c)
        BY <2>1 DEF Active, PlacesOf
    <2>4. ASSUME BeganEnrolling(w)
          PROVE  EntersSoundly(w, tx[w].student, tx[w].cohort)'
        <3>0. PICK s \in Student, c \in Cohort :
                 /\ LockToEnroll(w, s, c)
                 /\ tx'[w] = [step |-> "enrolling", student |-> s, cohort |-> c]
            BY <2>4 DEF BeganEnrolling
        <3>1. Enrolling(c) /\ Registered(s) /\ ~HasPlace(s, c)
            BY <3>0 DEF LockToEnroll
        <3>2. Enrolling(c)' /\ Registered(s)' /\ ~HasPlace(s, c)'
            BY <2>1, <3>1 DEF Enrolling, Registered, HasPlace, PlacesOf
        <3>3. tx'[w].student = s /\ tx'[w].cohort = c /\ tx'[w].step = "enrolling"
            BY <3>0
        <3> QED
            BY <3>2, <3>3 DEF EntersSoundly
    <2>5. ASSUME CountedSeats(w)
          PROVE  EntersSoundly(w, tx[w].student, tx[w].cohort)'
        <3>1. PICK c \in Cohort, s \in Student : c = tx[w].cohort /\ s = tx[w].student
            BY <2>5, TxKind DEF CountedSeats, CountSeats
        <3>2. Enrolling(c) /\ Registered(s) /\ ~HasPlace(s, c)
            BY <2>5, <3>1 DEF CountedSeats, CountSeats, Entering, EntersSoundly
        <3>3. Enrolling(c)' /\ Registered(s)' /\ ~HasPlace(s, c)'
            BY <2>1, <3>2 DEF Enrolling, Registered, HasPlace, PlacesOf
        <3>4. /\ tx'[w].student = s /\ tx'[w].cohort = c
              /\ tx'[w].hasSeat = (Cardinality(Active(c)) < Seats(c))
            BY <2>5, <3>1 DEF CountedSeats
        <3>5. Seats(c) \in Nat /\ Seats(c) <= cohort[c].maxSize /\ cohort[c].maxSize \in Nat
            BY ClassKind, SeatsBound DEF Seats
        <3>6. Cardinality(Active(c)) \in Nat /\ Active(c)' = Active(c)
            BY <2>2, Counted DEF Active, PlacesOf
        <3>7. ASSUME tx'[w].hasSeat
              PROVE  Cardinality(Active(c)') < cohort'[c].maxSize
            <4>1. Cardinality(Active(c)) < Seats(c)
                BY <3>4, <3>7
            <4> QED
                BY <2>1, <3>5, <3>6, <4>1
        <3> QED
            BY <3>3, <3>4, <3>7 DEF EntersSoundly
    <2> QED
        BY <1>3, <2>4, <2>5, Counting
<1> QED
    BY <1>1, <1>2, <1>3, TxLife

LEMMA PromotingStep ==
    ASSUME TypeOK, TypeOK', Holding, AsRead, Promoting, [Next]_vars
    PROVE  Promoting'
<1> DEFINE Good(w) ==
           /\ PromotesSoundly(tx[w].place, tx[w].next, enrollment[tx[w].place].cohort)
           /\ tx[w].next # {} /\ StillAsRead(w) => enrollment[tx[w].place].status = "active"
<1> SUFFICES ASSUME NEW w \in Worker, tx'[w].step = "promoting"
             PROVE  Good(w)'
    BY DEF Promoting
<1>1. CASE tx'[w] = tx[w]
    <2>1. PICK e \in Place : e = tx[w].place
        BY <1>1, TxKind
    <2>2. enrollment[e] \in PlaceRow /\ tx[w].version <= enrollment[e].version /\ tx[w].version \in Nat
        BY <1>1, <2>1, TxKind DEF AsRead
    <2>3. PICK c \in Cohort : c = enrollment[e].cohort
        BY <2>2, PlaceKind
    <2>4. PromotesSoundly(e, tx[w].next, c) /\ cohortLock[c] = w
        BY <1>1, <2>1, <2>3 DEF Promoting, Holding
    <2>5. tx[w] # Idle
        BY <1>1 DEF Idle
    <2>6. Calm(c)
        BY <1>1, <2>4, <2>5, LockKept, CalmWhileHeld
    <2>7. enrollment'[e].cohort = c
        BY <2>2, <2>3, RowStays
    <2>8. FirstOf(Waiting(c))' = FirstOf(Waiting(c)) /\ cohort'[c] = cohort[c]
        BY <2>6, CalmKeeps DEF Calm
    <2>9. tx[w].next # {} => Cardinality(Active(c)' \ {e}) < cohort'[c].maxSize
        <3>1. Cardinality(Active(c)' \ {e}) <= Cardinality(Active(c) \ {e})
            BY <2>6, CalmKeeps
        <3>2. Active(c) \ {e} \in SUBSET Place /\ Active(c)' \ {e} \in SUBSET Place
            BY DEF Active, PlacesOf
        <3>3. Cardinality(Active(c) \ {e}) \in Nat /\ Cardinality(Active(c)' \ {e}) \in Nat
            BY <3>2, Counted
        <3> QED
            BY <2>4, <2>8, <3>1, <3>3, ClassKind DEF PromotesSoundly
    <2>10. PromotesSoundly(e, tx[w].next, c)'
        BY <1>1, <2>4, <2>8, <2>9 DEF PromotesSoundly
    <2>11. ASSUME tx[w].next # {}, enrollment'[e].version = tx[w].version
           PROVE  enrollment'[e].status = "active"
        <3>1. enrollment[e].version \in Nat
            BY <2>2, PlaceKind
        <3>2. enrollment'[e] = enrollment[e]
            BY <2>2, <2>11, <3>1, RowStays
        <3> QED
            BY <1>1, <2>1, <2>11, <3>2 DEF Promoting, StillAsRead
    <2> QED
        BY <1>1, <2>1, <2>7, <2>10, <2>11 DEF StillAsRead
<1>2. CASE tx'[w] = Idle
    BY <1>2 DEF Idle
<1>3. CASE Advances(w) /\ UNCHANGED rows
    <2>1. UNCHANGED <<cohort, enrollment>>
        BY <1>3 DEF rows
    <2>2. /\ CountFreedSeat(w)
          /\ tx'[w] = [step |-> "promoting", place |-> tx[w].place, version |-> tx[w].version,
                       next |-> Promotable(enrollment[tx[w].place].cohort, tx[w].place,
                                           tx[w].was)]
        BY <1>3, Counting DEF CountedFreed
    <2>3. PICK e \in Place : e = tx[w].place
        BY <2>2, TxKind DEF CountFreedSeat
    <2>4. enrollment[e] \in PlaceRow /\ StillAsRead(w) /\ enrollment[e].status = tx[w].was
        BY <2>2, <2>3 DEF CountFreedSeat, AsRead
    <2>5. PICK c \in Cohort : c = enrollment[e].cohort
        BY <2>4, PlaceKind
    <2>6. tx'[w].place = e /\ tx'[w].next = Promotable(c, e, tx[w].was)
        BY <2>2, <2>3, <2>5
    <2>7. /\ Promotable(c, e, tx[w].was) \subseteq FirstOf(Waiting(c))
          /\ Promotable(c, e, tx[w].was) # {}
                => tx[w].was = "active" /\ Cardinality(Active(c) \ {e}) < Seats(c)
        BY DEF Promotable
    <2>8. Seats(c) \in Nat /\ Seats(c) <= cohort[c].maxSize /\ cohort[c].maxSize \in Nat
        BY ClassKind, SeatsBound DEF Seats
    <2>9. Active(c) \ {e} \in SUBSET Place
        BY DEF Active, PlacesOf
    <2>10. Cardinality(Active(c) \ {e}) \in Nat
        BY <2>9, Counted
    <2>11. PromotesSoundly(e, Promotable(c, e, tx[w].was), c)
        BY <2>7, <2>8, <2>10 DEF PromotesSoundly
    <2>12. Active(c)' = Active(c) /\ FirstOf(Waiting(c))' = FirstOf(Waiting(c))
        BY <2>1 DEF Active, FirstOf, Waiting, PlacesOf
    <2>13. PromotesSoundly(tx[w].place, tx[w].next, enrollment[tx[w].place].cohort)'
        BY <2>1, <2>5, <2>6, <2>11, <2>12 DEF PromotesSoundly
    <2> QED
        BY <2>1, <2>4, <2>6, <2>7, <2>13
<1> QED
    BY <1>1, <1>2, <1>3, TxLife

LEMMA UpdatingStep ==
    ASSUME TypeOK, TypeOK', Holding, AsRead, Promoting, Updating, NeverOverMaxSize, [Next]_vars
    PROVE  Updating'
<1> SUFFICES ASSUME NEW w \in Worker, tx'[w].step = "updating"
             PROVE  FitsRow(tx[w].cohort, tx[w].row)'
    BY DEF Updating
<1>1. CASE tx'[w] = tx[w]
    <2>1. PICK c \in Cohort, row \in [status : CohortStatus, maxSize : Size, room : Room] :
             c = tx[w].cohort /\ row = tx[w].row
        BY <1>1, TxKind
    <2>2. FitsRow(c, row) /\ cohortLock[c] = w
        BY <1>1, <2>1 DEF Updating, Holding
    <2>3. tx[w] # Idle
        BY <1>1 DEF Idle
    <2>4. Calm(c)
        BY <1>1, <2>2, <2>3, LockKept, CalmWhileHeld
    <2>5. /\ Active(c)' \subseteq Active(c) /\ Waiting(c)' = Waiting(c)
          /\ Cardinality(Active(c)') <= Cardinality(Active(c))
        BY <2>4, CalmKeeps
    <2>6. Cardinality(Active(c)) \in Nat /\ Cardinality(Active(c)') \in Nat
        BY Counted DEF Active, PlacesOf
    <2>7. row.maxSize \in Nat
        BY SizesArePositive
    <2>8. Cardinality(Active(c)') <= row.maxSize
        BY <2>2, <2>5, <2>6, <2>7 DEF FitsRow
    <2>9. /\ row.status \in {"cancelled", "completed"} => Active(c)' = {}
          /\ row.status = "cancelled" => Waiting(c)' = {}
        BY <2>2, <2>5 DEF FitsRow
    <2> QED
        BY <1>1, <2>1, <2>8, <2>9 DEF FitsRow
<1>2. CASE tx'[w] = Idle
    BY <1>2 DEF Idle
<1>3. CASE Advances(w) /\ UNCHANGED rows
    <2>1. UNCHANGED <<cohort, enrollment>>
        BY <1>3 DEF rows
    <2>2. \A c \in Cohort : Active(c)' = Active(c) /\ Waiting(c)' = Waiting(c)
        BY <2>1 DEF Active, Waiting, PlacesOf
    <2>3. ASSUME BeganUpdating(w)
          PROVE  FitsRow(tx[w].cohort, tx[w].row)'
        <3>0. PICK c \in Cohort, maxSize \in Size, room \in Room :
                 /\ LockToUpdate(w, c, maxSize, room)
                 /\ tx'[w] = [step |-> "updating", cohort |-> c,
                              row |-> [cohort[c] EXCEPT !.maxSize = maxSize, !.room = room]]
            BY <2>3 DEF BeganUpdating
        <3>1. cohort[c] \in [status : CohortStatus, maxSize : Size, room : Room]
            BY DEF TypeOK
        <3>2. tx'[w].row.maxSize = maxSize /\ tx'[w].row.status = cohort[c].status
            <4>1. PICK row : row = [cohort[c] EXCEPT !.maxSize = maxSize, !.room = room]
                OBVIOUS
            <4>2. row.maxSize = maxSize /\ row.status = cohort[c].status
                BY <3>1, <4>1
            <4>3. tx'[w].row = row
                BY <3>0, <4>1
            <4> QED
                BY <4>2, <4>3
        <3>3. /\ cohort[c].status \notin {"completed", "cancelled"}
              /\ Cardinality(Active(c)) <= SeatsFor(maxSize, room)
            BY <3>0 DEF LockToUpdate
        <3>4. SeatsFor(maxSize, room) \in Nat /\ SeatsFor(maxSize, room) <= maxSize
              /\ maxSize \in Nat
            BY SeatsBound, SizesArePositive
        <3>5. Cardinality(Active(c)) \in Nat
            BY Counted DEF Active, PlacesOf
        <3>6. Cardinality(Active(c)') <= maxSize
            BY <2>2, <3>3, <3>4, <3>5
        <3>7. tx'[w].cohort = c
            BY <3>0
        <3> QED
            BY <3>2, <3>3, <3>6, <3>7 DEF FitsRow
    <2>4. ASSUME BeganMoving(w)
          PROVE  FitsRow(tx[w].cohort, tx[w].row)'
        <3>0. PICK c \in Cohort, to \in CohortStatus :
                 /\ LockToMove(w, c, to)
                 /\ tx'[w] = [step |-> "updating", cohort |-> c,
                              row |-> [cohort[c] EXCEPT !.status = to]]
            BY <2>4 DEF BeganMoving
        <3>1. cohort[c] \in [status : CohortStatus, maxSize : Size, room : Room]
            BY DEF TypeOK
        <3>2. tx'[w].row.maxSize = cohort[c].maxSize /\ tx'[w].row.status = to
            BY <3>0, <3>1
        <3>3. /\ to \in {"cancelled", "completed"} => Active(c) = {}
              /\ to = "cancelled" => Waiting(c) = {}
            BY <3>0 DEF LockToMove
        <3>4. Cardinality(Active(c)) <= cohort[c].maxSize
            BY DEF NeverOverMaxSize
        <3>5. tx'[w].cohort = c
            BY <3>0
        <3> QED
            BY <2>2, <3>2, <3>3, <3>4, <3>5 DEF FitsRow
    <2> QED
        BY <1>3, <2>3, <2>4, Counting
<1> QED
    BY <1>1, <1>2, <1>3, TxLife

-----------------------------------------------------------------------------
(* The line: the next to be seated is one student at most. *)
LEMMA OneNext ==
    ASSUME TypeOK, Line, NEW c \in Cohort, NEW next, next \subseteq FirstOf(Waiting(c))
    PROVE  \A e, f \in next : e = f
<1> SUFFICES ASSUME NEW e \in next, NEW f \in next, e # f
             PROVE  FALSE
    OBVIOUS
<1>1. e \in Waiting(c) /\ f \in Waiting(c)
      /\ enrollment[e].waitedAt <= enrollment[f].waitedAt
      /\ enrollment[f].waitedAt <= enrollment[e].waitedAt
    BY DEF FirstOf
<1>2. /\ e \in PlacesOf(c) /\ f \in PlacesOf(c)
      /\ enrollment[e].status = "waitlisted" /\ e \in Place /\ f \in Place
      /\ enrollment[e] # NoPlace /\ enrollment[f] # NoPlace
    BY <1>1 DEF Waiting, PlacesOf
<1>3. enrollment[e].waitedAt \in Nat /\ enrollment[f].waitedAt \in Nat
    BY <1>2, PlaceKind
<1>4. enrollment[e].waitedAt = enrollment[f].waitedAt
    BY <1>1, <1>3
<1> QED
    BY <1>2, <1>4 DEF Line

LEMMA LineStep ==
    ASSUME TypeOK, TypeOK', AsRead, Promoting, Line, [Next]_vars
    PROVE  Line'
<1> SUFFICES ASSUME NEW c \in Cohort, NEW e \in PlacesOf(c)'
             PROVE  /\ enrollment'[e].waitedAt <= Cardinality(Waited(c)')
                    /\ enrollment'[e].status = "waitlisted" => enrollment'[e].waitedAt > 0
                    /\ \A f \in PlacesOf(c)' :
                          e # f /\ enrollment'[e].waitedAt > 0
                              => enrollment'[e].waitedAt # enrollment'[f].waitedAt
    BY DEF Line
<1>0. e \in Place /\ enrollment'[e] # NoPlace /\ enrollment'[e].cohort = c
    BY DEF PlacesOf
<1>1. /\ Waited(c) \in SUBSET Place /\ Waited(c)' \in SUBSET Place
      /\ Cardinality(Waited(c)) \in Nat /\ Cardinality(Waited(c)') \in Nat
    BY Counted DEF Waited, PlacesOf
<1>2. \A f \in PlacesOf(c) : /\ enrollment'[f].waitedAt = enrollment[f].waitedAt
                             /\ f \in PlacesOf(c)'
    <2> SUFFICES ASSUME NEW f \in PlacesOf(c)
                 PROVE  /\ enrollment'[f].waitedAt = enrollment[f].waitedAt
                        /\ f \in PlacesOf(c)'
        OBVIOUS
    <2>1. f \in Place /\ enrollment[f] \in PlaceRow /\ enrollment[f].cohort = c
        BY PlaceKind DEF PlacesOf
    <2>2. /\ enrollment'[f] \in PlaceRow /\ enrollment'[f].cohort = c
          /\ enrollment'[f].waitedAt = enrollment[f].waitedAt
        BY <2>1, RowStays
    <2>3. enrollment'[f] # NoPlace
        BY <2>2 DEF NoPlace, PlaceRow
    <2> QED
        BY <2>1, <2>2, <2>3 DEF PlacesOf
<1>3. \A f \in PlacesOf(c) : enrollment[f].waitedAt \in Nat
    BY PlaceKind DEF PlacesOf
<1>4. \A f \in PlacesOf(c) : enrollment'[f].status = "waitlisted"
                                => enrollment[f].status = "waitlisted"
    BY RowLife DEF PlacesOf, Moves, Moved
<1>5. CASE PlacesOf(c)' = PlacesOf(c)
    <2>1. Waited(c)' = Waited(c)
        BY <1>2, <1>5 DEF Waited
    <2> QED
        BY <1>2, <1>4, <1>5, <2>1 DEF Line
<1>6. CASE PlacesOf(c)' # PlacesOf(c)
    <2>1. PICK g \in Place : g \in PlacesOf(c)' /\ g \notin PlacesOf(c)
        BY <1>2, <1>6 DEF PlacesOf
    <2>2. ~Moves(g) /\ enrollment'[g] # enrollment[g]
        BY <2>1, PlaceKind DEF PlacesOf, Moves, Moved
    <2>3. PICK w \in Worker : CommitEnroll(w) /\ Enrolled(w, g) /\ enrollment[g] = NoPlace
        BY <2>2, RowLife
    <2>4. tx[w].cohort = c /\ tx[w].hasSeat \in BOOLEAN
        BY <2>1, <2>3, TxKind DEF Enrolled, PlacesOf, CommitEnroll
    <2>5. PlacesOf(c)' = PlacesOf(c) \cup {g} /\ g \notin Waited(c)
        BY <2>1, <2>3 DEF Enrolled, PlacesOf, Waited
    <2>6. CASE tx[w].hasSeat
        <3>1. enrollment'[g].waitedAt = 0 /\ enrollment'[g].status = "active"
            BY <2>3, <2>6 DEF Enrolled
        <3>2. Waited(c)' = Waited(c)
            BY <1>2, <2>5, <3>1 DEF Waited
        <3>3. CASE e = g
            BY <1>1, <3>1, <3>3
        <3>4. CASE e \in PlacesOf(c)
            BY <1>2, <1>3, <1>4, <2>5, <3>1, <3>2, <3>4 DEF Line
        <3> QED
            BY <2>5, <3>3, <3>4
    <2>7. CASE ~tx[w].hasSeat
        <3>1. enrollment'[g].waitedAt = Cardinality(Waited(c)) + 1
            BY <2>3, <2>4, <2>7 DEF Enrolled
        <3>2. Waited(c)' = Waited(c) \cup {g}
            BY <1>1, <1>2, <2>5, <3>1 DEF Waited
        <3>3. Cardinality(Waited(c)') = Cardinality(Waited(c)) + 1
            BY <1>1, <2>5, <3>2, Counted, FS_AddElement
        <3>4. \A f \in PlacesOf(c) : /\ enrollment'[f].waitedAt <= Cardinality(Waited(c))
                                     /\ enrollment'[f].waitedAt \in Nat
            BY <1>2, <1>3 DEF Line
        <3>5. CASE e = g
            BY <1>1, <2>5, <3>1, <3>3, <3>4, <3>5
        <3>6. CASE e \in PlacesOf(c)
            <4>1. enrollment'[e].waitedAt <= Cardinality(Waited(c)')
                BY <1>1, <3>3, <3>4, <3>6
            <4>2. enrollment'[e].status = "waitlisted" => enrollment'[e].waitedAt > 0
                BY <1>2, <1>4, <3>6 DEF Line
            <4>3. ASSUME NEW f \in PlacesOf(c)', e # f, enrollment'[e].waitedAt > 0
                  PROVE  enrollment'[e].waitedAt # enrollment'[f].waitedAt
                <5>1. CASE f = g
                    BY <1>1, <3>1, <3>4, <3>6, <5>1
                <5>2. CASE f \in PlacesOf(c)
                    BY <1>2, <3>6, <4>3, <5>2 DEF Line
                <5> QED
                    BY <2>5, <5>1, <5>2
            <4> QED
                BY <4>1, <4>2, <4>3
        <3> QED
            BY <2>5, <3>5, <3>6
    <2> QED
        BY <2>4, <2>6, <2>7
<1> QED
    BY <1>5, <1>6

-----------------------------------------------------------------------------
(* What a step does to who sits and who waits in a class. *)
Shrinks(c) ==
    cohort'[c] = cohort[c] /\ Active(c)' \subseteq Active(c) /\ Waiting(c)' \subseteq Waiting(c)
Adds(w, c) ==
    /\ CommitEnroll(w) /\ tx[w].step = "placing" /\ tx[w].cohort = c /\ cohort'[c] = cohort[c]
    /\ \E e \in Place : /\ Active(c)' \subseteq Active(c) \cup (IF tx[w].hasSeat THEN {e} ELSE {})
                        /\ Waiting(c)' \subseteq Waiting(c) \cup {e}
Promotes(w, c) ==
    /\ CommitWithdraw(w) /\ tx[w].step = "promoting" /\ StillAsRead(w)
    /\ enrollment[tx[w].place].cohort = c /\ cohort'[c] = cohort[c]
    /\ Active(c)' \subseteq (Active(c) \ {tx[w].place}) \cup tx[w].next
    /\ Waiting(c)' \subseteq Waiting(c)
Rewrites(w, c) ==
    /\ tx[w].step = "updating" /\ tx[w].cohort = c /\ cohort'[c] = tx[w].row
    /\ Active(c)' = Active(c) /\ Waiting(c)' = Waiting(c)

LEMMA ClassStep ==
    ASSUME TypeOK, AsRead, Promoting, [Next]_vars, NEW c \in Cohort
    PROVE  Shrinks(c) \/ \E w \in Worker : Adds(w, c) \/ Promotes(w, c) \/ Rewrites(w, c)
<1>0. ASSUME UNCHANGED enrollment
      PROVE  Active(c)' = Active(c) /\ Waiting(c)' = Waiting(c)
    BY <1>0 DEF Active, Waiting, PlacesOf
<1>1. CASE Outside
    BY <1>0, <1>1 DEF Outside, Shrinks
<1>2. ASSUME NEW w \in Worker, Advances(w) \/ GivesUp(w)
      PROVE  Shrinks(c)
    BY <1>0, <1>2, Advancing DEF GivesUp, rows, Shrinks
<1>3. ASSUME NEW w \in Worker, CommitEnroll(w)
      PROVE  Shrinks(c) \/ Adds(w, c)
    <2>0. cohort' = cohort /\ tx[w].step = "placing" /\ tx[w].hasSeat \in BOOLEAN
        BY <1>3, TxKind DEF CommitEnroll
    <2>1. PICK e \in Place : Enrolled(w, e)
        BY <1>3, EnrollWrites
    <2>2. PlacesOf(c)' \subseteq PlacesOf(c) \cup (IF tx[w].cohort = c THEN {e} ELSE {})
        BY <2>1 DEF Enrolled, PlacesOf
    <2>3. \A f \in PlacesOf(c) : f # e /\ enrollment'[f] = enrollment[f]
        BY <2>1 DEF Enrolled, PlacesOf
    <2>4. Active(c)' \subseteq Active(c) \cup (PlacesOf(c)' \ PlacesOf(c))
          /\ Waiting(c)' \subseteq Waiting(c) \cup (PlacesOf(c)' \ PlacesOf(c))
        BY <2>3 DEF Active, Waiting
    <2>5. CASE tx[w].cohort # c
        BY <2>0, <2>2, <2>4, <2>5 DEF Shrinks
    <2>6. CASE tx[w].cohort = c
        <3>1. ~tx[w].hasSeat => e \notin Active(c)'
            BY <2>1 DEF Enrolled, Active
        <3>2. Active(c)' \subseteq Active(c) \cup (IF tx[w].hasSeat THEN {e} ELSE {})
            BY <2>2, <2>4, <3>1
        <3> QED
            BY <1>3, <2>0, <2>2, <2>4, <2>6, <3>2 DEF Adds
    <2> QED
        BY <2>5, <2>6
<1>4. ASSUME NEW w \in Worker, CommitWithdraw(w)
      PROVE  Shrinks(c) \/ Promotes(w, c)
    <2>0. cohort' = cohort /\ tx[w].step = "promoting" /\ StillAsRead(w)
        BY <1>4 DEF CommitWithdraw
    <2>1. PICK e \in Place : e = tx[w].place
        BY <2>0, Leaver
    <2>2. PICK d \in Cohort : d = enrollment[e].cohort
        BY <2>0, <2>1, Leaver
    <2>3. enrollment'[e].status = "withdrawn"
        BY <1>4, <2>1, WithdrawWrites DEF Moved
    <2>4. \A f \in tx[w].next : /\ f \in Place /\ enrollment'[f].status = "active"
                                /\ enrollment'[f].cohort = d
        <3> SUFFICES ASSUME NEW f \in tx[w].next
                     PROVE  /\ f \in Place /\ enrollment'[f].status = "active"
                            /\ enrollment'[f].cohort = d
            OBVIOUS
        <3>1. f \in Place /\ enrollment[f].cohort = d
            BY <2>0, <2>1, <2>2, Leaver
        <3>2. Moved(f, "active")
            BY <1>4, WithdrawWrites
        <3> QED
            BY <3>1, <3>2 DEF Moved
    <2>5. \A f \in Place : f # e /\ f \notin tx[w].next => enrollment'[f] = enrollment[f]
        BY <1>4, <2>1, WithdrawWrites
    <2>6. Waiting(c)' \subseteq Waiting(c)
        BY <2>3, <2>4, <2>5 DEF Waiting, PlacesOf
    <2>7. Active(c)' \subseteq (Active(c) \ {e}) \cup (IF d = c THEN tx[w].next ELSE {})
        BY <2>3, <2>4, <2>5 DEF Active, PlacesOf
    <2>8. CASE d # c
        BY <2>0, <2>6, <2>7, <2>8 DEF Shrinks
    <2>9. CASE d = c
        BY <1>4, <2>0, <2>1, <2>2, <2>6, <2>7, <2>9 DEF Promotes
    <2> QED
        BY <2>8, <2>9
<1>5. ASSUME NEW w \in Worker, CommitResult(w)
      PROVE  Shrinks(c)
    <2>1. /\ enrollment'[tx[w].place].status = tx[w].outcome
          /\ tx[w].outcome \notin {"active", "waitlisted"}
          /\ \A f \in Place \ {tx[w].place} : enrollment'[f] = enrollment[f]
        BY <1>5, ResultWrites DEF Moved
    <2>2. Active(c)' \subseteq Active(c) /\ Waiting(c)' \subseteq Waiting(c)
        BY <2>1 DEF Active, Waiting, PlacesOf
    <2> QED
        BY <1>5, <2>2 DEF CommitResult, Shrinks
<1>6. ASSUME NEW w \in Worker, CommitCohort(w)
      PROVE  Shrinks(c) \/ Rewrites(w, c)
    BY <1>0, <1>6, CohortWrites DEF Shrinks, Rewrites, CommitCohort
<1> QED
    BY <1>1, <1>2, <1>3, <1>4, <1>5, <1>6, Steps DEF Commits

LEMMA NeverOverStep ==
    ASSUME TypeOK, TypeOK', Holding, AsRead, Entering, Promoting, Updating, Line,
           NeverOverMaxSize, [Next]_vars
    PROVE  NeverOverMaxSize'
<1> SUFFICES ASSUME NEW c \in Cohort
             PROVE  Cardinality(Active(c)') <= cohort'[c].maxSize
    BY DEF NeverOverMaxSize
<1>0. Cardinality(Active(c)) <= cohort[c].maxSize /\ cohort[c].maxSize \in Nat
    BY ClassKind DEF NeverOverMaxSize
<1>1. /\ Active(c) \in SUBSET Place /\ Active(c)' \in SUBSET Place
      /\ Cardinality(Active(c)) \in Nat /\ Cardinality(Active(c)') \in Nat
    BY Counted DEF Active, PlacesOf
<1>2. CASE Shrinks(c)
    BY <1>0, <1>1, <1>2, Counted DEF Shrinks
<1>3. ASSUME NEW w \in Worker, Adds(w, c)
      PROVE  Cardinality(Active(c)') <= cohort'[c].maxSize
    <2>1. PICK e \in Place : Active(c)' \subseteq Active(c) \cup (IF tx[w].hasSeat THEN {e} ELSE {})
        BY <1>3 DEF Adds
    <2>2. CASE tx[w].hasSeat
        <3>1. Cardinality(Active(c)) < cohort[c].maxSize
            BY <1>3, <2>2 DEF Adds, Entering, EntersSoundly
        <3>2. Active(c) \cup {e} \in SUBSET Place /\ Active(c)' \subseteq Active(c) \cup {e}
            BY <1>1, <2>1, <2>2
        <3>3. Cardinality(Active(c)') <= Cardinality(Active(c) \cup {e})
              /\ Cardinality(Active(c) \cup {e}) \in Nat
            BY <3>2, Counted
        <3>4. Cardinality(Active(c) \cup {e}) <= Cardinality(Active(c)) + 1
            BY <1>1, Counted, FS_AddElement
        <3> QED
            BY <1>0, <1>1, <1>3, <3>1, <3>3, <3>4 DEF Adds
    <2>3. CASE ~tx[w].hasSeat
        <3>1. Active(c)' \subseteq Active(c)
            BY <2>1, <2>3
        <3> QED
            BY <1>0, <1>1, <1>3, <3>1, Counted DEF Adds
    <2> QED
        BY <2>2, <2>3
<1>4. ASSUME NEW w \in Worker, Promotes(w, c)
      PROVE  Cardinality(Active(c)') <= cohort'[c].maxSize
    <2>1. PICK e \in Place : e = tx[w].place
        BY <1>4, TxKind DEF Promotes
    <2>2. PromotesSoundly(e, tx[w].next, c) /\ tx[w].next \subseteq Place
        BY <1>4, <2>1, TxKind DEF Promoting, Promotes
    <2>3. Active(c)' \subseteq (Active(c) \ {e}) \cup tx[w].next /\ cohort'[c] = cohort[c]
        BY <1>4, <2>1 DEF Promotes
    <2>4. CASE tx[w].next = {}
        <3>1. Active(c)' \subseteq Active(c)
            BY <2>3, <2>4
        <3> QED
            BY <1>0, <1>1, <2>3, <3>1, Counted
    <2>5. CASE tx[w].next # {}
        <3>1. Cardinality(Active(c) \ {e}) < cohort[c].maxSize
            BY <2>2, <2>5 DEF PromotesSoundly
        <3>2. PICK f \in Place : tx[w].next = {f}
            <4>1. \A g, h \in tx[w].next : g = h
                BY <2>2, OneNext DEF PromotesSoundly
            <4> QED
                BY <2>2, <2>5, <4>1
        <3>3. (Active(c) \ {e}) \in SUBSET Place /\ (Active(c) \ {e}) \cup {f} \in SUBSET Place
            BY <1>1
        <3>4. Cardinality(Active(c)') <= Cardinality((Active(c) \ {e}) \cup {f})
            BY <2>3, <3>2, <3>3, Counted
        <3>5. Cardinality((Active(c) \ {e}) \cup {f}) <= Cardinality(Active(c) \ {e}) + 1
            BY <3>3, Counted, FS_AddElement
        <3>6. Cardinality((Active(c) \ {e}) \cup {f}) \in Nat /\ Cardinality(Active(c) \ {e}) \in Nat
            BY <3>3, Counted
        <3> QED
            BY <1>0, <1>1, <2>3, <3>1, <3>4, <3>5, <3>6
    <2> QED
        BY <2>4, <2>5
<1>5. ASSUME NEW w \in Worker, Rewrites(w, c)
      PROVE  Cardinality(Active(c)') <= cohort'[c].maxSize
    BY <1>5 DEF Rewrites, Updating, FitsRow
<1> QED
    BY <1>2, <1>3, <1>4, <1>5, ClassStep

LEMMA OnePlaceStep ==
    ASSUME TypeOK, TypeOK', AsRead, Entering, Promoting, OnePlaceEach, [Next]_vars
    PROVE  OnePlaceEach'
<1> DEFINE Held == {"waitlisted", "active", "completed"}
<1> SUFFICES ASSUME NEW e \in Place, NEW f \in Place, e # f,
                    enrollment'[e] # NoPlace, enrollment'[f] # NoPlace,
                    enrollment'[e].cohort = enrollment'[f].cohort,
                    enrollment'[e].student = enrollment'[f].student,
                    enrollment'[e].status \in Held, enrollment'[f].status \in Held
             PROVE  FALSE
    <2>1. \A g \in Place : enrollment'[g] \in PlaceRow \cup {NoPlace}
        BY DEF TypeOK
    <2>2. \A row \in PlaceRow : row.status \in Held \cup {"failed", "withdrawn"}
        BY DEF PlaceRow
    <2>3. \A g \in Place : enrollment'[g] # NoPlace
                             => enrollment'[g].status \in Held \cup {"failed", "withdrawn"}
        BY <2>1, <2>2
    <2> QED
        BY <2>3 DEF OnePlaceEach
<1>1. ASSUME NEW g \in Place, enrollment[g] \in PlaceRow, enrollment'[g].status \in Held
      PROVE  /\ enrollment[g] # NoPlace /\ enrollment[g].status \in Held
             /\ enrollment[g].cohort = enrollment'[g].cohort
             /\ enrollment[g].student = enrollment'[g].student
    <2>1. enrollment[g] # NoPlace
        BY <1>1, PlaceKind
    <2> QED
        BY <1>1, <2>1, RowLife DEF Moves, Moved
<1>2. ASSUME NEW g \in Place, NEW h \in Place, g # h, enrollment[g] = NoPlace,
             enrollment'[g] # NoPlace, enrollment'[h] # NoPlace, enrollment'[h].status \in Held,
             enrollment'[g].cohort = enrollment'[h].cohort,
             enrollment'[g].student = enrollment'[h].student
      PROVE  FALSE
    <2>1. ~Moves(g)
        BY <1>2, PlaceKind DEF Moves, Moved
    <2>2. PICK w \in Worker : CommitEnroll(w) /\ Enrolled(w, g)
        BY <1>2, <2>1, RowLife
    <2>3. /\ enrollment'[g].student = tx[w].student /\ enrollment'[g].cohort = tx[w].cohort
          /\ enrollment'[h] = enrollment[h]
        BY <1>2, <2>2 DEF Enrolled
    <2>4. HasPlace(tx[w].student, tx[w].cohort)
        BY <1>2, <2>3 DEF HasPlace, PlacesOf
    <2>5. tx[w].step = "placing"
        BY <2>2 DEF CommitEnroll
    <2> QED
        BY <2>4, <2>5 DEF Entering, EntersSoundly
<1>3. enrollment[e] # NoPlace /\ enrollment[f] # NoPlace
    BY <1>2
<1>4. enrollment[e] \in PlaceRow /\ enrollment[f] \in PlaceRow
    BY <1>3, PlaceKind
<1> QED
    BY <1>1, <1>3, <1>4 DEF OnePlaceEach

LEMMA OverStep ==
    ASSUME TypeOK, AsRead, Entering, Promoting, Updating, OverIsEmpty, [Next]_vars
    PROVE  OverIsEmpty'
<1> SUFFICES ASSUME NEW c \in Cohort
             PROVE  /\ cohort'[c].status \in {"cancelled", "completed"} => Active(c)' = {}
                    /\ cohort'[c].status = "cancelled" => Waiting(c)' = {}
    BY DEF OverIsEmpty
<1>1. CASE Shrinks(c)
    BY <1>1 DEF Shrinks, OverIsEmpty
<1>2. ASSUME NEW w \in Worker, Adds(w, c)
      PROVE  cohort'[c].status \notin {"cancelled", "completed"}
    BY <1>2 DEF Adds, Entering, EntersSoundly, Enrolling
<1>3. ASSUME NEW w \in Worker, Promotes(w, c),
             cohort'[c].status \in {"cancelled", "completed"}
      PROVE  Active(c)' = {}
    <2>1. Active(c) = {}
        BY <1>3 DEF Promotes, OverIsEmpty
    <2>2. tx[w].place \in Place /\ enrollment[tx[w].place] \in PlaceRow
        BY <1>3, Leaver DEF Promotes
    <2>3. tx[w].place \in PlacesOf(c)
        BY <1>3, <2>2, PlaceKind DEF PlacesOf, Promotes
    <2>4. tx[w].next = {}
        BY <1>3, <2>1, <2>3 DEF Promoting, Promotes, Active
    <2> QED
        BY <1>3, <2>1, <2>4 DEF Promotes
<1>4. ASSUME NEW w \in Worker, Promotes(w, c), cohort'[c].status = "cancelled"
      PROVE  Waiting(c)' = {}
    BY <1>4 DEF Promotes, OverIsEmpty
<1>5. ASSUME NEW w \in Worker, Rewrites(w, c)
      PROVE  /\ cohort'[c].status \in {"cancelled", "completed"} => Active(c)' = {}
             /\ cohort'[c].status = "cancelled" => Waiting(c)' = {}
    BY <1>5 DEF Rewrites, Updating, FitsRow
<1> QED
    BY <1>1, <1>2, <1>3, <1>4, <1>5, ClassStep

-----------------------------------------------------------------------------
(* Applications. *)
LEMMA RegisteredStays ==
    ASSUME TypeOK, [Next]_vars, NEW s \in Student, Registered(s)
    PROVE  Registered(s)'
BY ApplicationStep DEF Registered

LEMMA AppliedStep ==
    ASSUME TypeOK, TypeOK', AsRead, Entering, Promoting, Applied, [Next]_vars
    PROVE  Applied'
<1>1. \A s \in Student \ Existing : application'[s] # "none"
    BY ApplicationStep DEF Applied
<1>2. ASSUME NEW e \in Place, enrollment'[e] # NoPlace
      PROVE  Registered(enrollment[e].student)'
    <2>1. CASE enrollment[e] # NoPlace
        <3>1. enrollment'[e].student = enrollment[e].student /\ enrollment[e].student \in Student
            BY <2>1, PlaceKind, RowStays
        <3>2. Registered(enrollment[e].student)
            BY <2>1 DEF Applied
        <3>3. PICK s \in Student : s = enrollment[e].student
            BY <3>1
        <3>4. Registered(s)'
            BY <3>2, <3>3, RegisteredStays
        <3> QED
            BY <3>1, <3>3, <3>4
    <2>2. CASE enrollment[e] = NoPlace
        <3>1. ~Moves(e)
            BY <2>2, PlaceKind DEF Moves, Moved
        <3>2. PICK w \in Worker : CommitEnroll(w) /\ Enrolled(w, e)
            BY <1>2, <2>2, <3>1, RowLife
        <3>3. PICK s \in Student : s = tx[w].student
            BY <3>2, TxKind DEF CommitEnroll
        <3>4. Registered(s)
            BY <3>2, <3>3 DEF CommitEnroll, Entering, EntersSoundly
        <3>5. Registered(s)'
            BY <3>4, RegisteredStays
        <3> QED
            BY <3>2, <3>3, <3>5 DEF Enrolled
    <2> QED
        BY <2>1, <2>2
<1> QED
    BY <1>1, <1>2 DEF Applied

LEMMA SeatFinishesStep ==
    ASSUME TypeOK, TypeOK', AsRead, Entering, Promoting, Applied, SeatFinishesApplication,
           [Next]_vars
    PROVE  SeatFinishesApplication'
<1> SUFFICES ASSUME NEW e \in Place, enrollment'[e] # NoPlace, enrollment'[e].seated,
                    enrollment'[e].student \notin Existing
             PROVE  application'[enrollment'[e].student] = "enrolled"
    BY DEF SeatFinishesApplication
<1>0. PICK s \in Student : s = enrollment'[e].student
    <2>1. enrollment'[e] \in PlaceRow
        BY DEF TypeOK
    <2> QED
        BY <2>1 DEF PlaceRow
<1>1. ASSUME enrollment[e] # NoPlace, enrollment'[e].seated = enrollment[e].seated
      PROVE  application'[s] = "enrolled"
    <2>1. enrollment[e].student = s
        BY <1>0, <1>1, PlaceKind, RowStays
    <2>2. application[s] = "enrolled"
        BY <1>0, <1>1, <2>1 DEF SeatFinishesApplication
    <2> QED
        BY <2>2, ApplicationStep
<1>2. ASSUME NEW who, s \in who, MarkEnrolled(who), Registered(s)
      PROVE  application'[s] = "enrolled"
    <2>1. application[s] \in {"confirmed", "enrolled"}
        BY <1>0, <1>2 DEF Registered, Applied, TypeOK
    <2> QED
        BY <1>2, <2>1 DEF MarkEnrolled
<1>3. CASE UNCHANGED enrollment
    BY <1>0, <1>1, <1>3
<1>4. ASSUME NEW w \in Worker, CommitEnroll(w)
      PROVE  application'[s] = "enrolled"
    <2>1. PICK g \in Place : Enrolled(w, g)
        BY <1>4, EnrollWrites
    <2>2. CASE e # g
        <3>1. enrollment'[e] = enrollment[e]
            BY <2>1, <2>2 DEF Enrolled
        <3> QED
            BY <1>1, <3>1
    <2>3. CASE e = g
        <3>1. tx[w].hasSeat /\ tx[w].student = s /\ tx[w].step = "placing"
            BY <1>0, <1>4, <2>1, <2>3 DEF Enrolled, CommitEnroll
        <3>2. MarkEnrolled({s})
            BY <1>4, <3>1 DEF CommitEnroll
        <3>3. Registered(s)
            BY <3>1 DEF Entering, EntersSoundly
        <3> QED
            BY <1>2, <3>2, <3>3
    <2> QED
        BY <2>2, <2>3
<1>5. ASSUME NEW w \in Worker, CommitWithdraw(w)
      PROVE  application'[s] = "enrolled"
    <2>1. tx[w].step = "promoting" /\ StillAsRead(w)
        BY <1>5 DEF CommitWithdraw
    <2>2. CASE e \in tx[w].next
        <3>1. enrollment[e] \in PlaceRow
            BY <2>1, <2>2, Leaver
        <3>2. enrollment[e] # NoPlace /\ enrollment[e].student = s
            BY <1>0, <3>1, PlaceKind, RowStays
        <3>3. MarkEnrolled({enrollment[f].student : f \in tx[w].next})
            BY <1>5 DEF CommitWithdraw
        <3>4. Registered(s)
            BY <3>2 DEF Applied
        <3> QED
            BY <1>2, <2>2, <3>2, <3>3, <3>4
    <2>3. CASE e = tx[w].place
        <3>1. enrollment[e] # NoPlace
            BY <2>1, <2>3, Leaver, PlaceKind
        <3>2. enrollment'[e].seated = enrollment[e].seated
            BY <1>5, <2>3, WithdrawWrites
        <3> QED
            BY <1>1, <3>1, <3>2
    <2>4. CASE e # tx[w].place /\ e \notin tx[w].next
        <3>1. enrollment'[e] = enrollment[e]
            BY <1>5, <2>4, WithdrawWrites
        <3> QED
            BY <1>1, <3>1
    <2> QED
        BY <2>2, <2>3, <2>4
<1>6. ASSUME NEW w \in Worker, CommitResult(w)
      PROVE  application'[s] = "enrolled"
    <2>1. enrollment[e] # NoPlace
        BY <1>6, ResultWrites DEF Moved, NoPlace, PlaceRow
    <2>2. enrollment'[e].seated = enrollment[e].seated
        BY <1>6, ResultWrites
    <2> QED
        BY <1>1, <2>1, <2>2
<1> QED
    BY <1>0, <1>3, <1>4, <1>5, <1>6, RowsWritten

-----------------------------------------------------------------------------
(* The inductive invariant.  NeverOverMaxSize alone is not one: a seat is  *)
(* taken or passed on by a commit that goes by an earlier count, so what   *)
(* each open transaction has counted, and who holds which lock, belong to  *)
(* it; and that a withdrawal seats one student at most needs the waiting   *)
(* times of a line to differ.                                              *)
EnrollmentInv ==
    /\ TypeOK /\ Holding /\ AsRead /\ Entering /\ Promoting /\ Updating /\ Line /\ Applied
    /\ NeverOverMaxSize /\ PlacesAreSound /\ SeatFinishesApplication

LEMMA InitTypes ==
    ASSUME Init
    PROVE  TypeOK
<1>1. cohort \in [Cohort -> [status : CohortStatus, maxSize : Size, room : Room]]
    BY DEF Init, CohortStatus
<1>2. enrollment \in [Place -> PlaceRow \cup {NoPlace}]
    BY DEF Init
<1>3. application \in [Student -> {"none", "offered", "confirmed", "enrolled"}]
    BY DEF Init
<1>4. tx \in [Worker -> Tx \cup {Idle}]
    BY DEF Init
<1> QED
    BY <1>1, <1>2, <1>3, <1>4 DEF Init, TypeOK

LEMMA InitHolds ==
    ASSUME Init
    PROVE  EnrollmentInv
<1>1. TypeOK
    BY InitTypes
<1>2. \A w \in Worker : tx[w].step = "idle"
    BY DEF Init, Idle
<1>3. \A c \in Cohort : PlacesOf(c) = {} /\ Active(c) = {} /\ Waiting(c) = {}
    BY DEF Init, PlacesOf, Active, Waiting
<1>4. Holding /\ AsRead /\ Entering /\ Promoting /\ Updating
    BY <1>2 DEF Holding, AsRead, Entering, Promoting, Updating
<1>5. Line
    BY <1>3 DEF Line
<1>6. Applied
    BY StudentsComeFromSomewhere DEF Init, Applied
<1>7. NeverOverMaxSize
    <2> SUFFICES ASSUME NEW c \in Cohort
                 PROVE  Cardinality(Active(c)) <= cohort[c].maxSize
        BY DEF NeverOverMaxSize
    <2>1. Cardinality(Active(c)) = 0
        BY <1>3, FS_EmptySet
    <2> QED
        BY <1>1, <2>1, ClassKind
<1>8. OnePlaceEach /\ OverIsEmpty /\ SeatFinishesApplication
    BY <1>3 DEF Init, OnePlaceEach, OverIsEmpty, SeatFinishesApplication
<1> QED
    BY <1>1, <1>4, <1>5, <1>6, <1>7, <1>8 DEF EnrollmentInv, PlacesAreSound

LEMMA StepHolds ==
    ASSUME EnrollmentInv, [Next]_vars
    PROVE  EnrollmentInv'
<1>1. /\ TypeOK /\ Holding /\ AsRead /\ Entering /\ Promoting /\ Updating /\ Line /\ Applied
      /\ NeverOverMaxSize /\ OnePlaceEach /\ OverIsEmpty /\ SeatFinishesApplication
    BY DEF EnrollmentInv, PlacesAreSound
<1>2. TypeOK'
    BY <1>1, TypeStep
<1>3. Holding' /\ AsRead'
    BY <1>1, HoldingStep, AsReadStep
<1>4. Entering' /\ Promoting' /\ Updating'
    BY <1>1, <1>2, EnteringStep, PromotingStep, UpdatingStep
<1>5. Line' /\ Applied'
    BY <1>1, <1>2, LineStep, AppliedStep
<1>6. NeverOverMaxSize' /\ OnePlaceEach' /\ OverIsEmpty' /\ SeatFinishesApplication'
    BY <1>1, <1>2, NeverOverStep, OnePlaceStep, OverStep, SeatFinishesStep
<1> QED
    BY <1>2, <1>3, <1>4, <1>5, <1>6 DEF EnrollmentInv, PlacesAreSound

THEOREM EnrollmentInvariance == Spec => []EnrollmentInv
<1>1. Init => EnrollmentInv
    BY InitHolds
<1>2. EnrollmentInv /\ [Next]_vars => EnrollmentInv'
    BY StepHolds
<1> QED
    BY <1>1, <1>2, PTL DEF Spec

(* Type correctness of classes, places, applications and transactions.     *)
THEOREM EnrollmentTypes == Spec => []TypeOK
<1>1. EnrollmentInv => TypeOK
    BY DEF EnrollmentInv
<1> QED
    BY <1>1, EnrollmentInvariance, PTL

(* No class is ever filled beyond its own limit (seatsOf under the class   *)
(* lock in enrollments.enroll and promoteWaiting, cohorts.update).         *)
THEOREM NoClassOverfilled == Spec => []NeverOverMaxSize
<1>1. EnrollmentInv => NeverOverMaxSize
    BY DEF EnrollmentInv
<1> QED
    BY <1>1, EnrollmentInvariance, PTL

(* One place for each student in a class, and none in a class that is over *)
(* (enroll's check, setStatus's counts).                                   *)
THEOREM PlacesSound == Spec => []PlacesAreSound
<1>1. EnrollmentInv => PlacesAreSound
    BY DEF EnrollmentInv
<1> QED
    BY <1>1, EnrollmentInvariance, PTL

(* A student given a seat, directly or from the line, has an application   *)
(* that is finished (applications.markEnrolled).                           *)
THEOREM SeatsFinishApplications == Spec => []SeatFinishesApplication
<1>1. EnrollmentInv => SeatFinishesApplication
    BY DEF EnrollmentInv
<1> QED
    BY <1>1, EnrollmentInvariance, PTL

-----------------------------------------------------------------------------
(* What a step may never do. *)
Final == \A e \in Place :
    enrollment[e].status \in {"completed", "failed", "withdrawn"} => enrollment'[e] = enrollment[e]

LEMMA StepKeepsFinal ==
    ASSUME EnrollmentInv, [Next]_vars
    PROVE  Final
<1>1. TypeOK /\ AsRead /\ Promoting
    BY DEF EnrollmentInv
<1> QED
    BY <1>1, RowLife, PlaceKind DEF Final, Moves

(* A withdrawal and a result racing on a row: the first to commit wins     *)
(* (updateWithVersion).                                                    *)
THEOREM FinishedStaysFinal == Spec => FinishedIsFinal
<1>1. EnrollmentInv /\ [Next]_vars => [Final]_vars
    BY StepKeepsFinal
<1>2. Spec => [][Final]_vars
    BY <1>1, EnrollmentInvariance, PTL DEF Spec
<1> QED
    BY <1>2 DEF Final, FinishedIsFinal

InOrder == \A e \in Place : enrollment[e].status = "waitlisted" =>
    /\ enrollment'[e].status = "active" => e \in FirstOf(Waiting(enrollment[e].cohort))
    /\ enrollment'[e].status = "waitlisted" => Position(e)' <= Position(e)

LEMMA StepKeepsOrder ==
    ASSUME EnrollmentInv, [Next]_vars
    PROVE  InOrder
<1>1. TypeOK /\ AsRead /\ Promoting /\ Line
    BY DEF EnrollmentInv
<1> SUFFICES ASSUME NEW e \in Place, enrollment[e].status = "waitlisted"
             PROVE  /\ enrollment'[e].status = "active"
                          => e \in FirstOf(Waiting(enrollment[e].cohort))
                    /\ enrollment'[e].status = "waitlisted" => Position(e)' <= Position(e)
    BY DEF InOrder
<1>2. enrollment[e] # NoPlace /\ enrollment[e] \in PlaceRow
    BY <1>1, PlaceKind DEF NoPlace
<1>3. PICK c \in Cohort : c = enrollment[e].cohort
    BY <1>1, <1>2, PlaceKind
<1>4. ASSUME enrollment'[e].status = "active"
      PROVE  e \in FirstOf(Waiting(c))
    <2>1. ASSUME NEW w \in Worker, CommitEnroll(w)
          PROVE  FALSE
        BY <1>1, <1>2, <1>4, <2>1, EnrollWrites DEF Enrolled
    <2>2. ASSUME NEW w \in Worker, CommitResult(w)
          PROVE  FALSE
        BY <1>1, <1>4, <2>2, ResultWrites
    <2>3. ASSUME NEW w \in Worker, CommitWithdraw(w)
          PROVE  e \in FirstOf(Waiting(c))
        <3>1. tx[w].step = "promoting" /\ StillAsRead(w)
            BY <2>3 DEF CommitWithdraw
        <3>2. e # tx[w].place
            BY <1>1, <1>4, <2>3, WithdrawWrites DEF Moved
        <3>3. e \in tx[w].next
            BY <1>1, <1>4, <2>3, <3>2, WithdrawWrites
        <3>4. enrollment[tx[w].place].cohort = c
            BY <1>1, <1>3, <3>1, <3>3, Leaver
        <3> QED
            BY <1>1, <3>1, <3>3, <3>4 DEF Promoting, PromotesSoundly
    <2> QED
        BY <1>1, <1>4, <2>1, <2>2, <2>3, RowsWritten
<1>5. ASSUME enrollment'[e].status = "waitlisted"
      PROVE  Position(e)' <= Position(e)
    <2> DEFINE ahead == {f \in Waiting(c) : enrollment[f].waitedAt <= enrollment[e].waitedAt}
               aheadNext == {f \in Waiting(c)' : enrollment'[f].waitedAt <= enrollment[e].waitedAt}
    <2>1. enrollment'[e].cohort = c /\ enrollment'[e].waitedAt = enrollment[e].waitedAt
        BY <1>1, <1>2, <1>3, RowStays
    <2>2. Position(e) = Cardinality(ahead) /\ Position(e)' = Cardinality(aheadNext)
        BY <1>3, <2>1 DEF Position
    <2>3. ahead \in SUBSET Place
        BY DEF Waiting, PlacesOf
    <2>4. aheadNext \subseteq ahead
        <3> SUFFICES ASSUME NEW f \in aheadNext
                     PROVE  f \in ahead
            OBVIOUS
        <3>1. /\ f \in Place /\ enrollment'[f] # NoPlace /\ enrollment'[f].cohort = c
              /\ enrollment'[f].status = "waitlisted"
              /\ enrollment'[f].waitedAt <= enrollment[e].waitedAt
            BY DEF Waiting, PlacesOf
        <3>2. CASE enrollment[f] # NoPlace
            <4>1. /\ enrollment[f].cohort = c
                  /\ enrollment'[f].waitedAt = enrollment[f].waitedAt
                BY <1>1, <3>1, <3>2, PlaceKind, RowStays
            <4>2. enrollment[f].status = "waitlisted"
                BY <1>1, <3>1, <3>2, RowLife DEF Moves, Moved
            <4> QED
                BY <3>1, <3>2, <4>1, <4>2 DEF Waiting, PlacesOf
        <3>3. CASE enrollment[f] = NoPlace
            <4>1. ~Moves(f)
                BY <1>1, <3>1, <3>3, PlaceKind DEF Moves, Moved
            <4>2. PICK w \in Worker : CommitEnroll(w) /\ Enrolled(w, f)
                BY <1>1, <3>1, <3>3, <4>1, RowLife
            <4>3. tx[w].cohort = c /\ ~tx[w].hasSeat
                BY <3>1, <4>2 DEF Enrolled
            <4>4. enrollment'[f].waitedAt = Cardinality(Waited(c)) + 1
                BY <4>2, <4>3 DEF Enrolled
            <4>5. enrollment[e].waitedAt <= Cardinality(Waited(c))
                BY <1>1, <1>2, <1>3 DEF Line, PlacesOf
            <4>6. Cardinality(Waited(c)) \in Nat /\ enrollment[e].waitedAt \in Nat
                BY <1>1, <1>2, PlaceKind, Counted DEF Waited, PlacesOf
            <4> QED
                BY <3>1, <4>4, <4>5, <4>6
        <3> QED
            BY <3>2, <3>3
    <2> QED
        BY <2>2, <2>3, <2>4, Counted
<1> QED
    BY <1>3, <1>4, <1>5

(* A withdrawal seats whoever is first in line when it commits, and no one *)
(* who waits ever moves back (promoteWaiting, positions).                  *)
THEOREM NobodyJumpsTheLine == Spec => LineKeepsOrder
<1>1. EnrollmentInv /\ [Next]_vars => [InOrder]_vars
    BY StepKeepsOrder
<1>2. Spec => [][InOrder]_vars
    BY <1>1, EnrollmentInvariance, PTL DEF Spec
<1> QED
    BY <1>2 DEF InOrder, LineKeepsOrder
=============================================================================
