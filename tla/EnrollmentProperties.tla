------------------------- MODULE EnrollmentProperties -------------------------
(***************************************************************************)
(* What is asked of Enrollment.                                            *)
(***************************************************************************)
EXTENDS Enrollment

Tx == [step : {"enrolling"}, student : Student, cohort : Cohort]
      \cup [step : {"placing"}, student : Student, cohort : Cohort, hasSeat : BOOLEAN]
      \cup [step : {"found", "leaving"}, place : Place, was : {"active", "waitlisted"},
            version : Nat]
      \cup [step : {"promoting"}, place : Place, version : Nat, next : SUBSET Place]
      \cup [step : {"recording"}, place : Place, version : Nat,
            outcome : {"completed", "failed"}]
      \cup [step : {"updating"}, cohort : Cohort,
            row : [status : CohortStatus, maxSize : Size, room : Room]]

TypeOK ==
    /\ cohort \in [Cohort -> [status : CohortStatus, maxSize : Size, room : Room]]
    /\ capacity \in [Room -> Size]
    /\ enrollment \in [Place -> PlaceRow \cup {NoPlace}]
    /\ application \in [Student -> {"none", "offered", "confirmed", "enrolled"}]
    /\ cohortLock \in [Cohort -> Worker \cup {NoOne}]
    /\ tx \in [Worker -> Tx \cup {Idle}]

(* However many enroll, withdraw and resize at once, a class never has     *)
(* more active students than its own limit (enroll and update count under  *)
(* the class lock; a result recorded without it can only free a seat).     *)
NeverOverMaxSize == \A c \in Cohort : Cardinality(Active(c)) <= cohort[c].maxSize

(* A student has at most one place in a class that is waiting, active or   *)
(* completed.  The unique index covers only the first two, and is not part *)
(* of the model: the check under the class lock is enough, although        *)
(* recordResult moves rows without that lock.                              *)
OnePlaceEach ==
    \A e, f \in Place :
        /\ e # f /\ enrollment[e] # NoPlace /\ enrollment[f] # NoPlace
        /\ enrollment[e].cohort = enrollment[f].cohort
        /\ enrollment[e].student = enrollment[f].student
        => \/ enrollment[e].status \in {"failed", "withdrawn"}
           \/ enrollment[f].status \in {"failed", "withdrawn"}

(* Nobody is in, or gets into, a class that is over: a cancelled class has *)
(* no one active or waiting, a completed one no one active, whatever       *)
(* enrollment or promotion was under way when its status changed           *)
(* (cohorts.setStatus counts under the lock that enroll and withdraw take).*)
OverIsEmpty ==
    \A c \in Cohort :
        /\ cohort[c].status \in {"cancelled", "completed"} => Active(c) = {}
        /\ cohort[c].status = "cancelled" => Waiting(c) = {}

(* Places are sound: one each, and none in a class that is over.           *)
PlacesAreSound == OnePlaceEach /\ OverIsEmpty

(* The line keeps its order, from whichever side rows leave it: a          *)
(* withdrawal promotes whoever is first in line when it commits, though it *)
(* chose earlier (promoteWaiting: "the longest-waiting student"), and a    *)
(* student's number never grows while they wait (positions).               *)
LineKeepsOrder ==
    [][\A e \in Place : enrollment[e].status = "waitlisted" =>
          /\ enrollment'[e].status = "active" => e \in FirstOf(Waiting(enrollment[e].cohort))
          /\ enrollment'[e].status = "waitlisted" => Position(e)' <= Position(e)]_vars

(* A withdrawal and a result racing on one row: the first to commit wins   *)
(* and the row never changes again (updateWithVersion).                    *)
FinishedIsFinal ==
    [][\A e \in Place :
          enrollment[e].status \in {"completed", "failed", "withdrawn"}
              => enrollment'[e] = enrollment[e]]_vars

(* "Enrolling a student who came from an application finishes that         *)
(* application" (README.md:132), whichever way the seat was got.           *)
SeatFinishesApplication ==
    \A e \in Place :
        /\ enrollment[e] # NoPlace
        /\ enrollment[e].seated
        /\ enrollment[e].student \notin Existing
        => application[enrollment[e].student] = "enrolled"

-----------------------------------------------------------------------------
(* Claims of the documentation that the code does not keep.                *)

(* "first come first served" (README.md:127): no one is seated directly    *)
(* in a class that has a line.                                             *)
FirstComeFirstServed ==
    [][\A e \in Place :
          /\ enrollment[e] = NoPlace
          /\ enrollment'[e] # NoPlace
          /\ enrollment'[e].status = "active"
          => Waiting(enrollment'[e].cohort) = {}]_vars

=============================================================================
