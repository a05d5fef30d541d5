----------------------------- MODULE Documents -----------------------------
(***************************************************************************)
(* A student's certificates and ID cards: issuing, revoking, reissuing, and *)
(* what a scan of a document's code answers.  The student, the result, the  *)
(* balance and the institution's rule change meanwhile in other handlers.   *)
(* A document is known by its place in the table, which stands for its      *)
(* random token and its serial.                                             *)
(***************************************************************************)
EXTENDS Naturals, Sequences

CONSTANTS
    Worker,
    Name,           \* of the student
    ValidDays,      \* CARD_VALID_DAYS
    MaxDocuments,   \* bound on each table
    MaxDay          \* bound on the calendar

VARIABLES
    student,        \* [name, active]
    completed,      \* whether the enrollment's result is "completed"
    owed,           \* whether its invoice has a balance
    requiresPaidInFull,
    certificates,   \* rows in order of issue
    studentCards,
    today,
    tx

vars == <<student, completed, owed, requiresPaidInFull, certificates, studentCards, today, tx>>

Idle == [step |-> "idle"]

Certificate == [status : {"issued", "revoked"}, holder : Name]
StudentCard == [status : {"active", "revoked"}, validUntil : Nat]

Init ==
    /\ student \in [name : Name, active : {TRUE}]
    /\ completed = FALSE
    /\ owed \in BOOLEAN
    /\ requiresPaidInFull \in BOOLEAN
    /\ certificates = <<>>
    /\ studentCards = <<>>
    /\ today = 1
    /\ tx = [w \in Worker |-> Idle]

Elsewhere == <<completed, owed, requiresPaidInFull>>
Tables    == <<certificates, studentCards>>

Live(docs, status) == {k \in DOMAIN docs : docs[k].status = status}

Ends(w) == tx' = [tx EXCEPT ![w] = Idle]

-----------------------------------------------------------------------------
(* CertificatesService.issue reads the enrollment first ... *)
ReadEnrollment(w) ==
    /\ tx[w] = Idle
    /\ Len(certificates) < MaxDocuments
    /\ completed
    /\ tx' = [tx EXCEPT ![w] = [step |-> "eligible"]]
    /\ UNCHANGED <<student, today, Elsewhere, Tables>>

(* ... then, in statements of their own, the rule, the balance and the student. *)
ReadBalance(w) ==
    /\ tx[w].step = "eligible"
    /\ requiresPaidInFull => ~owed
    /\ tx' = [tx EXCEPT ![w] = [step |-> "cleared", holder |-> student.name]]
    /\ UNCHANGED <<student, today, Elsewhere, Tables>>

(* The insert; the index lets one live certificate through, so a second one   *)
(* being issued waits here and fails.                                         *)
Issue(w) ==
    /\ tx[w].step = "cleared"
    /\ Live(certificates, "issued") = {}
    /\ certificates' = Append(certificates, [status |-> "issued", holder |-> tx[w].holder])
    /\ Ends(w)
    /\ UNCHANGED <<student, today, Elsewhere, studentCards>>

(* revoke: the row is read, then changed if it still has the version seen, which *)
(* only a revocation changes.                                                    *)
ReadToRevoke(w, k) ==
    /\ tx[w] = Idle
    /\ k \in Live(certificates, "issued")
    /\ tx' = [tx EXCEPT ![w] = [step |-> "revoking", certificate |-> k]]
    /\ UNCHANGED <<student, today, Elsewhere, Tables>>

Revoke(w) ==
    /\ tx[w].step = "revoking"
    /\ tx[w].certificate \in Live(certificates, "issued")
    /\ certificates' = [certificates EXCEPT ![tx[w].certificate].status = "revoked"]
    /\ Ends(w)
    /\ UNCHANGED <<student, today, Elsewhere, studentCards>>

-----------------------------------------------------------------------------
(* StudentCardsService.issue: only for an active student. *)
ReadStudent(w) ==
    /\ tx[w] = Idle
    /\ Len(studentCards) < MaxDocuments
    /\ student.active
    /\ tx' = [tx EXCEPT ![w] = [step |-> "student"]]
    /\ UNCHANGED <<student, today, Elsewhere, Tables>>

(* The card being replaced stays locked until the transaction ends; whoever comes *)
(* next waits for it and then finds nothing left to revoke.                       *)
RevokeCard(w) ==
    /\ tx[w].step = "student"
    /\ \A v \in Worker : tx[v].step = "replacing" =>
          tx[v].old \cap Live(studentCards, "active") = {}
    /\ tx' = [tx EXCEPT ![w] = [step |-> "replacing", old |-> Live(studentCards, "active")]]
    /\ UNCHANGED <<student, today, Elsewhere, Tables>>

(* The insert under student_cards_one_active_per_student_key, and the commit. *)
IssueCard(w) ==
    /\ tx[w].step = "replacing"
    /\ Live(studentCards, "active") \subseteq tx[w].old
    /\ studentCards' =
          Append([k \in DOMAIN studentCards |->
                     IF k \in tx[w].old THEN [studentCards[k] EXCEPT !.status = "revoked"]
                     ELSE studentCards[k]],
                 [status |-> "active", validUntil |-> today + ValidDays])
    /\ Ends(w)
    /\ UNCHANGED <<student, today, Elsewhere, certificates>>

(* A refusal, a unique violation or any failure. *)
Abort(w) ==
    /\ tx[w] # Idle
    /\ Ends(w)
    /\ UNCHANGED <<student, today, Elsewhere, Tables>>

-----------------------------------------------------------------------------
(* StudentsService.update. *)
UpdateStudent ==
    /\ student' \in [name : Name, active : BOOLEAN]
    /\ UNCHANGED <<today, Elsewhere, Tables, tx>>

(* EnrollmentsService.recordResult, also to correct a result. *)
RecordResult ==
    /\ completed' = ~completed
    /\ UNCHANGED <<student, owed, requiresPaidInFull, today, Tables, tx>>

(* A payment, or the void of one. *)
MoneyMoves ==
    /\ owed' = ~owed
    /\ UNCHANGED <<student, completed, requiresPaidInFull, today, Tables, tx>>

DayPasses ==
    /\ today < MaxDay
    /\ today' = today + 1
    /\ UNCHANGED <<student, Elsewhere, Tables, tx>>

Next ==
    \/ \E w \in Worker :
          \/ ReadEnrollment(w) \/ ReadBalance(w) \/ Issue(w)
          \/ \E k \in DOMAIN certificates : ReadToRevoke(w, k)
          \/ Revoke(w)
          \/ ReadStudent(w) \/ RevokeCard(w) \/ IssueCard(w)
          \/ Abort(w)
    \/ UpdateStudent
    \/ RecordResult
    \/ MoneyMoves
    \/ DayPasses

Spec == Init /\ [][Next]_vars

-----------------------------------------------------------------------------
(* VerificationService.verify. *)
VerifyCertificate(k) ==
    [status |-> IF certificates[k].status = "revoked" THEN "revoked" ELSE "valid",
     holder |-> certificates[k].holder]

(* Mutant: the date is looked at first. *)
VerifyCardByDate(k) ==
    IF studentCards[k].validUntil < today THEN "expired"
    ELSE IF studentCards[k].status = "revoked" THEN "revoked" ELSE "valid"

VerifyCard(k) ==
    IF studentCards[k].status = "revoked" THEN "revoked"
    ELSE IF studentCards[k].validUntil < today THEN "expired" ELSE "valid"

OneVerifies ==
    /\ \A j, k \in DOMAIN certificates :
          j # k => "revoked" \in {VerifyCertificate(j).status, VerifyCertificate(k).status}
    /\ \A k \in DOMAIN studentCards : VerifyCard(k) # "revoked" => k = Len(studentCards)

AnswersOnlyWorsen ==
    /\ \A k \in DOMAIN certificates :
          \/ VerifyCertificate(k)' = VerifyCertificate(k)
          \/ VerifyCertificate(k)' = [VerifyCertificate(k) EXCEPT !.status = "revoked"]
    /\ \A k \in DOMAIN studentCards :
          \/ VerifyCard(k)' = VerifyCard(k)
          \/ VerifyCard(k)' = "revoked"
          \/ VerifyCard(k) = "valid" /\ VerifyCard(k)' = "expired"

(* A scan tells the truth about a document at any later time.  At most one      *)
(* certificate of an enrollment and one card of a student verify, the card      *)
(* being the newest (a lost card stops verifying when it is replaced).  What a  *)
(* scan said only ever changes from valid to expired to revoked, revocation is  *)
(* final, and a certificate keeps the name it was issued in although the        *)
(* student's record changes.                                                    *)
DocumentsAreTrue == []OneVerifies /\ [][AnswersOnlyWorsen]_vars

=============================================================================
