----------------------------- MODULE DeskProofs -----------------------------
(***************************************************************************)
(* Proofs about the parts of the office that face the public: applications *)
(* and imports, the numbers on papers, fee reminders, paged lists, the     *)
(* arithmetic of the money taken at the desk, whose own proofs are in      *)
(* BillingProofs, and the portal through which people do all this.  As in  *)
(* OfficeProofs, a behaviour is about one part from its start on.          *)
(***************************************************************************)
EXTENDS Office, FiniteSetTheorems, SequenceTheorems, WellFoundedInduction, TLAPS

-----------------------------------------------------------------------------
(* Applications, students and imports. *)
AtRegistration == part = "registration"

Applied  == Admission!ApplicationRow
Enrolled == Admission!StudentRow
NoOne    == Admission!NoRow

(* What a request has done so far. *)
RequestTx ==
    [step : {"idle"}]
    \cup [step : {"submitting"}, who : Person, course : Offer]
    \cup [step : {"editing"}, app : Thing, row : Applied]
    \cup [step : {"converting"}, app : Thing, version : Nat]
    \cup [step : {"registering"}, app : Thing, version : Nat, who : Person]
    \cup [step : {"registering"}, app : {None}, who : Person]
    \cup [step : {"amending"}, student : Other, version : Nat, who : Person]
    \cup [step : {"replacing"}, student : Other, version : Nat, seen : List, list : List]
    \cup [step : {"importing"}, file : Seq(Admission!FileRow), onDuplicate : {"skip", "import"},
          adding : BOOLEAN, added : Seq(Person)]

RegistrationTypes ==
    /\ v1 \in [Thing -> Applied \cup {NoOne}]
    /\ v2 \in [Other -> Enrolled \cup {NoOne}]
    /\ v3 \in [Other -> List]
    /\ v5 \in [Worker -> RequestTx]

(* A row that was read, with the change to it: if it is still the one that *)
(* is stored, the pipeline allows the change.                              *)
EditOf(row, stored) ==
    /\ row.student = stored.student /\ row.online = stored.online
    /\ row.status = stored.status => stored.status \notin Admission!ClosedStatuses
                                     \/ (row.who = stored.who /\ row.course = stored.course)
    /\ row.status # stored.status
          => /\ row.status \in Admission!Transitions(stored.status)
             /\ row.status \notin {"confirmed", "enrolled"}

EditHolds(w) ==
    LET stored == v1[v5[w].app]
    IN  v5[w].step = "editing" =>
            /\ stored # NoOne /\ v5[w].row.version <= stored.version
            /\ v5[w].row.version = stored.version => EditOf(v5[w].row, stored)

Converts(w) ==
    v5[w].step = "converting" \/ (v5[w].step = "registering" /\ v5[w].app # None)

ConvertHolds(w) ==
    LET stored == v1[v5[w].app]
    IN  Converts(w) =>
            /\ stored # NoOne /\ v5[w].version <= stored.version
            /\ v5[w].version = stored.version => stored.status = "offered" /\ stored.student = None

(* Nobody has an open request where one is about to be made.               *)
OpenOnline(a, who, course) ==
    /\ v1[a] # NoOne /\ v1[a].online /\ v1[a].status \notin Admission!ClosedStatuses
    /\ v1[a].who = who /\ v1[a].course = course /\ a \notin v4

SubmitHolds(w) ==
    v5[w].step = "submitting" => \A a \in Thing : ~OpenOnline(a, v5[w].who, v5[w].course)

AmendHolds(w) == v5[w].step = "amending" => v2[v5[w].student] # NoOne

ReplaceHolds(w) ==
    v5[w].step = "replacing" => v2[v5[w].student] # NoOne /\ v5[w].seen = v3[v5[w].student]

(* A person an import adds is like no other it adds and like none imported *)
(* before.                                                                 *)
LikeNoImported(who) ==
    \A s \in Other : v2[s] # NoOne /\ v2[s].by = "import" /\ s \notin v4
                        => <<who, v2[s].who>> \notin Alike

ImportHolds(w) ==
    v5[w].step = "importing" =>
        /\ v5[w].adding => v5[w].file # <<>> /\ Head(v5[w].file).who \in Person
        /\ \A k \in DOMAIN v5[w].file : v5[w].file[k].valid => v5[w].file[k].who # None
        /\ v5[w].onDuplicate = "skip" =>
              /\ \A j, k \in DOMAIN v5[w].added :
                     j # k => <<v5[w].added[j], v5[w].added[k]>> \notin Alike
              /\ \A k \in DOMAIN v5[w].added : LikeNoImported(v5[w].added[k])
              /\ v5[w].adding =>
                    /\ LikeNoImported(Head(v5[w].file).who)
                    /\ \A k \in DOMAIN v5[w].added :
                           <<Head(v5[w].file).who, v5[w].added[k]>> \notin Alike

WorkHolds(w) ==
    /\ EditHolds(w) /\ ConvertHolds(w) /\ SubmitHolds(w)
    /\ AmendHolds(w) /\ ReplaceHolds(w) /\ ImportHolds(w)

(* The locks: of a phone number, of a student's row and of the imports.    *)
LocksHold ==
    \A v, w \in Worker : v # w =>
        /\ ~ (v5[v].step = "importing" /\ v5[w].step = "importing")
        /\ v5[v].step = "submitting" /\ v5[w].step = "submitting" => v5[v].who # v5[w].who
        /\ v5[v].step = "replacing" /\ v5[w].step = "replacing" => v5[v].student # v5[w].student

StagesHold ==
    \A a \in Thing : v1[a] # NoOne =>
        /\ v1[a].status \in {"confirmed", "enrolled"} => v1[a].student # None
        /\ v1[a].student # None => v1[a].status \in {"confirmed", "enrolled", "withdrawn"}

OriginsHold ==
    \A s \in Other : v2[s] # NoOne /\ v2[s].from # None
        => v1[v2[s].from] # NoOne /\ v1[v2[s].from].student = s

RegistrationInv ==
    /\ RegistrationTypes /\ LocksHold
    /\ \A w \in Worker : WorkHolds(w)
    /\ StagesHold /\ OriginsHold
    /\ Admission!OneOpenRequest /\ Admission!ImportedOnce

LEMMA RowKinds ==
    /\ NoOne \notin Applied /\ NoOne \notin Enrolled
    /\ \A row \in Applied : row.version \in Nat
    /\ \A row \in Enrolled : row.version \in Nat
<1>1. NoOne.status = "none"
    BY DEF NoOne, Admission!NoRow
<1>2. /\ \A row \in Applied : row.status # "none" /\ row.version \in Nat
      /\ \A row \in Enrolled : row.status # "none" /\ row.version \in Nat
    BY DEF Applied, Admission!ApplicationRow, Admission!ApplicationStatus,
           Enrolled, Admission!StudentRow
<1> QED
    BY <1>1, <1>2

(* What a step may do to an application: a new one, or the next version of *)
(* one, along the pipeline.                                                *)
Advances(old, newer) ==
    /\ old \in Applied /\ newer \in Applied
    /\ newer.version = old.version + 1 /\ newer.online = old.online
    /\ newer.status # old.status => newer.status \in Admission!Transitions(old.status)
    /\ newer.student # old.student =>
          old.student = None /\ old.status = "offered" /\ newer.status = "confirmed"
                             /\ newer.student # None
    /\ newer.status \in {"confirmed", "enrolled"} /\ newer.status # old.status
          => newer.student # None
    /\ old.status \in Admission!ClosedStatuses =>
          newer.who = old.who /\ newer.course = old.course

Submits(old, newer) ==
    old = NoOne /\ newer \in Applied /\ newer.status = "submitted" /\ newer.student = None

(* And to a student: a new one, or other details.                          *)
Amends(old, newer) ==
    old \in Enrolled /\ newer \in Enrolled /\ newer.by = old.by /\ newer.from = old.from

(* What the step of a request may do to the tables.                        *)
Permitted(w) ==
    /\ v1' \in [Thing -> Applied \cup {NoOne}]
    /\ v2' \in [Other -> Enrolled \cup {NoOne}]
    /\ v3' \in [Other -> List]
    /\ v4 \subseteq v4'
    /\ \A a \in Thing : \/ v1'[a] = v1[a]
                        \/ Submits(v1[a], v1'[a])
                        \/ /\ Advances(v1[a], v1'[a])
                           /\ \/ v1'[a].who = v1[a].who /\ v1'[a].course = v1[a].course
                              \/ a \in v4'
    /\ \A a, b \in Thing : Submits(v1[a], v1'[a]) /\ Submits(v1[b], v1'[b]) => a = b
    /\ \A a \in Thing : Submits(v1[a], v1'[a]) /\ v1'[a].online =>
          v5[w].step = "submitting" /\ v1'[a].who = v5[w].who /\ v1'[a].course = v5[w].course
    /\ \A s \in Other : \/ v2'[s] = v2[s]
                        \/ v2[s] = NoOne /\ v2'[s] \in Enrolled
                        \/ Amends(v2[s], v2'[s]) /\ (v2'[s].who = v2[s].who \/ s \in v4')
    /\ \A s \in Other : v2[s] = NoOne /\ v2'[s] # NoOne =>
          /\ v2'[s].by = "import" => v5[w].step = "importing"
          /\ v2'[s].from # None => v1'[v2'[s].from] # NoOne /\ v1'[v2'[s].from].student = s
    /\ \A s \in Other : v2[s] # NoOne /\ v3'[s] # v3[s] =>
          v5[w].step = "replacing" /\ v5[w].student = s

(* The pipeline only leads on, and from closed stages nowhere.             *)
LEMMA StagesLead ==
    /\ \A status \in Admission!ClosedStatuses : Admission!Transitions(status) = {}
    /\ \A status \in Admission!ApplicationStatus :
           Admission!Transitions(status) \subseteq Admission!ApplicationStatus
    /\ Admission!Transitions("confirmed") = {"enrolled", "withdrawn"}
BY DEF Admission!Transitions, Admission!ClosedStatuses, Admission!ApplicationStatus

LEMMA StagesKept ==
    ASSUME RegistrationTypes, StagesHold, NEW w \in Worker, Permitted(w)
    PROVE  StagesHold' /\ Admission!StageFollows
<1>1. ASSUME NEW a \in Thing, v1'[a] # NoOne
      PROVE  /\ v1'[a].status \in {"confirmed", "enrolled"} => v1'[a].student # None
             /\ v1'[a].student # None => v1'[a].status \in {"confirmed", "enrolled", "withdrawn"}
    <2>1. CASE v1'[a] = v1[a]
        BY <1>1, <2>1 DEF StagesHold
    <2>2. CASE Submits(v1[a], v1'[a])
        BY <2>2 DEF Submits
    <2>3. CASE Advances(v1[a], v1'[a])
        <3>1. v1[a] # NoOne
            BY <2>3, RowKinds DEF Advances
        <3>2. /\ v1[a].status \in {"confirmed", "enrolled"} => v1[a].student # None
              /\ v1[a].student # None => v1[a].status \in {"confirmed", "enrolled", "withdrawn"}
            BY <3>1 DEF StagesHold
        <3> QED
            BY <2>3, <3>2 DEF Advances, Admission!Transitions
    <2> QED
        BY <2>1, <2>2, <2>3 DEF Permitted
<1>2. StagesHold'
    BY <1>1 DEF StagesHold, NoOne, Admission!NoRow
<1>3. ASSUME NEW a \in Thing, v1[a] # NoOne, v1'[a].status # v1[a].status
      PROVE  v1'[a].status \in Admission!Transitions(v1[a].status)
    <2>1. Advances(v1[a], v1'[a])
        BY <1>3 DEF Permitted, Submits
    <2> QED
        BY <1>3, <2>1 DEF Advances
<1> QED
    BY <1>2, <1>3 DEF Admission!StageFollows, NoOne

LEMMA OriginsKept ==
    ASSUME RegistrationTypes, OriginsHold, NEW w \in Worker, Permitted(w)
    PROVE  OriginsHold'
<1>1. ASSUME NEW s \in Other, v2'[s] # NoOne, v2'[s].from # None
      PROVE  v1'[v2'[s].from] # NoOne /\ v1'[v2'[s].from].student = s
    <2>1. CASE v2[s] = NoOne
        BY <1>1, <2>1 DEF Permitted
    <2>2. CASE v2[s] # NoOne
        <3>1. v2[s].from = v2'[s].from /\ v2[s] \in Enrolled
            BY <1>1, <2>2 DEF Permitted, Amends, RegistrationTypes
        <3> DEFINE a == v2[s].from
        <3>2. a \in Thing /\ v1[a] # NoOne /\ v1[a].student = s
            BY <1>1, <2>2, <3>1 DEF OriginsHold, Enrolled, Admission!StudentRow
        <3>3. v1'[a] = v1[a] \/ Advances(v1[a], v1'[a])
            BY <3>2 DEF Permitted, Submits
        <3> QED
            BY <3>1, <3>2, <3>3, RowKinds, AdmissionAssumption DEF Advances
    <2> QED
        BY <2>1, <2>2
<1> QED
    BY <1>1 DEF OriginsHold, NoOne, Admission!NoRow

LEMMA OpenBefore ==
    ASSUME RegistrationTypes, NEW w \in Worker, Permitted(w), NEW a \in Thing, NEW who, NEW course,
           OpenOnline(a, who, course)'
    PROVE  OpenOnline(a, who, course) \/ Submits(v1[a], v1'[a])
<1>1. /\ v1'[a] # NoOne /\ v1'[a].online /\ v1'[a].status \notin Admission!ClosedStatuses
      /\ v1'[a].who = who /\ v1'[a].course = course /\ a \notin v4'
    BY DEF OpenOnline, NoOne, Admission!NoRow, Admission!ClosedStatuses
<1>2. a \notin v4
    BY <1>1 DEF Permitted
<1>3. CASE v1'[a] = v1[a]
    BY <1>1, <1>2, <1>3 DEF OpenOnline
<1>4. CASE Advances(v1[a], v1'[a])
    <2>1. v1[a] # NoOne /\ v1[a].online = v1'[a].online
        BY <1>4, RowKinds DEF Advances
    <2>2. v1[a].status \notin Admission!ClosedStatuses
        BY <1>1, <1>4, StagesLead DEF Advances
    <2>3. v1[a].who = who /\ v1[a].course = course
        BY <1>1, <2>1 DEF Permitted, Advances, Submits
    <2> QED
        BY <1>1, <1>2, <2>1, <2>2, <2>3 DEF OpenOnline
<1> QED
    BY <1>3, <1>4 DEF Permitted

LEMMA OneRequestKept ==
    ASSUME RegistrationTypes, NEW w \in Worker, Permitted(w), SubmitHolds(w), Admission!OneOpenRequest
    PROVE  Admission!OneOpenRequest'
<1>1. SUFFICES ASSUME NEW a \in Thing, NEW b \in Thing, a # b, NEW who, NEW course,
                      OpenOnline(a, who, course)', OpenOnline(b, who, course)'
               PROVE  FALSE
    <2>1. DOMAIN v1' = Thing
        BY DEF Permitted
    <2> QED
        BY <2>1, ZenonT(30)
        DEF Admission!OneOpenRequest, Admission!Free, OpenOnline, NoOne, Admission!NoRow,
                    Admission!ClosedStatuses
<1>2. ASSUME NEW c \in Thing, NEW d \in Thing, c # d, OpenOnline(c, who, course)',
             OpenOnline(d, who, course)', Submits(v1[c], v1'[c])
      PROVE  FALSE
    <2>1. v1'[c].online /\ v1'[c].who = who /\ v1'[c].course = course
        BY <1>2 DEF OpenOnline
    <2>2. v5[w].step = "submitting" /\ who = v5[w].who /\ course = v5[w].course
        BY <1>2, <2>1 DEF Permitted
    <2>3. ~OpenOnline(d, who, course)
        BY <2>2 DEF SubmitHolds
    <2>4. Submits(v1[d], v1'[d])
        BY <1>2, <2>3, OpenBefore
    <2> QED
        BY <1>2, <2>4 DEF Permitted
<1>3. OpenOnline(a, who, course) /\ OpenOnline(b, who, course)
    BY <1>1, <1>2, OpenBefore
<1>4. DOMAIN v1 = Thing
    BY DEF RegistrationTypes
<1> QED
    BY <1>1, <1>3, <1>4 DEF Admission!OneOpenRequest, Admission!Free, OpenOnline, NoOne

(* Students imported before a step that imports none.                      *)
LEMMA ImportedBefore ==
    ASSUME RegistrationTypes, NEW w \in Worker, Permitted(w), v5[w].step # "importing",
           NEW s \in Other, v2'[s] # NoOne, v2'[s].by = "import", s \notin v4'
    PROVE  v2[s] # NoOne /\ v2[s].by = "import" /\ s \notin v4 /\ v2[s].who = v2'[s].who
BY RowKinds DEF Permitted, Amends

LEMMA OthersImports ==
    ASSUME RegistrationTypes, NEW w \in Worker, Permitted(w), v5[w].step # "importing", NEW who
    PROVE  LikeNoImported(who) => LikeNoImported(who)'
BY ImportedBefore DEF LikeNoImported, NoOne, Admission!NoRow

LEMMA ImportedKept ==
    ASSUME RegistrationTypes, NEW w \in Worker, Permitted(w), v5[w].step # "importing",
           Admission!ImportedOnce
    PROVE  Admission!ImportedOnce'
<1>1. DOMAIN v2 = Other /\ DOMAIN v2' = Other
    BY DEF RegistrationTypes, Permitted
<1> QED
    BY <1>1, ImportedBefore DEF Admission!ImportedOnce, Admission!Free, NoOne, Admission!NoRow

(* What the others have read and checked goes on being true.               *)
LEMMA OthersHold ==
    ASSUME RegistrationTypes, LocksHold, NEW w \in Worker, Permitted(w),
           NEW v \in Worker, v # w, v5'[v] = v5[v], WorkHolds(v)
    PROVE  WorkHolds(v)'
<1> USE DEF NoOne, Admission!NoRow
<1>1. v5[v] \in RequestTx
    BY DEF RegistrationTypes
<1>2. EditHolds(v)'
    <2>1. SUFFICES ASSUME v5[v].step = "editing"
                   PROVE  LET stored == v1'[v5[v].app]
                          IN  /\ stored # NoOne /\ v5[v].row.version <= stored.version
                              /\ v5[v].row.version = stored.version => EditOf(v5[v].row, stored)
        BY DEF EditHolds, EditOf, Admission!ClosedStatuses, Admission!Transitions
    <2> DEFINE a == v5[v].app
    <2>2. a \in Thing /\ v5[v].row.version \in Nat
        BY <1>1, <2>1, RowKinds DEF RequestTx
    <2>3. /\ v1[a] # NoOne /\ v5[v].row.version <= v1[a].version
          /\ v5[v].row.version = v1[a].version => EditOf(v5[v].row, v1[a])
        BY <2>1 DEF WorkHolds, EditHolds
    <2>4. v1'[a] = v1[a] \/ Advances(v1[a], v1'[a])
        BY <2>2, <2>3 DEF Permitted, Submits
    <2>5. CASE Advances(v1[a], v1'[a])
        BY <2>2, <2>3, <2>5, RowKinds DEF Advances
    <2> QED
        BY <2>3, <2>4, <2>5
<1>3. ConvertHolds(v)'
    <2>1. SUFFICES ASSUME Converts(v)
                   PROVE  LET stored == v1'[v5[v].app]
                          IN  /\ stored # NoOne /\ v5[v].version <= stored.version
                              /\ v5[v].version = stored.version
                                    => stored.status = "offered" /\ stored.student = None
        BY DEF ConvertHolds, Converts
    <2> DEFINE a == v5[v].app
    <2>2. a \in Thing /\ v5[v].version \in Nat
        BY <1>1, <2>1 DEF RequestTx, Converts
    <2>3. /\ v1[a] # NoOne /\ v5[v].version <= v1[a].version
          /\ v5[v].version = v1[a].version => v1[a].status = "offered" /\ v1[a].student = None
        BY <2>1 DEF WorkHolds, ConvertHolds
    <2>4. v1'[a] = v1[a] \/ Advances(v1[a], v1'[a])
        BY <2>2, <2>3 DEF Permitted, Submits
    <2>5. CASE Advances(v1[a], v1'[a])
        BY <2>2, <2>3, <2>5, RowKinds DEF Advances
    <2> QED
        BY <2>3, <2>4, <2>5
<1>4. SubmitHolds(v)'
    <2>1. SUFFICES ASSUME v5[v].step = "submitting", NEW a \in Thing,
                          OpenOnline(a, v5[v].who, v5[v].course)'
                   PROVE  FALSE
        BY DEF SubmitHolds
    <2>2. ~OpenOnline(a, v5[v].who, v5[v].course)
        BY <2>1 DEF WorkHolds, SubmitHolds
    <2>3. OpenOnline(a, v5[v].who, v5[v].course)
              \/ ~ (v1'[a].online /\ v1'[a].who = v5[v].who)
              \/ Submits(v1[a], v1'[a])
        BY <2>1, OpenBefore DEF OpenOnline
    <2>4. v1'[a].online /\ v1'[a].who = v5[v].who
        BY <2>1 DEF OpenOnline
    <2>5. v5[w].step = "submitting" /\ v5[w].who = v5[v].who
        BY <2>2, <2>3, <2>4 DEF Permitted
    <2> QED
        BY <2>1, <2>5 DEF LocksHold
<1>5. AmendHolds(v)' /\ ReplaceHolds(v)'
    <2>1. ASSUME v5[v].step \in {"amending", "replacing"}
          PROVE  v5[v].student \in Other
        BY <1>1, <2>1 DEF RequestTx
    <2>2. \A s \in Other : v2[s] # NoOne => v2'[s] # NoOne
        BY RowKinds DEF Permitted, Amends
    <2>3. \A s \in Other : v5[v].step = "replacing" /\ v5[v].student = s /\ v2[s] # NoOne
              => v3'[s] = v3[s]
        BY DEF Permitted, LocksHold
    <2> QED
        BY <2>1, <2>2, <2>3 DEF WorkHolds, AmendHolds, ReplaceHolds
<1>6. ImportHolds(v)'
    <2>1. SUFFICES ASSUME v5[v].step = "importing" PROVE ImportHolds(v)'
        BY DEF ImportHolds
    <2>2. v5[w].step # "importing"
        BY <2>1 DEF LocksHold
    <2>3. \A who : LikeNoImported(who) => LikeNoImported(who)'
        BY <2>2, OthersImports
    <2>4. ImportHolds(v)
        BY DEF WorkHolds
    <2> QED
        BY <2>3, <2>4 DEF ImportHolds
<1> QED
    BY <1>2, <1>3, <1>4, <1>5, <1>6 DEF WorkHolds

(* Locks of one request fit those of the others.                           *)
LockFits(w, work) ==
    \A v \in Worker \ {w} :
        /\ work.step = "importing" => v5[v].step # "importing"
        /\ work.step = "submitting" /\ v5[v].step = "submitting" => v5[v].who # work.who
        /\ work.step = "replacing" /\ v5[v].step = "replacing" => v5[v].student # work.student

LEMMA RequestStep ==
    ASSUME RegistrationInv, NEW w \in Worker, Permitted(w), NEW work \in RequestTx,
           v5' = [v5 EXCEPT ![w] = work], LockFits(w, work), WorkHolds(w)',
           v5[w].step = "importing" => Admission!ImportedOnce'
    PROVE  RegistrationInv' /\ Admission!StageFollows
<1> USE DEF RegistrationInv
<1>1. /\ v5'[w] = work /\ v5' \in [Worker -> RequestTx]
      /\ \A v \in Worker : v # w => v5'[v] = v5[v]
    BY DEF RegistrationTypes
<1>2. RegistrationTypes'
    BY <1>1 DEF RegistrationTypes, Permitted, RequestTx, Applied, Enrolled, NoOne, Admission!NoRow,
        Admission!ApplicationRow, Admission!ApplicationStatus, Admission!StudentRow,
        Admission!FileRow
<1>3. LocksHold'
    BY <1>1 DEF LocksHold, LockFits
<1>4. \A v \in Worker : WorkHolds(v)'
    BY <1>1, OthersHold
<1>5. StagesHold' /\ Admission!StageFollows /\ OriginsHold' /\ Admission!OneOpenRequest'
    BY StagesKept, OriginsKept, OneRequestKept DEF WorkHolds
<1>6. Admission!ImportedOnce'
    BY ImportedKept
<1> QED
    BY <1>2, <1>3, <1>4, <1>5, <1>6

(* The transaction ends.                                                   *)
LEMMA EndStep ==
    ASSUME RegistrationInv, NEW w \in Worker, Permitted(w), v5' = [v5 EXCEPT ![w] = Admission!Idle],
           v5[w].step = "importing" => Admission!ImportedOnce'
    PROVE  RegistrationInv' /\ Admission!StageFollows
<1>1. Admission!Idle \in RequestTx /\ Admission!Idle.step = "idle"
    BY DEF Admission!Idle, RequestTx
<1>2. v5'[w].step = "idle"
    BY <1>1 DEF RegistrationInv, RegistrationTypes
<1>3. WorkHolds(w)'
    BY <1>2 DEF WorkHolds, EditHolds, ConvertHolds, Converts, SubmitHolds, AmendHolds, ReplaceHolds,
                ImportHolds
<1>4. LockFits(w, Admission!Idle)
    BY <1>1 DEF LockFits
<1> QED
    BY <1>1, <1>3, <1>4, RequestStep

(* It begins, or goes on, without a change to the tables.                  *)
Untouched == UNCHANGED <<v1, v2, v3, v4>>

LEMMA UntouchedPermitted ==
    ASSUME RegistrationInv, NEW w \in Worker, Untouched
    PROVE  Permitted(w) /\ (Admission!ImportedOnce => Admission!ImportedOnce')
<1>1. v1' = v1 /\ v2' = v2 /\ v3' = v3 /\ v4' = v4
    BY DEF Untouched
<1>2. Permitted(w)
    BY <1>1, RowKinds DEF Permitted, RegistrationInv, RegistrationTypes, Submits, NoOne
<1> QED
    BY <1>1, <1>2 DEF Admission!ImportedOnce, Admission!Free, Admission!NoRow

LEMMA GoOn ==
    ASSUME RegistrationInv, NEW w \in Worker, Untouched, NEW work \in RequestTx,
           v5' = [v5 EXCEPT ![w] = work], LockFits(w, work), WorkHolds(w)'
    PROVE  RegistrationInv' /\ Admission!StageFollows
BY UntouchedPermitted, RequestStep DEF RegistrationInv

LEMMA AbortStep ==
    ASSUME RegistrationInv, NEW w \in Worker, Admission!Abort(w)
    PROVE  RegistrationInv' /\ Admission!StageFollows
<1>1. Untouched /\ v5' = [v5 EXCEPT ![w] = Admission!Idle]
    BY DEF Untouched, Admission!Abort, Admission!rows
<1> QED
    BY <1>1, UntouchedPermitted, EndStep DEF RegistrationInv

LEMMA NextVersion ==
    ASSUME NEW row \in Applied
    PROVE  LET newer == [row EXCEPT !.version = @ + 1]
           IN  /\ newer \in Applied /\ newer.version = row.version + 1
               /\ newer.status = row.status /\ newer.who = row.who /\ newer.course = row.course
               /\ newer.student = row.student /\ newer.online = row.online
BY DEF Applied, Admission!ApplicationRow

LEMMA OneSubmits ==
    ASSUME RegistrationInv, NEW w \in Worker, NEW a \in Thing, v1[a] = NoOne, NEW row,
           Submits(NoOne, row), v1' = [v1 EXCEPT ![a] = row], UNCHANGED <<v2, v3, v4>>,
           row.online => v5[w].step = "submitting" /\ row.who = v5[w].who
                                                  /\ row.course = v5[w].course
    PROVE  Permitted(w)
<1>1. /\ v2' = v2 /\ v3' = v3 /\ v4' = v4 /\ v1'[a] = row
      /\ \A b \in Thing : b # a => v1'[b] = v1[b]
      /\ v1' \in [Thing -> Applied \cup {NoOne}]
    BY DEF RegistrationInv, RegistrationTypes, Submits
<1>2. \A b \in Thing : b # a => ~Submits(v1[b], v1'[b])
    BY <1>1, RowKinds DEF Submits
<1> QED
    BY <1>1, <1>2 DEF RegistrationInv, RegistrationTypes, Permitted

LEMMA OneAdvances ==
    ASSUME RegistrationInv, NEW w \in Worker, NEW a \in Thing, NEW row, Advances(v1[a], row),
           v1' = [v1 EXCEPT ![a] = row], v2' = v2, v3' = v3, v4 \subseteq v4',
           (row.who = v1[a].who /\ row.course = v1[a].course) \/ a \in v4'
    PROVE  Permitted(w)
<1>1. /\ v1'[a] = row /\ \A b \in Thing : b # a => v1'[b] = v1[b]
      /\ v1' \in [Thing -> Applied \cup {NoOne}]
    BY DEF RegistrationInv, RegistrationTypes, Advances
<1>2. \A b \in Thing : ~Submits(v1[b], v1'[b])
    BY <1>1, RowKinds DEF Submits, Advances
<1> QED
    BY <1>1, <1>2 DEF RegistrationInv, RegistrationTypes, Permitted

LEMMA SubmitSteps ==
    ASSUME RegistrationInv, NEW w \in Worker
    PROVE  /\ \A who \in Person, course \in Offer :
                  Admission!Create(w, who, course) => RegistrationInv' /\ Admission!StageFollows
           /\ Admission!CommitRequest(w) => RegistrationInv' /\ Admission!StageFollows
<1>1. ASSUME NEW who \in Person, NEW course \in Offer, NEW online \in BOOLEAN,
             Admission!NewApplication(who, course, online),
             online => v5[w].step = "submitting" /\ who = v5[w].who /\ course = v5[w].course
      PROVE  Permitted(w)
    <2> DEFINE row == [status |-> "submitted", who |-> who, course |-> course, student |-> None,
                       online |-> online, version |-> 1]
    <2>1. PICK a \in Thing : v1[a] = NoOne /\ v1' = [v1 EXCEPT ![a] = row]
        BY <1>1 DEF Admission!NewApplication, Admission!Free, NoOne, RegistrationInv,
                    RegistrationTypes
    <2>2. Submits(NoOne, row) /\ row.who = who /\ row.course = course /\ row.online = online
        BY DEF Submits, Applied, Admission!ApplicationRow, Admission!ApplicationStatus
    <2>3. UNCHANGED <<v2, v3, v4>>
        BY <1>1 DEF Admission!NewApplication
    <2> HIDE DEF row
    <2> QED
        BY <1>1, <2>1, <2>2, <2>3, OneSubmits
<1>2. ASSUME NEW who \in Person, NEW course \in Offer, Admission!Create(w, who, course)
      PROVE  RegistrationInv' /\ Admission!StageFollows
    <2>1. /\ Admission!NewApplication(who, course, FALSE) /\ v5[w] = Admission!Idle
          /\ v5' = [v5 EXCEPT ![w] = Admission!Idle]
        BY <1>2, Zenon DEF Admission!Create, Admission!Commit
    <2>2. Permitted(w)
        BY <1>1, <2>1
    <2>3. v5[w].step # "importing"
        BY <2>1 DEF Admission!Idle
    <2> QED
        BY <2>1, <2>2, <2>3, EndStep
<1>3. ASSUME Admission!CommitRequest(w)
      PROVE  RegistrationInv' /\ Admission!StageFollows
    <2>1. /\ v5[w].step = "submitting" /\ v5' = [v5 EXCEPT ![w] = Admission!Idle]
          /\ Admission!NewApplication(v5[w].who, v5[w].course, TRUE)
        BY <1>3 DEF Admission!CommitRequest, Admission!Commit
    <2>2. v5[w].who \in Person /\ v5[w].course \in Offer
        BY <2>1 DEF RegistrationInv, RegistrationTypes, RequestTx
    <2>3. Permitted(w)
        BY <1>1, <2>1, <2>2
    <2> QED
        BY <2>1, <2>3, EndStep
<1> QED
    BY <1>2, <1>3

LEMMA EditSteps ==
    ASSUME RegistrationInv, NEW w \in Worker, Admission!CommitEdit(w)
    PROVE  RegistrationInv' /\ Admission!StageFollows
<1> DEFINE a   == v5[w].app
           row == v5[w].row
           newer == [row EXCEPT !.version = @ + 1]
<1>1. /\ v5[w].step = "editing" /\ v5' = [v5 EXCEPT ![w] = Admission!Idle]
      /\ v1[a].version = row.version /\ v1' = [v1 EXCEPT ![a] = newer]
      /\ v4' = IF row.who # v1[a].who \/ row.course # v1[a].course THEN v4 \cup {a} ELSE v4
      /\ v2' = v2 /\ v3' = v3
    BY DEF Admission!CommitEdit, Admission!Commit, Admission!Written
<1>2. a \in Thing /\ row \in Applied /\ v1[a] \in Applied /\ EditOf(row, v1[a])
    BY <1>1, RowKinds
    DEF RegistrationInv, RegistrationTypes, RequestTx, WorkHolds, EditHolds
<1>3. /\ newer \in Applied /\ newer.version = v1[a].version + 1
      /\ newer.status = row.status /\ newer.who = row.who /\ newer.course = row.course
      /\ newer.student = row.student /\ newer.online = row.online
    BY <1>1, <1>2, NextVersion
<1> HIDE DEF newer
<1>4. Advances(v1[a], newer)
    BY <1>2, <1>3, StagesLead DEF EditOf, Advances
<1>5. Permitted(w)
    BY <1>1, <1>2, <1>3, <1>4, OneAdvances
<1> QED
    BY <1>1, <1>5, EndStep

LEMMA EnrolledSteps ==
    ASSUME RegistrationInv, NEW w \in Worker, NEW s \in Other, Admission!MarkEnrolled(w, s)
    PROVE  RegistrationInv' /\ Admission!StageFollows
<1>1. /\ v5[w] = Admission!Idle /\ v5' = [v5 EXCEPT ![w] = Admission!Idle]
      /\ v1' = [a \in Thing |->
                   IF v1[a] # NoOne /\ v1[a].student = s /\ v1[a].status = "confirmed"
                   THEN [v1[a] EXCEPT !.status = "enrolled", !.version = @ + 1] ELSE v1[a]]
      /\ v2' = v2 /\ v3' = v3 /\ v4' = v4
    BY DEF Admission!MarkEnrolled, Admission!Commit, NoOne
<1>2. ASSUME NEW a \in Thing
      PROVE  \/ v1'[a] = v1[a]
             \/ Advances(v1[a], v1'[a]) /\ v1'[a].who = v1[a].who /\ v1'[a].course = v1[a].course
    <2>1. CASE v1[a] # NoOne /\ v1[a].student = s /\ v1[a].status = "confirmed"
        <3>1. v1[a] \in Applied /\ v1'[a] = [v1[a] EXCEPT !.status = "enrolled", !.version = @ + 1]
            BY <1>1, <2>1 DEF RegistrationInv, RegistrationTypes
        <3>2. ASSUME NEW row \in Applied
              PROVE  LET newer == [row EXCEPT !.status = "enrolled", !.version = @ + 1]
                     IN  /\ newer \in Applied /\ newer.version = row.version + 1
                         /\ newer.status = "enrolled" /\ newer.who = row.who
                         /\ newer.course = row.course /\ newer.student = row.student
                         /\ newer.online = row.online
            <4> DEFINE step1 == [row EXCEPT !.status = "enrolled"]
            <4>1. /\ step1 \in Applied /\ step1.version = row.version
                  /\ step1.status = "enrolled" /\ step1.who = row.who
                  /\ step1.course = row.course /\ step1.student = row.student
                  /\ step1.online = row.online
                BY DEF Applied, Admission!ApplicationRow, Admission!ApplicationStatus
            <4>2. [row EXCEPT !.status = "enrolled", !.version = @ + 1]
                     = [step1 EXCEPT !.version = @ + 1]
                BY DEF Applied, Admission!ApplicationRow
            <4> HIDE DEF step1
            <4> QED
                BY <4>1, <4>2, NextVersion
        <3>3. /\ v1'[a] \in Applied /\ v1'[a].version = v1[a].version + 1
              /\ v1'[a].status = "enrolled" /\ v1'[a].who = v1[a].who
              /\ v1'[a].course = v1[a].course /\ v1'[a].student = v1[a].student
              /\ v1'[a].online = v1[a].online
            BY <3>1, <3>2
        <3> QED
            BY <2>1, <3>1, <3>3, StagesLead, AdmissionAssumption DEF Advances
    <2>2. CASE ~ (v1[a] # NoOne /\ v1[a].student = s /\ v1[a].status = "confirmed")
        BY <1>1, <2>2
    <2> QED
        BY <2>1, <2>2
<1>3. \A a \in Thing : ~Submits(v1[a], v1'[a])
    BY <1>2, RowKinds DEF Submits, Advances
<1>4. v1' \in [Thing -> Applied \cup {NoOne}]
    BY <1>1, <1>2, ZenonT(30) DEF RegistrationInv, RegistrationTypes, Advances
<1>5. Permitted(w)
    BY <1>1, <1>2, <1>3, <1>4 DEF RegistrationInv, RegistrationTypes, Permitted
<1>6. v5[w].step # "importing"
    <2>1. Admission!Idle.step = "idle"
        BY DEF Admission!Idle
    <2> QED
        BY <1>1, <2>1
<1> QED
    BY <1>1, <1>5, <1>6, EndStep

(* A transaction that begins with what its own part of the invariant asks. *)
LEMMA BeginStep ==
    ASSUME RegistrationInv, NEW w \in Worker, NEW work \in RequestTx, Admission!Begin(w, work),
           LockFits(w, work), WorkHolds(w)'
    PROVE  RegistrationInv' /\ Admission!StageFollows
<1>1. Untouched /\ v5' = [v5 EXCEPT ![w] = work]
    BY DEF Untouched, Admission!Begin, Admission!rows
<1> QED
    BY <1>1, GoOn

LEMMA Begun ==
    ASSUME RegistrationInv, NEW w \in Worker, NEW work, Admission!Begin(w, work)
    PROVE  v5'[w] = work /\ v1' = v1 /\ v2' = v2 /\ v3' = v3 /\ v4' = v4
BY DEF RegistrationInv, RegistrationTypes, Admission!Begin, Admission!rows

LEMMA LookForRequestSteps ==
    ASSUME RegistrationInv, NEW w \in Worker, NEW who \in Person, NEW course \in Offer,
           Admission!LookForRequest(w, who, course)
    PROVE  RegistrationInv' /\ Admission!StageFollows
<1> DEFINE work == [step |-> "submitting", who |-> who, course |-> course]
<1>1. Admission!Begin(w, work) /\ ~Admission!PhoneHeld(who) /\ ~Admission!OpenRequest(who, course)
    BY DEF Admission!LookForRequest
<1>2. work \in RequestTx /\ work.step = "submitting" /\ work.who = who /\ work.course = course
    BY DEF RequestTx
<1> HIDE DEF work
<1>3. v5'[w] = work /\ v1' = v1 /\ v4' = v4
    BY <1>1, Begun
<1>4. \A a \in Thing : ~OpenOnline(a, who, course)
    <2>1. DOMAIN v1 = Thing
        BY DEF RegistrationInv, RegistrationTypes
    <2> QED
        BY <1>1, <2>1 DEF OpenOnline, Admission!OpenRequest, Admission!Free, NoOne
<1>5. SubmitHolds(w)'
    BY <1>2, <1>3, <1>4 DEF SubmitHolds, OpenOnline, NoOne, Admission!NoRow, Admission!ClosedStatuses
<1>6. WorkHolds(w)'
    BY <1>2, <1>3, <1>5 DEF WorkHolds, EditHolds, ConvertHolds, Converts, AmendHolds, ReplaceHolds,
                            ImportHolds
<1>7. LockFits(w, work)
    BY <1>1, <1>2 DEF LockFits, Admission!PhoneHeld
<1> QED
    BY <1>1, <1>2, <1>6, <1>7, BeginStep

LEMMA EditingSteps ==
    ASSUME RegistrationInv, NEW w \in Worker, NEW a \in Thing, NEW row \in Applied,
           row.version = v1[a].version, EditOf(row, v1[a]), Admission!Editing(w, a, row)
    PROVE  RegistrationInv' /\ Admission!StageFollows
<1> DEFINE work == [step |-> "editing", app |-> a, row |-> row]
<1>1. Admission!Begin(w, work) /\ v1[a] # NoOne
    BY DEF Admission!Editing, NoOne
<1>2. work \in RequestTx /\ work.step = "editing" /\ work.app = a /\ work.row = row
    BY DEF RequestTx
<1> HIDE DEF work
<1>3. v5'[w] = work /\ v1' = v1
    BY <1>1, Begun
<1>4. row.version <= v1[a].version
    BY RowKinds
<1>5. EditHolds(w)'
    BY <1>1, <1>2, <1>3, <1>4
    DEF EditHolds, EditOf, NoOne, Admission!NoRow, Admission!ClosedStatuses, Admission!Transitions
<1>6. WorkHolds(w)'
    BY <1>2, <1>3, <1>5 DEF WorkHolds, SubmitHolds, ConvertHolds, Converts, AmendHolds, ReplaceHolds,
                            ImportHolds
<1>7. LockFits(w, work)
    BY <1>2 DEF LockFits
<1> QED
    BY <1>1, <1>2, <1>6, <1>7, BeginStep

LEMMA OtherStage ==
    ASSUME NEW row \in Applied, NEW status \in Admission!ApplicationStatus
    PROVE  LET newer == [row EXCEPT !.status = status]
           IN  /\ newer \in Applied /\ newer.version = row.version
               /\ newer.status = status /\ newer.who = row.who /\ newer.course = row.course
               /\ newer.student = row.student /\ newer.online = row.online
BY DEF Applied, Admission!ApplicationRow

LEMMA OtherDetails ==
    ASSUME NEW row \in Applied, NEW who \in Person, NEW course \in Offer
    PROVE  LET newer == [row EXCEPT !.who = who, !.course = course]
           IN  /\ newer \in Applied /\ newer.version = row.version
               /\ newer.status = row.status
               /\ newer.student = row.student /\ newer.online = row.online
BY DEF Applied, Admission!ApplicationRow

LEMMA ReadSteps ==
    ASSUME RegistrationInv, NEW w \in Worker, NEW a \in Thing
    PROVE  /\ \A who \in Person, course \in Offer :
                  Admission!Update(w, a, who, course) => RegistrationInv' /\ Admission!StageFollows
           /\ \A to \in Tried :
                  Admission!Transition(w, a, to) => RegistrationInv' /\ Admission!StageFollows
           /\ Admission!RecordPlacement(w, a) => RegistrationInv' /\ Admission!StageFollows
<1>1. v1[a] # NoOne => v1[a] \in Applied
    BY DEF RegistrationInv, RegistrationTypes
<1>2. ASSUME NEW who \in Person, NEW course \in Offer, Admission!Update(w, a, who, course)
      PROVE  RegistrationInv' /\ Admission!StageFollows
    <2> DEFINE row == [v1[a] EXCEPT !.who = who, !.course = course]
    <2>1. /\ v1[a] \in Applied /\ v1[a].status \notin Admission!ClosedStatuses
          /\ Admission!Editing(w, a, row)
        BY <1>1, <1>2 DEF Admission!Update, NoOne
    <2>2. /\ row \in Applied /\ row.version = v1[a].version /\ row.status = v1[a].status
          /\ row.student = v1[a].student /\ row.online = v1[a].online
        BY <2>1, OtherDetails, ZenonT(30)
    <2> HIDE DEF row
    <2>3. EditOf(row, v1[a])
        BY <2>1, <2>2 DEF EditOf
    <2> QED
        BY <2>1, <2>2, <2>3, EditingSteps
<1>3. ASSUME NEW to, to \in Admission!ApplicationStatus, v1[a] \in Applied,
             to # v1[a].status => to \in Admission!Transitions(v1[a].status)
                                  /\ to \notin {"confirmed", "enrolled"},
             Admission!Editing(w, a, [v1[a] EXCEPT !.status = to])
      PROVE  RegistrationInv' /\ Admission!StageFollows
    <2> DEFINE row == [v1[a] EXCEPT !.status = to]
    <2>1. /\ row \in Applied /\ row.version = v1[a].version /\ row.status = to
          /\ row.student = v1[a].student /\ row.online = v1[a].online
          /\ row.who = v1[a].who /\ row.course = v1[a].course
        BY <1>3, OtherStage
    <2>2. Admission!Editing(w, a, row)
        BY <1>3
    <2> HIDE DEF row
    <2>3. EditOf(row, v1[a])
        BY <1>3, <2>1 DEF EditOf
    <2> QED
        BY <2>1, <2>2, <2>3, EditingSteps
<1>4. ASSUME NEW to \in Tried, Admission!Transition(w, a, to)
      PROVE  RegistrationInv' /\ Admission!StageFollows
    <2>1. /\ v1[a] # NoOne /\ to \in Admission!Transitions(v1[a].status)
          /\ Admission!Editing(w, a, [v1[a] EXCEPT !.status = to])
        BY <1>4 DEF Admission!Transition, Admission!Editing, NoOne
    <2>2. to \in Admission!ApplicationStatus /\ to \notin {"confirmed", "enrolled"}
        BY AdmissionAssumption DEF Admission!ApplicationStatus
    <2> QED
        BY <1>1, <1>3, <2>1, <2>2
<1>5. ASSUME Admission!RecordPlacement(w, a)
      PROVE  RegistrationInv' /\ Admission!StageFollows
    <2>1. /\ v1[a] # NoOne /\ v1[a].status \in Admission!PlacementFrom
          /\ Admission!Editing(w, a, [v1[a] EXCEPT !.status = "placed"])
        BY <1>5 DEF Admission!RecordPlacement, Admission!Editing, NoOne
    <2>2. "placed" # v1[a].status => "placed" \in Admission!Transitions(v1[a].status)
        BY <2>1 DEF Admission!PlacementFrom, Admission!Transitions
    <2>3. "placed" \in Admission!ApplicationStatus
        BY DEF Admission!ApplicationStatus
    <2> QED
        BY <1>1, <1>3, <2>1, <2>2, <2>3
<1> QED
    BY <1>2, <1>4, <1>5

LEMMA ConvertSteps ==
    ASSUME RegistrationInv, NEW w \in Worker
    PROVE  /\ \A a \in Thing :
                  Admission!LockToConvert(w, a) => RegistrationInv' /\ Admission!StageFollows
           /\ \A confirmed \in BOOLEAN : Admission!LookToConvert(w, confirmed)
                                            => RegistrationInv' /\ Admission!StageFollows
<1>1. ASSUME NEW a \in Thing, Admission!LockToConvert(w, a)
      PROVE  RegistrationInv' /\ Admission!StageFollows
    <2> DEFINE work == [step |-> "converting", app |-> a, version |-> v1[a].version]
    <2>1. /\ Admission!Begin(w, work)
          /\ v1[a].status = "offered" /\ v1[a].student = None
        BY <1>1 DEF Admission!LockToConvert
    <2>2. v1[a] # NoOne
        <3>1. NoOne.status = "none"
            BY DEF NoOne, Admission!NoRow
        <3> QED
            BY <2>1, <3>1
    <2>3. v1[a].version \in Nat
        BY <2>2, RowKinds DEF RegistrationInv, RegistrationTypes
    <2>4. /\ work \in RequestTx /\ work.step = "converting" /\ work.app = a
          /\ work.version = v1[a].version
        BY <2>3 DEF RequestTx
    <2> HIDE DEF work
    <2>5. v5'[w] = work /\ v1' = v1
        BY <2>1, Begun
    <2>6. ConvertHolds(w)'
        BY <2>1, <2>2, <2>3, <2>4, <2>5 DEF ConvertHolds, NoOne, Admission!NoRow
    <2>7. WorkHolds(w)'
        BY <2>4, <2>5, <2>6 DEF WorkHolds, EditHolds, SubmitHolds, AmendHolds, ReplaceHolds,
                                ImportHolds
    <2>8. LockFits(w, work)
        BY <2>4 DEF LockFits
    <2> QED
        BY <2>1, <2>4, <2>7, <2>8, BeginStep
<1>2. ASSUME NEW confirmed \in BOOLEAN, Admission!LookToConvert(w, confirmed)
      PROVE  RegistrationInv' /\ Admission!StageFollows
    <2> DEFINE a    == v5[w].app
               work == [step |-> "registering", app |-> a, version |-> v5[w].version,
                        who |-> v1[a].who]
    <2>1. v5[w].step = "converting" /\ v5' = [v5 EXCEPT ![w] = work] /\ Untouched
        BY <1>2 DEF Admission!LookToConvert, Untouched, Admission!rows
    <2>2. a \in Thing /\ v5[w].version \in Nat
        BY <2>1 DEF RegistrationInv, RegistrationTypes, RequestTx
    <2>3. /\ v1[a] # NoOne /\ v5[w].version <= v1[a].version
          /\ v5[w].version = v1[a].version => v1[a].status = "offered" /\ v1[a].student = None
        BY <2>1 DEF RegistrationInv, WorkHolds, ConvertHolds, Converts
    <2>4. v1[a].who \in Person
        BY <2>2, <2>3 DEF RegistrationInv, RegistrationTypes, Applied, Admission!ApplicationRow
    <2>5. /\ work \in RequestTx /\ work.step = "registering" /\ work.app = a
          /\ work.version = v5[w].version
        BY <2>2, <2>4 DEF RequestTx
    <2> HIDE DEF work
    <2>6. v5'[w] = work /\ v1' = v1
        BY <2>1 DEF Untouched, RegistrationInv, RegistrationTypes
    <2>7. ConvertHolds(w)'
        BY <2>3, <2>5, <2>6 DEF ConvertHolds, NoOne, Admission!NoRow
    <2>8. WorkHolds(w)'
        BY <2>5, <2>6, <2>7 DEF WorkHolds, EditHolds, SubmitHolds, AmendHolds, ReplaceHolds,
                                ImportHolds
    <2>9. LockFits(w, work)
        BY <2>5 DEF LockFits
    <2> QED
        BY <2>1, <2>5, <2>8, <2>9, GoOn
<1> QED
    BY <1>1, <1>2

LEMMA DeskSteps ==
    ASSUME RegistrationInv, NEW w \in Worker, NEW who \in Person
    PROVE  /\ \A confirmed \in BOOLEAN : Admission!LookForStudent(w, who, confirmed)
                                            => RegistrationInv' /\ Admission!StageFollows
           /\ \A s \in Other : Admission!UpdateStudent(w, s, who)
                                   => RegistrationInv' /\ Admission!StageFollows
<1>1. ASSUME NEW confirmed \in BOOLEAN, Admission!LookForStudent(w, who, confirmed)
      PROVE  RegistrationInv' /\ Admission!StageFollows
    <2> DEFINE work == [step |-> "registering", app |-> None, who |-> who]
    <2>1. Admission!Begin(w, work)
        BY <1>1 DEF Admission!LookForStudent
    <2>2. work \in RequestTx /\ work.step = "registering" /\ work.app = None
        BY DEF RequestTx
    <2> HIDE DEF work
    <2>3. v5'[w] = work
        BY <2>1, <2>2, Begun
    <2>4. WorkHolds(w)'
        BY <2>2, <2>3 DEF WorkHolds, EditHolds, ConvertHolds, Converts, SubmitHolds, AmendHolds,
                          ReplaceHolds, ImportHolds
    <2>5. LockFits(w, work)
        BY <2>2 DEF LockFits
    <2> QED
        BY <2>1, <2>2, <2>4, <2>5, BeginStep
<1>2. ASSUME NEW s \in Other, Admission!UpdateStudent(w, s, who)
      PROVE  RegistrationInv' /\ Admission!StageFollows
    <2> DEFINE work == [step |-> "amending", student |-> s, version |-> v2[s].version, who |-> who]
    <2>1. Admission!Begin(w, work) /\ v2[s] # NoOne
        BY <1>2 DEF Admission!UpdateStudent, NoOne
    <2>2. v2[s].version \in Nat
        BY <2>1, RowKinds DEF RegistrationInv, RegistrationTypes
    <2>3. work \in RequestTx /\ work.step = "amending" /\ work.student = s
        BY <2>2 DEF RequestTx
    <2> HIDE DEF work
    <2>4. v5'[w] = work /\ v2' = v2
        BY <2>1, <2>3, Begun
    <2>5. WorkHolds(w)'
        BY <2>1, <2>3, <2>4 DEF WorkHolds, EditHolds, ConvertHolds, Converts, SubmitHolds,
                          AmendHolds, ReplaceHolds, ImportHolds, NoOne, Admission!NoRow
    <2>6. LockFits(w, work)
        BY <2>3 DEF LockFits
    <2> QED
        BY <2>1, <2>3, <2>5, <2>6, BeginStep
<1> QED
    BY <1>1, <1>2

LEMMA ReplaceSteps ==
    ASSUME RegistrationInv, NEW w \in Worker, NEW s \in Other, NEW list \in List,
           Admission!ReplaceGuardians(w, s, list)
    PROVE  RegistrationInv' /\ Admission!StageFollows
<1> DEFINE work == [step |-> "replacing", student |-> s, version |-> v2[s].version,
                    seen |-> v3[s], list |-> list]
<1>1. Admission!Begin(w, work) /\ v2[s] # NoOne /\ ~Admission!StudentHeld(s)
    BY DEF Admission!ReplaceGuardians, NoOne
<1>2. v2[s].version \in Nat /\ v3[s] \in List
    BY <1>1, RowKinds DEF RegistrationInv, RegistrationTypes
<1>3. work \in RequestTx /\ work.step = "replacing" /\ work.student = s /\ work.seen = v3[s]
    BY <1>2 DEF RequestTx
<1> HIDE DEF work
<1>4. v5'[w] = work /\ v2' = v2 /\ v3' = v3
    BY <1>1, <1>3, Begun
<1>5. WorkHolds(w)'
    BY <1>1, <1>3, <1>4 DEF WorkHolds, EditHolds, ConvertHolds, Converts, SubmitHolds,
                      AmendHolds, ReplaceHolds, ImportHolds, NoOne, Admission!NoRow
<1>6. LockFits(w, work)
    BY <1>1, <1>3 DEF LockFits, Admission!StudentHeld
<1> QED
    BY <1>1, <1>3, <1>5, <1>6, BeginStep

LEMMA Confirmation ==
    ASSUME RegistrationInv, NEW a \in Thing, NEW s \in Other, v1[a] \in Applied, NEW version,
           version = v1[a].version => v1[a].status = "offered" /\ v1[a].student = None,
           Admission!Confirm(a, version, s)
    PROVE  \E row : /\ Advances(v1[a], row) /\ v1' = [v1 EXCEPT ![a] = row] /\ row.student = s
                    /\ row.who = v1[a].who /\ row.course = v1[a].course
<1> DEFINE first == [v1[a] EXCEPT !.status = "confirmed"]
           then  == [first EXCEPT !.student = s]
           row   == [then EXCEPT !.version = @ + 1]
<1>1. "confirmed" \in Admission!ApplicationStatus
    BY DEF Admission!ApplicationStatus
<1>2. /\ first \in Applied /\ first.version = v1[a].version /\ first.status = "confirmed"
      /\ first.who = v1[a].who /\ first.course = v1[a].course /\ first.online = v1[a].online
    BY <1>1, OtherStage
<1>3. [v1[a] EXCEPT !.status = "confirmed", !.student = s] = then
    BY DEF Applied, Admission!ApplicationRow
<1>4. v1' = [v1 EXCEPT ![a] = row] /\ v1[a].version = version
    BY <1>3 DEF Admission!Confirm, Admission!Written
<1> HIDE DEF first
<1>5. /\ then \in Applied /\ then.version = v1[a].version /\ then.status = "confirmed"
      /\ then.who = v1[a].who /\ then.course = v1[a].course /\ then.online = v1[a].online
      /\ then.student = s
    BY <1>2 DEF Applied, Admission!ApplicationRow
<1> HIDE DEF then
<1>6. /\ row \in Applied /\ row.version = v1[a].version + 1 /\ row.status = "confirmed"
      /\ row.who = v1[a].who /\ row.course = v1[a].course /\ row.online = v1[a].online
      /\ row.student = s
    BY <1>5, NextVersion
<1> HIDE DEF row
<1>7. v1[a].status = "offered" /\ v1[a].student = None
    BY <1>4
<1>8. "confirmed" \in Admission!Transitions(v1[a].status) /\ s # None
      /\ v1[a].status \notin Admission!ClosedStatuses
    BY <1>7, AdmissionAssumption DEF Admission!Transitions, Admission!ClosedStatuses
<1>9. Advances(v1[a], row)
    BY <1>6, <1>7, <1>8 DEF Advances
<1> QED
    BY <1>4, <1>6, <1>9

LEMMA LinkSteps ==
    ASSUME RegistrationInv, NEW w \in Worker, NEW s \in Other, Admission!CommitLink(w, s)
    PROVE  RegistrationInv' /\ Admission!StageFollows
<1> DEFINE a == v5[w].app
<1>1. /\ v5[w].step = "converting" /\ v5' = [v5 EXCEPT ![w] = Admission!Idle]
      /\ Admission!Confirm(a, v5[w].version, s) /\ v2' = v2 /\ v3' = v3 /\ v4' = v4
    BY DEF Admission!CommitLink, Admission!Commit
<1>2. a \in Thing
    BY <1>1 DEF RegistrationInv, RegistrationTypes, RequestTx
<1>3. /\ v1[a] # NoOne
      /\ v5[w].version = v1[a].version => v1[a].status = "offered" /\ v1[a].student = None
    BY <1>1 DEF RegistrationInv, WorkHolds, ConvertHolds, Converts
<1>4. v1[a] \in Applied
    BY <1>2, <1>3 DEF RegistrationInv, RegistrationTypes
<1>5. PICK row : /\ Advances(v1[a], row) /\ v1' = [v1 EXCEPT ![a] = row]
                 /\ row.who = v1[a].who /\ row.course = v1[a].course
    BY <1>1, <1>2, <1>3, <1>4, Confirmation
<1>6. Permitted(w)
    BY <1>1, <1>2, <1>5, OneAdvances
<1> QED
    BY <1>1, <1>6, EndStep

(* A new student, with or without an application that is confirmed.        *)
LEMMA OneRegisters ==
    ASSUME RegistrationInv, NEW w \in Worker, NEW s \in Other, v2[s] = NoOne, NEW row \in Enrolled,
           NEW list \in List, v2' = [v2 EXCEPT ![s] = row], v3' = [v3 EXCEPT ![s] = list],
           v4' = v4, row.by # "import",
           \/ v1' = v1 /\ row.from = None
           \/ \E a \in Thing : \E newer :
                 /\ Advances(v1[a], newer) /\ v1' = [v1 EXCEPT ![a] = newer] /\ newer.student = s
                 /\ newer.who = v1[a].who /\ newer.course = v1[a].course /\ row.from = a
    PROVE  Permitted(w)
<1>1. /\ v1 \in [Thing -> Applied \cup {NoOne}] /\ v2 \in [Other -> Enrolled \cup {NoOne}]
      /\ v3 \in [Other -> List]
    BY DEF RegistrationInv, RegistrationTypes
<1>2. /\ v2'[s] = row /\ \A t \in Other : t # s => v2'[t] = v2[t] /\ v3'[t] = v3[t]
      /\ v2' \in [Other -> Enrolled \cup {NoOne}] /\ v3' \in [Other -> List]
    BY <1>1
<1>3. /\ v1' \in [Thing -> Applied \cup {NoOne}]
      /\ \A a \in Thing : \/ v1'[a] = v1[a]
                          \/ /\ Advances(v1[a], v1'[a])
                             /\ v1'[a].who = v1[a].who /\ v1'[a].course = v1[a].course
    BY <1>1 DEF Advances
<1>4. row.from # None => v1'[row.from] # NoOne /\ v1'[row.from].student = s
    BY <1>1, RowKinds DEF Advances
<1>5. \A a \in Thing : ~Submits(v1[a], v1'[a])
    BY <1>3, RowKinds DEF Submits, Advances
<1> QED
    BY <1>2, <1>3, <1>4, <1>5 DEF Permitted

LEMMA StudentSteps ==
    ASSUME RegistrationInv, NEW w \in Worker, Admission!CommitStudent(w)
    PROVE  RegistrationInv' /\ Admission!StageFollows
<1> DEFINE a == v5[w].app
<1>1. /\ v5[w].step = "registering" /\ v5' = [v5 EXCEPT ![w] = Admission!Idle] /\ v4' = v4
      /\ DOMAIN v2 = Other
    BY DEF Admission!CommitStudent, Admission!Commit, RegistrationInv, RegistrationTypes
<1>2. PICK s \in Other, list \in List :
          /\ v2[s] = NoOne /\ Admission!NewStudent(s, v5[w].who, a, "desk", list)
          /\ IF a = None THEN v1' = v1 ELSE Admission!Confirm(a, v5[w].version, s)
    BY <1>1 DEF Admission!CommitStudent, Admission!Free, NoOne
<1> DEFINE row == [status |-> "active", who |-> v5[w].who, version |-> 1, from |-> a, by |-> "desk"]
<1>3. v2' = [v2 EXCEPT ![s] = row] /\ v3' = [v3 EXCEPT ![s] = list]
    BY <1>2 DEF Admission!NewStudent
<1>4. v5[w].who \in Person /\ a \in Thing \cup {None}
    BY <1>1 DEF RegistrationInv, RegistrationTypes, RequestTx
<1>5. row \in Enrolled /\ row.by # "import" /\ row.from = a
    BY <1>4 DEF Enrolled, Admission!StudentRow
<1> HIDE DEF row
<1>6. CASE a = None
    <2>1. Permitted(w)
        BY <1>1, <1>2, <1>3, <1>5, <1>6, OneRegisters
    <2> QED
        BY <1>1, <2>1, EndStep
<1>7. CASE a # None
    <2>1. a \in Thing /\ Converts(w) /\ Admission!Confirm(a, v5[w].version, s)
        BY <1>1, <1>2, <1>4, <1>7 DEF Converts
    <2>2. /\ v1[a] # NoOne
          /\ v5[w].version = v1[a].version => v1[a].status = "offered" /\ v1[a].student = None
        BY <2>1 DEF RegistrationInv, WorkHolds, ConvertHolds
    <2>3. v1[a] \in Applied
        BY <2>1, <2>2 DEF RegistrationInv, RegistrationTypes
    <2>4. \E newer : /\ Advances(v1[a], newer) /\ v1' = [v1 EXCEPT ![a] = newer]
                     /\ newer.student = s /\ newer.who = v1[a].who /\ newer.course = v1[a].course
        BY <2>1, <2>2, <2>3, Confirmation
    <2>5. Permitted(w)
        BY <1>1, <1>2, <1>3, <1>5, <2>1, <2>4, OneRegisters
    <2> QED
        BY <1>1, <2>5, EndStep
<1> QED
    BY <1>6, <1>7

LEMMA OneAmends ==
    ASSUME RegistrationInv, NEW w \in Worker, NEW s \in Other, NEW row, Amends(v2[s], row),
           v2' = [v2 EXCEPT ![s] = row], v1' = v1, v4 \subseteq v4',
           row.who = v2[s].who \/ s \in v4',
           \/ v3' = v3
           \/ \E list \in List : /\ v3' = [v3 EXCEPT ![s] = list]
                                 /\ v5[w].step = "replacing" /\ v5[w].student = s
    PROVE  Permitted(w)
<1>1. /\ v1 \in [Thing -> Applied \cup {NoOne}] /\ v2 \in [Other -> Enrolled \cup {NoOne}]
      /\ v3 \in [Other -> List]
    BY DEF RegistrationInv, RegistrationTypes
<1>2. /\ v2'[s] = row /\ \A t \in Other : t # s => v2'[t] = v2[t] /\ v3'[t] = v3[t]
      /\ v2' \in [Other -> Enrolled \cup {NoOne}] /\ v3' \in [Other -> List]
    BY <1>1 DEF Amends
<1>3. v2[s] # NoOne
    BY RowKinds DEF Amends
<1>4. v3'[s] # v3[s] => v5[w].step = "replacing" /\ v5[w].student = s
    OBVIOUS
<1>5. \A a \in Thing : ~Submits(v1[a], v1'[a])
    BY RowKinds DEF Submits
<1> QED
    BY <1>1, <1>2, <1>3, <1>4, <1>5 DEF Permitted

LEMMA NextStudentVersion ==
    ASSUME NEW row \in Enrolled
    PROVE  LET newer == [row EXCEPT !.version = @ + 1]
           IN  Amends(row, newer) /\ newer.who = row.who
BY DEF Amends, Enrolled, Admission!StudentRow

LEMMA OtherPerson ==
    ASSUME NEW row \in Enrolled, NEW who \in Person
    PROVE  LET newer == [row EXCEPT !.who = who] IN Amends(row, newer) /\ newer.who = who
BY DEF Amends, Enrolled, Admission!StudentRow

LEMMA AmendSteps ==
    ASSUME RegistrationInv, NEW w \in Worker
    PROVE  /\ Admission!CommitUpdateStudent(w) => RegistrationInv' /\ Admission!StageFollows
           /\ Admission!CommitGuardians(w) => RegistrationInv' /\ Admission!StageFollows
<1> DEFINE s == v5[w].student
<1>1. ASSUME v5[w].step \in {"amending", "replacing"}
      PROVE  s \in Other /\ v2[s] \in Enrolled
    <2>1. s \in Other
        BY <1>1 DEF RegistrationInv, RegistrationTypes, RequestTx
    <2>2. v2[s] # NoOne
        BY <1>1 DEF RegistrationInv, WorkHolds, AmendHolds, ReplaceHolds
    <2> QED
        BY <2>1, <2>2 DEF RegistrationInv, RegistrationTypes
<1>2. ASSUME Admission!CommitUpdateStudent(w)
      PROVE  RegistrationInv' /\ Admission!StageFollows
    <2> DEFINE who   == v5[w].who
               first == [v2[s] EXCEPT !.who = who]
               row   == [first EXCEPT !.version = @ + 1]
    <2>1. /\ v5[w].step = "amending" /\ v5' = [v5 EXCEPT ![w] = Admission!Idle]
          /\ v2' = [v2 EXCEPT ![s].who = who, ![s].version = @ + 1]
          /\ v4' = IF who # v2[s].who THEN v4 \cup {s} ELSE v4
          /\ v1' = v1 /\ v3' = v3
        BY <1>2 DEF Admission!CommitUpdateStudent, Admission!Commit
    <2>2. s \in Other /\ v2[s] \in Enrolled /\ who \in Person
        BY <1>1, <2>1 DEF RegistrationInv, RegistrationTypes, RequestTx
    <2>3. v2' = [v2 EXCEPT ![s] = row]
        <3>1. v2' = [[v2 EXCEPT ![s].who = who] EXCEPT ![s].version = @ + 1]
            BY <2>1
        <3> QED
            BY <2>2, <3>1 DEF RegistrationInv, RegistrationTypes
    <2>4. first \in Enrolled /\ Amends(v2[s], first) /\ first.who = who
        BY <2>2, OtherPerson DEF Amends
    <2> HIDE DEF first
    <2>5. Amends(first, row) /\ row.who = who
        BY <2>4, NextStudentVersion
    <2> HIDE DEF row
    <2>6. Amends(v2[s], row)
        BY <2>4, <2>5 DEF Amends
    <2>7. Permitted(w)
        BY <2>1, <2>2, <2>3, <2>5, <2>6, OneAmends
    <2> QED
        BY <2>1, <2>7, EndStep
<1>3. ASSUME Admission!CommitGuardians(w)
      PROVE  RegistrationInv' /\ Admission!StageFollows
    <2> DEFINE row  == [v2[s] EXCEPT !.version = @ + 1]
               list == v5[w].list
    <2>1. /\ v5[w].step = "replacing" /\ v5' = [v5 EXCEPT ![w] = Admission!Idle]
          /\ v2' = [v2 EXCEPT ![s] = row]
          /\ v3' = [v3 EXCEPT ![s] = (v3[s] \ v5[w].seen) \cup list]
          /\ v1' = v1 /\ v4' = v4
        BY <1>3 DEF Admission!CommitGuardians, Admission!Commit
    <2>2. s \in Other /\ v2[s] \in Enrolled /\ list \in List
        BY <1>1, <2>1 DEF RegistrationInv, RegistrationTypes, RequestTx
    <2>3. v5[w].seen = v3[s]
        BY <2>1 DEF RegistrationInv, WorkHolds, ReplaceHolds
    <2>4. v3' = [v3 EXCEPT ![s] = list]
        BY <2>1, <2>3
    <2>5. Amends(v2[s], row) /\ row.who = v2[s].who
        BY <2>2, NextStudentVersion
    <2> HIDE DEF row, list
    <2>6. Permitted(w)
        BY <2>1, <2>2, <2>4, <2>5, OneAmends
    <2> QED
        BY <2>1, <2>6, EndStep
<1> QED
    BY <1>2, <1>3

(* An import that goes through its file. *)
ImportTx == [step : {"importing"}, file : Seq(Admission!FileRow), onDuplicate : {"skip", "import"},
             adding : BOOLEAN, added : Seq(Person)]

LEMMA Importing ==
    ASSUME RegistrationInv, NEW w \in Worker, v5[w].step = "importing"
    PROVE  v5[w] \in ImportTx /\ ImportHolds(w)
BY DEF RegistrationInv, RegistrationTypes, RequestTx, ImportTx, WorkHolds

(* What it asks of an import that has come to work. *)
ImportFits(work) ==
    /\ work.adding => work.file # <<>> /\ Head(work.file).who \in Person
    /\ \A k \in DOMAIN work.file : work.file[k].valid => work.file[k].who # None
    /\ work.onDuplicate = "skip" =>
          /\ \A j, k \in DOMAIN work.added :
                 j # k => <<work.added[j], work.added[k]>> \notin Alike
          /\ \A k \in DOMAIN work.added : LikeNoImported(work.added[k])
          /\ work.adding =>
                /\ LikeNoImported(Head(work.file).who)
                /\ \A k \in DOMAIN work.added :
                       <<Head(work.file).who, work.added[k]>> \notin Alike

LEMMA ImportGoesOn ==
    ASSUME RegistrationInv, NEW w \in Worker, Untouched, NEW work \in ImportTx,
           v5' = [v5 EXCEPT ![w] = work], ImportFits(work),
           \A v \in Worker \ {w} : v5[v].step # "importing"
    PROVE  RegistrationInv' /\ Admission!StageFollows
<1>1. work \in RequestTx /\ work.step = "importing"
    BY DEF RequestTx, ImportTx
<1>2. v5'[w] = work /\ v2' = v2 /\ v4' = v4
    BY DEF RegistrationInv, RegistrationTypes, Untouched
<1>3. \A who : LikeNoImported(who) => LikeNoImported(who)'
    BY <1>2 DEF LikeNoImported, NoOne, Admission!NoRow
<1>4. ImportHolds(w)'
    BY <1>2, <1>3 DEF ImportHolds, ImportFits
<1>5. WorkHolds(w)'
    BY <1>1, <1>2, <1>4 DEF WorkHolds, EditHolds, ConvertHolds, Converts, SubmitHolds, AmendHolds,
                            ReplaceHolds
<1>6. LockFits(w, work)
    BY <1>1 DEF LockFits
<1> QED
    BY <1>1, <1>5, <1>6, GoOn

LEMMA StartImportSteps ==
    ASSUME RegistrationInv, NEW w \in Worker, NEW file \in File,
           NEW onDuplicate \in {"skip", "import"}, Admission!StartImport(w, file, onDuplicate)
    PROVE  RegistrationInv' /\ Admission!StageFollows
<1> DEFINE work == [step |-> "importing", file |-> file, onDuplicate |-> onDuplicate,
                    adding |-> FALSE, added |-> <<>>]
<1>1. Untouched /\ v5' = [v5 EXCEPT ![w] = work] /\ \A v \in Worker : v5[v].step # "importing"
    BY DEF Admission!StartImport, Admission!Begin, Admission!rows, Untouched, Admission!ImportHeld
<1>2. /\ file \in Seq(Admission!FileRow)
      /\ \A k \in DOMAIN file : file[k].valid => file[k].who # None
    BY AdmissionAssumption
<1>3. work \in ImportTx
    BY <1>2 DEF ImportTx
<1>4. ImportFits(work)
    BY <1>2 DEF ImportFits
<1> HIDE DEF work
<1> QED
    BY <1>1, <1>3, <1>4, ImportGoesOn

LEMMA Looked ==
    ASSUME RegistrationInv, NEW w \in Worker, NEW row, Admission!Adds(w, row),
           v5[w].onDuplicate = "skip"
    PROVE  /\ LikeNoImported(row.who)
           /\ \A k \in DOMAIN v5[w].added : <<row.who, v5[w].added[k]>> \notin Alike
<1>1. \A p \in Admission!StudentsNow \cup Admission!PeopleAdded(w) : <<row.who, p>> \notin Alike
    BY DEF Admission!Adds, Admission!Candidates
<1>2. \A s \in Other : v2[s] # NoOne => v2[s].who \in Admission!StudentsNow
    BY DEF Admission!StudentsNow, NoOne
<1>3. \A k \in DOMAIN v5[w].added : v5[w].added[k] \in Admission!PeopleAdded(w)
    BY DEF Admission!PeopleAdded
<1> QED
    BY <1>1, <1>2, <1>3 DEF LikeNoImported

LEMMA RestOfFile ==
    ASSUME NEW file \in Seq(Admission!FileRow), file # <<>>,
           \A k \in DOMAIN file : file[k].valid => file[k].who # None
    PROVE  /\ Head(file) \in Admission!FileRow
           /\ Head(file).valid => Head(file).who \in Person
           /\ Tail(file) \in Seq(Admission!FileRow)
           /\ \A k \in DOMAIN Tail(file) : Tail(file)[k].valid => Tail(file)[k].who # None
<1>1. Len(file) \in Nat \ {0} /\ DOMAIN file = 1..Len(file) /\ Head(file) = file[1]
    BY EmptySeq, HeadTailProperties
<1>2. Head(file) \in Admission!FileRow
    BY <1>1
<1>3. Head(file).valid => Head(file).who \in Person
    BY <1>1, <1>2 DEF Admission!FileRow
<1>4. /\ Tail(file) \in Seq(Admission!FileRow) /\ Len(Tail(file)) = Len(file) - 1
      /\ \A k \in 1..Len(Tail(file)) : Tail(file)[k] = file[k + 1]
    BY HeadTailProperties
<1>5. DOMAIN Tail(file) = 1..Len(Tail(file))
    BY <1>4
<1>6. ASSUME NEW k \in DOMAIN Tail(file), Tail(file)[k].valid
      PROVE  Tail(file)[k].who # None
    <2>1. k + 1 \in DOMAIN file /\ Tail(file)[k] = file[k + 1]
        BY <1>1, <1>4, <1>5
    <2> QED
        BY <1>6, <2>1
<1> QED
    BY <1>2, <1>3, <1>4, <1>6

LEMMA LookAtRowSteps ==
    ASSUME RegistrationInv, NEW w \in Worker, Admission!LookAtRow(w)
    PROVE  RegistrationInv' /\ Admission!StageFollows
<1> DEFINE file == v5[w].file
<1>1. /\ v5[w].step = "importing" /\ ~v5[w].adding /\ file # <<>> /\ Untouched
      /\ v5' = IF Admission!Adds(w, Head(file)) THEN [v5 EXCEPT ![w].adding = TRUE]
               ELSE [v5 EXCEPT ![w].file = Tail(file)]
    BY DEF Admission!LookAtRow, Admission!rows, Untouched
<1>2. v5[w] \in ImportTx /\ ImportHolds(w)
    BY <1>1, Importing
<1>3. \A v \in Worker \ {w} : v5[v].step # "importing"
    BY <1>1 DEF RegistrationInv, LocksHold
<1>4. file \in Seq(Admission!FileRow)
    BY <1>2 DEF ImportTx
<1>5. \A k \in DOMAIN file : file[k].valid => file[k].who # None
    BY <1>1, <1>2 DEF ImportHolds
<1>6. /\ Head(file).valid => Head(file).who \in Person
      /\ Tail(file) \in Seq(Admission!FileRow)
      /\ \A k \in DOMAIN Tail(file) : Tail(file)[k].valid => Tail(file)[k].who # None
    BY <1>1, <1>4, <1>5, RestOfFile
<1>7. v5 \in [Worker -> RequestTx]
    BY DEF RegistrationInv, RegistrationTypes
<1>8. CASE Admission!Adds(w, Head(file))
    <2> DEFINE work == [v5[w] EXCEPT !.adding = TRUE]
    <2>1. v5' = [v5 EXCEPT ![w] = work]
        BY <1>1, <1>7, <1>8
    <2>2. /\ work \in ImportTx /\ work.file = file /\ work.added = v5[w].added
          /\ work.onDuplicate = v5[w].onDuplicate
        BY <1>2 DEF ImportTx
    <2> HIDE DEF work
    <2>3. Head(file).who \in Person
        BY <1>6, <1>8 DEF Admission!Adds
    <2>4. v5[w].onDuplicate = "skip" =>
              /\ LikeNoImported(Head(file).who)
              /\ \A k \in DOMAIN v5[w].added : <<Head(file).who, v5[w].added[k]>> \notin Alike
        BY <1>8, Looked
    <2>5. ImportFits(work)
        BY <1>1, <1>2, <2>2, <2>3, <2>4 DEF ImportFits, ImportHolds
    <2> QED
        BY <1>1, <1>3, <2>1, <2>2, <2>5, ImportGoesOn
<1>9. CASE ~Admission!Adds(w, Head(file))
    <2> DEFINE work == [v5[w] EXCEPT !.file = Tail(file)]
    <2>1. v5' = [v5 EXCEPT ![w] = work]
        BY <1>1, <1>7, <1>9
    <2>2. /\ work \in ImportTx /\ work.file = Tail(file) /\ work.added = v5[w].added
          /\ work.onDuplicate = v5[w].onDuplicate /\ work.adding = v5[w].adding
        BY <1>2, <1>6 DEF ImportTx
    <2> HIDE DEF work
    <2>3. ImportFits(work)
        BY <1>1, <1>2, <1>6, <2>2 DEF ImportFits, ImportHolds
    <2> QED
        BY <1>1, <1>3, <2>1, <2>2, <2>3, ImportGoesOn
<1> QED
    BY <1>8, <1>9

LEMMA RowRecorded ==
    ASSUME NEW work \in ImportTx, NEW file \in Seq(Admission!FileRow), NEW added \in Seq(Person)
    PROVE  [work EXCEPT !.file = file, !.adding = FALSE, !.added = added]
               = [step |-> "importing", file |-> file, onDuplicate |-> work.onDuplicate,
                  adding |-> FALSE, added |-> added]
<1> DEFINE first  == [work EXCEPT !.file = file]
           second == [first EXCEPT !.adding = FALSE]
           third  == [second EXCEPT !.added = added]
<1>1. [work EXCEPT !.file = file, !.adding = FALSE, !.added = added] = third
    BY Zenon
<1>2. first \in ImportTx /\ first.file = file /\ first.onDuplicate = work.onDuplicate
    BY DEF ImportTx
<1> HIDE DEF first
<1>3. /\ second \in ImportTx /\ second.file = file /\ second.onDuplicate = work.onDuplicate
      /\ second.adding = FALSE
    BY <1>2 DEF ImportTx
<1> HIDE DEF second
<1>4. /\ third \in ImportTx /\ third.file = file /\ third.onDuplicate = work.onDuplicate
      /\ third.adding = FALSE /\ third.added = added
    BY <1>3 DEF ImportTx
<1> HIDE DEF third
<1>5. third = [step |-> "importing", file |-> file, onDuplicate |-> work.onDuplicate,
               adding |-> FALSE, added |-> added]
    BY <1>4 DEF ImportTx
<1> QED
    BY <1>1, <1>5

LEMMA AddRowSteps ==
    ASSUME RegistrationInv, NEW w \in Worker, Admission!AddRow(w)
    PROVE  RegistrationInv' /\ Admission!StageFollows
<1> DEFINE file  == v5[w].file
           added == v5[w].added
           who   == Head(file).who
           work  == [step |-> "importing", file |-> Tail(file), onDuplicate |-> v5[w].onDuplicate,
                     adding |-> FALSE, added |-> Append(added, who)]
<1>1. /\ v5[w].step = "importing" /\ v5[w].adding /\ Untouched
      /\ v5' = [v5 EXCEPT ![w].file = Tail(file), ![w].adding = FALSE,
                          ![w].added = Append(added, who)]
    BY DEF Admission!AddRow, Admission!rows, Untouched
<1>2. v5[w] \in ImportTx /\ ImportHolds(w)
    BY <1>1, Importing
<1>3. \A v \in Worker \ {w} : v5[v].step # "importing"
    BY <1>1 DEF RegistrationInv, LocksHold
<1>4. file \in Seq(Admission!FileRow) /\ added \in Seq(Person)
    BY <1>2 DEF ImportTx
<1>5. file # <<>> /\ who \in Person /\ \A k \in DOMAIN file : file[k].valid => file[k].who # None
    BY <1>1, <1>2 DEF ImportHolds
<1>6. /\ Tail(file) \in Seq(Admission!FileRow)
      /\ \A k \in DOMAIN Tail(file) : Tail(file)[k].valid => Tail(file)[k].who # None
    BY <1>4, <1>5, RestOfFile
<1>7. v5' = [v5 EXCEPT ![w] = work]
    <2>1. v5' = [v5 EXCEPT ![w] = [v5[w] EXCEPT !.file = Tail(file), !.adding = FALSE,
                                                !.added = Append(added, who)]]
        BY <1>1 DEF RegistrationInv, RegistrationTypes
    <2>2. [v5[w] EXCEPT !.file = Tail(file), !.adding = FALSE, !.added = Append(added, who)] = work
        <3>1. Append(added, who) \in Seq(Person)
            BY <1>4, <1>5
        <3> QED
            BY <1>2, <1>6, <3>1, RowRecorded
    <2> QED
        BY <2>1, <2>2
<1>8. work \in ImportTx
    BY <1>2, <1>4, <1>5, <1>6 DEF ImportTx
<1>9. /\ DOMAIN added = 1..Len(added) /\ Len(added) \in Nat
      /\ DOMAIN Append(added, who) = 1..(Len(added) + 1)
      /\ Append(added, who)[Len(added) + 1] = who
      /\ \A k \in 1..Len(added) : Append(added, who)[k] = added[k]
    BY <1>4, <1>5, AppendProperties
<1>10. ASSUME v5[w].onDuplicate = "skip"
       PROVE  /\ \A j, k \in DOMAIN Append(added, who) :
                     j # k => <<Append(added, who)[j], Append(added, who)[k]>> \notin Alike
              /\ \A k \in DOMAIN Append(added, who) : LikeNoImported(Append(added, who)[k])
    <2>1. /\ \A j, k \in DOMAIN added : j # k => <<added[j], added[k]>> \notin Alike
          /\ \A k \in DOMAIN added : LikeNoImported(added[k])
          /\ LikeNoImported(who)
          /\ \A k \in DOMAIN added : <<who, added[k]>> \notin Alike
        BY <1>1, <1>2, <1>10 DEF ImportHolds
    <2>2. \A k \in DOMAIN added : <<added[k], who>> \notin Alike
        <3>1. ASSUME NEW k \in DOMAIN added, <<added[k], who>> \in Alike PROVE FALSE
            <4>1. <<who, added[k]>> \in Alike
                BY <3>1, AdmissionAssumption
            <4> QED
                BY <2>1, <4>1
        <3> QED
            BY <3>1
    <2> HIDE DEF added, who
    <2>3. ASSUME NEW k \in DOMAIN Append(added, who)
          PROVE  \/ k \in DOMAIN added /\ Append(added, who)[k] = added[k]
                 \/ k = Len(added) + 1 /\ Append(added, who)[k] = who
        BY <1>9
    <2> QED
        BY <2>1, <2>2, <2>3
<1>11. ImportFits(work)
    <2>1. /\ work.adding = FALSE /\ work.file = Tail(file) /\ work.added = Append(added, who)
          /\ work.onDuplicate = v5[w].onDuplicate
        OBVIOUS
    <2> HIDE DEF work, file, added, who
    <2> QED
        BY <1>6, <1>10, <2>1 DEF ImportFits
<1> HIDE DEF work
<1> QED
    BY <1>1, <1>3, <1>7, <1>8, <1>11, ImportGoesOn

LEMMA TwoOfEach ==
    ASSUME NEW S, IsFiniteSet(S), NEW T, IsFiniteSet(T), Cardinality(S) = Cardinality(T),
           NEW s \in S, NEW t \in S, s # t
    PROVE  \E j, k \in T : j # k
<1>1. Cardinality({s, t}) = 2
    <2>1. IsFiniteSet({s}) /\ Cardinality({s}) = 1
        BY FS_Singleton
    <2>2. Cardinality({s} \cup {t}) = IF t \in {s} THEN Cardinality({s}) ELSE Cardinality({s}) + 1
        BY <2>1, FS_AddElement
    <2>3. {s} \cup {t} = {s, t}
        OBVIOUS
    <2> QED
        BY <2>1, <2>2, <2>3
<1>2. Cardinality(T) >= 2
    <2>1. {s, t} \in SUBSET S
        OBVIOUS
    <2>2. Cardinality({s, t}) <= Cardinality(S)
        BY <2>1, FS_Subset
    <2>3. Cardinality(T) \in Nat
        BY FS_CardinalityType
    <2> QED
        BY <1>1, <2>2, <2>3
<1>3. SUFFICES ASSUME \A j, k \in T : j = k PROVE FALSE
    OBVIOUS
<1>4. CASE T = {}
    BY <1>2, <1>4, FS_EmptySet
<1>5. CASE T # {}
    <2>1. PICK j : j \in T
        BY <1>5
    <2>2. T = {j}
        BY <1>3, <2>1
    <2> QED
        BY <1>2, <2>2, FS_Singleton
<1> QED
    BY <1>4, <1>5

LEMMA CommitImportSteps ==
    ASSUME RegistrationInv, NEW w \in Worker, Admission!CommitImport(w)
    PROVE  RegistrationInv' /\ Admission!StageFollows
<1> DEFINE added == v5[w].added
           added_by == IF v5[w].onDuplicate = "skip" THEN "import" ELSE "import_all"
           newRow(p) == [status |-> "active", who |-> p, version |-> 1, from |-> None,
                         by |-> added_by]
<1>1. /\ v5[w].step = "importing" /\ v5' = [v5 EXCEPT ![w] = Admission!Idle]
      /\ v1' = v1 /\ v3' = v3 /\ v4' = v4
    BY DEF Admission!CommitImport
<1>2. v5[w] \in ImportTx /\ ImportHolds(w)
    BY <1>1, Importing
<1>3. added \in Seq(Person) /\ DOMAIN added = 1..Len(added) /\ Len(added) \in Nat
    BY <1>2 DEF ImportTx
<1>4. PICK ids \in Admission!kSubset(Len(added), Admission!Free(v2)) :
      \E who \in [ids -> Admission!PeopleAdded(w)] :
          /\ \A p \in Admission!PeopleAdded(w) :
                 Admission!Cardinality({s \in ids : who[s] = p})
                     = Admission!Cardinality({k \in DOMAIN added : added[k] = p})
          /\ v2' = [s \in Other |-> IF s \notin ids THEN v2[s] ELSE newRow(who[s])]
    BY DEF Admission!CommitImport
<1>5. PICK who \in [ids -> Admission!PeopleAdded(w)] :
          /\ \A p \in Admission!PeopleAdded(w) :
                 Admission!Cardinality({s \in ids : who[s] = p})
                     = Admission!Cardinality({k \in DOMAIN added : added[k] = p})
          /\ v2' = [s \in Other |-> IF s \notin ids THEN v2[s] ELSE newRow(who[s])]
    BY <1>4
<1>6. \A s \in ids : s \in Other /\ v2[s] = NoOne
    BY <1>4 DEF Admission!kSubset, Admission!Free, NoOne, RegistrationInv, RegistrationTypes
<1>7. \A s \in ids : \E k \in DOMAIN added : who[s] = added[k]
    BY <1>5 DEF Admission!PeopleAdded
<1>8. \A p \in Admission!PeopleAdded(w) : p \in Person
    BY <1>3 DEF Admission!PeopleAdded
<1>9. ASSUME NEW s \in ids
      PROVE  /\ newRow(who[s]) \in Enrolled /\ newRow(who[s]).from = None
             /\ newRow(who[s]).who = who[s] /\ newRow(who[s]).by = added_by
    BY <1>5, <1>8 DEF Enrolled, Admission!StudentRow
<1>10. added_by = "import" => v5[w].onDuplicate = "skip"
    OBVIOUS
<1> HIDE DEF newRow, added_by, added
<1>11. /\ v2' \in [Other -> Enrolled \cup {NoOne}]
       /\ \A s \in Other : IF s \in ids THEN v2'[s] = newRow(who[s]) ELSE v2'[s] = v2[s]
    BY <1>5, <1>9 DEF RegistrationInv, RegistrationTypes
<1>12. Permitted(w)
    <2>1. /\ v1 \in [Thing -> Applied \cup {NoOne}] /\ v3 \in [Other -> List]
          /\ \A a \in Thing : ~Submits(v1[a], v1[a])
        BY RowKinds DEF RegistrationInv, RegistrationTypes, Submits
    <2>2. \A s \in Other : v2'[s] = v2[s] \/ (v2[s] = NoOne /\ v2'[s] \in Enrolled)
        BY <1>6, <1>9, <1>11
    <2>3. \A s \in Other : v2[s] = NoOne /\ v2'[s] # NoOne => v2'[s].from = None
        BY <1>9, <1>11
    <2> QED
        BY <1>1, <1>11, <2>1, <2>2, <2>3 DEF Permitted
<1>13. ASSUME NEW s \in ids, NEW t \in ids, s # t, v5[w].onDuplicate = "skip"
       PROVE  <<who[s], who[t]>> \notin Alike
    <2>1. PICK j \in DOMAIN added : who[s] = added[j]
        BY <1>7
    <2>2. PICK k \in DOMAIN added : who[t] = added[k]
        BY <1>7
    <2>3. \A m, n \in DOMAIN added : m # n => <<added[m], added[n]>> \notin Alike
        BY <1>1, <1>2, <1>13 DEF ImportHolds, added
    <2>4. CASE j # k
        BY <2>1, <2>2, <2>3, <2>4
    <2>5. CASE j = k
        <3> DEFINE S == {r \in ids : who[r] = who[s]}
                   T == {n \in DOMAIN added : added[n] = who[s]}
        <3>1. Cardinality(S) = Cardinality(T)
            BY <1>5 DEF Admission!Cardinality, Cardinality
        <3>2. IsFiniteSet(S)
            BY <1>6, TableAssumption, FS_Subset
        <3>3. IsFiniteSet(T)
            <4>1. IsFiniteSet(1..Len(added))
                BY <1>3, FS_Interval
            <4>2. T \in SUBSET (1..Len(added))
                BY <1>3
            <4> QED
                BY <4>1, <4>2, FS_Subset
        <3>4. s \in S /\ t \in S
            BY <2>1, <2>2, <2>5
        <3>5. \E m, n \in T : m # n
            BY <1>13, <3>1, <3>2, <3>3, <3>4, TwoOfEach
        <3> QED
            BY <2>1, <2>2, <2>3, <2>5, <3>5
    <2> QED
        BY <2>4, <2>5
<1>14. ASSUME NEW s \in ids, NEW t \in Other, t \notin ids, v5[w].onDuplicate = "skip",
              v2[t] # NoOne, v2[t].by = "import", t \notin v4
       PROVE  <<who[s], v2[t].who>> \notin Alike /\ <<v2[t].who, who[s]>> \notin Alike
    <2>1. \A k \in DOMAIN added : LikeNoImported(added[k])
        BY <1>1, <1>2, <1>14 DEF ImportHolds, added
    <2>2. LikeNoImported(who[s])
        BY <1>7, <2>1
    <2>3. <<who[s], v2[t].who>> \notin Alike
        BY <1>14, <2>2 DEF LikeNoImported
    <2>4. <<v2[t].who, who[s]>> \in Alike => <<who[s], v2[t].who>> \in Alike
        BY AdmissionAssumption
    <2> QED
        BY <2>3, <2>4
<1>15. Admission!ImportedOnce'
    <2>1. SUFFICES ASSUME NEW s \in Other, NEW t \in Other, v2'[s] # NoOne, v2'[t] # NoOne, s # t,
                          v2'[s].by = "import", v2'[t].by = "import", s \notin v4, t \notin v4
                   PROVE  <<v2'[s].who, v2'[t].who>> \notin Alike
        <3>1. DOMAIN v2' = Other
            BY <1>11
        <3> QED
            BY <1>1, <3>1 DEF Admission!ImportedOnce, Admission!Free, NoOne, Admission!NoRow
    <2>2. \A r \in {s, t} : r \in ids => v2'[r].who = who[r] /\ v5[w].onDuplicate = "skip"
        BY <1>9, <1>10, <1>11, <2>1
    <2>3. CASE s \notin ids /\ t \notin ids
        <3>1. DOMAIN v2 = Other /\ v2'[s] = v2[s] /\ v2'[t] = v2[t]
            BY <1>11, <2>3 DEF RegistrationInv, RegistrationTypes
        <3> QED
            BY <2>1, <3>1 DEF RegistrationInv, Admission!ImportedOnce, Admission!Free, NoOne
    <2>4. CASE s \in ids /\ t \in ids
        BY <1>13, <2>1, <2>2, <2>4
    <2>5. CASE s \in ids /\ t \notin ids
        BY <1>11, <1>14, <2>1, <2>2, <2>5
    <2>6. CASE s \notin ids /\ t \in ids
        BY <1>11, <1>14, <2>1, <2>2, <2>6
    <2> QED
        BY <2>3, <2>4, <2>5, <2>6
<1> QED
    BY <1>1, <1>12, <1>15, EndStep

LEMMA RegistrationSteps ==
    RegistrationInv /\ [Admission!Next]_(Admission!vars) => RegistrationInv' /\ Admission!StageFollows
<1> SUFFICES ASSUME RegistrationInv, [Admission!Next]_(Admission!vars)
             PROVE  RegistrationInv' /\ Admission!StageFollows
    OBVIOUS
<1>1. CASE UNCHANGED Admission!vars
    <2>1. v1' = v1 /\ v2' = v2 /\ v3' = v3 /\ v4' = v4 /\ v5' = v5
        BY <1>1 DEF Admission!vars
    <2>2. Admission!StageFollows
        BY <2>1 DEF Admission!StageFollows
    <2>3. RegistrationTypes'
        BY <2>1 DEF RegistrationInv, RegistrationTypes, RequestTx, Applied, Enrolled, NoOne,
            Admission!NoRow, Admission!ApplicationRow, Admission!ApplicationStatus,
            Admission!StudentRow, Admission!FileRow
    <2>4. LocksHold' /\ StagesHold' /\ OriginsHold'
        BY <2>1 DEF RegistrationInv, LocksHold, StagesHold, OriginsHold, NoOne, Admission!NoRow
    <2>5. Admission!OneOpenRequest' /\ Admission!ImportedOnce'
        BY <2>1 DEF RegistrationInv, Admission!OneOpenRequest, Admission!ImportedOnce,
            Admission!Free, Admission!NoRow, Admission!ClosedStatuses
    <2>6. ASSUME NEW w \in Worker PROVE WorkHolds(w)'
        <3>1. EditHolds(w)' /\ ConvertHolds(w)' /\ SubmitHolds(w)'
            BY <2>1 DEF RegistrationInv, WorkHolds, EditHolds, EditOf, ConvertHolds, Converts,
                SubmitHolds, OpenOnline, NoOne, Admission!NoRow, Admission!ClosedStatuses,
                Admission!Transitions
        <3>2. AmendHolds(w)' /\ ReplaceHolds(w)' /\ ImportHolds(w)'
            BY <2>1 DEF RegistrationInv, WorkHolds, AmendHolds, ReplaceHolds, ImportHolds,
                LikeNoImported, NoOne, Admission!NoRow
        <3> QED
            BY <3>1, <3>2 DEF WorkHolds
    <2> QED
        BY <2>2, <2>3, <2>4, <2>5, <2>6 DEF RegistrationInv
<1>2. CASE Admission!Next
    <2>1. PICK w \in Worker : \/ Admission!Admitting(w) \/ Admission!Registering(w)
                              \/ Admission!Importing(w) \/ Admission!Abort(w)
        BY <1>2 DEF Admission!Next
    <2>2. CASE Admission!Admitting(w)
        BY <2>2, SubmitSteps, LookForRequestSteps, ReadSteps, EditSteps, ConvertSteps, LinkSteps,
           EnrolledSteps DEF Admission!Admitting
    <2>3. CASE Admission!Registering(w)
        BY <2>3, DeskSteps, StudentSteps, ReplaceSteps, AmendSteps DEF Admission!Registering
    <2>4. CASE Admission!Importing(w)
        BY <2>4, StartImportSteps, LookAtRowSteps, AddRowSteps, CommitImportSteps
        DEF Admission!Importing
    <2>5. CASE Admission!Abort(w)
        BY <2>5, AbortStep
    <2> QED
        BY <2>1, <2>2, <2>3, <2>4, <2>5
<1> QED
    BY <1>1, <1>2

AtRegistrationInv == AtRegistration => RegistrationInv

LEMMA RegistrationStays ==
    /\ OfficeInit => AtRegistrationInv
    /\ AtRegistrationInv /\ [OfficeNext]_office => AtRegistrationInv'
    /\ AtRegistrationInv /\ [OfficeNext]_office
          => [part = "registration" => Admission!StageFollows]_office
    /\ AtRegistrationInv => RegistrationIsExact
<1>1. OfficeInit => AtRegistrationInv
    <2> SUFFICES ASSUME OfficeInit, AtRegistration PROVE RegistrationInv
        BY DEF AtRegistrationInv
    <2>1. /\ v1 = [a \in Thing |-> NoOne] /\ v2 = [s \in Other |-> NoOne]
          /\ v3 = [s \in Other |-> {}] /\ v5 = [w \in Worker |-> Admission!Idle]
        BY DEF OfficeInit, AtRegistration, Admission!Init, NoOne
    <2>2. Admission!Idle \in RequestTx /\ Admission!Idle.step = "idle"
        BY DEF Admission!Idle, RequestTx
    <2>3. RegistrationTypes
        BY <2>1, <2>2, AdmissionAssumption DEF RegistrationTypes
    <2>4. \A w \in Worker : v5[w].step = "idle"
        BY <2>1, <2>2
    <2>5. LocksHold /\ \A w \in Worker : WorkHolds(w)
        BY <2>4 DEF LocksHold, WorkHolds, EditHolds, ConvertHolds, Converts, SubmitHolds, AmendHolds,
                    ReplaceHolds, ImportHolds
    <2>6. StagesHold /\ OriginsHold /\ Admission!OneOpenRequest /\ Admission!ImportedOnce
        BY <2>1 DEF StagesHold, OriginsHold, Admission!OneOpenRequest, Admission!ImportedOnce,
                    Admission!Free, NoOne
    <2> QED
        BY <2>3, <2>5, <2>6 DEF RegistrationInv
<1>2. ASSUME AtRegistrationInv, [OfficeNext]_office, AtRegistration \/ AtRegistration'
      PROVE  AtRegistration /\ RegistrationInv /\ [Admission!Next]_(Admission!vars)
    BY <1>2 DEF AtRegistrationInv, AtRegistration, OfficeNext, office, Admission!vars
<1>3. ASSUME AtRegistrationInv, [OfficeNext]_office PROVE AtRegistrationInv'
    BY <1>2, <1>3, RegistrationSteps DEF AtRegistrationInv
<1>4. ASSUME AtRegistrationInv, [OfficeNext]_office, AtRegistration
      PROVE  Admission!StageFollows
    BY <1>2, <1>4, RegistrationSteps
<1>5. AtRegistrationInv => RegistrationIsExact
    <2> SUFFICES ASSUME RegistrationInv PROVE Admission!RegistrationIsExact
        BY DEF AtRegistrationInv, AtRegistration, RegistrationIsExact
    <2>1. DOMAIN v1 = Thing /\ DOMAIN v2 = Other /\ \A s \in Other : v3[s] \in List
        BY DEF RegistrationInv, RegistrationTypes
    <2>2. Admission!RegisteredOnce
        BY <2>1 DEF RegistrationInv, StagesHold, OriginsHold, Admission!RegisteredOnce,
                    Admission!Free, NoOne
    <2> QED
        BY <2>1, <2>2 DEF RegistrationInv, Admission!RegistrationIsExact,
                          Admission!GuardiansAreOneList
<1> QED
    BY <1>1, <1>3, <1>4, <1>5 DEF AtRegistration

(* The form on the website makes one open application of a person for a    *)
(* course, an application becomes one student, imports add nobody twice    *)
(* and guardians are one list (submitFromWebsite and convert of            *)
(* applications.service.ts, setGuardians of students.service.ts, the       *)
(* student import), for any number of requests, rows and people, whoever   *)
(* they look like.                                                         *)
THEOREM RegistrationStaysExact == OfficeSpec => []RegistrationIsExact
BY RegistrationStays, PTL DEF OfficeSpec

(* A stage follows the one before it though it was checked on a row read   *)
(* earlier (transition, recordPlacement, convert and markEnrolled of       *)
(* applications.service.ts), for any number of requests and applications.  *)
THEOREM StagesStayInPipeline == OfficeSpec => StagesFollowThePipeline
BY RegistrationStays, PTL DEF OfficeSpec, StagesFollowThePipeline

-----------------------------------------------------------------------------
(* Numbers of documents. *)
AtNumbering == part = "numbering"

Contexts == {Numbers!numberContextAt(Calendar[d], b) : d \in DOMAIN Calendar, b \in BranchCode}

Printed == {Numbers!formatNumber(p, ctx, n) : p \in Pattern, ctx \in Contexts, n \in Nat}

Numbered == [scope : Numbers!Scope, sequence : Nat, number : Printed]

NumberTx ==
    [step : {"idle"}]
    \cup [step : {"scoped"}, pattern : Pattern, ctx : Contexts, scope : Numbers!Scope]
    \cup [step : {"numbered"}, scope : Numbers!Scope, sequence : Nat, number : Printed]

NumberTypes ==
    /\ v1 \in Pattern
    /\ v2 \in [Numbers!Scope -> Nat]
    /\ v3 \in Seq(Numbered)
    /\ v4 \in DOMAIN Calendar
    /\ v5 \in [Worker -> NumberTx]

(* A number that is taken is the next of its scope, and nobody else's      *)
(* there while the counter's row is held.                                  *)
TakesNext(w) == v5[w].step = "numbered" => v5[w].sequence = v2[v5[w].scope] + 1

CountersHeld ==
    \A v, w \in Worker :
        v # w /\ v5[v].step = "numbered" /\ v5[w].step = "numbered" => v5[v].scope # v5[w].scope

NumberingInv ==
    NumberTypes /\ (\A w \in Worker : TakesNext(w)) /\ CountersHeld /\ Numbers!NumbersAreExact

LEMMA CalendarIsFinite == DOMAIN Calendar = 1..Len(Calendar) /\ Len(Calendar) \in Nat \ {0}
BY NumberingAssumption, EmptySeq

(* The tables as they are, and a transaction that fits them.               *)
LEMMA NumberRests ==
    ASSUME NumberingInv, NEW w \in Worker, NEW work \in NumberTx, v5' = [v5 EXCEPT ![w] = work],
           v1' \in Pattern, v2' = v2, v3' = v3, v4' \in DOMAIN Calendar,
           work.step = "numbered" =>
              /\ work.sequence = v2[work.scope] + 1
              /\ \A v \in Worker : v5[v].step = "numbered" => v5[v].scope # work.scope
    PROVE  NumberingInv'
<1> USE DEF NumberingInv
<1>1. /\ v5'[w] = work /\ v5' \in [Worker -> NumberTx]
      /\ \A v \in Worker : v # w => v5'[v] = v5[v]
    BY DEF NumberTypes
<1>2. NumberTypes'
    <2>1. v2' \in [Numbers!Scope -> Nat] /\ v3' \in Seq(Numbered)
        BY DEF NumberTypes
    <2> QED
        BY <1>1, <2>1 DEF NumberTypes
<1>3. CountersHeld'
    BY <1>1 DEF CountersHeld
<1>4. \A v \in Worker : TakesNext(v)'
    BY <1>1 DEF TakesNext
<1>5. Numbers!NumbersAreExact'
    BY DEF Numbers!NumbersAreExact, Numbers!IssuedIn
<1> QED
    BY <1>2, <1>3, <1>4, <1>5

LEMMA TakeSteps ==
    ASSUME NumberingInv, NEW w \in Worker
    PROVE  /\ \A b \in BranchCode : Numbers!ReadPattern(w, b) => NumberingInv'
           /\ Numbers!TakeNumber(w) => NumberingInv'
           /\ Numbers!Abort(w) => NumberingInv'
<1>1. ASSUME NEW b \in BranchCode, Numbers!ReadPattern(w, b) PROVE NumberingInv'
    <2> DEFINE ctx  == Numbers!numberContextAt(Calendar[v4], b)
               work == [step |-> "scoped", pattern |-> v1, ctx |-> ctx,
                        scope |-> Numbers!numberScope(v1, ctx)]
    <2>1. v5' = [v5 EXCEPT ![w] = work] /\ v1' = v1 /\ v2' = v2 /\ v3' = v3 /\ v4' = v4
        BY <1>1 DEF Numbers!ReadPattern
    <2>2. v1 \in Pattern /\ v4 \in DOMAIN Calendar
        BY DEF NumberingInv, NumberTypes
    <2>3. ctx \in Contexts
        BY <2>2 DEF Contexts
    <2>4. Numbers!numberScope(v1, ctx) \in Numbers!Scope
        BY <2>2 DEF Numbers!Scope
    <2> HIDE DEF ctx
    <2>5. work \in NumberTx /\ work.step = "scoped"
        BY <2>2, <2>3, <2>4 DEF NumberTx
    <2> HIDE DEF work
    <2> QED
        BY <2>1, <2>2, <2>5, NumberRests
<1>2. ASSUME Numbers!TakeNumber(w) PROVE NumberingInv'
    <2> DEFINE scope == v5[w].scope
               n     == v2[scope] + 1
               text  == Numbers!formatNumber(v5[w].pattern, v5[w].ctx, n)
               work  == [step |-> "numbered", scope |-> scope, sequence |-> n, number |-> text]
    <2>1. /\ v5[w].step = "scoped" /\ ~Numbers!Held(scope)
          /\ v5' = [v5 EXCEPT ![w] = work] /\ v1' = v1 /\ v2' = v2 /\ v3' = v3 /\ v4' = v4
        BY <1>2 DEF Numbers!TakeNumber
    <2>2. scope \in Numbers!Scope /\ v5[w].pattern \in Pattern /\ v5[w].ctx \in Contexts
        BY <2>1 DEF NumberingInv, NumberTypes, NumberTx
    <2>3. n \in Nat /\ v1 \in Pattern /\ v4 \in DOMAIN Calendar
        BY <2>2 DEF NumberingInv, NumberTypes
    <2>4. text \in Printed
        BY <2>2, <2>3 DEF Printed
    <2> HIDE DEF text
    <2>5. work \in NumberTx /\ work.scope = scope /\ work.sequence = n
        BY <2>2, <2>3, <2>4 DEF NumberTx
    <2>6. \A v \in Worker : v5[v].step = "numbered" => v5[v].scope # work.scope
        BY <2>1, <2>5 DEF Numbers!Held
    <2> HIDE DEF work
    <2> QED
        BY <2>1, <2>3, <2>5, <2>6, NumberRests
<1>3. ASSUME Numbers!Abort(w) PROVE NumberingInv'
    <2>1. v5' = [v5 EXCEPT ![w] = Numbers!Idle] /\ v1' = v1 /\ v2' = v2 /\ v3' = v3 /\ v4' = v4
        BY <1>3 DEF Numbers!Abort
    <2>2. Numbers!Idle \in NumberTx /\ Numbers!Idle.step = "idle"
        BY DEF Numbers!Idle, NumberTx
    <2>3. v1 \in Pattern /\ v4 \in DOMAIN Calendar
        BY DEF NumberingInv, NumberTypes
    <2> QED
        BY <2>1, <2>2, <2>3, NumberRests
<1> QED
    BY <1>1, <1>2, <1>3

LEMMA StoreSteps ==
    ASSUME NumberingInv, NEW w \in Worker, Numbers!Store(w)
    PROVE  NumberingInv'
<1> DEFINE scope == v5[w].scope
           n     == Len(v3)
           row   == [scope |-> scope, sequence |-> v5[w].sequence, number |-> v5[w].number]
<1>1. /\ v5[w].step = "numbered" /\ \A k \in DOMAIN v3 : v3[k].number # v5[w].number
      /\ v3' = Append(v3, row) /\ v2' = [v2 EXCEPT ![scope] = v5[w].sequence]
      /\ v5' = [v5 EXCEPT ![w] = Numbers!Idle] /\ v1' = v1 /\ v4' = v4
    BY DEF Numbers!Store
<1>2. v5[w] \in [step : {"numbered"}, scope : Numbers!Scope, sequence : Nat, number : Printed]
    BY <1>1 DEF NumberingInv, NumberTypes, NumberTx
<1>3. /\ row \in Numbered /\ scope \in Numbers!Scope /\ row.scope = scope
      /\ row.sequence = v5[w].sequence /\ row.number = v5[w].number
    BY <1>2 DEF Numbered
<1>4. v5[w].sequence = v2[scope] + 1 /\ v2 \in [Numbers!Scope -> Nat] /\ v3 \in Seq(Numbered)
    BY <1>1 DEF NumberingInv, TakesNext, NumberTypes
<1> HIDE DEF row
<1>5. /\ v3' \in Seq(Numbered) /\ DOMAIN v3 = 1..n /\ n \in Nat /\ DOMAIN v3' = 1..(n + 1)
      /\ v3'[n + 1] = row /\ \A k \in 1..n : v3'[k] = v3[k]
    BY <1>1, <1>3, <1>4, AppendProperties
<1>6. v2' \in [Numbers!Scope -> Nat] /\ v2'[scope] = v2[scope] + 1
      /\ \A s \in Numbers!Scope : s # scope => v2'[s] = v2[s]
    BY <1>1, <1>3, <1>4
<1>7. Numbers!Idle \in NumberTx /\ Numbers!Idle.step = "idle"
    BY DEF Numbers!Idle, NumberTx
<1>8. /\ v5' \in [Worker -> NumberTx] /\ v5'[w].step = "idle"
      /\ \A v \in Worker : v # w => v5'[v] = v5[v]
    BY <1>1, <1>7 DEF NumberingInv, NumberTypes
<1>9. NumberTypes'
    BY <1>1, <1>5, <1>6, <1>8 DEF NumberingInv, NumberTypes
<1>10. CountersHeld'
    BY <1>8 DEF NumberingInv, CountersHeld
<1>11. ASSUME NEW v \in Worker PROVE TakesNext(v)'
    <2>1. CASE v = w
        BY <1>8, <2>1 DEF TakesNext
    <2>2. CASE v # w /\ v5[v].step = "numbered"
        <3>1. v5[v].scope \in Numbers!Scope /\ v5[v].scope # scope /\ TakesNext(v)
            BY <1>1, <2>2 DEF NumberingInv, CountersHeld, NumberTypes, NumberTx
        <3> QED
            BY <1>6, <1>8, <2>2, <3>1 DEF TakesNext
    <2>3. CASE v # w /\ v5[v].step # "numbered"
        BY <1>8, <2>3 DEF TakesNext
    <2> QED
        BY <2>1, <2>2, <2>3
<1>12. \A s \in Numbers!Scope : Numbers!IssuedIn(s) = 1..v2[s]
    BY DEF NumberingInv, Numbers!NumbersAreExact
<1>13. \A j, k \in DOMAIN v3 : j < k =>
           /\ v3[j].number # v3[k].number
           /\ v3[j].scope = v3[k].scope => v3[j].sequence < v3[k].sequence
    BY DEF NumberingInv, Numbers!NumbersAreExact
<1>14. ASSUME NEW s \in Numbers!Scope PROVE Numbers!IssuedIn(s)' = 1..v2'[s]
    <2>1. Numbers!IssuedIn(s) = {v3[k].sequence : k \in {j \in 1..n : v3[j].scope = s}}
        BY <1>5 DEF Numbers!IssuedIn
    <2>2. Numbers!IssuedIn(s)' = {v3'[k].sequence : k \in {j \in 1..(n + 1) : v3'[j].scope = s}}
        BY <1>5 DEF Numbers!IssuedIn
    <2>3. CASE s = scope
        <3>1. Numbers!IssuedIn(s)' = Numbers!IssuedIn(s) \cup {row.sequence}
            BY <1>3, <1>5, <2>1, <2>2, <2>3
        <3>2. v2[s] \in Nat
            BY <1>4
        <3>3. Numbers!IssuedIn(s)' = 1..v2[s] \cup {v2[s] + 1}
            BY <1>3, <1>4, <1>12, <2>3, <3>1
        <3> QED
            BY <1>6, <2>3, <3>2, <3>3
    <2>4. CASE s # scope
        <3>1. Numbers!IssuedIn(s)' = Numbers!IssuedIn(s)
            BY <1>3, <1>5, <2>1, <2>2, <2>4
        <3> QED
            BY <1>6, <1>12, <2>4, <3>1
    <2> QED
        BY <2>3, <2>4
<1>15. ASSUME NEW j \in 1..(n + 1), NEW k \in 1..(n + 1), j < k
       PROVE  /\ v3'[j].number # v3'[k].number
              /\ v3'[j].scope = v3'[k].scope => v3'[j].sequence < v3'[k].sequence
    <2>1. j \in 1..n /\ v3'[j] = v3[j]
        BY <1>5, <1>15
    <2>2. CASE k \in 1..n
        BY <1>5, <1>13, <1>15, <2>1, <2>2
    <2>3. CASE k = n + 1
        <3>1. v3'[k] = row
            BY <1>5, <2>3
        <3>2. v3[j].number # row.number
            BY <1>1, <1>3, <1>5, <2>1
        <3>3. ASSUME v3[j].scope = scope PROVE v3[j].sequence < row.sequence
            <4>1. v3[j].sequence \in Numbers!IssuedIn(scope)
                BY <1>5, <2>1, <3>3 DEF Numbers!IssuedIn
            <4>2. v3[j].sequence \in 1..v2[scope] /\ v2[scope] \in Nat
                BY <1>3, <1>4, <1>12, <4>1
            <4> QED
                BY <1>3, <1>4, <4>2
        <3> QED
            BY <1>3, <2>1, <3>1, <3>2, <3>3
    <2> QED
        BY <1>15, <2>2, <2>3
<1>16. Numbers!NumbersAreExact'
    BY <1>5, <1>14, <1>15 DEF Numbers!NumbersAreExact, Numbers!Scope
<1> QED
    BY <1>9, <1>10, <1>11, <1>16 DEF NumberingInv

LEMMA NumberingSteps == NumberingInv /\ [Numbers!Next]_(Numbers!vars) => NumberingInv'
<1> SUFFICES ASSUME NumberingInv, [Numbers!Next]_(Numbers!vars) PROVE NumberingInv'
    OBVIOUS
<1>1. ASSUME v1' \in Pattern, v4' \in DOMAIN Calendar, v2' = v2, v3' = v3, v5' = v5
      PROVE  NumberingInv'
    <2>1. NumberTypes'
        BY <1>1 DEF NumberingInv, NumberTypes
    <2>2. CountersHeld' /\ (\A w \in Worker : TakesNext(w)') /\ Numbers!NumbersAreExact'
        BY <1>1 DEF NumberingInv, CountersHeld, TakesNext, Numbers!NumbersAreExact,
                    Numbers!IssuedIn, Numbers!Scope
    <2> QED
        BY <2>1, <2>2 DEF NumberingInv
<1>2. v1 \in Pattern /\ v4 \in DOMAIN Calendar
    BY DEF NumberingInv, NumberTypes
<1>3. CASE UNCHANGED Numbers!vars
    BY <1>1, <1>2, <1>3 DEF Numbers!vars
<1>4. ASSUME NEW p \in Pattern, Numbers!setPattern(p) PROVE NumberingInv'
    BY <1>1, <1>2, <1>4 DEF Numbers!setPattern
<1>5. CASE Numbers!DayPasses
    <2>1. v4' = v4 + 1 /\ v4 < Len(Calendar)
        BY <1>5 DEF Numbers!DayPasses
    <2>2. v4' \in DOMAIN Calendar
        BY <1>2, <2>1, CalendarIsFinite
    <2> QED
        BY <1>1, <1>2, <1>5, <2>2 DEF Numbers!DayPasses
<1>6. CASE Numbers!Next
    BY <1>4, <1>5, <1>6, TakeSteps, StoreSteps DEF Numbers!Next
<1> QED
    BY <1>3, <1>6

AtNumberingInv == AtNumbering => NumberingInv

LEMMA NumberingStays ==
    /\ OfficeInit => AtNumberingInv
    /\ AtNumberingInv /\ [OfficeNext]_office => AtNumberingInv'
    /\ AtNumberingInv => NumbersAreExact
<1>1. OfficeInit => AtNumberingInv
    <2> SUFFICES ASSUME OfficeInit, AtNumbering PROVE NumberingInv
        BY DEF AtNumberingInv
    <2>1. /\ v1 \in Pattern /\ v2 = [s \in Numbers!Scope |-> 0] /\ v3 = <<>> /\ v4 = 1
          /\ v5 = [w \in Worker |-> Numbers!Idle]
        BY DEF OfficeInit, AtNumbering, Numbers!Init
    <2>2. Numbers!Idle \in NumberTx /\ Numbers!Idle.step = "idle"
        BY DEF Numbers!Idle, NumberTx
    <2>3. NumberTypes
        BY <2>1, <2>2, CalendarIsFinite DEF NumberTypes
    <2>4. CountersHeld /\ \A w \in Worker : TakesNext(w)
        BY <2>1, <2>2 DEF CountersHeld, TakesNext
    <2>5. Numbers!NumbersAreExact
        <3>1. DOMAIN v3 = {}
            BY <2>1
        <3>2. \A s \in Numbers!Scope : Numbers!IssuedIn(s) = {} /\ 1..v2[s] = {}
            BY <2>1, <3>1 DEF Numbers!IssuedIn
        <3> QED
            BY <3>1, <3>2 DEF Numbers!NumbersAreExact
    <2> QED
        BY <2>3, <2>4, <2>5 DEF NumberingInv
<1>2. ASSUME AtNumberingInv, [OfficeNext]_office, AtNumbering \/ AtNumbering'
      PROVE  AtNumbering /\ NumberingInv /\ [Numbers!Next]_(Numbers!vars)
    BY <1>2 DEF AtNumberingInv, AtNumbering, OfficeNext, office, Numbers!vars
<1>3. ASSUME AtNumberingInv, [OfficeNext]_office PROVE AtNumberingInv'
    BY <1>2, <1>3, NumberingSteps DEF AtNumberingInv
<1>4. AtNumberingInv => NumbersAreExact
    BY DEF AtNumberingInv, AtNumbering, NumberingInv, NumbersAreExact
<1> QED
    BY <1>1, <1>3, <1>4

(* Every scope of a series counts without a gap and in the order of the    *)
(* commits, and no number is printed twice (NumberingService.next), for    *)
(* any patterns, days, branches and numbers of requests.                   *)
THEOREM NumbersStayExact == OfficeSpec => []NumbersAreExact
BY NumberingStays, PTL DEF OfficeSpec

-----------------------------------------------------------------------------
(* Reminders. *)
AtReminders == part = "reminders"

Logged     == [installment : Installment, stage : Reminders!StageKeys,
               outcome : {"queued", "no_contact"}]
ReminderTx ==
    {Reminders!Idle} \cup [step : {"started"}, day : Int]
    \cup [step : {"candidates"}, day : Int, unpaid : SUBSET Installment,
          candidates : SUBSET Installment]
    \cup [step : {"sending"}, day : Int, unpaid : SUBSET Installment, todo : SUBSET Logged,
          recorded : SUBSET Logged]

(* open, reminderLog, mailed, today and tx of FeeReminders, well formed. *)
ReminderTypes ==
    /\ v2 \subseteq Installment /\ v4 \subseteq Logged
    /\ v5 \in [Installment \X Reminders!StageKeys -> Nat]
    /\ v6 \in Int
    /\ v7 \in [Worker -> ReminderTx]

Near(day) == (day - Reminders!LookbackDays) .. (day + Reminders!LookaheadDays)

OnePerKey(rows) == \A r, s \in rows : Reminders!Key(r) = Reminders!Key(s) => r = s

(* A run that looks through what is due has found all of it; what it owes is *)
(* logged, or inserted by it, or still to do.                               *)
RunFits(work, logged) ==
    /\ work.step = "candidates" =>
          work.candidates = {i \in work.unpaid : DueDate[i] \in Near(work.day)}
    /\ work.step = "sending" =>
          /\ OnePerKey(work.todo \cup work.recorded)
          /\ Reminders!Keys(work.recorded) \cap Reminders!Keys(logged) = {}
          /\ Reminders!Owed(work.day, work.unpaid) \subseteq
                Reminders!Keys(logged) \cup Reminders!Keys(work.recorded) \cup Reminders!Keys(work.todo)

(* A key that a run has inserted is not in the log, nor another run's. *)
KeysApart ==
    \A v, w \in Worker : v # w /\ v7[v].step = "sending" /\ v7[w].step = "sending" =>
        Reminders!Keys(v7[v].recorded) \cap Reminders!Keys(v7[w].recorded) = {}

RemindersInv ==
    /\ ReminderTypes
    /\ \A w \in Worker : RunFits(v7[w], v4)
    /\ KeysApart
    /\ OnePerKey(v4)
    /\ Reminders!MailedAsLogged

LEMMA KeysOf ==
    ASSUME NEW rows, NEW k
    PROVE  k \in Reminders!Keys(rows) <=> \E r \in rows : Reminders!Key(r) = k
BY DEF Reminders!Keys

(* The stages' days of grace do not overlap: what falls in one is the latest *)
(* stage reached, and is neither too early nor too late to be looked at.     *)
LEMMA OwedIsDue ==
    ASSUME NEW day \in Int, NEW unpaid \in SUBSET Installment,
           NEW k \in Reminders!Owed(day, unpaid)
    PROVE  /\ k \in unpaid \X Reminders!StageKeys /\ CreatedOn[k[1]] # day
           /\ DueDate[k[1]] \in Near(day)
           /\ \A sent : k[2] \notin sent =>
                 k[2] \in Reminders!StageToSend(Reminders!DaysPastDue(day, k[1]), sent)
<1>1. k \in unpaid \X Reminders!StageKeys /\ CreatedOn[k[1]] # day
    BY DEF Reminders!Owed
<1>2. PICK s \in Reminders!ReminderStages :
          s.key = k[2] /\ Reminders!DaysPastDue(day, k[1]) \in s.threshold .. (s.threshold + 2)
    BY DEF Reminders!Owed, Reminders!GraceDays
<1>3. DueDate[k[1]] \in Int
    BY <1>1, ReminderAssumption
<1> DEFINE past == Reminders!DaysPastDue(day, k[1])
<1>4. past = day - DueDate[k[1]] /\ past \in Int
    BY <1>3 DEF Reminders!DaysPastDue
<1>5. /\ s.threshold \in {-3, 0, 3, 7} /\ past >= s.threshold /\ past - s.threshold <= 2
      /\ \A later \in Reminders!ReminderStages :
            /\ later.threshold \in {-3, 0, 3, 7}
            /\ later.threshold > s.threshold => past < later.threshold
    <2> HIDE DEF past
    <2>1. \A l \in Reminders!ReminderStages : l.threshold \in {-3, 0, 3, 7}
        BY DEF Reminders!ReminderStages
    <2>2. past \in s.threshold .. (s.threshold + 2)
        BY <1>2 DEF past
    <2> QED
        BY <1>4, <2>1, <2>2
<1> HIDE DEF past
<1>6. DueDate[k[1]] \in Near(day)
    <2>1. past >= -3 /\ past <= 9
        BY <1>4, <1>5
    <2> QED
        BY <1>3, <1>4, <2>1 DEF Near, Reminders!LookbackDays, Reminders!LookaheadDays,
                                Reminders!GraceDays
<1>7. ASSUME NEW sent, k[2] \notin sent
      PROVE  k[2] \in Reminders!StageToSend(past, sent)
    BY <1>2, <1>5, <1>7 DEF Reminders!StageToSend, Reminders!GraceDays
<1> QED
    BY <1>1, <1>6, <1>7 DEF past

(* A set whose members are equal has none or one. *)
LEMMA CountOne ==
    ASSUME NEW S, \A a, b \in S : a = b
    PROVE  Reminders!Cardinality(S) = (IF S = {} THEN 0 ELSE 1)
<1>1. Reminders!Cardinality(S) = Cardinality(S)
    BY DEF Reminders!Cardinality, Cardinality
<1>2. CASE S = {}
    BY <1>1, <1>2, FS_EmptySet
<1>3. CASE S # {}
    <2>1. PICK a : a \in S
        BY <1>3
    <2>2. S = {a}
        BY <2>1
    <2> QED
        BY <1>1, <1>3, <2>2, FS_Singleton
<1> QED
    BY <1>2, <1>3

(* A row of the log tells for its key whether it was mailed. *)
LEMMA OneRowEach ==
    ASSUME NEW rows, OnePerKey(rows), NEW k
    PROVE  /\ Reminders!Cardinality({r \in rows : Reminders!Key(r) = k}) <= 1
           /\ Reminders!Cardinality({r \in rows : Reminders!Key(r) = k /\ r.outcome = "queued"})
                 = (IF \E r \in rows : Reminders!Key(r) = k /\ r.outcome = "queued" THEN 1 ELSE 0)
<1> DEFINE A == {r \in rows : Reminders!Key(r) = k}
           B == {r \in rows : Reminders!Key(r) = k /\ r.outcome = "queued"}
<1>1. (\A a, b \in A : a = b) /\ (\A a, b \in B : a = b)
    BY DEF OnePerKey
<1>2. B = {} <=> ~ \E r \in rows : Reminders!Key(r) = k /\ r.outcome = "queued"
    OBVIOUS
<1>3. /\ Reminders!Cardinality(A) = (IF A = {} THEN 0 ELSE 1)
      /\ Reminders!Cardinality(B) = (IF B = {} THEN 0 ELSE 1)
    <2> HIDE DEF A, B
    <2> QED
        BY <1>1, CountOne
<1> QED
    BY <1>2, <1>3

LEMMA RemindersRest ==
    ASSUME RemindersInv, v2' \subseteq Installment, v6' \in Int, v4' = v4, v5' = v5, v7' = v7
    PROVE  RemindersInv'
<1>1. ReminderTypes'
    BY DEF RemindersInv, ReminderTypes
<1>2. /\ \A w \in Worker : RunFits(v7[w], v4)'
      /\ KeysApart' /\ OnePerKey(v4)' /\ Reminders!MailedAsLogged'
    BY DEF RemindersInv, KeysApart, Reminders!MailedAsLogged
<1> QED
    BY <1>1, <1>2 DEF RemindersInv

(* A run takes a step of its own: what it holds then fits the log and what *)
(* the others hold.                                                        *)
LEMMA RunSteps ==
    ASSUME RemindersInv, UNCHANGED <<v2, v4, v5, v6>>,
           NEW w \in Worker, NEW work \in ReminderTx, v7' = [v7 EXCEPT ![w] = work],
           RunFits(work, v4),
           work.step = "sending" =>
               \A v \in Worker \ {w} : v7[v].step = "sending" =>
                   Reminders!Keys(work.recorded) \cap Reminders!Keys(v7[v].recorded) = {}
    PROVE  RemindersInv'
<1>1. ReminderTypes'
    BY DEF RemindersInv, ReminderTypes
<1>2. /\ v7'[w] = work
      /\ \A v \in Worker \ {w} : v7'[v] = v7[v]
    BY DEF RemindersInv, ReminderTypes
<1>3. \A v \in Worker : RunFits(v7[v], v4)'
    <2>1. \A v \in Worker : RunFits(v7'[v], v4)
        BY <1>2 DEF RemindersInv
    <2> QED
        BY <2>1
<1>4. KeysApart'
    <2> SUFFICES ASSUME NEW u \in Worker, NEW v \in Worker, u # v,
                        v7'[u].step = "sending", v7'[v].step = "sending"
                 PROVE  Reminders!Keys(v7'[u].recorded) \cap Reminders!Keys(v7'[v].recorded) = {}
        BY DEF KeysApart
    <2>1. CASE u = w
        BY <1>2, <2>1
    <2>2. CASE v = w
        BY <1>2, <2>2
    <2>3. CASE u # w /\ v # w
        BY <1>2, <2>3 DEF RemindersInv, KeysApart
    <2> QED
        BY <2>1, <2>2, <2>3
<1>5. OnePerKey(v4)' /\ Reminders!MailedAsLogged'
    BY DEF RemindersInv, Reminders!MailedAsLogged
<1> QED
    BY <1>1, <1>3, <1>4, <1>5 DEF RemindersInv

LEMMA LookingSteps ==
    ASSUME RemindersInv, NEW w \in Worker,
           \/ Reminders!Start(w) \/ Reminders!NoCandidates(w)
           \/ Reminders!ReadCandidates(w) \/ Reminders!Abort(w)
    PROVE  RemindersInv'
<1>1. v7[w] \in ReminderTx /\ v6 \in Int /\ v2 \subseteq Installment
    BY DEF RemindersInv, ReminderTypes
<1>2. UNCHANGED <<v2, v4, v5, v6>>
    BY DEF Reminders!Start, Reminders!NoCandidates, Reminders!ReadCandidates, Reminders!Abort,
           Reminders!Elsewhere
<1>3. ASSUME v7' = [v7 EXCEPT ![w] = Reminders!Idle] PROVE RemindersInv'
    <2>1. Reminders!Idle \in ReminderTx /\ Reminders!Idle.step = "idle"
        BY DEF Reminders!Idle, ReminderTx
    <2>2. RunFits(Reminders!Idle, v4)
        BY <2>1 DEF RunFits
    <2> HIDE DEF Reminders!Idle
    <2> QED
        BY <1>2, <1>3, <2>1, <2>2, RunSteps
<1>4. CASE Reminders!Start(w)
    <2> DEFINE work == [step |-> "started", day |-> v6]
    <2>1. v7' = [v7 EXCEPT ![w] = work] /\ work \in ReminderTx /\ work.step = "started"
        BY <1>1, <1>4 DEF Reminders!Start, ReminderTx
    <2> HIDE DEF work
    <2>2. RunFits(work, v4)
        BY <2>1 DEF RunFits
    <2> QED
        BY <1>2, <2>1, <2>2, RunSteps
<1>5. CASE Reminders!ReadCandidates(w)
    <2>1. v7[w].step = "started" /\ v7[w].day \in Int
        BY <1>1, <1>5 DEF Reminders!ReadCandidates, ReminderTx, Reminders!Idle
    <2> DEFINE work == [step |-> "candidates", day |-> v7[w].day, unpaid |-> v2,
                        candidates |-> Reminders!Candidates(v7[w].day)]
    <2>2. v7' = [v7 EXCEPT ![w] = work]
        BY <1>5 DEF Reminders!ReadCandidates
    <2>3. Reminders!Candidates(v7[w].day) = {i \in v2 : DueDate[i] \in Near(v7[w].day)}
        BY DEF Reminders!Candidates, Near
    <2>4. work \in ReminderTx
        BY <1>1, <2>1, <2>3 DEF ReminderTx
    <2>5. RunFits(work, v4) /\ work.step # "sending"
        BY <2>3 DEF RunFits
    <2> HIDE DEF work
    <2> QED
        BY <1>2, <2>2, <2>4, <2>5, RunSteps
<1> QED
    BY <1>3, <1>4, <1>5 DEF Reminders!NoCandidates, Reminders!Abort

LEMMA ReadSentSteps ==
    ASSUME RemindersInv, NEW w \in Worker, Reminders!ReadSent(w)
    PROVE  RemindersInv'
<1>1. /\ v7[w].step = "candidates" /\ v7[w] \in ReminderTx /\ v2 \subseteq Installment
      /\ UNCHANGED <<v2, v4, v5, v6>>
    BY DEF RemindersInv, ReminderTypes, Reminders!ReadSent, Reminders!Elsewhere
<1> DEFINE day    == v7[w].day
           unpaid == v7[w].unpaid
           due    == {i \in v7[w].candidates : CreatedOn[i] # day}
           row(i, s) == [installment |-> i, stage |-> s,
                         outcome |-> IF i \in v3 THEN "queued" ELSE "no_contact"]
           all    == {row(i, s) : i \in due, s \in Reminders!StageKeys}
           todo   == {r \in all : r.stage \in Reminders!StageToSend(
                          Reminders!DaysPastDue(day, r.installment), Reminders!Sent(r.installment))}
           work   == [step |-> "sending", day |-> day, unpaid |-> unpaid, todo |-> todo,
                      recorded |-> {}]
<1>2. v7' = [v7 EXCEPT ![w] = work]
    BY DEF Reminders!ReadSent
<1>3. /\ day \in Int /\ unpaid \in SUBSET Installment
      /\ v7[w].candidates = {i \in unpaid : DueDate[i] \in Near(day)}
    <2>1. /\ v7[w].day \in Int /\ v7[w].unpaid \in SUBSET Installment
          /\ v7[w].candidates \in SUBSET Installment
        BY <1>1 DEF ReminderTx, Reminders!Idle
    <2>2. v7[w].candidates = {i \in v7[w].unpaid : DueDate[i] \in Near(v7[w].day)}
        BY <1>1 DEF RemindersInv, RunFits
    <2> QED
        BY <2>1, <2>2
<1>4. \A i \in due, s \in Reminders!StageKeys :
          row(i, s) \in Logged /\ row(i, s).installment = i /\ row(i, s).stage = s
    BY <1>3 DEF Logged
<1>5. todo \in SUBSET Logged
    <2> HIDE DEF row
    <2> QED
        BY <1>4
<1>6. work \in ReminderTx
    <2> HIDE DEF todo
    <2> QED
        BY <1>3, <1>5 DEF ReminderTx
<1>7. OnePerKey(todo)
    <2> SUFFICES ASSUME NEW r \in todo, NEW q \in todo, Reminders!Key(r) = Reminders!Key(q)
                 PROVE  r = q
        BY DEF OnePerKey
    <2>1. r.installment = q.installment /\ r.stage = q.stage
        BY DEF Reminders!Key
    <2>2. PICK i \in due, s \in Reminders!StageKeys : r = row(i, s)
        OBVIOUS
    <2>3. PICK j \in due, z \in Reminders!StageKeys : q = row(j, z)
        OBVIOUS
    <2> HIDE DEF row
    <2> QED
        BY <1>4, <2>1, <2>2, <2>3
<1>8. Reminders!Owed(day, unpaid) \subseteq
          Reminders!Keys(v4) \cup Reminders!Keys({}) \cup Reminders!Keys(todo)
    <2> SUFFICES ASSUME NEW k \in Reminders!Owed(day, unpaid), k \notin Reminders!Keys(v4)
                 PROVE  k \in Reminders!Keys(todo)
        OBVIOUS
    <2>1. /\ k \in unpaid \X Reminders!StageKeys /\ CreatedOn[k[1]] # day
          /\ DueDate[k[1]] \in Near(day)
          /\ \A sent : k[2] \notin sent =>
                 k[2] \in Reminders!StageToSend(Reminders!DaysPastDue(day, k[1]), sent)
        BY <1>3, OwedIsDue
    <2>2. k[1] \in due /\ k[2] \in Reminders!StageKeys /\ k = <<k[1], k[2]>>
        BY <1>3, <2>1
    <2>3. k[2] \notin Reminders!Sent(k[1])
        <3> SUFFICES ASSUME k[2] \in Reminders!Sent(k[1]) PROVE FALSE
            OBVIOUS
        <3>1. PICK r \in v4 : r.installment = k[1] /\ r.stage = k[2]
            BY DEF Reminders!Sent
        <3>2. Reminders!Key(r) = k
            BY <2>2, <3>1 DEF Reminders!Key
        <3> QED
            BY <3>1, <3>2, KeysOf
    <2>4. row(k[1], k[2]) \in all
        BY <2>2
    <2>5. row(k[1], k[2]).installment = k[1] /\ row(k[1], k[2]).stage = k[2]
        BY <1>4, <2>2
    <2>6. row(k[1], k[2]) \in todo /\ Reminders!Key(row(k[1], k[2])) = k
        <3> HIDE DEF row, all
        <3> QED
            BY <2>1, <2>2, <2>3, <2>4, <2>5 DEF Reminders!Key
    <2> HIDE DEF todo, row
    <2> QED
        BY <2>6, KeysOf
<1>9. Reminders!Keys({}) = {}
    BY DEF Reminders!Keys
<1>10. RunFits(work, v4)
    <2> HIDE DEF todo
    <2>1. todo \cup {} = todo
        OBVIOUS
    <2> QED
        BY <1>7, <1>8, <1>9, <2>1 DEF RunFits
<1>11. work.recorded = {}
    OBVIOUS
<1> HIDE DEF work
<1> QED
    BY <1>1, <1>2, <1>6, <1>9, <1>10, <1>11, RunSteps

(* An insert records the row, or finds that its key is in the log. *)
LEMMA InsertSteps ==
    ASSUME RemindersInv, NEW w \in Worker,
           NEW r \in UNION {v7[v].todo : v \in {v \in Worker : v7[v].step = "sending"}},
           Reminders!Record(w, r)
    PROVE  RemindersInv'
<1>1. /\ v7[w].step = "sending" /\ v7[w] \in ReminderTx /\ r \in v7[w].todo
      /\ UNCHANGED <<v2, v4, v5, v6>>
    <2>1. v7[w] \in ReminderTx
        BY DEF RemindersInv, ReminderTypes
    <2>2. v7[w].step = "sending" /\ r \in v7[w].todo /\ UNCHANGED <<v2, v4, v5, v6>>
        BY DEF Reminders!Record, Reminders!Elsewhere
    <2> QED
        BY <2>1, <2>2
<1> DEFINE key      == Reminders!Key(r)
           todo     == v7[w].todo
           recorded == v7[w].recorded
           left     == todo \ {r}
           held     == IF key \in Reminders!Keys(v4) THEN recorded ELSE recorded \cup {r}
           work     == [step |-> "sending", day |-> v7[w].day, unpaid |-> v7[w].unpaid,
                        todo |-> left, recorded |-> held]
<1>2. v7[w] \in [step : {"sending"}, day : Int, unpaid : SUBSET Installment,
                 todo : SUBSET Logged, recorded : SUBSET Logged]
    BY <1>1 DEF ReminderTx, Reminders!Idle
<1>3. v7' = [v7 EXCEPT ![w] = work]
    <2>1. [[v7[w] EXCEPT !.todo = left] EXCEPT !.recorded = held] = work
        <3> DEFINE fewer == [step |-> "sending", day |-> v7[w].day, unpaid |-> v7[w].unpaid,
                             todo |-> left, recorded |-> recorded]
        <3>1. left \in SUBSET Logged
            BY <1>2
        <3> HIDE DEF left, held
        <3>2. [v7[w] EXCEPT !.todo = left] = fewer
            BY <1>2, <3>1
        <3>3. [fewer EXCEPT !.recorded = held] = work
            OBVIOUS
        <3> HIDE DEF fewer, work
        <3> QED
            BY <3>2, <3>3
    <2>2. v7' = [v7 EXCEPT ![w] = [[v7[w] EXCEPT !.todo = left] EXCEPT !.recorded = held]]
        BY <1>1 DEF Reminders!Record, RemindersInv, ReminderTypes
    <2> HIDE DEF work, left, held
    <2> QED
        BY <2>1, <2>2
<1>4. /\ OnePerKey(todo \cup recorded)
      /\ Reminders!Keys(recorded) \cap Reminders!Keys(v4) = {}
      /\ Reminders!Owed(v7[w].day, v7[w].unpaid) \subseteq
            Reminders!Keys(v4) \cup Reminders!Keys(recorded) \cup Reminders!Keys(todo)
    BY <1>1 DEF RemindersInv, RunFits
<1>5. left \subseteq todo /\ held \subseteq recorded \cup {r} /\ recorded \subseteq held
    OBVIOUS
<1>6. work \in ReminderTx
    <2>1. left \in SUBSET Logged /\ held \in SUBSET Logged
        BY <1>1, <1>2
    <2> HIDE DEF left, held
    <2> QED
        BY <1>2, <2>1 DEF ReminderTx
<1>7. OnePerKey(left \cup held)
    BY <1>1, <1>4, <1>5 DEF OnePerKey
<1>8. /\ Reminders!Keys(held) \cap Reminders!Keys(v4) = {}
      /\ \A k \in Reminders!Keys(held) : k \in Reminders!Keys(recorded) \/ k = key
    <2>1. \A k \in Reminders!Keys(held) : \/ k \in Reminders!Keys(recorded)
                                          \/ k = key /\ key \notin Reminders!Keys(v4)
        BY DEF Reminders!Keys
    <2> HIDE DEF key, held
    <2> QED
        BY <1>4, <2>1
<1>9. Reminders!Owed(v7[w].day, v7[w].unpaid) \subseteq
          Reminders!Keys(v4) \cup Reminders!Keys(held) \cup Reminders!Keys(left)
    <2>1. Reminders!Keys(recorded) \subseteq Reminders!Keys(held)
        BY <1>5 DEF Reminders!Keys
    <2>2. key \in Reminders!Keys(v4) \cup Reminders!Keys(held)
        BY DEF Reminders!Keys
    <2>3. \A k \in Reminders!Keys(todo) : k \in Reminders!Keys(left) \/ k = key
        BY DEF Reminders!Keys
    <2> HIDE DEF key, held, left, todo, recorded
    <2> QED
        BY <1>4, <2>1, <2>2, <2>3
<1>10. RunFits(work, v4)
    <2> HIDE DEF left, held
    <2> QED
        BY <1>7, <1>8, <1>9 DEF RunFits
<1>11. ASSUME NEW v \in Worker \ {w}, v7[v].step = "sending"
       PROVE  Reminders!Keys(work.recorded) \cap Reminders!Keys(v7[v].recorded) = {}
    <2>1. key \notin Reminders!Keys(v7[v].recorded)
        BY <1>11 DEF Reminders!Record
    <2>2. Reminders!Keys(recorded) \cap Reminders!Keys(v7[v].recorded) = {}
        BY <1>1, <1>11 DEF RemindersInv, KeysApart
    <2> HIDE DEF key, held, recorded
    <2>3. work.recorded = held
        OBVIOUS
    <2> QED
        BY <1>8, <2>1, <2>2, <2>3
<1> HIDE DEF work
<1> QED
    BY <1>1, <1>3, <1>6, <1>10, <1>11, RunSteps

(* A commit logs keys that were not in the log, so each row it adds is the   *)
(* first of its key, and mails it once if it says so.                        *)
LEMMA CommitSteps ==
    ASSUME RemindersInv, NEW w \in Worker, Reminders!Commit(w)
    PROVE  RemindersInv'
<1>1. /\ v7[w].step = "sending" /\ v7[w] \in ReminderTx
      /\ UNCHANGED <<v2, v6>>
    BY DEF RemindersInv, ReminderTypes, Reminders!Commit, Reminders!Elsewhere
<1> DEFINE recorded == v7[w].recorded
           sent(k)  == {r \in recorded : Reminders!Key(r) = k /\ r.outcome = "queued"}
<1>2. recorded \in SUBSET Logged /\ v4 \subseteq Logged
    BY <1>1 DEF ReminderTx, Reminders!Idle, RemindersInv, ReminderTypes
<1>3. /\ v4' = v4 \cup recorded
      /\ v5' = [k \in DOMAIN v5 |-> v5[k] + Reminders!Cardinality(sent(k))]
      /\ v7' = [v7 EXCEPT ![w] = Reminders!Idle]
    BY DEF Reminders!Commit
<1>4. OnePerKey(recorded) /\ Reminders!Keys(recorded) \cap Reminders!Keys(v4) = {} /\ OnePerKey(v4)
    BY <1>1 DEF RemindersInv, RunFits, OnePerKey
<1>5. \A r \in recorded, q \in v4 : Reminders!Key(r) # Reminders!Key(q)
    BY <1>4 DEF Reminders!Keys
<1>6. OnePerKey(v4)'
    <2>1. OnePerKey(v4 \cup recorded)
        BY <1>4, <1>5 DEF OnePerKey
    <2> QED
        BY <1>3, <2>1 DEF OnePerKey
<1>7. DOMAIN v5 = Installment \X Reminders!StageKeys
    BY DEF RemindersInv, ReminderTypes
<1> DEFINE queued(rows, k) == \E r \in rows : Reminders!Key(r) = k /\ r.outcome = "queued"
<1>8. ASSUME NEW k \in DOMAIN v5
      PROVE  /\ v5[k] = (IF queued(v4, k) THEN 1 ELSE 0)
             /\ v5'[k] = (IF queued(v4', k) THEN 1 ELSE 0)
    <2>1. v5[k] = Reminders!Cardinality({r \in {r \in v4 : Reminders!Key(r) = k} : r.outcome = "queued"})
        BY <1>8 DEF RemindersInv, Reminders!MailedAsLogged
    <2>2. {r \in {r \in v4 : Reminders!Key(r) = k} : r.outcome = "queued"}
             = {r \in v4 : Reminders!Key(r) = k /\ r.outcome = "queued"}
        OBVIOUS
    <2>3. v5[k] = (IF queued(v4, k) THEN 1 ELSE 0)
        BY <1>4, <2>1, <2>2, OneRowEach
    <2>4. Reminders!Cardinality(sent(k)) = (IF queued(recorded, k) THEN 1 ELSE 0)
        BY <1>4, OneRowEach, ZenonT(30)
    <2>5. v5'[k] = v5[k] + Reminders!Cardinality(sent(k))
        BY <1>3, <1>8
    <2>6. ~ (queued(v4, k) /\ queued(recorded, k))
        BY <1>5
    <2>7. queued(v4', k) <=> queued(v4, k) \/ queued(recorded, k)
        BY <1>3
    <2> HIDE DEF queued, sent
    <2> QED
        BY <2>3, <2>4, <2>5, <2>6, <2>7
<1>9. ReminderTypes'
    <2>1. v5' \in [Installment \X Reminders!StageKeys -> Nat]
        <3> HIDE DEF queued, sent
        <3>1. DOMAIN v5' = DOMAIN v5 /\ v5' = [k \in DOMAIN v5 |-> v5'[k]]
            BY <1>3
        <3>2. \A k \in DOMAIN v5 : v5'[k] \in Nat
            BY <1>8
        <3> QED
            BY <1>7, <3>1, <3>2
    <2>2. Reminders!Idle \in ReminderTx
        BY DEF ReminderTx
    <2>3. v7' \in [Worker -> ReminderTx]
        BY <1>3, <2>2 DEF RemindersInv, ReminderTypes
    <2>4. v2' \subseteq Installment /\ v4' \subseteq Logged /\ v6' \in Int
        BY <1>1, <1>2, <1>3 DEF RemindersInv, ReminderTypes
    <2> QED
        BY <2>1, <2>3, <2>4 DEF ReminderTypes
<1>10. /\ v7'[w] = Reminders!Idle /\ Reminders!Idle.step = "idle"
       /\ \A v \in Worker \ {w} : v7'[v] = v7[v]
    BY <1>3 DEF RemindersInv, ReminderTypes, Reminders!Idle
<1>11. KeysApart'
    BY <1>10 DEF RemindersInv, KeysApart
<1>12. Reminders!Keys(v4') = Reminders!Keys(v4) \cup Reminders!Keys(recorded)
    BY <1>3 DEF Reminders!Keys
<1>13. \A v \in Worker : RunFits(v7[v], v4)'
    <2> SUFFICES ASSUME NEW v \in Worker PROVE RunFits(v7'[v], v4')
        OBVIOUS
    <2>1. CASE v = w
        BY <1>10, <2>1 DEF RunFits
    <2>2. CASE v # w
        <3>1. v7'[v] = v7[v] /\ RunFits(v7[v], v4)
            BY <1>10, <2>2 DEF RemindersInv
        <3>2. v7[v].step = "sending" =>
                  Reminders!Keys(recorded) \cap Reminders!Keys(v7[v].recorded) = {}
            BY <1>1, <2>2 DEF RemindersInv, KeysApart
        <3> HIDE DEF recorded
        <3>3. RunFits(v7[v], v4')
            BY <1>12, <3>1, <3>2 DEF RunFits
        <3> QED
            BY <3>1, <3>3
    <2> QED
        BY <2>1, <2>2
<1>14. Reminders!MailedAsLogged'
    <2> SUFFICES ASSUME NEW k \in DOMAIN v5'
                 PROVE  /\ v5'[k] = Reminders!Cardinality(
                               {r \in {r \in v4' : Reminders!Key(r) = k} : r.outcome = "queued"})
                        /\ Reminders!Cardinality({r \in v4' : Reminders!Key(r) = k}) <= 1
        BY DEF Reminders!MailedAsLogged
    <2>1. k \in DOMAIN v5
        BY <1>3
    <2>2. {r \in {r \in v4' : Reminders!Key(r) = k} : r.outcome = "queued"}
             = {r \in v4' : Reminders!Key(r) = k /\ r.outcome = "queued"}
        OBVIOUS
    <2>3. OnePerKey(v4')
        BY <1>6
    <2>4. /\ Reminders!Cardinality({r \in v4' : Reminders!Key(r) = k}) <= 1
          /\ Reminders!Cardinality({r \in v4' : Reminders!Key(r) = k /\ r.outcome = "queued"})
                = (IF queued(v4', k) THEN 1 ELSE 0)
        BY <2>3, OneRowEach
    <2> HIDE DEF queued
    <2> QED
        BY <1>8, <2>1, <2>2, <2>4
<1> QED
    BY <1>6, <1>9, <1>11, <1>13, <1>14 DEF RemindersInv

LEMMA ReminderSteps == RemindersInv /\ [Reminders!Next]_(Reminders!vars) => RemindersInv'
<1> SUFFICES ASSUME RemindersInv, [Reminders!Next]_(Reminders!vars) PROVE RemindersInv'
    OBVIOUS
<1>1. v2 \subseteq Installment /\ v6 \in Int
    BY DEF RemindersInv, ReminderTypes
<1>2. CASE UNCHANGED Reminders!vars
    BY <1>1, <1>2, RemindersRest DEF Reminders!vars
<1>3. ASSUME NEW i \in Installment, Reminders!MoneyMoves(i) PROVE RemindersInv'
    <2>1. v2' \subseteq Installment
        BY <1>1, <1>3 DEF Reminders!MoneyMoves
    <2> QED
        BY <1>1, <1>3, <2>1, RemindersRest DEF Reminders!MoneyMoves
<1>4. CASE Reminders!SwitchModule
    BY <1>1, <1>4, RemindersRest DEF Reminders!SwitchModule
<1>5. CASE Reminders!DayPasses
    <2>1. v6' \in Int
        BY <1>1, <1>5 DEF Reminders!DayPasses
    <2> QED
        BY <1>1, <1>5, <2>1, RemindersRest DEF Reminders!DayPasses
<1>6. CASE Reminders!Next
    BY <1>3, <1>4, <1>5, <1>6, LookingSteps, ReadSentSteps, InsertSteps, CommitSteps
       DEF Reminders!Next
<1> QED
    BY <1>2, <1>6

(* A run that ends leaves nothing to do, so what it owed is in the log.      *)
LEMMA NothingIsLeftOut == RemindersInv => Reminders!NothingLeftOut
<1> SUFFICES ASSUME RemindersInv, NEW w \in Worker
             PROVE  /\ Reminders!Commit(w) =>
                          Reminders!Owed(v7[w].day, v7[w].unpaid) \subseteq Reminders!Keys(v4')
                    /\ Reminders!NoCandidates(w) => Reminders!Owed(v7[w].day, v2) = {}
    BY DEF Reminders!NothingLeftOut
<1>1. v7[w] \in ReminderTx /\ v2 \in SUBSET Installment
    BY DEF RemindersInv, ReminderTypes
<1>2. ASSUME Reminders!Commit(w)
      PROVE  Reminders!Owed(v7[w].day, v7[w].unpaid) \subseteq Reminders!Keys(v4')
    <2>1. v7[w].step = "sending" /\ v7[w].todo = {} /\ v4' = v4 \cup v7[w].recorded
        BY <1>2 DEF Reminders!Commit
    <2>2. Reminders!Owed(v7[w].day, v7[w].unpaid) \subseteq
              Reminders!Keys(v4) \cup Reminders!Keys(v7[w].recorded) \cup Reminders!Keys(v7[w].todo)
        BY <2>1 DEF RemindersInv, RunFits
    <2>3. Reminders!Keys(v4') = Reminders!Keys(v4) \cup Reminders!Keys(v7[w].recorded)
        BY <2>1 DEF Reminders!Keys
    <2>4. Reminders!Keys(v7[w].todo) = {}
        BY <2>1 DEF Reminders!Keys
    <2> QED
        BY <2>2, <2>3, <2>4
<1>3. ASSUME Reminders!NoCandidates(w) PROVE Reminders!Owed(v7[w].day, v2) = {}
    <2>1. v7[w].step = "started" /\ Reminders!Candidates(v7[w].day) = {}
        BY <1>3 DEF Reminders!NoCandidates
    <2>2. v7[w].day \in Int
        BY <1>1, <2>1 DEF ReminderTx, Reminders!Idle
    <2> SUFFICES ASSUME NEW k \in Reminders!Owed(v7[w].day, v2) PROVE FALSE
        OBVIOUS
    <2>3. k \in v2 \X Reminders!StageKeys /\ DueDate[k[1]] \in Near(v7[w].day)
        BY <1>1, <2>2, OwedIsDue
    <2>4. k[1] \in Reminders!Candidates(v7[w].day)
        BY <2>3 DEF Reminders!Candidates, Near
    <2> QED
        BY <2>1, <2>4
<1> QED
    BY <1>2, <1>3

AtRemindersInv == AtReminders => RemindersInv

LEMMA RemindersStay ==
    /\ OfficeInit => AtRemindersInv
    /\ AtRemindersInv /\ [OfficeNext]_office => AtRemindersInv'
    /\ AtRemindersInv /\ [OfficeNext]_office
          => [part = "reminders" => Reminders!MailedAsLogged' /\ Reminders!NothingLeftOut]_office
<1>1. OfficeInit => AtRemindersInv
    <2> SUFFICES ASSUME OfficeInit, AtReminders PROVE RemindersInv
        BY DEF AtRemindersInv
    <2>1. /\ v2 = Installment /\ v4 = {}
          /\ v5 = [k \in Installment \X Reminders!StageKeys |-> 0]
          /\ v6 = FirstDay /\ v7 = [w \in Worker |-> Reminders!Idle]
        BY DEF OfficeInit, AtReminders, Reminders!Init
    <2>2. Reminders!Idle \in ReminderTx /\ Reminders!Idle.step = "idle"
        BY DEF Reminders!Idle, ReminderTx
    <2> HIDE DEF Reminders!Idle
    <2>3. ReminderTypes
        BY <2>1, <2>2, ReminderAssumption DEF ReminderTypes
    <2>4. (\A w \in Worker : RunFits(v7[w], v4)) /\ KeysApart
        BY <2>1, <2>2 DEF RunFits, KeysApart
    <2>5. OnePerKey(v4)
        BY <2>1 DEF OnePerKey
    <2>6. Reminders!MailedAsLogged
        <3> SUFFICES ASSUME NEW k \in DOMAIN v5
                     PROVE  /\ v5[k] = Reminders!Cardinality(
                                   {r \in {r \in v4 : Reminders!Key(r) = k} : r.outcome = "queued"})
                            /\ Reminders!Cardinality({r \in v4 : Reminders!Key(r) = k}) <= 1
            BY DEF Reminders!MailedAsLogged
        <3>1. /\ {r \in {r \in v4 : Reminders!Key(r) = k} : r.outcome = "queued"} = {}
              /\ {r \in v4 : Reminders!Key(r) = k} = {} /\ v5[k] = 0
            BY <2>1
        <3>2. Reminders!Cardinality({}) = 0
            BY CountOne
        <3> QED
            BY <3>1, <3>2
    <2> QED
        BY <2>3, <2>4, <2>5, <2>6 DEF RemindersInv
<1>2. ASSUME AtRemindersInv, [OfficeNext]_office, AtReminders \/ AtReminders'
      PROVE  AtReminders /\ RemindersInv /\ [Reminders!Next]_(Reminders!vars)
    BY <1>2 DEF AtRemindersInv, AtReminders, OfficeNext, office, Reminders!vars
<1>3. ASSUME AtRemindersInv, [OfficeNext]_office PROVE AtRemindersInv'
    BY <1>2, <1>3, ReminderSteps DEF AtRemindersInv
<1>4. ASSUME AtRemindersInv, [OfficeNext]_office, part = "reminders"
      PROVE  Reminders!MailedAsLogged' /\ Reminders!NothingLeftOut
    <2>1. RemindersInv /\ RemindersInv'
        BY <1>2, <1>4, ReminderSteps DEF AtReminders
    <2> QED
        BY <2>1, NothingIsLeftOut DEF RemindersInv
<1> QED
    BY <1>1, <1>3, <1>4

(* A stage of an instalment is emailed exactly when it is logged as queued,  *)
(* once however many workers run the job and wherever they are cut off, and  *)
(* a run that ends without an error leaves nothing out (run of               *)
(* fee-reminders.service.ts), for any instalments, days and payments.        *)
THEOREM RemindersStayExact == OfficeSpec => RemindersAreExact
BY RemindersStay, PTL DEF OfficeSpec, RemindersAreExact

-----------------------------------------------------------------------------
(* Paged lists. *)
AtPaging == part = "paging"

ListRow == [id : Nat, key : Nat]

(* The rows, the open transaction and the walk of Paging, well formed. *)
PagingTypes ==
    /\ v1 \in DOMAIN Lists!Lists
    /\ v2 \subseteq ListRow /\ IsFiniteSet(v2)
    /\ v3 \in [open : BOOLEAN, stamp : Nat, inserted : SUBSET ListRow] /\ IsFiniteSet(v3.inserted)
    /\ v4 \in Nat /\ v5 \in Nat
    /\ v6 \in {Lists!Start, Lists!End} \cup [at : {"after"}, key : Nat \X Nat]
    /\ v7 \in Seq(ListRow)
    /\ v8 \subseteq v2

InListOrder(shown) ==
    \A k \in 1 .. Len(shown) - 1 : Lists!After(Lists!SortKey(shown[k + 1]), Lists!SortKey(shown[k]))

Missed(r, shown) ==
    /\ Lists!Lists[v1].by = "stamp"
    /\ \E k \in 1..Len(shown) : Lists!SameMillisecond(r, shown[k])

(* What stays is shown, or comes after the cursor, or was stamped in the     *)
(* millisecond of a row that is shown.                                       *)
Accounted(r) ==
    \/ \E k \in 1..Len(v7) : r = v7[k]
    \/ v6.at = "after" /\ Lists!After(Lists!SortKey(r), v6.key)
    \/ Missed(r, v7)

PagingInv ==
    /\ PagingTypes
    /\ InListOrder(v7)
    /\ v6 = Lists!Start => v7 = <<>> /\ v8 = {}
    /\ v6.at = "after" => v7 # <<>> /\ v6.key = Lists!EncodeCursor(v7[Len(v7)])
    /\ v6 # Lists!Start => \A r \in v8 : Accounted(r)

LEMMA Millisecond ==
    ASSUME NEW m \in Nat \ {0}, NEW k \in Nat
    PROVE  /\ k \div m \in Nat /\ (k \div m) * m \in Nat
           /\ (k \div m) * m <= k
           /\ \A j \in Nat : j <= k /\ (k \div m) * m <= j => j \div m = k \div m
<1>1. ASSUME NEW j \in Nat
      PROVE  /\ j \div m \in Nat /\ (j \div m) * m \in Nat
             /\ (j \div m) * m <= j /\ j < (j \div m) * m + m
    <2>1. j \div m \in Nat
        OBVIOUS
    <2>2. (j \div m) * m \in Nat
        BY <2>1
    <2>3. (j \div m) * m <= j /\ j < (j \div m) * m + m
        OBVIOUS
    <2> QED
        BY <2>1, <2>2, <2>3
<1>2. ASSUME NEW j \in Nat, j <= k, (k \div m) * m <= j PROVE j \div m = k \div m
    <2>1. k \div m \in Nat /\ j \div m \in Nat
        BY <1>1
    <2>2. j \div m <= k \div m
        BY <1>2
    <2>3. ASSUME j \div m < k \div m PROVE FALSE
        <3>1. (j \div m) * m + m <= (k \div m) * m
            BY <2>1, <2>3
        <3> QED
            BY <1>1, <1>2, <3>1
    <2> QED
        BY <2>1, <2>2, <2>3
<1> QED
    BY <1>1, <1>2

LEMMA ListKinds ==
    ASSUME v1 \in DOMAIN Lists!Lists
    PROVE  /\ Lists!Lists[v1].by \in {"stamp", "chosen"} /\ Lists!Lists[v1].dir \in {"asc", "desc"}
           /\ Lists!Lists[v1].by = "stamp" => Lists!Lists[v1].dir = "desc"
BY DEF Lists!Lists, Lists!Newest, Lists!EnrollmentsList, Lists!PostsList, Lists!UsersList,
       Lists!ApprovalsList, Lists!PaymentsList, Lists!InvoicesList, Lists!StudentsList,
       Lists!CertificatesList, Lists!ApplicationsList, Lists!CohortsList, Lists!PublishedList,
       Lists!OutstandingList

(* A list's order is total on its rows, since identifiers break ties. *)
LEMMA ListOrder ==
    ASSUME v1 \in DOMAIN Lists!Lists
    PROVE  /\ \A r \in ListRow : ~ Lists!After(Lists!SortKey(r), Lists!SortKey(r))
           /\ \A r, s \in ListRow :
                 \/ r = s
                 \/ Lists!After(Lists!SortKey(r), Lists!SortKey(s))
                 \/ Lists!After(Lists!SortKey(s), Lists!SortKey(r))
           /\ \A r, s, t \in ListRow :
                 /\ Lists!After(Lists!SortKey(r), Lists!SortKey(s))
                 /\ Lists!After(Lists!SortKey(s), Lists!SortKey(t))
                 => Lists!After(Lists!SortKey(r), Lists!SortKey(t))
<1>1. \A r \in ListRow : r.id \in Nat /\ r.key \in Nat
    BY DEF ListRow
<1>2. \A r, s \in ListRow : r.id = s.id /\ r.key = s.key => r = s
    BY DEF ListRow
<1> QED
    BY <1>1, <1>2 DEF Lists!After, Lists!Precedes, Lists!SortKey

(* A cursor is just behind its row: what comes after it comes after the row, *)
(* and what comes after the row comes after it, or was stamped in the same   *)
(* millisecond.                                                              *)
LEMMA CursorBehind ==
    ASSUME v1 \in DOMAIN Lists!Lists, NEW r \in ListRow, NEW s \in ListRow
    PROVE  /\ Lists!EncodeCursor(s) \in Nat \X Nat
           /\ Lists!After(Lists!SortKey(r), Lists!EncodeCursor(s)) =>
                 Lists!After(Lists!SortKey(r), Lists!SortKey(s))
           /\ Lists!After(Lists!SortKey(r), Lists!SortKey(s)) =>
                 \/ Lists!After(Lists!SortKey(r), Lists!EncodeCursor(s))
                 \/ Lists!Lists[v1].by = "stamp" /\ Lists!SameMillisecond(r, s)
<1>1. r.id \in Nat /\ r.key \in Nat /\ s.id \in Nat /\ s.key \in Nat
    BY DEF ListRow
<1>2. CASE Lists!Lists[v1].by # "stamp"
    BY <1>1, <1>2 DEF Lists!EncodeCursor, Lists!SortKey
<1>3. CASE Lists!Lists[v1].by = "stamp"
    <2> DEFINE floor == (s.key \div Granularity) * Granularity
    <2>1. /\ floor \in Nat /\ floor <= s.key
          /\ r.key <= s.key /\ floor <= r.key => Lists!SameMillisecond(r, s)
        BY <1>1, PagingAssumption, Millisecond DEF Lists!SameMillisecond
    <2>2. Lists!EncodeCursor(s) = <<floor, s.id>> /\ Lists!Lists[v1].dir = "desc"
        BY <1>3, ListKinds DEF Lists!EncodeCursor
    <2> HIDE DEF floor
    <2>3. Lists!After(Lists!SortKey(r), Lists!EncodeCursor(s)) <=>
              r.key < floor \/ (r.key = floor /\ r.id < s.id)
        BY <2>2 DEF Lists!After, Lists!Precedes, Lists!SortKey
    <2>4. Lists!After(Lists!SortKey(r), Lists!SortKey(s)) <=>
              r.key < s.key \/ (r.key = s.key /\ r.id < s.id)
        BY <2>2 DEF Lists!After, Lists!Precedes, Lists!SortKey
    <2> QED
        BY <1>1, <1>3, <2>1, <2>2, <2>3, <2>4
<1> QED
    BY <1>2, <1>3

LEMMA OneMore ==
    ASSUME NEW T, IsFiniteSet(T), NEW m \in T
    PROVE  Cardinality(T \ {m}) \in Nat /\ Cardinality(T) = Cardinality(T \ {m}) + 1
<1>1. IsFiniteSet(T \ {m}) /\ Cardinality(T \ {m}) = Cardinality(T) - 1
    BY FS_RemoveElement
<1> DEFINE less == Cardinality(T \ {m})
           all  == Cardinality(T)
<1>2. less \in Nat /\ all \in Nat
    BY <1>1, FS_CardinalityType
<1>3. less = all - 1
    BY <1>1
<1> HIDE DEF less, all
<1>4. all = less + 1
    BY <1>2, <1>3
<1> QED
    BY <1>2, <1>4 DEF less, all

(* A finite set with a strict total order can be listed in that order. *)
LEMMA SortedExists ==
    ASSUME NEW S, IsFiniteSet(S), NEW R,
           \A a \in S : <<a, a>> \notin R,
           \A a, b \in S : a = b \/ <<a, b>> \in R \/ <<b, a>> \in R,
           \A a, b, c \in S : <<a, b>> \in R /\ <<b, c>> \in R => <<a, c>> \in R
    PROVE  \E s \in [1..Cardinality(S) -> S] :
              /\ {s[k] : k \in 1..Cardinality(S)} = S
              /\ \A j, k \in 1..Cardinality(S) : j < k => <<s[j], s[k]>> \in R
<1> DEFINE Order == StrictSubsetOrdering(S)
           Enumerates(s, T) ==
               /\ {s[k] : k \in 1..Cardinality(T)} = T
               /\ \A j, k \in 1..Cardinality(T) : j < k => <<s[j], s[k]>> \in R
           Listable(T) == \E s \in [1..Cardinality(T) -> T] : Enumerates(s, T)
           unlisted    == {T \in SUBSET S : ~Listable(T)}
<1>1. IsWellFoundedOn(Order, FiniteSubsetsOf(S))
    BY FS_StrictSubsetOrderingWellFounded
<1>2. \A T \in SUBSET S : T \in FiniteSubsetsOf(S)
    BY FS_Subset DEF FiniteSubsetsOf
<1>3. \A T, U \in SUBSET S : T \subseteq U /\ T # U => <<T, U>> \in Order
    BY DEF StrictSubsetOrdering
<1> HIDE DEF Order
<1>4. ASSUME NEW family \in SUBSET (SUBSET S), family # {}
      PROVE  \E T \in family : \A U \in family : ~(U \subseteq T /\ U # T)
    <2>1. family \subseteq FiniteSubsetsOf(S)
        BY <1>2
    <2>2. PICK T \in family : \A U \in family : ~(<<U, T>> \in Order)
        BY <1>1, <1>4, <2>1, WFMin
    <2>3. ASSUME NEW U \in family, U \subseteq T, U # T PROVE FALSE
        <3>1. <<U, T>> \in Order
            BY <1>3, <2>3
        <3> QED
            BY <2>2, <3>1
    <2> QED
        BY <2>3
<1>5. ASSUME NEW T \in SUBSET S, T # {}
      PROVE  \E m \in T : \A a \in T \ {m} : <<a, m>> \in R
    <2> DEFINE later(n) == {m \in T : <<n, m>> \in R}
               sets     == {later(n) : n \in T}
    <2>1. sets \in SUBSET (SUBSET S) /\ sets # {}
        <3>1. \A n \in T : later(n) \in SUBSET S
            OBVIOUS
        <3> HIDE DEF later
        <3> QED
            BY <1>5, <3>1
    <2>2. PICK L \in sets : \A U \in sets : ~(U \subseteq L /\ U # L)
        <3> HIDE DEF sets
        <3> QED
            BY <1>4, <2>1
    <2>3. PICK m \in T : L = later(m)
        OBVIOUS
    <2>4. ASSUME NEW a \in T, <<m, a>> \in R PROVE FALSE
        <3>1. a \in later(m) /\ a \notin later(a) /\ later(a) \in sets
            BY <2>4
        <3>2. later(a) \subseteq later(m)
            BY <2>3, <2>4
        <3> QED
            BY <2>2, <2>3, <3>1, <3>2
    <2> QED
        BY <2>3, <2>4
<1>6. ASSUME NEW T \in SUBSET S, \A U \in SUBSET S : U \subseteq T /\ U # T => Listable(U)
      PROVE  Listable(T)
    <2>1. CASE T = {}
        <3>1. Cardinality(T) = 0
            BY <2>1, FS_EmptySet
        <3>2. [k \in 1..0 |-> 0] \in [1..0 -> T]
            BY SMT
        <3>3. Enumerates([k \in 1..0 |-> 0], T)
            BY <2>1, <3>1
        <3> HIDE DEF Enumerates
        <3> QED
            BY <3>1, <3>2, <3>3
    <2>2. CASE T # {}
        <3>1. PICK m \in T : \A a \in T \ {m} : <<a, m>> \in R
            BY <1>5, <2>2
        <3> DEFINE U == T \ {m}
                   n == Cardinality(U)
        <3>2. Listable(U)
            <4>1. U \in SUBSET S /\ U \subseteq T /\ U # T
                OBVIOUS
            <4> HIDE DEF U, Listable
            <4> QED
                BY <1>6, <4>1
        <3>3. PICK s \in [1..n -> U] : Enumerates(s, U)
            BY <3>2
        <3>4. IsFiniteSet(T)
            BY FS_Subset
        <3>5. n \in Nat /\ Cardinality(T) = n + 1
            <4> HIDE DEF Enumerates, Listable, unlisted
            <4> QED
                BY <3>4, OneMore
        <3>6. {s[k] : k \in 1..n} = U /\ \A j, k \in 1..n : j < k => <<s[j], s[k]>> \in R
            BY <3>3
        <3> HIDE DEF n, Enumerates
        <3> DEFINE t == [k \in 1..(n + 1) |-> IF k <= n THEN s[k] ELSE m]
        <3>7. \A k \in 1..n : t[k] = s[k] /\ s[k] \in U /\ k \in 1..(n + 1)
            BY <3>5
        <3>8. t[n + 1] = m /\ n + 1 \in 1..(n + 1)
            BY <3>5
        <3>9. \A k \in 1..(n + 1) : k \in 1..n \/ k = n + 1
            BY <3>5
        <3>10. t \in [1..(n + 1) -> T]
            <4>1. \A k \in 1..(n + 1) : (IF k <= n THEN s[k] ELSE m) \in T
                BY <3>5, <3>7, <3>9
            <4> QED
                BY <4>1
        <3> HIDE DEF t
        <3>11. {t[k] : k \in 1..(n + 1)} = T
            <4>1. \A a \in T : \E k \in 1..(n + 1) : t[k] = a
                BY <3>6, <3>7, <3>8
            <4>2. \A k \in 1..(n + 1) : t[k] \in T
                BY <3>10
            <4> DEFINE D == 1..(n + 1)
            <4> HIDE DEF D
            <4>3. {t[k] : k \in D} = T
                <5>1. (\A a \in T : \E k \in D : t[k] = a) /\ \A k \in D : t[k] \in T
                    BY <4>1, <4>2 DEF D
                <5> QED
                    BY <5>1
            <4> QED
                BY <4>3 DEF D
        <3>12. \A j, k \in 1..(n + 1) : j < k => <<t[j], t[k]>> \in R
            <4> SUFFICES ASSUME NEW j \in 1..(n + 1), NEW k \in 1..(n + 1), j < k
                         PROVE  <<t[j], t[k]>> \in R
                OBVIOUS
            <4>1. j \in 1..n
                BY <3>5
            <4>2. CASE k \in 1..n
                BY <3>6, <3>7, <4>1, <4>2
            <4>3. CASE k = n + 1
                BY <3>1, <3>7, <3>8, <4>1, <4>3
            <4> QED
                BY <3>9, <4>2, <4>3
        <3> QED
            BY <3>5, <3>10, <3>11, <3>12 DEF Enumerates
    <2> QED
        BY <2>1, <2>2
<1>7. unlisted = {}
    <2> SUFFICES ASSUME unlisted # {} PROVE FALSE
        OBVIOUS
    <2>1. PICK T \in unlisted : \A U \in unlisted : ~(U \subseteq T /\ U # T)
        <3>1. unlisted \in SUBSET (SUBSET S)
            OBVIOUS
        <3> HIDE DEF unlisted
        <3> QED
            BY <1>4, <3>1
    <2> HIDE DEF Listable
    <2>2. \A U \in SUBSET S : U \subseteq T /\ U # T => Listable(U)
        BY <2>1
    <2> QED
        BY <1>6, <2>1, <2>2
<1> QED
    <2>1. Listable(S)
        <3> HIDE DEF Listable
        <3> QED
            BY <1>7
    <2> QED
        BY <2>1

(* What a page is read from: all the rows after the cursor, in the list's order. *)
LEMMA Ordered ==
    ASSUME v1 \in DOMAIN Lists!Lists, NEW S \in SUBSET ListRow, IsFiniteSet(S)
    PROVE  LET q == Lists!InOrder(S)
           IN  /\ q \in Seq(S) /\ \A r \in S : \E k \in 1..Len(q) : r = q[k]
               /\ \A j, k \in 1..Len(q) :
                     j < k => Lists!After(Lists!SortKey(q[k]), Lists!SortKey(q[j]))
<1> DEFINE n == Cardinality(S)
           R == {p \in S \X S : Lists!After(Lists!SortKey(p[2]), Lists!SortKey(p[1]))}
           Good(s) == /\ Lists!ToSet(s) = S
                        /\ \A j, k \in 1..n :
                              j < k => Lists!After(Lists!SortKey(s[k]), Lists!SortKey(s[j]))
<1>1. \A a, b \in S : <<a, b>> \in R <=> Lists!After(Lists!SortKey(b), Lists!SortKey(a))
    OBVIOUS
<1>2. n \in Nat
    BY FS_CardinalityType
<1>3. \E s \in [1..n -> S] :
          /\ {s[k] : k \in 1..n} = S
          /\ \A j, k \in 1..n : j < k => <<s[j], s[k]>> \in R
    <2> HIDE DEF R
    <2>1. \A a \in S : <<a, a>> \notin R
        BY <1>1, ListOrder
    <2>2. \A a, b \in S : a = b \/ <<a, b>> \in R \/ <<b, a>> \in R
        BY <1>1, ListOrder
    <2>3. \A a, b, c \in S : <<a, b>> \in R /\ <<b, c>> \in R => <<a, c>> \in R
        <3> SUFFICES ASSUME NEW a \in S, NEW b \in S, NEW c \in S, <<a, b>> \in R, <<b, c>> \in R
                     PROVE  <<a, c>> \in R
            OBVIOUS
        <3> QED
            BY <1>1, ListOrder
    <2> QED
        BY <2>1, <2>2, <2>3, SortedExists
<1>4. PICK s \in [1..n -> S] :
          /\ {s[k] : k \in 1..n} = S
          /\ \A j, k \in 1..n : j < k => <<s[j], s[k]>> \in R
    BY <1>3
<1>5. Good(s)
    <2>1. Lists!ToSet(s) = S
        BY <1>4 DEF Lists!ToSet
    <2>2. \A j, k \in 1..n : j < k => Lists!After(Lists!SortKey(s[k]), Lists!SortKey(s[j]))
        BY <1>1, <1>4
    <2> QED
        BY <2>1, <2>2
<1> DEFINE q == Lists!InOrder(S)
<1>6. q = CHOOSE f \in [1..n -> S] : Good(f)
    <2>1. Lists!Cardinality(S) = n
        BY DEF Lists!Cardinality, Cardinality
    <2> QED
        BY <2>1 DEF Lists!InOrder
<1> HIDE DEF Good, q, n
<1>7. q \in [1..n -> S] /\ Good(q)
    BY <1>5, <1>6
<1>8. q \in Seq(S) /\ Len(q) = n
    BY <1>2, <1>7
<1>9. \A r \in S : \E k \in 1..Len(q) : r = q[k]
    <2>1. Lists!ToSet(q) = S /\ DOMAIN q = 1..Len(q)
        BY <1>7, <1>8 DEF Good
    <2> QED
        BY <2>1 DEF Lists!ToSet
<1> QED
    BY <1>7, <1>8, <1>9 DEF q, Good

(* Rows come, move and go while somebody walks the list. *)
LEMMA WalkRests ==
    ASSUME PagingInv, PagingTypes', UNCHANGED <<v1, v6, v7>>, v8' \subseteq v8
    PROVE  PagingInv'
<1>1. InListOrder(v7)'
    BY DEF PagingInv, InListOrder, Lists!After
<1>2. /\ (v6 = Lists!Start => v7 = <<>> /\ v8 = {})'
      /\ (v6.at = "after" => v7 # <<>> /\ v6.key = Lists!EncodeCursor(v7[Len(v7)]))'
    BY DEF PagingInv, Lists!EncodeCursor
<1>3. ASSUME v6 # Lists!Start, NEW r \in v8 PROVE Accounted(r)'
    <2>1. Accounted(r)
        BY <1>3 DEF PagingInv
    <2> QED
        BY <2>1 DEF Accounted, Missed, Lists!After
<1> QED
    BY <1>1, <1>2, <1>3 DEF PagingInv

LEMMA RowSteps ==
    ASSUME PagingInv,
           \/ Lists!Begin \/ Lists!Insert \/ Lists!Commit \/ Lists!Tick
           \/ \E r \in v2 : Lists!Leave(r) \/ \E key \in Date : Lists!Move(r, key)
    PROVE  PagingInv'
<1>1. /\ PagingTypes /\ v2 \subseteq ListRow /\ IsFiniteSet(v2) /\ v8 \subseteq v2
      /\ v3 \in [open : BOOLEAN, stamp : Nat, inserted : SUBSET ListRow] /\ IsFiniteSet(v3.inserted)
      /\ v4 \in Nat /\ v5 \in Nat
    BY DEF PagingInv, PagingTypes
<1>2. CASE Lists!Begin
    <2>1. v3' = [open |-> TRUE, stamp |-> v5, inserted |-> {}]
        BY <1>2 DEF Lists!Begin
    <2>2. /\ v3' \in [open : BOOLEAN, stamp : Nat, inserted : SUBSET ListRow]
          /\ IsFiniteSet(v3'.inserted)
        BY <1>1, <2>1, FS_EmptySet
    <2>3. UNCHANGED <<v1, v2, v4, v5, v6, v7, v8>>
        BY <1>2 DEF Lists!Begin, Lists!Walk
    <2> QED
        BY <1>1, <2>2, <2>3, WalkRests DEF PagingTypes
<1>3. CASE Lists!Insert
    <2>1. PICK key \in IF Lists!Lists[v1].by = "stamp" THEN {v3.stamp} ELSE Date :
              v3' = [v3 EXCEPT !.inserted = @ \cup {[id |-> v4 + 1, key |-> key]}]
        BY <1>3 DEF Lists!Insert
    <2>a. Date \subseteq Nat /\ v3.stamp \in Nat /\ v4 + 1 \in Nat
        BY <1>1, PagingAssumption
    <2>2. [id |-> v4 + 1, key |-> key] \in ListRow
        BY <2>a DEF ListRow
    <2> DEFINE row == [id |-> v4 + 1, key |-> key]
    <2> HIDE DEF row
    <2>3. /\ v3' \in [open : BOOLEAN, stamp : Nat, inserted : SUBSET ListRow]
          /\ v3'.inserted = v3.inserted \cup {row}
        BY <1>1, <2>1, <2>2 DEF row
    <2>4. IsFiniteSet(v3'.inserted)
        BY <1>1, <2>3, FS_AddElement
    <2>5. UNCHANGED <<v1, v2, v5, v6, v7, v8>> /\ v4' = v4 + 1
        BY <1>3 DEF Lists!Insert, Lists!Walk
    <2> QED
        BY <1>1, <2>3, <2>4, <2>5, WalkRests DEF PagingTypes
<1>4. CASE Lists!Commit
    <2>1. v3' = Lists!Closed /\ v2' = v2 \cup v3.inserted /\ UNCHANGED <<v1, v4, v5, v6, v7, v8>>
        BY <1>4 DEF Lists!Commit, Lists!Walk
    <2>2. /\ v3' \in [open : BOOLEAN, stamp : Nat, inserted : SUBSET ListRow]
          /\ IsFiniteSet(v3'.inserted)
        BY <2>1, FS_EmptySet DEF Lists!Closed
    <2>3. IsFiniteSet(v2') /\ v2' \subseteq ListRow
        BY <1>1, <2>1, FS_Union
    <2> QED
        BY <1>1, <2>1, <2>2, <2>3, WalkRests DEF PagingTypes
<1>5. CASE Lists!Tick
    <2>1. v5' = v5 + 1 /\ UNCHANGED <<v1, v2, v3, v4, v6, v7, v8>>
        BY <1>5 DEF Lists!Tick, Lists!Walk
    <2> QED
        BY <1>1, <2>1, WalkRests DEF PagingTypes
<1>6. ASSUME NEW r \in v2, Lists!Leave(r) PROVE PagingInv'
    <2>1. v2' = v2 \ {r} /\ v8' = v8 \ {r} /\ UNCHANGED <<v1, v3, v4, v5, v6, v7>>
        BY <1>6 DEF Lists!Leave
    <2>2. IsFiniteSet(v2')
        BY <1>1, <2>1, FS_RemoveElement
    <2> QED
        BY <1>1, <2>1, <2>2, WalkRests DEF PagingTypes
<1>7. ASSUME NEW r \in v2, NEW key \in Date, Lists!Move(r, key) PROVE PagingInv'
    <2> DEFINE moved == [r EXCEPT !.key = key]
    <2>1. moved \in ListRow
        BY <1>1, PagingAssumption DEF ListRow
    <2>2. v2' = (v2 \ {r}) \cup {moved} /\ v8' = v8 \ {r} /\ UNCHANGED <<v1, v3, v4, v5, v6, v7>>
        BY <1>7 DEF Lists!Move
    <2> HIDE DEF moved
    <2>3. IsFiniteSet(v2')
        BY <1>1, <2>2, FS_RemoveElement, FS_AddElement
    <2> QED
        BY <1>1, <2>1, <2>2, <2>3, WalkRests DEF PagingTypes
<1> QED
    BY <1>2, <1>3, <1>4, <1>5, <1>6, <1>7

(* A page begins after the cursor and goes on in the list's order, so a row *)
(* that it leaves out comes after its last one.                             *)
LEMMA FetchSteps == PagingInv /\ Lists!FetchPage => PagingInv'
<1> SUFFICES ASSUME PagingInv, Lists!FetchPage PROVE PagingInv'
    OBVIOUS
<1> DEFINE read  == {r \in v2 : Lists!AfterCursor(r)}
           q     == Lists!InOrder(read)
           more  == Len(q) > PageSize
           items == IF more THEN SubSeq(q, 1, PageSize) ELSE q
           After(r, s) == Lists!After(Lists!SortKey(r), Lists!SortKey(s))
<1>1. /\ v1 \in DOMAIN Lists!Lists /\ v7 \in Seq(ListRow) /\ v8 \subseteq v2 /\ v2 \subseteq ListRow
      /\ IsFiniteSet(v2) /\ PageSize \in Nat \ {0}
    BY PagingAssumption DEF PagingInv, PagingTypes
<1>2. read \in SUBSET ListRow /\ IsFiniteSet(read)
    BY <1>1, FS_Subset
<1>3. /\ q \in Seq(read) /\ (\A r \in read : \E k \in 1..Len(q) : r = q[k])
      /\ \A j, k \in 1..Len(q) : j < k => After(q[k], q[j])
    BY <1>1, <1>2, Ordered
<1>4. /\ UNCHANGED <<v1, v2, v3, v4, v5>> /\ v7' = v7 \o items /\ v6 # Lists!End
      /\ v6' = IF more THEN [at |-> "after", key |-> Lists!EncodeCursor(items[PageSize])]
               ELSE Lists!End
      /\ v8' = IF v6 = Lists!Start THEN v2 ELSE v8
    BY DEF Lists!FetchPage, Lists!ToPage
<1>5. /\ items \in Seq(ListRow) /\ Len(items) = (IF more THEN PageSize ELSE Len(q))
      /\ \A k \in 1..Len(items) : k \in 1..Len(q) /\ items[k] = q[k]
    <2> HIDE DEF q
    <2>1. q \in Seq(ListRow) /\ Len(q) \in Nat
        BY <1>2, <1>3
    <2>2. CASE more
        <3>1. \A k \in 1..PageSize : k \in 1..Len(q) /\ q[k] \in ListRow
            BY <1>1, <2>1, <2>2
        <3>2. /\ SubSeq(q, 1, PageSize) \in Seq(ListRow) /\ Len(SubSeq(q, 1, PageSize)) = PageSize
              /\ \A k \in 1..PageSize : SubSeq(q, 1, PageSize)[k] = q[k]
            BY <1>1, <2>1, <2>2
        <3> QED
            BY <2>2, <3>1, <3>2
    <2>3. CASE ~more
        BY <2>1, <2>3
    <2> QED
        BY <2>2, <2>3
<1> HIDE DEF items, q, more
<1>6. /\ Len(v7) \in Nat /\ Len(items) \in Nat /\ Len(q) \in Nat /\ v7' \in Seq(ListRow)
      /\ Len(v7') = Len(v7) + Len(items)
      /\ \A k \in 1..Len(v7) : v7'[k] = v7[k]
      /\ \A k \in 1..Len(items) : v7'[Len(v7) + k] = items[k] /\ Len(v7) + k \in 1..Len(v7')
    <2>1. Len(v7) \in Nat /\ Len(items) \in Nat /\ Len(q) \in Nat
        BY <1>1, <1>3, <1>5
    <2>2. /\ v7' \in Seq(ListRow) /\ Len(v7') = Len(v7) + Len(items)
          /\ \A k \in 1..(Len(v7) + Len(items)) :
                v7'[k] = IF k <= Len(v7) THEN v7[k] ELSE items[k - Len(v7)]
        <3>1. v7' = v7 \o items /\ v7 \in Seq(ListRow) /\ items \in Seq(ListRow)
            BY <1>1, <1>4, <1>5
        <3> QED
            BY <3>1, ConcatProperties
    <2> QED
        BY <2>1, <2>2
<1>7. v6 = Lists!Start \/ v6.at = "after"
    BY <1>4 DEF PagingInv, PagingTypes
<1>8. more => items # <<>> /\ Len(items) = PageSize /\ PageSize \in 1..Len(items)
                  /\ v7'[Len(v7')] = items[PageSize] /\ v7' # <<>>
    <2> SUFFICES ASSUME more
                 PROVE  /\ items # <<>> /\ Len(items) = PageSize /\ PageSize \in 1..Len(items)
                        /\ v7'[Len(v7')] = items[PageSize] /\ v7' # <<>>
        OBVIOUS
    <2>1. Len(items) = PageSize /\ PageSize \in 1..Len(items)
        BY <1>1, <1>5
    <2>2. v7'[Len(v7')] = items[PageSize] /\ Len(v7') # 0
        BY <1>1, <1>6, <2>1
    <2> QED
        BY <1>1, <2>1, <2>2
<1>9. PagingTypes'
    <2>1. more => Lists!EncodeCursor(items[PageSize]) \in Nat \X Nat
        BY <1>1, <1>5, <1>8, CursorBehind
    <2>2. v6' \in {Lists!Start, Lists!End} \cup [at : {"after"}, key : Nat \X Nat]
        BY <1>4, <2>1
    <2>3. v8' \subseteq v2
        BY <1>1, <1>4
    <2> QED
        BY <1>4, <1>6, <2>2, <2>3 DEF PagingInv, PagingTypes
<1>10. ASSUME NEW k \in 1 .. Len(v7') - 1 PROVE After(v7'[k + 1], v7'[k])
    <2>1. CASE k < Len(v7)
        <3>1. k \in 1 .. Len(v7) - 1 /\ v7'[k] = v7[k] /\ v7'[k + 1] = v7[k + 1]
            BY <1>6, <2>1
        <3> QED
            BY <3>1 DEF PagingInv, InListOrder
    <2>2. CASE k = Len(v7)
        <3>1. v7 # <<>> /\ v7'[k] = v7[Len(v7)] /\ v7[Len(v7)] \in ListRow
            BY <1>1, <1>6, <2>2
        <3>2. v6.at = "after" /\ v6.key = Lists!EncodeCursor(v7[Len(v7)])
            BY <1>7, <3>1 DEF PagingInv
        <3>3. v7'[k + 1] = items[1] /\ 1 \in 1..Len(items)
            BY <1>6, <2>2
        <3>4. items[1] \in read /\ items[1] \in ListRow
            BY <1>2, <1>3, <1>5, <3>3
        <3>5. Lists!After(Lists!SortKey(items[1]), v6.key)
            BY <3>2, <3>4 DEF Lists!AfterCursor
        <3> QED
            BY <1>1, <3>1, <3>2, <3>3, <3>4, <3>5, CursorBehind
    <2>3. CASE k > Len(v7)
        <3> DEFINE j == k - Len(v7)
        <3>1. /\ j \in 1..Len(items) /\ j + 1 \in 1..Len(items)
              /\ v7'[k] = items[j] /\ v7'[k + 1] = items[j + 1]
            <4>1. /\ j \in 1..Len(items) /\ j + 1 \in 1..Len(items)
                  /\ k = Len(v7) + j /\ k + 1 = Len(v7) + (j + 1)
                BY <1>6, <2>3
            <4> HIDE DEF j
            <4> QED
                BY <1>6, <4>1
        <3> HIDE DEF j
        <3> QED
            BY <1>3, <1>5, <3>1
    <2> QED
        BY <1>6, <2>1, <2>2, <2>3
<1>11. InListOrder(v7)'
    BY <1>4, <1>10 DEF InListOrder, Lists!After
<1>12. v6' # Lists!Start /\ (v6'.at = "after" <=> more)
    BY <1>4 DEF Lists!Start, Lists!End
<1>13. v6'.at = "after" => v7' # <<>> /\ v6'.key = Lists!EncodeCursor(v7[Len(v7)])'
    BY <1>4, <1>8, <1>12 DEF Lists!EncodeCursor
<1>14. ASSUME NEW r \in v8' PROVE Accounted(r)'
    <2>1. r \in v2 /\ r \in ListRow
        BY <1>1, <1>4
    <2>2. ASSUME r \in read PROVE Accounted(r)'
        <3>1. PICK k \in 1..Len(q) : r = q[k]
            BY <1>3, <2>2
        <3>2. CASE k \in 1..Len(items)
            <4>1. \E j \in 1..Len(v7') : r = v7'[j]
                BY <1>5, <1>6, <3>1, <3>2
            <4> QED
                BY <4>1 DEF Accounted
        <3>3. CASE k \notin 1..Len(items)
            <4>1. more /\ k > PageSize /\ PageSize \in 1..Len(q) /\ items[PageSize] = q[PageSize]
                BY <1>1, <1>5, <1>6, <1>8, <3>1, <3>3
            <4>2. After(r, items[PageSize]) /\ items[PageSize] \in ListRow
                BY <1>3, <1>5, <1>8, <3>1, <4>1
            <4>3. \/ Lists!After(Lists!SortKey(r), Lists!EncodeCursor(items[PageSize]))
                  \/ Lists!Lists[v1].by = "stamp" /\ Lists!SameMillisecond(r, items[PageSize])
                BY <1>1, <2>1, <4>2, CursorBehind
            <4>4. v6'.at = "after" /\ v6'.key = Lists!EncodeCursor(items[PageSize])
                BY <1>4, <4>1
            <4>5. items[PageSize] = v7'[Len(v7')] /\ Len(v7') \in 1..Len(v7')
                BY <1>6, <1>8, <4>1
            <4> QED
                BY <1>4, <4>3, <4>4, <4>5 DEF Accounted, Missed, Lists!After
        <3> QED
            BY <3>2, <3>3
    <2>3. CASE v6 = Lists!Start
        BY <2>1, <2>2, <2>3 DEF Lists!AfterCursor, Lists!Start
    <2>4. CASE v6 # Lists!Start
        <3>1. Accounted(r)
            BY <1>4, <2>4 DEF PagingInv
        <3>2. CASE \E k \in 1..Len(v7) : r = v7[k]
            <4>1. \E k \in 1..Len(v7') : r = v7'[k]
                BY <1>6, <3>2
            <4> QED
                BY <4>1 DEF Accounted
        <3>3. CASE v6.at = "after" /\ Lists!After(Lists!SortKey(r), v6.key)
            BY <2>1, <2>2, <3>3 DEF Lists!AfterCursor
        <3>4. CASE Missed(r, v7)
            <4>1. Lists!Lists[v1'].by = "stamp" /\ \E k \in 1..Len(v7') : Lists!SameMillisecond(r, v7'[k])
                BY <1>4, <1>6, <3>4 DEF Missed
            <4> QED
                BY <4>1 DEF Accounted, Missed
        <3> QED
            BY <3>1, <3>2, <3>3, <3>4 DEF Accounted
    <2> QED
        BY <2>3, <2>4
<1> QED
    BY <1>9, <1>11, <1>12, <1>13, <1>14 DEF PagingInv

LEMMA PagingSteps == PagingInv /\ [Lists!Next]_(Lists!vars) => PagingInv'
<1> SUFFICES ASSUME PagingInv, [Lists!Next]_(Lists!vars) PROVE PagingInv'
    OBVIOUS
<1>1. CASE UNCHANGED Lists!vars
    <2>1. UNCHANGED <<v1, v2, v3, v4, v5, v6, v7, v8>>
        BY <1>1 DEF Lists!vars
    <2>2. PagingTypes'
        BY <2>1 DEF PagingInv, PagingTypes
    <2> QED
        BY <2>1, <2>2, WalkRests
<1>2. CASE Lists!Next
    BY <1>2, RowSteps, FetchSteps DEF Lists!Next
<1> QED
    BY <1>1, <1>2

(* At the end nothing comes after the cursor any more. *)
LEMMA WalkIsExact == PagingInv => Lists!PagesAreExact
<1> SUFFICES ASSUME PagingInv PROVE Lists!PagesAreExact
    OBVIOUS
<1>1. \A s : s \in Lists!ToSet(v7) <=> \E k \in 1..Len(v7) : s = v7[k]
    BY DEF PagingInv, PagingTypes, Lists!ToSet
<1>2. ASSUME v6 = Lists!End, NEW r \in Lists!Skipped
      PROVE  Lists!Lists[v1].by = "stamp" /\ \E s \in Lists!ToSet(v7) : Lists!SameMillisecond(r, s)
    <2>1. r \in v8 /\ ~ \E k \in 1..Len(v7) : r = v7[k]
        BY <1>1, <1>2 DEF Lists!Skipped
    <2>2. v6 # Lists!Start /\ v6.at # "after"
        BY <1>2 DEF Lists!Start, Lists!End
    <2>3. Missed(r, v7)
        BY <2>1, <2>2 DEF PagingInv, Accounted
    <2> QED
        BY <1>1, <2>3 DEF Missed
<1> QED
    BY <1>2 DEF PagingInv, InListOrder, Lists!PagesAreExact

AtPagingInv == AtPaging => PagingInv

LEMMA PagingStays ==
    /\ OfficeInit => AtPagingInv
    /\ AtPagingInv /\ [OfficeNext]_office => AtPagingInv'
    /\ AtPagingInv => PagesAreExact
<1>1. OfficeInit => AtPagingInv
    <2> SUFFICES ASSUME OfficeInit, AtPaging PROVE PagingInv
        BY DEF AtPagingInv
    <2>1. /\ v1 \in DOMAIN Lists!Lists /\ v2 = {} /\ v3 = Lists!Closed /\ v4 = 0 /\ v5 = 1
          /\ v6 = Lists!Start /\ v7 = <<>> /\ v8 = {}
        BY PagingAssumption DEF OfficeInit, AtPaging, Lists!Init
    <2>2. /\ v3 \in [open : BOOLEAN, stamp : Nat, inserted : SUBSET ListRow]
          /\ IsFiniteSet(v3.inserted) /\ IsFiniteSet(v2)
        BY <2>1, FS_EmptySet DEF Lists!Closed
    <2>3. PagingTypes
        BY <2>1, <2>2 DEF PagingTypes
    <2>4. v6.at # "after" /\ InListOrder(v7)
        BY <2>1 DEF Lists!Start, InListOrder
    <2> QED
        BY <2>1, <2>3, <2>4 DEF PagingInv
<1>2. ASSUME AtPagingInv, [OfficeNext]_office, AtPaging \/ AtPaging'
      PROVE  AtPaging /\ PagingInv /\ [Lists!Next]_(Lists!vars)
    BY <1>2 DEF AtPagingInv, AtPaging, OfficeNext, office, Lists!vars
<1>3. ASSUME AtPagingInv, [OfficeNext]_office PROVE AtPagingInv'
    BY <1>2, <1>3, PagingSteps DEF AtPagingInv
<1>4. AtPagingInv => PagesAreExact
    BY WalkIsExact DEF AtPagingInv, AtPaging, PagesAreExact
<1> QED
    BY <1>1, <1>3, <1>4

(* A walk through a list shows rows in its order, none twice at the same     *)
(* place, and misses none that was there all along but one stamped in the    *)
(* millisecond of one it showed (toPage and encodeCursor of                  *)
(* packages/db/src/pagination.ts), for any lists, rows, pages and clocks.    *)
THEOREM PagesStayExact == OfficeSpec => []PagesAreExact
BY PagingStays, PTL DEF OfficeSpec

-----------------------------------------------------------------------------
(* Money. *)
AtMoney == part = "money"

(* BillingProofs, of which only the money arithmetic is used: billing itself *)
(* is given no invoices and no handlers.                                     *)
Counted == INSTANCE BillingProofs WITH
    Invoice <- {}, Payment <- {}, Request <- {}, User <- {}, Worker <- {}, NoOne <- 0,
    Fee <- 0, Amount <- {}, Terms <- {}, parts <- 0, invoice <- 0, payment <- 0,
    request <- 0, discount <- 0, counter <- 0, invoiceLock <- 0, requestLock <- 0,
    seriesLock <- 0, tx <- 0, bill <- v1, subtotal <- v2, received <- v3, waived <- v4

(* Money and the instance proved about are the same arithmetic. *)
LEMMA SameSums ==
    /\ \A f : Counted!One!SumFunction(f) = Money!SumFunction(f)
    /\ \A f : Counted!SumFunction(f) = Money!SumFunction(f)
    /\ \A ps : Counted!One!AmountOf(ps) = Money!AmountOf(ps)
    /\ \A ps : Counted!One!PaidOf(ps) = Money!PaidOf(ps)
<1>1. \A f : Counted!One!SumFunction(f) = Money!SumFunction(f)
    BY DEF Counted!One!SumFunction, Money!SumFunction, Counted!One!SumFunctionOnSet,
           Money!SumFunctionOnSet, Counted!One!FoldFunctionOnSet, Money!FoldFunctionOnSet,
           Counted!One!MapThenFoldSet, Money!MapThenFoldSet
<1>2. \A f : Counted!SumFunction(f) = Money!SumFunction(f)
    BY DEF Counted!SumFunction, Money!SumFunction, Counted!SumFunctionOnSet,
           Money!SumFunctionOnSet, Counted!FoldFunctionOnSet, Money!FoldFunctionOnSet,
           Counted!MapThenFoldSet, Money!MapThenFoldSet
<1> QED
    BY <1>1, <1>2 DEF Counted!One!AmountOf, Money!AmountOf, Counted!One!PaidOf, Money!PaidOf

LEMMA SameLoops ==
    /\ \A total, shares :
           Counted!One!BuildInstallments(total, shares) = Money!BuildInstallments(total, shares)
    /\ \A ps, a : /\ Counted!One!AllocatePayment(ps, a) = Money!AllocatePayment(ps, a)
                  /\ Counted!One!CutDiscount(ps, a) = Money!CutDiscount(ps, a)
                  /\ Counted!One!PaymentSplits(ps, a) = Money!PaymentSplits(ps, a)
                  /\ Counted!One!DiscountCuts(ps, a) = Money!DiscountCuts(ps, a)
<1>1. ASSUME NEW total, NEW shares
      PROVE  Counted!One!BuildInstallments(total, shares) = Money!BuildInstallments(total, shares)
    <2> DEFINE floors == [k \in DOMAIN shares |-> (total * shares[k]) \div 10000]
    <2>1. Counted!One!SumFunction(floors) = Money!SumFunction(floors)
        BY SameSums
    <2>2. Counted!One!SplitByBasisPoints(total, shares)
             = [floors EXCEPT ![Len(shares)] = @ + (total - Counted!One!SumFunction(floors))]
        BY DEF Counted!One!SplitByBasisPoints
    <2>3. Money!SplitByBasisPoints(total, shares)
             = [floors EXCEPT ![Len(shares)] = @ + (total - Money!SumFunction(floors))]
        BY DEF Money!SplitByBasisPoints
    <2> HIDE DEF floors
    <2>4. Counted!One!SplitByBasisPoints(total, shares) = Money!SplitByBasisPoints(total, shares)
        BY <2>1, <2>2, <2>3
    <2> QED
        BY <2>4 DEF Counted!One!BuildInstallments, Money!BuildInstallments
<1>2. ASSUME NEW ps, NEW a
      PROVE  /\ Counted!One!AllocatePayment(ps, a) = Money!AllocatePayment(ps, a)
             /\ Counted!One!CutDiscount(ps, a) = Money!CutDiscount(ps, a)
    BY DEF Counted!One!AllocatePayment, Money!AllocatePayment, Counted!One!CutDiscount,
           Money!CutDiscount, Counted!One!Owed, Money!Owed, Counted!One!Smaller, Money!Smaller
<1>3. ASSUME NEW ps, NEW a
      PROVE  /\ Counted!One!PaymentSplits(ps, a) = Money!PaymentSplits(ps, a)
             /\ Counted!One!DiscountCuts(ps, a) = Money!DiscountCuts(ps, a)
    <2>1. Counted!One!Owed(ps) = Money!Owed(ps)
        BY DEF Counted!One!Owed, Money!Owed
    <2> QED
        BY <2>1, SameSums DEF Counted!One!PaymentSplits, Money!PaymentSplits,
                              Counted!One!DiscountCuts, Money!DiscountCuts
<1> QED
    BY <1>1, <1>2, <1>3

LEMMA SameSteps ==
    /\ Money!Init => Counted!One!Init
    /\ [Money!Next]_(Money!vars) => [Counted!One!Next]_(Counted!One!vars)
    /\ Counted!One!MoneyIsExact => Money!MoneyIsExact
<1>1. Money!Init => Counted!One!Init
    BY SameLoops DEF Money!Init, Counted!One!Init
<1>2. Counted!One!Open <=> Money!Open
    BY SameSums DEF Counted!One!Open, Money!Open, Counted!One!InvoiceStatusFor,
                    Money!InvoiceStatusFor
<1>3. ASSUME NEW amount, Money!Pay(amount) PROVE Counted!One!Pay(amount)
    BY <1>2, <1>3, SameLoops DEF Money!Pay, Counted!One!Pay
<1>4. ASSUME NEW kind, NEW value, Money!Discount(kind, value)
      PROVE  Counted!One!Discount(kind, value)
    <2>1. \A total : Counted!One!DiscountAmount(kind, value, total)
                         = Money!DiscountAmount(kind, value, total)
        BY DEF Counted!One!DiscountAmount, Money!DiscountAmount
    <2> QED
        BY <1>2, <1>4, <2>1, SameLoops, SameSums DEF Money!Discount, Counted!One!Discount
<1>5. [Money!Next]_(Money!vars) => [Counted!One!Next]_(Counted!One!vars)
    BY <1>3, <1>4 DEF Money!Next, Counted!One!Next, Money!vars, Counted!One!vars
<1>6. Counted!One!MoneyIsExact => Money!MoneyIsExact
    BY SameLoops, SameSums
    DEF Counted!One!MoneyIsExact, Money!MoneyIsExact, Counted!One!NothingLostToRounding,
        Money!NothingLostToRounding, Counted!One!PaidFromTheFront, Money!PaidFromTheFront,
        Counted!One!LoopKeepsPaymentPromise, Money!LoopKeepsPaymentPromise,
        Counted!One!LoopKeepsDiscountPromise, Money!LoopKeepsDiscountPromise
<1> QED
    BY <1>1, <1>5, <1>6

(* No santim is lost or made, and the loops of money-flow.ts find the one    *)
(* split or cut that their contract allows, or refuse: for every total, plan *)
(* of any length and sequence of payments and discounts.                     *)
THEOREM MoneyStaysExact == OfficeSpec => []MoneyIsExact
<1>1. OfficeInit /\ AtMoney => Counted!One!Init
    BY SameSteps DEF OfficeInit, AtMoney
<1>2. AtMoney /\ [OfficeNext]_office => AtMoney' /\ [Counted!One!Next]_(Counted!One!vars)
    <2>1. AtMoney /\ [OfficeNext]_office => AtMoney' /\ [Money!Next]_(Money!vars)
        BY DEF OfficeNext, office, Money!vars, AtMoney
    <2> QED
        BY <2>1, SameSteps
<1>3. ~AtMoney /\ [OfficeNext]_office => ~AtMoney'
    BY DEF OfficeNext, office, AtMoney
<1>4. Counted!Priced
    BY MoneyAssumption, SameSums DEF Counted!Priced
<1>5. Counted!One!Spec => []Counted!One!MoneyIsExact
    BY <1>4, Counted!MoneyStaysExact
<1>6. OfficeSpec /\ AtMoney => Counted!One!Spec
    BY <1>1, <1>2, PTL DEF OfficeSpec, Counted!One!Spec
<1>7. OfficeSpec /\ ~AtMoney => []~AtMoney
    BY <1>3, PTL DEF OfficeSpec
<1>8. (~AtMoney => MoneyIsExact) /\ (Counted!One!MoneyIsExact => MoneyIsExact)
    BY SameSteps DEF MoneyIsExact, AtMoney
<1> QED
    BY <1>5, <1>6, <1>7, <1>8, PTL

-----------------------------------------------------------------------------
(* The portal.  The registers are the variables of Portal in the order of       *)
(* their declaration: v1 is the page, v4 the change whose form is open, v5 the  *)
(* query shown beside it, v6 the row's version, v7 the version shown, v8 the    *)
(* refetches under way, v9 the form, v11 the requests sent, v13 the answer, v14 *)
(* how often each intent was done, v15 the keys stored, v16 the version the     *)
(* person was told of, v17 and v18 whether an answer was overtaken and a value  *)
(* overwritten unseen.                                                          *)

(* A change that is not done twice however often it is sent. *)
Safe(c) == \/ c.sends = "key" \/ c.route.version
           \/ c.route.again \in {"same", "replaced", "refused"}

Intent == 1..MaxIntents
FormRow == [open : BOOLEAN, values : Nat, intent : 0..MaxIntents, typed : Nat, key : Nat,
            keyedFor : Nat]
RequestRow == [id : Nat, intent : Intent, values : Nat, version : Nat, key : Nat]
Answers == {Browser!Nothing, [is |-> "failure"]}
               \cup [is : {"success"}, intent : Intent, version : Nat]

PortalTypes ==
    /\ v1 \in DOMAIN Browser!Pages
    /\ v6 \in Nat /\ v7 \in Nat /\ v10 \in Nat /\ v16 \in Nat
    /\ v8 \in SUBSET Nat
    /\ v9 \in FormRow
    /\ v11 \in SUBSET RequestRow
    /\ v13 \in Answers
    /\ v14 \in [Intent -> Nat]
    /\ v15 \in SUBSET [key : Nat, version : Nat]
    /\ v17 \in BOOLEAN /\ v18 \in BOOLEAN

(* Before a form is opened nothing has happened. *)
Opened ==
    /\ v4 = Browser!Nothing =>
           /\ v5 = Browser!Nothing /\ v6 = 1 /\ v7 = 1 /\ v8 = {} /\ v9 = Browser!Closed
           /\ v11 = {} /\ v13 = Browser!Nothing /\ v16 = 0 /\ ~v17 /\ ~v18
           /\ v15 = {} /\ \A i \in Intent : v14[i] = 0
    /\ v4 # Browser!Nothing =>
           v4.is = "change" /\ v4 \in Browser!Pages[v1] /\ v9.intent # 0

(* Which key goes with which intent, in the requests under way and in the form. *)
KeyUses ==
    {<<r.key, r.intent>> : r \in v11}
        \cup {u \in {<<v9.key, v9.intent>>} : v9.keyedFor = v9.typed}

(* A key that the server has stored an answer under; a form that keeps its key,  *)
(* under which a later intent may come back to the answer of an earlier one.    *)
Stored(k) == \E s \in v15 : s.key = k
Keeps     == v4 # Browser!Nothing /\ v4.after = "keeps"
Earlier(i) == Keeps /\ \E j \in Intent : j < i /\ v14[j] > 0

Keys ==
    /\ v9.keyedFor <= v9.typed /\ v9.typed >= 1 /\ v9.key <= v10
    /\ v4 # Browser!Nothing /\ ~v9.open /\ v4.after = "resets" => v9.keyedFor # v9.typed
    /\ \A s \in v15 : s.key <= v10
    /\ \A i \in Intent : v14[i] > 0 => i <= v9.intent
    /\ \A u \in KeyUses : u[1] <= v10 /\ u[2] <= v9.intent
    /\ \A u, v \in KeyUses : u[2] = v[2] => u[1] = v[1]
    /\ \A u, v \in KeyUses : u[1] = v[1] => u[2] = v[2] \/ (Keeps /\ Stored(u[1]))
    /\ v9.open /\ v9.keyedFor # v9.typed =>
           /\ \A u \in KeyUses : u[2] # v9.intent
           /\ \A i \in Intent : v14[i] > 0 => i # v9.intent
    /\ v4 # Browser!Nothing /\ Browser!Keyed =>
           \A u \in KeyUses : /\ v14[u[2]] > 0 => Stored(u[1])
                              /\ Stored(u[1]) => v14[u[2]] > 0 \/ Earlier(u[2])

(* The request whose answer is waited for carries the form's key, and a form    *)
(* that keeps its key has it stored once it is done.                            *)
Waits ==
    /\ v12 \in Nat /\ v12 <= v10
    /\ \A r \in v11 : 1 <= r.id /\ r.id <= v10
    /\ v12 # 0 => /\ v9.keyedFor = v9.typed
                  /\ \A r \in v11 : r.id = v12 => r.key = v9.key
    /\ v13.is = "success" => v12 # 0
    /\ v4 # Browser!Nothing /\ Browser!Keyed /\ v13.is = "success" => Stored(v9.key)
    /\ Keeps /\ ~v9.open => v9.keyedFor = v9.typed /\ Stored(v9.key)

(* Which values go with which intent. *)
ValueUses == {<<r.values, r.intent>> : r \in v11} \cup {<<v9.values, v9.intent>>}

Values ==
    /\ v4 # Browser!Nothing /\ v4.route.version =>
           /\ \A r \in v11 : r.version = r.values
           /\ \A u, v \in ValueUses : u[2] = v[2] => u[1] = v[1]
           /\ \A u \in ValueUses : v14[u[2]] > 0 => u[1] < v6
           /\ v4.sends = "remounted" /\ v9.open => v9.values = v7
           /\ ~v18
    /\ \A u \in ValueUses : u[1] <= v6 /\ u[2] <= v9.intent

Effects ==
    /\ v7 <= v6 /\ v16 <= v6
    /\ \A v \in v8 : v <= v6
    /\ \A s \in v15 : s.version <= v6
    /\ v13.is = "success" => v13.version <= v6
    /\ v4 # Browser!Nothing /\ Safe(v4) =>
           /\ \A i \in Intent : v14[i] <= 1
           /\ v13.is = "success" => v14[v13.intent] = 1 \/ Earlier(v13.intent)

Showing ==
    v5 # Browser!Nothing =>
        /\ Browser!Put \/ Browser!Invalidated \/ v4.after = "leaves"
        /\ v17 => Browser!Put /\ ~Browser!Invalidated
        /\ Browser!Invalidated => (v8 = {} => v16 <= v7) /\ \A v \in v8 : v16 <= v
        /\ ~Browser!Invalidated /\ Browser!Put => (v7 < v16 => v17)
        /\ ~Browser!Invalidated /\ ~Browser!Put => v16 = 0

PortalInv == PortalTypes /\ Opened /\ Keys /\ Waits /\ Values /\ Effects /\ Showing

LEMMA Fields ==
    /\ \A f \in FormRow : /\ f.open \in BOOLEAN /\ f.values \in Nat /\ f.intent \in 0..MaxIntents
                          /\ f.typed \in Nat /\ f.key \in Nat /\ f.keyedFor \in Nat
    /\ \A r \in RequestRow : /\ r.id \in Nat /\ r.intent \in Intent /\ r.values \in Nat
                             /\ r.version \in Nat /\ r.key \in Nat
    /\ Browser!Closed \in FormRow
    /\ \A i \in Intent : i \in Nat /\ i >= 1
    /\ \A a \in Answers : a.is = "success" => a.intent \in Intent /\ a.version \in Nat
<1>1. MaxIntents \in Nat \ {0}
    BY PortalAssumption
<1>2. \A a \in Answers : a.is = "success" => a.intent \in Intent /\ a.version \in Nat
    BY DEF Answers, Browser!Nothing
<1> QED
    BY <1>1, <1>2 DEF FormRow, RequestRow, Browser!Closed, Intent

(* The rows that a change fills and sends are rows. *)
LEMMA FormsFilled ==
    ASSUME PortalTypes, NEW f, Browser!Fill(f), f \in FormRow
    PROVE  /\ v9' = [f EXCEPT !.open = TRUE, !.values = v7, !.intent = v9.intent + 1]
           /\ v9' \in FormRow /\ v9'.open /\ v9'.values = v7
           /\ v9'.intent = v9.intent + 1 /\ v9'.typed = f.typed /\ v9'.key = f.key
           /\ v9'.keyedFor = f.keyedFor /\ v9'.intent \in Intent
<1>1. v9' = [f EXCEPT !.open = TRUE, !.values = v7, !.intent = v9.intent + 1]
    BY DEF Browser!Fill
<1>2. v9.intent < MaxIntents /\ v9.intent \in 0..MaxIntents /\ v7 \in Nat /\ MaxIntents \in Nat
    BY Fields, PortalAssumption DEF Browser!Fill, PortalTypes
<1>3. v9.intent + 1 \in 0..MaxIntents /\ v9.intent + 1 \in Intent
    BY <1>2 DEF Intent
<1> QED
    BY <1>1, <1>2, <1>3 DEF FormRow

LEMMA Edited ==
    ASSUME PortalTypes, Browser!Edit
    PROVE  /\ v9' \in FormRow /\ v9'.open /\ v9'.values = v9.values
           /\ v9'.intent = v9.intent + 1 /\ v9'.typed = v9.typed + 1
           /\ v9'.key = v9.key /\ v9'.keyedFor = v9.keyedFor /\ v9'.intent \in Intent
<1>1. v9' = [v9 EXCEPT !.intent = v9.intent + 1, !.typed = v9.typed + 1] /\ v9 \in FormRow
    BY DEF Browser!Edit, PortalTypes
<1>2. v9.intent < MaxIntents /\ v9.intent \in 0..MaxIntents /\ MaxIntents \in Nat /\ v9.open
      /\ v9.typed \in Nat
    BY Fields, PortalAssumption DEF Browser!Edit, PortalTypes
<1>3. v9.intent + 1 \in 0..MaxIntents /\ v9.intent + 1 \in Intent
    BY <1>2 DEF Intent
<1>4. /\ v9'.open = v9.open /\ v9'.values = v9.values /\ v9'.intent = v9.intent + 1
      /\ v9'.typed = v9.typed + 1 /\ v9'.key = v9.key /\ v9'.keyedFor = v9.keyedFor
    BY <1>1 DEF FormRow
<1>5. v9.typed + 1 \in Nat
    BY <1>2
<1>6. v9' \in FormRow
    <2> DEFINE i == v9.intent + 1
               t == v9.typed + 1
    <2> HIDE DEF i, t
    <2>1. i \in 0..MaxIntents /\ t \in Nat
        BY <1>3, <1>5 DEF i, t
    <2>2. v9' = [v9 EXCEPT !.intent = i, !.typed = t]
        BY <1>1 DEF i, t
    <2> QED
        BY <1>1, <2>1, <2>2 DEF FormRow
<1> QED
    BY <1>2, <1>3, <1>4, <1>6

LEMMA Pressed ==
    ASSUME PortalTypes, Opened, Browser!Press
    PROVE  /\ v9' \in FormRow /\ v9'.open = v9.open /\ v9'.values = v9.values
           /\ v9'.intent = v9.intent /\ v9'.typed = v9.typed
           /\ v9'.key = Browser!KeyFor(v9) /\ v9'.keyedFor = v9.typed
           /\ Browser!KeyFor(v9) \in Nat /\ Browser!IfMatch(v9) \in Nat /\ v9.intent \in Intent
           /\ \E r \in RequestRow :
                  /\ v11' = v11 \cup {r} /\ r.intent = v9.intent /\ r.values = v9.values
                  /\ r.version = Browser!IfMatch(v9) /\ r.key = Browser!KeyFor(v9)
                  /\ r.id = v10 + 1
<1>1. /\ v9 \in FormRow /\ v10 \in Nat /\ v7 \in Nat /\ v9.intent \in Intent
    BY Fields DEF PortalTypes, Opened, Browser!Press, Intent
<1>2. Browser!KeyFor(v9) \in Nat /\ Browser!IfMatch(v9) \in Nat
    BY <1>1, Fields DEF Browser!KeyFor, Browser!IfMatch
<1>3. v9' = [v9 EXCEPT !.key = Browser!KeyFor(v9), !.keyedFor = v9.typed]
    BY DEF Browser!Press
<1> DEFINE r == [id |-> v10 + 1, intent |-> v9.intent, values |-> v9.values,
                 version |-> Browser!IfMatch(v9), key |-> Browser!KeyFor(v9)]
<1>4. v11' = v11 \cup {r}
    BY DEF Browser!Press
<1>5. r \in RequestRow
    BY <1>1, <1>2, Fields DEF RequestRow
<1> QED
    BY <1>1, <1>2, <1>3, <1>4, <1>5 DEF FormRow

LEMMA Worked ==
    ASSUME PortalTypes, NEW r \in v11, Browser!Work(r)
    PROVE  /\ v14' \in [Intent -> Nat] /\ r.intent \in Intent
           /\ \A i \in Intent : i # r.intent => v14'[i] = v14[i]
           /\ v14'[r.intent] > 0
           /\ v14'[r.intent] = 1 \/ v14'[r.intent] = v14[r.intent] + 1
           /\ v4.route.again \in {"same", "replaced"} => v14'[r.intent] = 1
<1>1. r.intent \in Intent /\ v14 \in [Intent -> Nat]
    BY Fields DEF PortalTypes
<1>2. v14' = [v14 EXCEPT ![r.intent] =
                   IF v4.route.again \in {"same", "replaced"} THEN 1 ELSE v14[r.intent] + 1]
    BY DEF Browser!Work
<1> QED
    BY <1>1, <1>2

LEMMA Succeeded ==
    ASSUME PortalTypes, Browser!Succeed
    PROVE  /\ v9' \in FormRow /\ ~v9'.open /\ v9'.values = v9.values
           /\ v9'.intent = v9.intent /\ v9'.typed = v9.typed
           /\ IF v4.after = "keeps" THEN v9'.key = v9.key /\ v9'.keyedFor = v9.keyedFor
              ELSE v9'.key = 0 /\ v9'.keyedFor = 0
<1>1. CASE v4.after = "keeps"
    <2>1. v9' = [v9 EXCEPT !.open = FALSE] /\ v9 \in FormRow
        BY <1>1 DEF Browser!Succeed, PortalTypes
    <2> QED
        BY <1>1, <2>1 DEF FormRow
<1>2. CASE v4.after # "keeps"
    <2>1. v9' = [v9 EXCEPT !.open = FALSE, !.key = 0, !.keyedFor = 0] /\ v9 \in FormRow
        BY <1>2 DEF Browser!Succeed, PortalTypes
    <2> QED
        BY <1>2, <2>1 DEF FormRow
<1> QED
    BY <1>1, <1>2

LEMMA Arrived ==
    ASSUME PortalTypes, NEW v \in v8, Browser!Arrive(v)
    PROVE  /\ v9' \in FormRow /\ v9'.values = v9.values
           /\ v9'.intent = v9.intent /\ v9'.typed = v9.typed
           /\ v9'.key = v9.key /\ v9'.keyedFor = v9.keyedFor
           /\ v9'.open => v9.open
           /\ v9'.open # v9.open => v4.sends = "remounted"
           /\ v4.sends = "remounted" /\ v9'.open => v = v7
<1>1. v9' = Browser!Remount(v) /\ v9 \in FormRow
    BY DEF Browser!Arrive, PortalTypes
<1>2. CASE v4.sends = "remounted" /\ v # v7
    <2>1. v9' = [v9 EXCEPT !.open = FALSE]
        BY <1>1, <1>2 DEF Browser!Remount
    <2> QED
        BY <1>1, <1>2, <2>1 DEF FormRow
<1>3. CASE ~(v4.sends = "remounted" /\ v # v7)
    <2>1. v9' = v9
        BY <1>1, <1>3 DEF Browser!Remount
    <2> QED
        BY <1>1, <1>3, <2>1 DEF FormRow
<1> QED
    BY <1>2, <1>3

(* A reply leaves what the person's side holds alone, but for the answer. *)
LEMMA Replied ==
    ASSUME PortalTypes, NEW r \in v11, Browser!Replay(r) \/ Browser!Refuse(r) \/ Browser!Work(r)
    PROVE  /\ UNCHANGED <<v1, v4, v5, v7, v8, v9, v10, v12, v16, v17>>
           /\ v11' \subseteq v11 /\ v11' = v11 \ {r}
           /\ v13' \in Answers /\ (v13' = v13 \/ v12 = r.id)
           /\ Browser!Work(r) \/ UNCHANGED <<v6, v14, v15, v18>>
           /\ v13'.is = "success" =>
                  \/ v13' = v13
                  \/ Browser!Work(r) /\ v13'.intent = r.intent /\ v13'.version = v6 + 1
                  \/ \E s \in v15 : Browser!Keyed /\ s.key = r.key /\ v13'.intent = r.intent
                                       /\ v13'.version = s.version
<1>1. /\ v13 \in Answers /\ r \in RequestRow /\ v6 \in Nat
      /\ v15 \in SUBSET [key : Nat, version : Nat] /\ r.intent \in Intent
    BY Fields DEF PortalTypes
<1>2. CASE Browser!Replay(r)
    <2>1. PICK s \in Browser!Replayed(r) :
              Browser!Reply(r, [is |-> "success", intent |-> r.intent, version |-> s.version])
              /\ UNCHANGED <<Browser!server, v18>>
        BY <1>2 DEF Browser!Replay
    <2>2. s \in v15 /\ Browser!Keyed /\ s.key = r.key /\ s.version \in Nat
        BY <1>1, <2>1 DEF Browser!Replayed
    <2> DEFINE m == [is |-> "success", intent |-> r.intent, version |-> s.version]
    <2>3. m \in Answers /\ m.intent = r.intent /\ m.version = s.version
        BY <1>1, <2>2 DEF Answers
    <2>4. v13' = v13 \/ (v13' = m /\ v12 = r.id)
        BY <2>1 DEF Browser!Reply
    <2> HIDE DEF m
    <2> QED
        BY <1>1, <2>1, <2>2, <2>3, <2>4 DEF Browser!Reply, Browser!walk, Browser!client,
                                            Browser!server, Browser!ghosts
<1>3. CASE Browser!Refuse(r)
    <2> DEFINE m == [is |-> "failure"]
    <2>1. m \in Answers /\ m.is # "success"
        BY DEF Answers
    <2>2. Browser!Reply(r, m) /\ UNCHANGED <<Browser!server, v18>>
        BY <1>3 DEF Browser!Refuse
    <2> HIDE DEF m
    <2>3. v13' = v13 \/ (v13' = m /\ v12 = r.id)
        BY <2>2 DEF Browser!Reply
    <2> QED
        BY <1>1, <2>1, <2>2, <2>3 DEF Browser!Reply, Browser!walk, Browser!client, Browser!server,
                                      Browser!ghosts
<1>4. CASE Browser!Work(r)
    <2> DEFINE m == [is |-> "success", intent |-> r.intent, version |-> v6 + 1]
    <2>1. m \in Answers /\ m.intent = r.intent /\ m.version = v6 + 1
        BY <1>1 DEF Answers
    <2>2. Browser!Reply(r, m)
        BY <1>4 DEF Browser!Work
    <2> HIDE DEF m
    <2>3. v13' = v13 \/ (v13' = m /\ v12 = r.id)
        BY <2>2 DEF Browser!Reply
    <2> QED
        BY <1>1, <1>4, <2>1, <2>2, <2>3 DEF Browser!Reply, Browser!walk, Browser!client,
                                            Browser!ghosts
<1> QED
    BY <1>2, <1>3, <1>4

LEMMA PortalTypesStep ==
    ASSUME PortalTypes, Opened, [Browser!Next]_(Browser!vars) PROVE PortalTypes'
<1>1. ASSUME NEW p \in Browser!Rendered, Browser!Follow(p) PROVE PortalTypes'
    BY <1>1 DEF Browser!Follow, PortalTypes, Browser!client, Browser!server, Browser!network,
                Browser!ghosts
<1>2. ASSUME NEW p \in Browser!Rendered, Browser!OpenForm(p) PROVE PortalTypes'
    <2>1. v9' = [Browser!Closed EXCEPT !.open = TRUE, !.values = v7, !.intent = 1]
        BY <1>2 DEF Browser!OpenForm
    <2>2. v9' = [open |-> TRUE, values |-> v7, intent |-> 1, typed |-> 1, key |-> 0,
                   keyedFor |-> 0]
        BY <2>1 DEF Browser!Closed
    <2>3. v7 \in Nat /\ 1 \in 0..MaxIntents
        BY PortalAssumption DEF PortalTypes
    <2>4. v9' \in FormRow
        BY <2>2, <2>3 DEF FormRow
    <2> QED
        BY <1>2, <2>4 DEF Browser!OpenForm, PortalTypes, Browser!server, Browser!network,
                          Browser!ghosts
<1>3. ASSUME NEW f \in FormRow, Browser!Fill(f) PROVE PortalTypes'
    BY <1>3, FormsFilled DEF Browser!Fill, PortalTypes, Browser!walk, Browser!server,
                             Browser!network, Browser!ghosts
<1>4. CASE Browser!Edit
    BY <1>4, Edited DEF Browser!Edit, PortalTypes, Browser!walk, Browser!server, Browser!network,
                        Browser!ghosts
<1>5. CASE Browser!Press
    <2>1. v11' \in SUBSET RequestRow /\ v9' \in FormRow /\ v10' \in Nat
        <3>1. v11 \in SUBSET RequestRow /\ v10 \in Nat /\ v10' = v10 + 1
            BY <1>5 DEF PortalTypes, Browser!Press
        <3> QED
            BY <1>5, <3>1, Pressed
    <2> QED
        BY <1>5, <2>1 DEF Browser!Press, PortalTypes, Browser!walk, Browser!server, Browser!ghosts
<1>6. CASE Browser!GiveUp \/ Browser!Fail
    <2>1. Browser!Nothing \in Answers
        BY DEF Answers
    <2> QED
        BY <1>6, <2>1 DEF Browser!GiveUp, Browser!Fail, PortalTypes, Browser!walk, Browser!client,
                          Browser!server, Browser!ghosts
<1>7. ASSUME NEW r \in v11, Browser!Replay(r) \/ Browser!Refuse(r) PROVE PortalTypes'
    <2>1. UNCHANGED <<v6, v14, v15, v18>>
        BY <1>7 DEF Browser!Replay, Browser!Refuse, Browser!server
    <2> QED
        BY <1>7, <2>1, Replied DEF PortalTypes
<1>8. ASSUME NEW r \in v11, Browser!Work(r) PROVE PortalTypes'
    <2>1. v6' \in Nat /\ v18' \in BOOLEAN /\ v15' \in SUBSET [key : Nat, version : Nat]
        <3>1. r.key \in Nat /\ v6 \in Nat /\ v15 \in SUBSET [key : Nat, version : Nat]
            BY Fields DEF PortalTypes
        <3>2. v6' = v6 + 1 /\ v18' \in BOOLEAN
            BY <1>8 DEF Browser!Work, PortalTypes
        <3>3. v15' = v15 \/ v15' = v15 \cup {[key |-> r.key, version |-> v6 + 1]}
            BY <1>8 DEF Browser!Work
        <3> QED
            BY <3>1, <3>2, <3>3
    <2> QED
        BY <1>8, <2>1, Replied, Worked DEF PortalTypes
<1>9. CASE Browser!OthersChange
    BY <1>9 DEF Browser!OthersChange, PortalTypes, Browser!walk, Browser!client, Browser!network,
                Browser!ghosts
<1>10. CASE Browser!Succeed
    <2>1. v13.version \in Nat /\ Browser!Nothing \in Answers
        BY <1>10, Fields DEF Browser!Succeed, PortalTypes, Answers
    <2> QED
        BY <1>10, <2>1, Succeeded DEF Browser!Succeed, Browser!Refetched, PortalTypes,
                                      Browser!walk, Browser!server
<1>11. CASE Browser!Refetch
    BY <1>11 DEF Browser!Refetch, PortalTypes, Browser!walk, Browser!server, Browser!network,
                 Browser!ghosts
<1>12. ASSUME NEW v \in v8, Browser!Arrive(v) PROVE PortalTypes'
    BY <1>12, Arrived DEF Browser!Arrive, PortalTypes, Browser!walk, Browser!server, Browser!network
<1>13. CASE UNCHANGED Browser!vars
    BY <1>13 DEF Browser!vars, Browser!walk, Browser!client, Browser!server, Browser!network,
                 Browser!ghosts, PortalTypes
<1>14. Browser!Closed \in FormRow /\ v9 \in FormRow
    BY Fields DEF PortalTypes
<1>15. Browser!Reopen \/ Browser!DoAnother => \E f \in FormRow : Browser!Fill(f)
    BY <1>14 DEF Browser!Reopen, Browser!DoAnother
<1> QED
    BY <1>1, <1>2, <1>3, <1>4, <1>5, <1>6, <1>7, <1>8, <1>9, <1>10, <1>11, <1>12, <1>13, <1>15
    DEF Browser!Next

LEMMA OpenedStep ==
    ASSUME PortalTypes, Opened, [Browser!Next]_(Browser!vars) PROVE Opened'
<1>1. ASSUME NEW p \in Browser!Rendered, Browser!Follow(p) PROVE Opened'
    BY <1>1 DEF Browser!Follow, Opened, Browser!client, Browser!server, Browser!network,
                Browser!ghosts
<1>2. ASSUME NEW p \in Browser!Rendered, Browser!OpenForm(p) PROVE Opened'
    <2>1. v4' = p /\ v1' = v1 /\ v9'.intent = 1 /\ p.is = "change"
        BY <1>2 DEF Browser!OpenForm, Browser!Closed
    <2>2. p \in Browser!Pages[v1] /\ p # Browser!Nothing
        BY <2>1 DEF Browser!Rendered, Browser!Nothing
    <2> QED
        BY <2>1, <2>2 DEF Opened
<1>3. ASSUME v4 # Browser!Nothing, v4' = v4, v1' = v1, v9'.intent # 0 PROVE Opened'
    <2>1. v4.is = "change" /\ v4 \in Browser!Pages[v1]
        BY <1>3 DEF Opened
    <2>2. v4' # Browser!Nothing /\ v4'.is = "change" /\ v4' \in Browser!Pages[v1']
        BY <1>3, <2>1
    <2> QED
        BY <1>3, <2>2 DEF Opened
<1>4. ASSUME NEW f \in FormRow, Browser!Fill(f) PROVE Opened'
    <2>1. v9'.intent # 0
        <3>1. v9'.intent \in Intent
            BY <1>4, FormsFilled
        <3> QED
            BY <3>1, Fields
    <2>2. v4 # Browser!Nothing /\ v4' = v4 /\ v1' = v1
        BY <1>4 DEF Browser!Fill, Browser!walk
    <2> QED
        BY <1>3, <2>1, <2>2
<1>5. CASE Browser!Edit
    BY <1>3, <1>5, Edited, Fields DEF Browser!Edit, Browser!walk, Intent
<1>6. CASE Browser!Press
    BY <1>3, <1>6, Pressed, Fields DEF Browser!Press, Browser!walk, Intent
<1>7. CASE UNCHANGED <<v4, v1, v9>> /\ v4 # Browser!Nothing
    BY <1>3, <1>7 DEF Opened
<1>8. CASE \/ Browser!GiveUp \/ Browser!Fail \/ Browser!Succeed
           \/ \E r \in v11 : Browser!Replay(r) \/ Browser!Refuse(r) \/ Browser!Work(r)
           \/ \E v \in v8 : Browser!Arrive(v)
    <2>1. UNCHANGED <<v4, v1>>
        BY <1>8 DEF Browser!GiveUp, Browser!Fail, Browser!Replay, Browser!Refuse, Browser!Work,
                    Browser!Reply, Browser!Succeed, Browser!Arrive, Browser!walk
    <2>2. CASE v4 = Browser!Nothing
        <3>1. v13.is # "success" /\ v13.is # "failure" /\ v11 = {} /\ v8 = {}
            BY <2>2 DEF Opened, Browser!Nothing
        <3>2. Browser!GiveUp
            BY <1>8, <3>1 DEF Browser!Fail, Browser!Succeed
        <3> QED
            BY <2>2, <3>2 DEF Opened, Browser!GiveUp, Browser!client, Browser!server, Browser!ghosts
    <2>3. CASE v4 # Browser!Nothing
        <3>1. v9'.intent = v9.intent
            BY <1>8, Succeeded, Arrived DEF Browser!GiveUp, Browser!Fail, Browser!Replay,
                                            Browser!Refuse, Browser!Work, Browser!Reply, Browser!client
        <3> QED
            BY <1>3, <2>1, <2>3, <3>1 DEF Opened
    <2> QED
        BY <2>2, <2>3
<1>9. CASE Browser!OthersChange
    BY <1>7, <1>9 DEF Browser!OthersChange, Browser!walk, Browser!client
<1>10. CASE Browser!Refetch
    BY <1>7, <1>10 DEF Browser!Refetch, Browser!walk, Opened
<1>11. CASE UNCHANGED Browser!vars
    BY <1>11 DEF Browser!vars, Browser!walk, Browser!client, Browser!server, Browser!network,
                 Browser!ghosts, Opened
<1>12. Browser!Reopen \/ Browser!DoAnother => \E f \in FormRow : Browser!Fill(f)
    BY Fields DEF Browser!Reopen, Browser!DoAnother, PortalTypes
<1> QED
    BY <1>1, <1>2, <1>4, <1>5, <1>6, <1>8, <1>9, <1>10, <1>11, <1>12 DEF Browser!Next

(* Uses are dropped, or one more is added. *)
LEMMA KeyUsesStep ==
    /\ v11' \subseteq v11 /\ v9' = v9 => KeyUses' \subseteq KeyUses
    /\ v11' = v11 /\ v9'.keyedFor # v9'.typed =>
           KeyUses' = {<<r.key, r.intent>> : r \in v11} /\ KeyUses' \subseteq KeyUses
BY DEF KeyUses

(* Nothing that Keys speaks of changes, but that requests may be dropped. *)
LEMMA KeysFrame ==
    ASSUME Keys, v11' \subseteq v11, UNCHANGED <<v4, v9, v10, v14, v15>>
    PROVE  Keys'
<1>1. KeyUses' \subseteq KeyUses
    BY KeyUsesStep
<1>2. /\ Browser!Keyed' <=> Browser!Keyed
      /\ \A k : Stored(k)' <=> Stored(k)
      /\ \A i : Earlier(i)' <=> Earlier(i)
      /\ Keeps' <=> Keeps
    BY DEF Browser!Keyed, Stored, Earlier, Keeps
<1> QED
    BY <1>1, <1>2 DEF Keys

LEMMA KeyTypes ==
    ASSUME PortalTypes PROVE \A u \in KeyUses : u[1] \in Nat /\ u[2] \in 0..MaxIntents
<1>1. \A r \in v11 : r.key \in Nat /\ r.intent \in 0..MaxIntents
    BY Fields, PortalAssumption DEF PortalTypes, Intent
<1>2. v9.key \in Nat /\ v9.intent \in 0..MaxIntents
    BY Fields DEF PortalTypes
<1> QED
    BY <1>1, <1>2 DEF KeyUses

(* A form filled for something new has made no key for it. *)
LEMMA KeysOfNewForm ==
    ASSUME PortalTypes, Opened, Keys, v4 # Browser!Nothing, v4' = v4, v11' = v11,
           UNCHANGED <<v10, v14, v15>>, v9'.open, v9'.keyedFor < v9'.typed,
           v9'.intent = v9.intent + 1, v9'.key <= v10, v9'.typed >= 1,
           v9' \in FormRow
    PROVE  Keys'
<1>1. /\ v9.intent \in Nat /\ v9'.keyedFor \in Nat /\ v9'.typed \in Nat
      /\ \A i \in Intent : i \in Nat /\ v14[i] \in Nat
    BY Fields, PortalAssumption DEF PortalTypes
<1>2. v9'.keyedFor # v9'.typed /\ v9'.keyedFor <= v9'.typed
    BY <1>1
<1>3. KeyUses' \subseteq KeyUses
    BY <1>2, KeyUsesStep
<1>4. \A u \in KeyUses : u[1] <= v10 /\ u[2] <= v9.intent /\ u[2] \in Nat
    BY KeyTypes, PortalAssumption DEF Keys
<1>5. \A u \in KeyUses' : u[1] <= v10' /\ u[2] <= v9'.intent /\ u[2] # v9'.intent
    BY <1>1, <1>3, <1>4
<1>6. \A i \in Intent : v14[i] > 0 => i <= v9'.intent /\ i # v9'.intent
    BY <1>1 DEF Keys
<1>7. /\ Browser!Keyed' <=> Browser!Keyed
      /\ \A k : Stored(k)' <=> Stored(k)
      /\ \A i : Earlier(i)' <=> Earlier(i)
      /\ Keeps' <=> Keeps
    BY DEF Browser!Keyed, Stored, Earlier, Keeps
<1> QED
    BY <1>2, <1>3, <1>5, <1>6, <1>7 DEF Keys

(* A form that keeps its key has made it for what is stored under it. *)
LEMMA KeysOfKeptForm ==
    ASSUME PortalTypes, Opened, Keys, Keeps, Stored(v9.key), v9.keyedFor = v9.typed,
           UNCHANGED <<v4, v10, v11, v14, v15>>, v9'.open, v9'.intent = v9.intent + 1,
           v9'.key = v9.key, v9'.typed = v9.typed, v9'.keyedFor = v9.keyedFor
    PROVE  Keys'
<1> DEFINE new == <<v9.key, v9.intent + 1>>
           old == <<v9.key, v9.intent>>
<1>1. /\ new[1] = v9.key /\ new[2] = v9.intent + 1 /\ old \in KeyUses
      /\ old[1] = v9.key /\ old[2] = v9.intent
    BY DEF KeyUses
<1>2. \A u \in KeyUses' : u \in KeyUses \/ u = new
    BY DEF KeyUses
<1> HIDE DEF new, old
<1>3. /\ v9.intent \in Intent /\ v9.intent \in Nat /\ v9.typed \in Nat
      /\ \A i \in Intent : i \in Nat /\ v14[i] \in Nat
    BY Fields DEF PortalTypes, Opened, Keeps, Intent
<1>4. \A u \in KeyUses : u[1] <= v10 /\ u[2] <= v9.intent /\ u[2] \in Nat
    BY KeyTypes, PortalAssumption DEF Keys
<1>5. \A u \in KeyUses : u[2] # new[2]
    BY <1>1, <1>3, <1>4
<1>6. \A u \in KeyUses' : u[1] <= v10' /\ u[2] <= v9'.intent
    BY <1>1, <1>2, <1>3, <1>4
<1>7. /\ Browser!Keyed' <=> Browser!Keyed
      /\ \A k : Stored(k)' <=> Stored(k)
      /\ \A i : Earlier(i)' <=> Earlier(i)
      /\ Keeps' <=> Keeps
    BY DEF Browser!Keyed, Stored, Earlier, Keeps
<1>8. \A u, v \in KeyUses' : u[2] = v[2] => u[1] = v[1]
    BY <1>2, <1>5 DEF Keys
<1>9. \A u, v \in KeyUses' : u[1] = v[1] => u[2] = v[2] \/ (Keeps /\ Stored(u[1]))
    BY <1>1, <1>2 DEF Keys
<1>10. v4 # Browser!Nothing /\ Browser!Keyed => Earlier(new[2])
    <2> SUFFICES ASSUME v4 # Browser!Nothing, Browser!Keyed PROVE Earlier(new[2])
        OBVIOUS
    <2>1. v14[v9.intent] > 0 \/ Earlier(v9.intent)
        BY <1>1 DEF Keys
    <2>2. \A i \in Intent : i <= v9.intent => i < new[2]
        BY <1>1, <1>3
    <2>3. PICK i \in Intent : i <= v9.intent /\ v14[i] > 0
        BY <1>3, <2>1 DEF Earlier
    <2> QED
        BY <2>2, <2>3 DEF Earlier
<1>11. \A i \in Intent : v14[i] > 0 => i <= v9'.intent /\ i # new[2]
    BY <1>1, <1>3 DEF Keys
<1>12. ASSUME v4 # Browser!Nothing, Browser!Keyed, NEW u \in KeyUses'
       PROVE  /\ v14[u[2]] > 0 => Stored(u[1])
              /\ Stored(u[1]) => v14[u[2]] > 0 \/ Earlier(u[2])
    BY <1>1, <1>2, <1>10, <1>12 DEF Keys
<1> QED
    BY <1>3, <1>6, <1>7, <1>8, <1>9, <1>11, <1>12 DEF Keys

LEMMA KeysStep ==
    ASSUME PortalTypes, Opened, Keys, Waits, [Browser!Next]_(Browser!vars) PROVE Keys'
<1>1. ASSUME NEW p \in Browser!Rendered, Browser!Follow(p) PROVE Keys'
    BY <1>1, KeysFrame DEF Browser!Follow, Browser!client, Browser!server, Browser!network
<1>2. ASSUME NEW p \in Browser!Rendered, Browser!OpenForm(p) PROVE Keys'
    <2>1. /\ v9'.open /\ v9'.keyedFor = 0 /\ v9'.typed = 1 /\ v9'.intent = 1
          /\ v9'.key = 0
        BY <1>2 DEF Browser!OpenForm, Browser!Closed
    <2>2. v11 = {} /\ v15 = {} /\ \A i \in Intent : v14[i] = 0
        BY <1>2 DEF Browser!OpenForm, Opened
    <2>3. KeyUses' = {}
        BY <1>2, <2>1, <2>2 DEF KeyUses, Browser!OpenForm, Browser!network
    <2>4. v11' = v11 /\ v15' = v15 /\ v14' = v14 /\ v10' = v10 /\ v10 \in Nat
        BY <1>2 DEF Browser!OpenForm, Browser!network, Browser!server, PortalTypes
    <2>5. /\ v9'.keyedFor <= v9'.typed /\ v9'.typed >= 1 /\ v9'.key <= v10'
          /\ v9'.open /\ \A i \in Intent : ~(v14'[i] > 0)
        BY <2>1, <2>2, <2>4
    <2> QED
        BY <2>2, <2>3, <2>4, <2>5 DEF Keys
<1>3. CASE Browser!Reopen \/ Browser!DoAnother
    <2> DEFINE kept == v4.after \in {"resets", "keeps"} /\ ~v9.open
    <2>1. PICK f \in {Browser!Closed, v9} :
              Browser!Fill(f) /\ (f = Browser!Closed \/ (f = v9 /\ kept))
        BY <1>3 DEF Browser!Reopen, Browser!DoAnother
    <2>2. f \in FormRow
        BY <2>1, Fields DEF PortalTypes
    <2>3. /\ v9' \in FormRow /\ v9'.open /\ v9'.intent = v9.intent + 1
          /\ v9'.typed = f.typed /\ v9'.key = f.key /\ v9'.keyedFor = f.keyedFor
        BY <2>1, <2>2, FormsFilled
    <2>4. v4 # Browser!Nothing /\ v4' = v4 /\ v11' = v11
          /\ UNCHANGED <<v10, v14, v15>>
        BY <2>1 DEF Browser!Fill, Browser!network, Browser!server
    <2>5. CASE f = Browser!Closed
        <3>1. f.keyedFor < f.typed /\ f.typed >= 1 /\ f.key <= v10
            BY <2>5 DEF Browser!Closed, PortalTypes
        <3> QED
            BY <2>3, <2>4, <3>1, KeysOfNewForm
    <2>6. CASE f = v9 /\ v4.after = "resets" /\ ~v9.open
        <3>1. v9.keyedFor <= v9.typed /\ v9.keyedFor # v9.typed /\ v9.typed >= 1 /\ v9.key <= v10
            BY <2>4, <2>6 DEF Keys
        <3>2. v9.keyedFor \in Nat /\ v9.typed \in Nat
            BY Fields DEF PortalTypes
        <3>3. f.keyedFor < f.typed /\ f.typed >= 1 /\ f.key <= v10
            BY <2>6, <3>1, <3>2
        <3> QED
            BY <2>3, <2>4, <3>3, KeysOfNewForm
    <2>7. CASE f = v9 /\ v4.after = "keeps" /\ ~v9.open
        <3>1. Keeps /\ v9.keyedFor = v9.typed /\ Stored(v9.key)
            BY <2>4, <2>7 DEF Keeps, Waits
        <3> QED
            BY <2>3, <2>4, <2>7, <3>1, KeysOfKeptForm
    <2> QED
        BY <2>1, <2>5, <2>6, <2>7
<1>4. CASE Browser!Edit
    <2>1. /\ v9' \in FormRow /\ v9'.open /\ v9'.intent = v9.intent + 1
          /\ v9'.typed = v9.typed + 1 /\ v9'.key = v9.key
          /\ v9'.keyedFor = v9.keyedFor
        BY <1>4, Edited
    <2>2. v4 # Browser!Nothing /\ v4' = v4 /\ v11' = v11
          /\ UNCHANGED <<v10, v14, v15>>
        BY <1>4 DEF Browser!Edit, Browser!network, Browser!server
    <2>3. v9.typed \in Nat /\ v9.keyedFor \in Nat /\ v9.keyedFor <= v9.typed
          /\ v9.key <= v10
        BY Fields DEF PortalTypes, Keys
    <2>4. v9'.keyedFor < v9'.typed /\ v9'.typed >= 1 /\ v9'.key <= v10
        BY <2>1, <2>3
    <2> QED
        BY <2>1, <2>2, <2>4, KeysOfNewForm
<1>5. CASE Browser!Press
    <2>1. /\ v9' \in FormRow /\ v9'.open = v9.open
          /\ v9'.intent = v9.intent /\ v9'.typed = v9.typed
          /\ v9'.key = Browser!KeyFor(v9) /\ v9'.keyedFor = v9.typed
          /\ Browser!KeyFor(v9) \in Nat /\ v9.intent \in Intent
        BY <1>5, Pressed
    <2>2. PICK r \in RequestRow : v11' = v11 \cup {r} /\ r.intent = v9.intent
                                   /\ r.key = Browser!KeyFor(v9)
        BY <1>5, Pressed
    <2>3. /\ v9.open /\ v10' = v10 + 1 /\ v10 \in Nat /\ v4' = v4
          /\ UNCHANGED <<v14, v15>> /\ v4 # Browser!Nothing
        BY <1>5 DEF Browser!Press, Browser!server, PortalTypes
    <2>4. KeyUses' \subseteq KeyUses \cup {<<Browser!KeyFor(v9), v9.intent>>}
        BY <2>1, <2>2 DEF KeyUses
    <2>5. /\ Browser!Keyed' <=> Browser!Keyed
          /\ \A k : Stored(k)' <=> Stored(k)
          /\ \A i : Earlier(i)' <=> Earlier(i)
          /\ Keeps' <=> Keeps
        BY <2>3 DEF Browser!Keyed, Stored, Earlier, Keeps
    <2>6. /\ \A u \in KeyUses : u[1] \in Nat /\ u[2] \in Nat
          /\ \A s \in v15 : s.key \in Nat
          /\ v9.typed \in Nat /\ v9.typed >= 1 /\ v9.key \in Nat
        BY KeyTypes, Fields, PortalAssumption DEF PortalTypes, Keys
    <2>7. CASE v9.keyedFor = v9.typed
        <3>1. Browser!KeyFor(v9) = v9.key /\ <<v9.key, v9.intent>> \in KeyUses
            BY <2>7 DEF Browser!KeyFor, KeyUses
        <3>2. KeyUses' \subseteq KeyUses
            BY <2>4, <3>1
        <3>3. \A k \in Nat : k <= v10 => k <= v10'
            BY <2>3
        <3>4. v9'.key <= v10' /\ \A s \in v15' : s.key <= v10'
            BY <2>1, <2>3, <2>6, <3>1, <3>3 DEF Keys
        <3>5. \A u \in KeyUses' : u[1] <= v10' /\ u[2] <= v9'.intent
            BY <2>1, <2>6, <3>2, <3>3 DEF Keys
        <3> QED
            BY <2>1, <2>3, <2>5, <2>6, <3>2, <3>4, <3>5 DEF Keys
    <2>8. CASE v9.keyedFor # v9.typed
        <3> DEFINE new == <<v10 + 1, v9.intent>>
        <3>1. Browser!KeyFor(v9) = v10 + 1
            BY <2>8 DEF Browser!KeyFor
        <3>2. \A u \in KeyUses' : u \in KeyUses \/ u = new
            BY <2>4, <3>1
        <3>3. \A u \in KeyUses : u[1] <= v10 /\ u[2] <= v9.intent /\ u[2] # v9.intent
            BY <2>3, <2>8 DEF Keys
        <3>4. \A i \in Intent : v14[i] > 0 => i # v9.intent
            BY <2>3, <2>8 DEF Keys
        <3>5. \A u \in KeyUses : u[1] # new[1] /\ u[2] # new[2]
            BY <2>3, <2>6, <3>3
        <3>6. new[1] = v10' /\ new[2] = v9.intent
            BY <2>3
        <3> HIDE DEF new
        <3>7. /\ \A u, v \in KeyUses' : u[2] = v[2] => u[1] = v[1]
              /\ \A u, v \in KeyUses' : u[1] = v[1] => u[2] = v[2] \/ (Keeps /\ Stored(u[1]))
            BY <3>2, <3>5 DEF Keys
        <3>8. \A u \in KeyUses' : u[1] <= v10' /\ u[2] <= v9'.intent
            BY <2>1, <2>3, <2>6, <3>2, <3>3, <3>6, Fields
        <3>9. \A s \in v15 : s.key <= v10' /\ s.key # v10'
            BY <2>3, <2>6 DEF Keys
        <3>10. ~(v14[v9.intent] > 0)
            BY <2>1, <3>4
        <3>11. v4 # Browser!Nothing /\ Browser!Keyed =>
                   \A u \in KeyUses' : /\ v14[u[2]] > 0 => Stored(u[1])
                                       /\ Stored(u[1]) => v14[u[2]] > 0 \/ Earlier(u[2])
            <4>1. ~Stored(new[1])
                BY <3>6, <3>9 DEF Stored
            <4> QED
                BY <3>2, <3>6, <3>10, <4>1 DEF Keys
        <3>12. \A i \in Intent : v14[i] > 0 => i <= v9.intent
            BY DEF Keys
        <3> QED
            BY <2>1, <2>3, <2>5, <2>6, <3>1, <3>7, <3>8, <3>9, <3>11, <3>12 DEF Keys
    <2> QED
        BY <2>7, <2>8
<1>6. CASE Browser!GiveUp \/ Browser!Fail
    BY <1>6, KeysFrame DEF Browser!GiveUp, Browser!Fail, Browser!client, Browser!server
<1>7. ASSUME NEW r \in v11, Browser!Replay(r) \/ Browser!Refuse(r) PROVE Keys'
    BY <1>7, KeysFrame DEF Browser!Replay, Browser!Refuse, Browser!Reply, Browser!client,
                           Browser!server
<1>8. ASSUME NEW r \in v11, Browser!Work(r) PROVE Keys'
    <2>1. /\ UNCHANGED <<v4, v9, v10>> /\ v11' \subseteq v11
        BY <1>8 DEF Browser!Work, Browser!Reply, Browser!client
    <2>2. /\ r.intent \in Intent
          /\ \A i \in Intent : i # r.intent => v14'[i] = v14[i]
          /\ v14'[r.intent] > 0
        BY <1>8, Worked
    <2>3. v15' = IF Browser!Keyed THEN v15 \cup {[key |-> r.key, version |-> v6 + 1]} ELSE v15
        BY <1>8 DEF Browser!Work
    <2>4. KeyUses' \subseteq KeyUses /\ <<r.key, r.intent>> \in KeyUses
        BY <2>1, KeyUsesStep DEF KeyUses
    <2>5. (Browser!Keyed' <=> Browser!Keyed) /\ (Keeps' <=> Keeps)
          /\ \A k : Stored(k) => Stored(k)'
        BY <2>1, <2>3 DEF Browser!Keyed, Keeps, Stored
    <2>6. r.key <= v10 /\ r.intent <= v9.intent
        BY <2>4 DEF Keys
    <2>7. \A s \in v15' : s.key <= v10
        BY <2>3, <2>6 DEF Keys
    <2>8. \A i \in Intent : v14'[i] > 0 => i <= v9.intent
        BY <2>2, <2>6 DEF Keys
    <2>9. v9.open /\ v9.keyedFor # v9.typed => r.intent # v9.intent
        BY <2>4 DEF Keys
    <2>10. v9.open /\ v9.keyedFor # v9.typed =>
               \A i \in Intent : v14'[i] > 0 => i # v9.intent
        BY <2>2, <2>9 DEF Keys
    <2>11. ASSUME v4 # Browser!Nothing, Browser!Keyed, NEW u \in KeyUses
           PROVE  /\ v14'[u[2]] > 0 => Stored(u[1])'
                  /\ Stored(u[1])' => v14'[u[2]] > 0 \/ Earlier(u[2])'
        <3>1. ~Stored(r.key)
            BY <1>8, <2>11 DEF Browser!Work, Browser!Replayed, Stored
        <3>2. u[1] = r.key <=> u[2] = r.intent
            BY <2>4, <3>1 DEF Keys
        <3>3. /\ v14[u[2]] > 0 => Stored(u[1])
              /\ Stored(u[1]) => v14[u[2]] > 0 \/ Earlier(u[2])
            BY <2>11 DEF Keys
        <3>4. Stored(u[1])' <=> u[1] = r.key \/ Stored(u[1])
            <4> DEFINE new == [key |-> r.key, version |-> v6 + 1]
            <4>1. new.key = r.key /\ v15' = v15 \cup {new}
                BY <2>3, <2>11
            <4> HIDE DEF new
            <4> QED
                BY <4>1 DEF Stored
        <3>5. Earlier(u[2]) => Earlier(u[2])'
            BY <2>1, <2>2, <2>5 DEF Earlier
        <3>6. u[2] \in Intent
            <4>1. v9.intent \in Intent
                BY <2>11, Fields DEF Opened, PortalTypes, Intent
            <4>2. \A q \in v11 : q.intent \in Intent
                BY Fields DEF PortalTypes
            <4> QED
                BY <4>1, <4>2 DEF KeyUses
        <3> QED
            BY <2>2, <3>2, <3>3, <3>4, <3>5, <3>6
    <2> QED
        BY <2>1, <2>4, <2>5, <2>7, <2>8, <2>10, <2>11 DEF Keys
<1>9. CASE Browser!OthersChange \/ Browser!Refetch
    BY <1>9, KeysFrame DEF Browser!OthersChange, Browser!Refetch, Browser!client, Browser!server,
                           Browser!network
<1>10. CASE Browser!Succeed
    <2>1. /\ ~v9'.open /\ v9'.intent = v9.intent /\ v9'.typed = v9.typed
          /\ IF v4.after = "keeps" THEN v9'.key = v9.key /\ v9'.keyedFor = v9.keyedFor
             ELSE v9'.key = 0 /\ v9'.keyedFor = 0
        BY <1>10, Succeeded
    <2>2. UNCHANGED <<v4, v10, v11, v14, v15>>
        BY <1>10 DEF Browser!Succeed, Browser!server
    <2>3. v9.typed \in Nat /\ v10 \in Nat /\ v9.typed >= 1
        BY Fields DEF PortalTypes, Keys
    <2>4. /\ v9'.keyedFor <= v9'.typed /\ v9'.key <= v10
          /\ v4.after # "keeps" => v9'.keyedFor # v9'.typed
        BY <2>1, <2>3 DEF Keys
    <2>5. KeyUses' \subseteq KeyUses
        <3>1. CASE v4.after = "keeps"
            BY <2>1, <2>2, <3>1 DEF KeyUses
        <3>2. CASE v4.after # "keeps"
            BY <2>2, <2>4, <3>2, KeyUsesStep
        <3> QED
            BY <3>1, <3>2
    <2>6. /\ Browser!Keyed' <=> Browser!Keyed
          /\ \A k : Stored(k)' <=> Stored(k)
          /\ \A i : Earlier(i)' <=> Earlier(i)
          /\ Keeps' <=> Keeps
        BY <2>2 DEF Browser!Keyed, Stored, Earlier, Keeps
    <2>7. v4.after = "resets" => v9'.keyedFor # v9'.typed
        BY <2>4
    <2> QED
        BY <2>1, <2>2, <2>4, <2>5, <2>6, <2>7 DEF Keys
<1>11. ASSUME NEW v \in v8, Browser!Arrive(v) PROVE Keys'
    <2>1. /\ v9'.intent = v9.intent /\ v9'.typed = v9.typed
          /\ v9'.key = v9.key /\ v9'.keyedFor = v9.keyedFor
          /\ v9'.open => v9.open
          /\ v9'.open # v9.open => v4.sends = "remounted"
        BY <1>11, Arrived
    <2>2. UNCHANGED <<v4, v10, v11, v14, v15>>
        BY <1>11 DEF Browser!Arrive, Browser!server, Browser!network
    <2>3. /\ KeyUses' = KeyUses /\ (Browser!Keyed' <=> Browser!Keyed)
          /\ \A k : Stored(k)' <=> Stored(k)
          /\ \A i : Earlier(i)' <=> Earlier(i)
          /\ Keeps' <=> Keeps
        BY <2>1, <2>2 DEF KeyUses, Browser!Keyed, Stored, Earlier, Keeps
    <2>4. v4 # Browser!Nothing /\ v4.sends = "remounted" => v4.after # "resets"
        BY PortalAssumption DEF Browser!TablesFit, Opened, PortalTypes
    <2> QED
        BY <2>1, <2>2, <2>3, <2>4 DEF Keys
<1>12. CASE UNCHANGED Browser!vars
    BY <1>12, KeysFrame DEF Browser!vars, Browser!client, Browser!server, Browser!network
<1> QED
    BY <1>1, <1>2, <1>3, <1>4, <1>5, <1>6, <1>7, <1>8, <1>9, <1>10, <1>11, <1>12 DEF Browser!Next

(* Nothing that Waits speaks of changes, but that requests may be dropped. *)
LEMMA WaitsFrame ==
    ASSUME Waits, v11' \subseteq v11, UNCHANGED <<v4, v9, v10, v12, v15>>,
           v13' = v13 \/ v13'.is # "success"
    PROVE  Waits'
<1>1. /\ Browser!Keyed' <=> Browser!Keyed
      /\ \A k : Stored(k)' <=> Stored(k)
      /\ Keeps' <=> Keeps
    BY DEF Browser!Keyed, Stored, Keeps
<1> QED
    BY <1>1 DEF Waits

(* The form is filled or entered anew while no answer is awaited. *)
LEMMA WaitsOfNewForm ==
    ASSUME Waits, v12 = 0, v9'.open, UNCHANGED <<v10, v11, v12, v13>>
    PROVE  Waits'
<1>1. v13'.is # "success"
    BY DEF Waits
<1> QED
    BY <1>1 DEF Waits

LEMMA WaitsStep ==
    ASSUME PortalTypes, Opened, Keys, Waits, [Browser!Next]_(Browser!vars) PROVE Waits'
<1>1. ASSUME NEW p \in Browser!Rendered, Browser!Follow(p) PROVE Waits'
    BY <1>1, WaitsFrame DEF Browser!Follow, Browser!client, Browser!server, Browser!network
<1>2. ASSUME NEW p \in Browser!Rendered, Browser!OpenForm(p) PROVE Waits'
    <2>1. v9 = Browser!Closed
        BY <1>2 DEF Browser!OpenForm, Opened
    <2>2. v9.keyedFor # v9.typed
        BY <2>1 DEF Browser!Closed
    <2>3. v12 = 0
        BY <2>2 DEF Waits
    <2>4. v9'.open /\ UNCHANGED <<v10, v11, v12, v13>>
        BY <1>2 DEF Browser!OpenForm, Browser!Closed, Browser!network
    <2> QED
        BY <2>3, <2>4, WaitsOfNewForm
<1>3. ASSUME NEW f \in FormRow, Browser!Fill(f) PROVE Waits'
    <2>1. v9'.open /\ v12 = 0 /\ UNCHANGED <<v10, v11, v12, v13>>
        BY <1>3, FormsFilled DEF Browser!Fill, Browser!network
    <2> QED
        BY <2>1, WaitsOfNewForm
<1>4. CASE Browser!Edit
    <2>1. v9'.open /\ v12 = 0 /\ UNCHANGED <<v10, v11, v12, v13>>
        BY <1>4, Edited DEF Browser!Edit, Browser!network
    <2> QED
        BY <2>1, WaitsOfNewForm
<1>5. CASE Browser!Press
    <2>1. /\ v9'.open /\ v9'.key = Browser!KeyFor(v9) /\ v9'.keyedFor = v9'.typed
        BY <1>5, Pressed DEF Browser!Press
    <2>2. PICK r \in RequestRow : /\ v11' = v11 \cup {r} /\ r.id = v10 + 1
                                  /\ r.key = Browser!KeyFor(v9)
        BY <1>5, Pressed
    <2>3. /\ v12 = 0 /\ v12' = v10 + 1 /\ v10' = v10 + 1 /\ v10 \in Nat /\ v13' = v13
        BY <1>5 DEF Browser!Press, PortalTypes
    <2>4. \A q \in v11 : q.id \in Nat /\ 1 <= q.id /\ q.id <= v10
        BY Fields DEF PortalTypes, Waits
    <2>5. \A q \in v11' : /\ 1 <= q.id /\ q.id <= v10'
                          /\ q.id = v12' => q.key = v9'.key
        BY <2>1, <2>2, <2>3, <2>4
    <2>6. v13'.is # "success"
        BY <2>3 DEF Waits
    <2>7. v12' \in Nat /\ v12' <= v10'
        BY <2>3
    <2> QED
        BY <2>1, <2>5, <2>6, <2>7 DEF Waits
<1>6. CASE Browser!GiveUp \/ Browser!Fail
    <2>1. /\ v12' = 0 /\ v13' = Browser!Nothing /\ UNCHANGED <<v4, v9, v10, v11, v15>>
        BY <1>6 DEF Browser!GiveUp, Browser!Fail, Browser!client, Browser!server
    <2>2. v13'.is # "success" /\ v10 \in Nat
        BY <2>1 DEF Browser!Nothing, PortalTypes
    <2>3. (\A k : Stored(k)' <=> Stored(k)) /\ (Keeps' <=> Keeps)
        BY <2>1 DEF Stored, Keeps
    <2> QED
        BY <2>1, <2>2, <2>3 DEF Waits
<1>7. ASSUME NEW r \in v11, Browser!Replay(r) \/ Browser!Refuse(r) \/ Browser!Work(r) PROVE Waits'
    <2>1. /\ UNCHANGED <<v4, v9, v10, v12>> /\ v11' \subseteq v11
          /\ v13' = v13 \/ v12 = r.id
        BY <1>7, Replied
    <2>2. /\ Browser!Keyed' <=> Browser!Keyed
          /\ Keeps' <=> Keeps
        BY <2>1 DEF Browser!Keyed, Keeps
    <2>3. v15' = v15 \/ v15' = (IF Browser!Keyed THEN v15 \cup {[key |-> r.key, version |-> v6 + 1]}
                               ELSE v15)
        BY <1>7 DEF Browser!Replay, Browser!Refuse, Browser!Work, Browser!server
    <2>4. \A k : Stored(k) => Stored(k)'
        BY <2>3 DEF Stored
    <2>5. v12 = r.id => v12 # 0 /\ r.key = v9.key
        <3>1. r.id \in Nat /\ 1 <= r.id
            BY Fields DEF PortalTypes, Waits
        <3> QED
            BY <3>1 DEF Waits
    <2>6. v13'.is = "success" => v12 # 0
        BY <2>1, <2>5 DEF Waits
    <2>7. ASSUME v4 # Browser!Nothing, Browser!Keyed, v13'.is = "success" PROVE Stored(v9.key)'
        <3>1. CASE v13' = v13
            <4>1. Stored(v9.key)
                BY <2>7, <3>1 DEF Waits
            <4> QED
                BY <2>1, <2>3, <4>1 DEF Stored
        <3>2. CASE v13' # v13
            <4>1. r.key = v9'.key
                BY <2>1, <2>5, <3>2
            <4>2. CASE Browser!Work(r)
                <5> DEFINE new == [key |-> r.key, version |-> v6 + 1]
                <5>1. new \in v15' /\ new.key = r.key
                    BY <2>7, <4>2 DEF Browser!Work
                <5> HIDE DEF new
                <5> QED
                    BY <4>1, <5>1 DEF Stored
            <4>3. CASE ~Browser!Work(r)
                <5>1. \E s \in v15 : s.key = r.key
                    BY <1>7, <2>7, <3>2, <4>3, Replied
                <5> QED
                    BY <2>3, <4>1, <5>1 DEF Stored
            <4> QED
                BY <4>2, <4>3
        <3> QED
            BY <3>1, <3>2
    <2> QED
        BY <2>1, <2>2, <2>4, <2>6, <2>7 DEF Waits
<1>8. CASE Browser!OthersChange \/ Browser!Refetch
    BY <1>8, WaitsFrame DEF Browser!OthersChange, Browser!Refetch, Browser!client, Browser!server,
                            Browser!network
<1>9. CASE Browser!Succeed
    <2>1. /\ v12' = 0 /\ v13' = Browser!Nothing /\ v13.is = "success"
          /\ UNCHANGED <<v4, v10, v11, v15>>
        BY <1>9 DEF Browser!Succeed, Browser!server
    <2>2. v13'.is # "success" /\ v10 \in Nat
        BY <2>1 DEF Browser!Nothing, PortalTypes
    <2>3. (\A k : Stored(k)' <=> Stored(k)) /\ (Keeps' <=> Keeps)
        BY <2>1 DEF Stored, Keeps
    <2>4. ASSUME Keeps PROVE v9'.keyedFor = v9'.typed /\ Stored(v9'.key)
        <3>1. Browser!Keyed
            BY <2>4, PortalAssumption DEF Browser!TablesFit, Opened, PortalTypes, Keeps, Browser!Keyed
        <3>2. v9.keyedFor = v9.typed /\ Stored(v9.key)
            BY <2>1, <2>4, <3>1 DEF Waits, Keeps
        <3>3. v9'.key = v9.key /\ v9'.keyedFor = v9.keyedFor /\ v9'.typed = v9.typed
            BY <1>9, <2>4, Succeeded DEF Keeps
        <3> QED
            BY <3>2, <3>3
    <2>5. Keeps' => v9'.keyedFor = v9'.typed /\ \E s \in v15' : s.key = v9'.key
        BY <2>1, <2>3, <2>4 DEF Stored
    <2> QED
        BY <2>1, <2>2, <2>5 DEF Waits, Stored
<1>10. ASSUME NEW v \in v8, Browser!Arrive(v) PROVE Waits'
    <2>1. /\ v9'.typed = v9.typed /\ v9'.key = v9.key /\ v9'.keyedFor = v9.keyedFor
          /\ v9'.open # v9.open => v4.sends = "remounted"
        BY <1>10, Arrived
    <2>2. UNCHANGED <<v4, v10, v11, v12, v13, v15>>
        BY <1>10 DEF Browser!Arrive, Browser!server, Browser!network
    <2>3. /\ Browser!Keyed' <=> Browser!Keyed
          /\ \A k : Stored(k)' <=> Stored(k)
          /\ Keeps' <=> Keeps
        BY <2>2 DEF Browser!Keyed, Stored, Keeps
    <2>4. Keeps => v9'.open = v9.open
        BY <2>1, PortalAssumption DEF Browser!TablesFit, Opened, PortalTypes, Keeps
    <2> QED
        BY <2>1, <2>2, <2>3, <2>4 DEF Waits, Stored
<1>11. CASE UNCHANGED Browser!vars
    BY <1>11, WaitsFrame DEF Browser!vars, Browser!client, Browser!server, Browser!network
<1>12. Browser!Reopen \/ Browser!DoAnother => \E f \in FormRow : Browser!Fill(f)
    BY Fields DEF Browser!Reopen, Browser!DoAnother, PortalTypes
<1> QED
    BY <1>1, <1>2, <1>3, <1>4, <1>5, <1>6, <1>7, <1>8, <1>9, <1>10, <1>11, <1>12
    DEF Browser!Next

(* Nothing that Values speaks of changes, but that requests may be dropped and *)
(* that the row may get a later version.                                       *)
LEMMA ValuesFrame ==
    ASSUME PortalTypes, Values, v11' \subseteq v11, UNCHANGED <<v4, v7, v14, v18>>,
           v9'.values = v9.values, v9'.intent = v9.intent, v9'.open => v9.open,
           v6' \in Nat, v6 <= v6'
    PROVE  Values'
<1>1. ValueUses' \subseteq ValueUses
    BY DEF ValueUses
<1>2. \A u \in ValueUses : u[1] \in Nat
    BY Fields DEF PortalTypes, ValueUses
<1>3. \A u \in ValueUses' : u[1] <= v6' /\ u[2] <= v9'.intent
    BY <1>1, <1>2 DEF Values, PortalTypes
<1>4. ASSUME v4 # Browser!Nothing, v4.route.version
      PROVE  /\ \A r \in v11' : r.version = r.values
             /\ \A u, v \in ValueUses' : u[2] = v[2] => u[1] = v[1]
             /\ \A u \in ValueUses' : v14[u[2]] > 0 => u[1] < v6
             /\ v4.sends = "remounted" /\ v9'.open => v9'.values = v7'
             /\ ~v18'
    BY <1>1, <1>4 DEF Values
<1>5. \A u \in ValueUses' : u[1] < v6 => u[1] < v6'
    BY <1>1, <1>2 DEF PortalTypes
<1> QED
    BY <1>3, <1>4, <1>5 DEF Values

(* A form for something new shows what the page shows, or what it showed. *)
LEMMA ValuesOfNewForm ==
    ASSUME PortalTypes, Opened, Keys, Values, Effects, v4 # Browser!Nothing, v4' = v4,
           v11' = v11, UNCHANGED <<v7, v6, v14, v18>>,
           v9'.intent = v9.intent + 1, v9'.intent \in Intent,
           v9'.values = v7 \/ (v9'.values = v9.values /\ v9.open)
    PROVE  Values'
<1>1. v9.intent \in Nat /\ v9.values \in Nat /\ v7 \in Nat /\ v6 \in Nat
    BY Fields, PortalAssumption DEF PortalTypes
<1>2. v9'.values <= v6
    <2>1. <<v9.values, v9.intent>> \in ValueUses
        BY DEF ValueUses
    <2>2. v9.values <= v6
        BY <2>1 DEF Values
    <2> QED
        BY <2>2 DEF Effects
<1> DEFINE new == <<v9'.values, v9'.intent>>
<1>3. \A u \in ValueUses' : u \in ValueUses \/ u = new
    BY DEF ValueUses
<1>4. new[1] = v9'.values /\ new[2] = v9.intent + 1
    OBVIOUS
<1> HIDE DEF new
<1>5. \A u \in ValueUses : u[2] <= v9.intent /\ u[2] \in Nat /\ u[1] <= v6
    BY <1>1, Fields DEF PortalTypes, ValueUses, Values
<1>6. \A u \in ValueUses : u[2] # new[2] /\ u[2] <= v9'.intent
    BY <1>1, <1>4, <1>5
<1>7. ~(v14[v9'.intent] > 0)
    BY <1>1 DEF Keys
<1>8. \A u \in ValueUses' : u[1] <= v6' /\ u[2] <= v9'.intent
    BY <1>1, <1>2, <1>3, <1>4, <1>5, <1>6
<1>9. ASSUME v4.route.version
      PROVE  /\ \A r \in v11' : r.version = r.values
             /\ \A u, v \in ValueUses' : u[2] = v[2] => u[1] = v[1]
             /\ \A u \in ValueUses' : v14[u[2]] > 0 => u[1] < v6
             /\ v4.sends = "remounted" /\ v9'.open => v9'.values = v7
             /\ ~v18
    <2>1. \A u, v \in ValueUses' : u[2] = v[2] => u[1] = v[1]
        BY <1>3, <1>6, <1>9 DEF Values
    <2>2. \A u \in ValueUses' : v14[u[2]] > 0 => u[1] < v6
        BY <1>3, <1>4, <1>7, <1>9 DEF Values
    <2> QED
        BY <1>9, <2>1, <2>2 DEF Values
<1> QED
    BY <1>8, <1>9 DEF Values

LEMMA ValuesStep ==
    ASSUME PortalTypes, Opened, Keys, Values, Effects, [Browser!Next]_(Browser!vars) PROVE Values'
<1>1. v6 \in Nat /\ v6 <= v6
    BY DEF PortalTypes
<1>2. ASSUME NEW p \in Browser!Rendered, Browser!Follow(p) PROVE Values'
    BY <1>1, <1>2, ValuesFrame DEF Browser!Follow, Browser!client, Browser!server,
                                   Browser!network, Browser!ghosts
<1>3. ASSUME NEW p \in Browser!Rendered, Browser!OpenForm(p) PROVE Values'
    <2>1. v9'.values = v7 /\ v9'.intent = 1 /\ v7' = v7
        BY <1>3 DEF Browser!OpenForm, Browser!Closed
    <2>2. v11 = {} /\ (\A i \in Intent : v14[i] = 0) /\ ~v18 /\ v6 = 1 /\ v7 = 1
        BY <1>3 DEF Browser!OpenForm, Opened
    <2>3. v11' = v11 /\ v14' = v14 /\ v6' = v6 /\ v18' = v18
        BY <1>3 DEF Browser!OpenForm, Browser!network, Browser!server, Browser!ghosts
    <2>4. ValueUses' = {<<1, 1>>}
        BY <2>1, <2>2, <2>3 DEF ValueUses
    <2>5. 1 \in Intent
        BY PortalAssumption DEF Intent
    <2>6. \A u \in ValueUses' : u[1] = 1 /\ u[2] = 1 /\ ~(v14'[u[2]] > 0)
        BY <2>2, <2>3, <2>4, <2>5
    <2>7. \A u, v \in ValueUses' : u[1] = v[1]
        BY <2>6
    <2>8. \A u \in ValueUses' : u[1] <= v6' /\ u[2] <= v9'.intent
        BY <2>1, <2>2, <2>3, <2>6
    <2> QED
        BY <2>1, <2>2, <2>3, <2>6, <2>7, <2>8 DEF Values
<1>4. ASSUME NEW f \in FormRow, Browser!Fill(f) PROVE Values'
    <2>1. v9'.intent = v9.intent + 1 /\ v9'.intent \in Intent /\ v9'.values = v7
        BY <1>4, FormsFilled
    <2>2. v4 # Browser!Nothing /\ UNCHANGED <<v4, v11, v7, v6, v14, v18>>
        BY <1>4 DEF Browser!Fill, Browser!server, Browser!network, Browser!ghosts
    <2> QED
        BY <2>1, <2>2, ValuesOfNewForm
<1>5. CASE Browser!Edit
    <2>1. v9'.intent = v9.intent + 1 /\ v9'.intent \in Intent /\ v9'.values = v9.values
        BY <1>5, Edited
    <2>2. v4 # Browser!Nothing /\ v9.open /\ UNCHANGED <<v4, v11, v7, v6, v14, v18>>
        BY <1>5 DEF Browser!Edit, Browser!server, Browser!network, Browser!ghosts
    <2> QED
        BY <2>1, <2>2, ValuesOfNewForm
<1>6. CASE Browser!Press
    <2>1. v9'.open = v9.open /\ v9'.values = v9.values /\ v9'.intent = v9.intent
        BY <1>6, Pressed
    <2>2. PICK r \in RequestRow :
              v11' = v11 \cup {r} /\ r.intent = v9.intent /\ r.values = v9.values
              /\ r.version = Browser!IfMatch(v9)
        BY <1>6, Pressed
    <2>3. v4 # Browser!Nothing /\ v9.open /\ UNCHANGED <<v4, v7, v6, v14, v18>>
        BY <1>6 DEF Browser!Press, Browser!server, Browser!ghosts
    <2>4. ValueUses' = ValueUses
        BY <2>1, <2>2 DEF ValueUses
    <2>5. v4.route.version => r.version = v9.values
        <3>1. v4.route.version => v4.sends \in {"snapshot", "remounted"}
            BY <2>3, PortalAssumption DEF Browser!TablesFit, Opened, PortalTypes
        <3> QED
            BY <2>2, <2>3, <3>1 DEF Browser!IfMatch, Values
    <2> QED
        BY <2>1, <2>2, <2>3, <2>4, <2>5 DEF Values
<1>7. CASE Browser!GiveUp \/ Browser!Fail
    BY <1>1, <1>7, ValuesFrame DEF Browser!GiveUp, Browser!Fail, Browser!client, Browser!server,
                                   Browser!ghosts
<1>8. ASSUME NEW r \in v11, Browser!Replay(r) \/ Browser!Refuse(r) PROVE Values'
    BY <1>1, <1>8, ValuesFrame DEF Browser!Replay, Browser!Refuse, Browser!Reply, Browser!client,
                                   Browser!server
<1>9. ASSUME NEW r \in v11, Browser!Work(r) PROVE Values'
    <2>1. /\ UNCHANGED <<v4, v9, v7>> /\ v11' \subseteq v11 /\ v6' = v6 + 1
          /\ v18' = (v18 \/ r.values # v6) /\ ~Browser!Refused(r)
        BY <1>9 DEF Browser!Work, Browser!Reply, Browser!client
    <2>2. /\ r.intent \in Intent /\ \A i \in Intent : i # r.intent => v14'[i] = v14[i]
        BY <1>9, Worked
    <2>3. ValueUses' \subseteq ValueUses /\ <<r.values, r.intent>> \in ValueUses
        BY <2>1 DEF ValueUses
    <2>4. \A u \in ValueUses : u[1] \in Nat
        BY Fields DEF PortalTypes, ValueUses
    <2>5. \A u \in ValueUses' : u[1] <= v6' /\ u[2] <= v9'.intent
        BY <1>1, <2>1, <2>3, <2>4 DEF Values
    <2>6. ASSUME v4 # Browser!Nothing, v4.route.version
          PROVE  /\ \A q \in v11' : q.version = q.values
                 /\ \A u, v \in ValueUses' : u[2] = v[2] => u[1] = v[1]
                 /\ \A u \in ValueUses' : v14'[u[2]] > 0 => u[1] < v6'
                 /\ v4.sends = "remounted" /\ v9'.open => v9'.values = v7'
                 /\ ~v18'
        <3>1. r.version = v6 /\ r.version = r.values
            BY <2>1, <2>6 DEF Browser!Refused, Values
        <3>2. ASSUME NEW u \in ValueUses', v14'[u[2]] > 0 PROVE u[1] < v6'
            <4>1. CASE u[2] = r.intent
                <5>1. u[1] = r.values
                    BY <2>3, <2>6, <4>1 DEF Values
                <5> QED
                    BY <1>1, <2>1, <3>1, <5>1
            <4>2. CASE u[2] # r.intent
                <5>1. u[2] \in Intent
                    <6>1. v9.intent \in Intent
                        BY <2>6, Fields DEF Opened, PortalTypes, Intent
                    <6>2. \A q \in v11 : q.intent \in Intent
                        BY Fields DEF PortalTypes
                    <6> QED
                        BY <2>3, <6>1, <6>2 DEF ValueUses
                <5>2. u[1] < v6
                    BY <2>2, <2>3, <2>6, <3>2, <4>2, <5>1 DEF Values
                <5> QED
                    BY <1>1, <2>1, <2>3, <2>4, <5>2
            <4> QED
                BY <4>1, <4>2
        <3> QED
            BY <2>1, <2>3, <2>6, <3>1, <3>2 DEF Values
    <2> QED
        BY <2>1, <2>5, <2>6 DEF Values
<1>10. CASE Browser!OthersChange
    <2>1. v6' = v6 + 1
        BY <1>10 DEF Browser!OthersChange
    <2>2. v6' \in Nat /\ v6 <= v6'
        BY <1>1, <2>1
    <2> QED
        BY <1>10, <2>2, ValuesFrame DEF Browser!OthersChange, Browser!client, Browser!network,
                                        Browser!ghosts
<1>11. CASE Browser!Refetch
    BY <1>1, <1>11, ValuesFrame DEF Browser!Refetch, Browser!server, Browser!network, Browser!ghosts
<1>12. CASE Browser!Succeed
    <2>1. ~v9'.open /\ v9'.values = v9.values /\ v9'.intent = v9.intent
        BY <1>12, Succeeded
    <2>2. UNCHANGED <<v4, v6, v14, v11, v18>>
        BY <1>12 DEF Browser!Succeed, Browser!server
    <2>3. ValueUses' = ValueUses
        BY <2>1, <2>2 DEF ValueUses
    <2> QED
        BY <2>1, <2>2, <2>3 DEF Values
<1>13. ASSUME NEW v \in v8, Browser!Arrive(v) PROVE Values'
    <2>1. /\ v9'.values = v9.values /\ v9'.intent = v9.intent
          /\ v9'.open => v9.open
          /\ v4.sends = "remounted" /\ v9'.open => v = v7
        BY <1>13, Arrived
    <2>2. UNCHANGED <<v4, v6, v14, v11, v18>> /\ v7' = v
        BY <1>13 DEF Browser!Arrive, Browser!server, Browser!network
    <2>3. ValueUses' = ValueUses
        BY <2>1, <2>2 DEF ValueUses
    <2> QED
        BY <2>1, <2>2, <2>3 DEF Values
<1>14. CASE UNCHANGED Browser!vars
    BY <1>1, <1>14, ValuesFrame DEF Browser!vars, Browser!client, Browser!server, Browser!network,
                                    Browser!ghosts
<1>15. Browser!Reopen \/ Browser!DoAnother => \E f \in FormRow : Browser!Fill(f)
    BY Fields DEF Browser!Reopen, Browser!DoAnother, PortalTypes
<1> QED
    BY <1>2, <1>3, <1>4, <1>5, <1>6, <1>7, <1>8, <1>9, <1>10, <1>11, <1>12, <1>13, <1>14, <1>15
    DEF Browser!Next

(* Somebody's intent is worked on for the first time, or its work finds what was *)
(* done or takes its place.                                                      *)
LEMMA WorkedOnce ==
    ASSUME PortalTypes, Opened, Keys, Values, Effects, v4 # Browser!Nothing, Safe(v4),
           NEW r \in v11, Browser!Work(r)
    PROVE  v14'[r.intent] = 1
<1>1. /\ r.intent \in Intent /\ v14[r.intent] \in Nat
      /\ v14'[r.intent] = 1 \/ v14'[r.intent] = v14[r.intent] + 1
      /\ v4.route.again \in {"same", "replaced"} => v14'[r.intent] = 1
    BY Worked DEF PortalTypes
<1>2. Browser!Replayed(r) = {} /\ ~Browser!Refused(r)
    BY DEF Browser!Work
<1>3. CASE v4.sends = "key"
    <2>1. Browser!Keyed
        BY <1>3 DEF Browser!Keyed
    <2>2. ~ \E s \in v15 : s.key = r.key
        BY <1>2, <2>1 DEF Browser!Replayed
    <2> DEFINE u == <<r.key, r.intent>>
    <2>3. u \in KeyUses /\ u[1] = r.key /\ u[2] = r.intent
        BY DEF KeyUses
    <2> HIDE DEF u
    <2>4. ~(v14[r.intent] > 0)
        BY <2>1, <2>2, <2>3 DEF Keys, Stored
    <2> QED
        BY <1>1, <2>4
<1>4. CASE v4.route.version
    <2> DEFINE u == <<r.values, r.intent>>
    <2>1. u \in ValueUses /\ u[1] = r.values /\ u[2] = r.intent
        BY DEF ValueUses
    <2> HIDE DEF u
    <2>2. r.values = v6
        BY <1>2, <1>4 DEF Browser!Refused, Values
    <2>3. ~(v14[r.intent] > 0)
        BY <1>4, <2>1, <2>2 DEF Values, PortalTypes
    <2> QED
        BY <1>1, <2>3
<1>5. CASE v4.route.again = "refused"
    <2>1. \A i \in DOMAIN v14 : ~(v14[i] > 0)
        BY <1>2, <1>5 DEF Browser!Refused
    <2>2. ~(v14[r.intent] > 0)
        BY <1>1, <2>1 DEF PortalTypes
    <2> QED
        BY <1>1, <2>2
<1> QED
    BY <1>1, <1>3, <1>4, <1>5 DEF Safe

LEMMA EffectsFrame ==
    ASSUME PortalTypes, Effects, UNCHANGED <<v4, v7, v16, v8, v15, v14>>,
           v13' = v13 \/ v13' = Browser!Nothing, v6' \in Nat, v6 <= v6'
    PROVE  Effects'
<1>1. v13'.is = "success" => v13' = v13
    BY DEF Browser!Nothing
<1>2. /\ v6 \in Nat /\ v7 \in Nat /\ v16 \in Nat /\ (\A v \in v8 : v \in Nat)
      /\ (\A s \in v15 : s.version \in Nat)
      /\ v13.is = "success" => v13.version \in Nat
    BY Fields DEF PortalTypes
<1>3. \A i : Earlier(i) => Earlier(i)'
    BY DEF Earlier, Keeps
<1> QED
    BY <1>1, <1>2, <1>3 DEF Effects

LEMMA EffectsStep ==
    ASSUME PortalTypes, Opened, Keys, Values, Effects, [Browser!Next]_(Browser!vars) PROVE Effects'
<1>1. v6 \in Nat /\ v6 <= v6
    BY DEF PortalTypes
<1>2. ASSUME NEW p \in Browser!Rendered, Browser!Follow(p) PROVE Effects'
    BY <1>1, <1>2, EffectsFrame DEF Browser!Follow, Browser!client, Browser!server,
                                    Browser!network, Browser!ghosts
<1>3. ASSUME NEW p \in Browser!Rendered, Browser!OpenForm(p) PROVE Effects'
    <2>1. /\ UNCHANGED <<v7, v6, v16, v8, v15, v13, v14>>
          /\ \A i \in Intent : v14[i] = 0
          /\ v13 = Browser!Nothing
        BY <1>3 DEF Browser!OpenForm, Opened, Browser!server, Browser!network, Browser!ghosts
    <2>2. v13'.is # "success"
        BY <2>1 DEF Browser!Nothing
    <2> QED
        BY <2>1, <2>2 DEF Effects
<1>4. CASE Browser!Reopen \/ Browser!DoAnother \/ Browser!Edit \/ Browser!Press
    BY <1>1, <1>4, EffectsFrame
    DEF Browser!Reopen, Browser!DoAnother, Browser!Fill, Browser!Edit, Browser!Press,
        Browser!server, Browser!network, Browser!ghosts
<1>5. CASE Browser!GiveUp \/ Browser!Fail
    BY <1>1, <1>5, EffectsFrame DEF Browser!GiveUp, Browser!Fail, Browser!client, Browser!server,
                                    Browser!ghosts
<1>6. ASSUME NEW r \in v11, Browser!Replay(r) \/ Browser!Refuse(r) PROVE Effects'
    <2>1. UNCHANGED <<v4, v6, v7, v16, v8, v15, v14>>
        BY <1>6 DEF Browser!Replay, Browser!Refuse, Browser!Reply, Browser!client, Browser!server
    <2>2. \/ v13'.is = "success" => v13' = v13
          \/ \E s \in v15 : Browser!Keyed /\ s.key = r.key /\ v13'.intent = r.intent
                               /\ v13'.version = s.version
          \/ Browser!Work(r)
        BY <1>6, Replied
    <2>3. ~Browser!Work(r)
        BY <1>1, <1>6 DEF Browser!Work, Browser!Replay, Browser!Refuse, Browser!server
    <2>7. \A i : Earlier(i) => Earlier(i)'
        BY <2>1 DEF Earlier, Keeps
    <2>4. CASE v13'.is = "success" => v13' = v13
        BY <2>1, <2>4, <2>7 DEF Effects
    <2>5. ASSUME NEW s \in v15, Browser!Keyed, s.key = r.key, v13'.intent = r.intent,
                 v13'.version = s.version
          PROVE  Effects'
        <3>1. v13'.version <= v6
            BY <2>5 DEF Effects
        <3>2. ASSUME v4 # Browser!Nothing, Safe(v4) PROVE v14[r.intent] = 1 \/ Earlier(r.intent)
            <4> DEFINE u == <<r.key, r.intent>>
            <4>1. u \in KeyUses /\ u[1] = r.key /\ u[2] = r.intent
                BY DEF KeyUses
            <4> HIDE DEF u
            <4>2. v14[r.intent] > 0 \/ Earlier(r.intent)
                BY <2>5, <3>2, <4>1 DEF Keys, Stored
            <4>3. r.intent \in Intent /\ v14[r.intent] \in Nat
                BY Fields DEF PortalTypes
            <4> QED
                BY <3>2, <4>2, <4>3 DEF Effects
        <3> QED
            BY <2>1, <2>5, <2>7, <3>1, <3>2 DEF Effects
    <2> QED
        BY <2>2, <2>3, <2>4, <2>5
<1>7. ASSUME NEW r \in v11, Browser!Work(r) PROVE Effects'
    <2>1. /\ UNCHANGED <<v4, v7, v16, v8>> /\ v6' = v6 + 1
          /\ v6' \in Nat /\ v6 <= v6'
        BY <1>1, <1>7 DEF Browser!Work, Browser!Reply, Browser!client
    <2>2. \/ v13'.is = "success" => v13' = v13
          \/ v13'.intent = r.intent /\ v13'.version = v6 + 1
          \/ \E s \in v15 : Browser!Keyed /\ s.key = r.key /\ v13'.intent = r.intent
                               /\ v13'.version = s.version
        BY <1>7, Replied
    <2>3. v15' = v15 \/ v15' = v15 \cup {[key |-> r.key, version |-> v6 + 1]}
        BY <1>7 DEF Browser!Work
    <2>4. /\ v7 \in Nat /\ v16 \in Nat /\ (\A v \in v8 : v \in Nat)
          /\ (\A s \in v15 : s.version \in Nat)
          /\ v13.is = "success" => v13.version \in Nat /\ v13.intent \in Intent
        BY Fields DEF PortalTypes
    <2>5. /\ v7 <= v6' /\ v16 <= v6' /\ (\A v \in v8 : v <= v6')
          /\ (\A s \in v15 : s.version <= v6')
          /\ v13.is = "success" => v13.version <= v6'
        BY <1>1, <2>1, <2>4 DEF Effects
    <2>6. \A s \in v15' : s.version <= v6'
        <3> DEFINE new == [key |-> r.key, version |-> v6 + 1]
        <3>1. new.version = v6' /\ (v15' = v15 \/ v15' = v15 \cup {new})
            BY <2>1, <2>3
        <3> HIDE DEF new
        <3> QED
            BY <2>1, <2>5, <3>1
    <2>7. v13'.is = "success" => v13'.version <= v6'
        BY <2>1, <2>2, <2>5
    <2>8. ASSUME v4 # Browser!Nothing, Safe(v4)
          PROVE  /\ \A i \in Intent : v14'[i] <= 1
                 /\ v13'.is = "success" => v14'[v13'.intent] = 1 \/ Earlier(v13.intent)'
        <3>1. v14'[r.intent] = 1 /\ r.intent \in Intent
              /\ \A i \in Intent : i # r.intent => v14'[i] = v14[i]
            BY <1>7, <2>8, WorkedOnce, Worked
        <3>2. \A i \in Intent : v14'[i] <= 1
            BY <2>8, <3>1 DEF Effects
        <3>4. \A i \in Intent : v14[i] > 0 => v14'[i] > 0
            BY <3>1
        <3>5. \A i : Earlier(i) => Earlier(i)'
            BY <2>1, <3>4 DEF Earlier, Keeps
        <3>3. v13.is = "success" =>
                  v14'[v13.intent] = 1 \/ \E i : i = v13.intent /\ Earlier(i)'
            BY <2>4, <2>8, <3>1, <3>5 DEF Effects
        <3>6. ~ \E s \in v15 : Browser!Keyed /\ s.key = r.key
            BY <1>7 DEF Browser!Work, Browser!Replayed
        <3>7. ASSUME v13'.is = "success"
              PROVE  v14'[v13'.intent] = 1 \/ \E i : i = v13'.intent /\ Earlier(i)'
            <4>1. CASE v13' = v13
                BY <3>3, <3>7, <4>1
            <4>2. CASE v13'.intent = r.intent
                BY <3>1, <4>2
            <4> QED
                BY <2>2, <3>6, <3>7, <4>1, <4>2
        <3>8. (\E i : i = v13'.intent /\ Earlier(i)') => Earlier(v13.intent)'
            BY DEF Earlier
        <3> QED
            BY <3>2, <3>7, <3>8
    <2> QED
        BY <2>1, <2>5, <2>6, <2>7, <2>8 DEF Effects
<1>8. CASE Browser!OthersChange
    <2>1. v6' = v6 + 1
        BY <1>8 DEF Browser!OthersChange
    <2>2. v6' \in Nat /\ v6 <= v6'
        BY <1>1, <2>1
    <2> QED
        BY <1>8, <2>2, EffectsFrame DEF Browser!OthersChange, Browser!client, Browser!network,
                                        Browser!ghosts
<1>9. CASE Browser!Refetch
    <2>1. v8' = {v6} /\ UNCHANGED <<v4, v7, v6, v16, v15, v13, v14>>
        BY <1>9 DEF Browser!Refetch, Browser!server, Browser!network, Browser!ghosts
    <2>2. \A i : Earlier(i) => Earlier(i)'
        BY <2>1 DEF Earlier, Keeps
    <2> QED
        BY <1>1, <2>1, <2>2 DEF Effects
<1>10. CASE Browser!Succeed
    <2>1. /\ v7' = v13.version \/ v7' = v7
          /\ v8' = {v6} \/ v8' = v8
          /\ v16' = v13.version /\ v13.is = "success" /\ v13' = Browser!Nothing
          /\ UNCHANGED <<v4, v6, v15, v14>>
        BY <1>10 DEF Browser!Succeed, Browser!Refetched, Browser!server
    <2>2. v13'.is # "success"
        BY <2>1 DEF Browser!Nothing
    <2> QED
        BY <1>1, <2>1, <2>2 DEF Effects
<1>11. ASSUME NEW v \in v8, Browser!Arrive(v) PROVE Effects'
    <2>1. v7' = v /\ v8' = {} /\ UNCHANGED <<v4, v6, v16, v15, v13, v14>>
        BY <1>11 DEF Browser!Arrive, Browser!server, Browser!network
    <2>2. \A i : Earlier(i) => Earlier(i)'
        BY <2>1 DEF Earlier, Keeps
    <2> QED
        BY <2>1, <2>2 DEF Effects
<1>12. CASE UNCHANGED Browser!vars
    BY <1>1, <1>12, EffectsFrame DEF Browser!vars, Browser!client, Browser!server,
                                     Browser!network, Browser!ghosts
<1> QED
    BY <1>2, <1>3, <1>4, <1>5, <1>6, <1>7, <1>8, <1>9, <1>10, <1>11, <1>12 DEF Browser!Next

(* Nothing that Showing speaks of changes. *)
LEMMA ShowingFrame ==
    ASSUME Showing, UNCHANGED <<v4, v5, v7, v8, v16, v17>>
    PROVE  Showing'
BY DEF Showing, Browser!Put, Browser!Invalidated, Browser!Invalidates

LEMMA ShowingStep ==
    ASSUME PortalTypes, Opened, Effects, Showing, [Browser!Next]_(Browser!vars) PROVE Showing'
<1>1. ASSUME NEW p \in Browser!Rendered, Browser!Follow(p) PROVE Showing'
    BY <1>1, ShowingFrame DEF Browser!Follow, Browser!client, Browser!ghosts
<1>2. ASSUME NEW p \in Browser!Rendered, Browser!OpenForm(p), v5' # Browser!Nothing PROVE Showing'
    <2>1. /\ v4' = p /\ v5' \in Browser!Watching(p) /\ p.is = "change" /\ p \in Browser!Pages[v1]
          /\ UNCHANGED <<v7, v8, v16, v17>>
        BY <1>2 DEF Browser!OpenForm, Browser!ghosts, Browser!Rendered
    <2>2. v7 = 1 /\ v8 = {} /\ v16 = 0 /\ ~v17
        BY <1>2 DEF Browser!OpenForm, Opened
    <2>3. /\ v5'.is = "query" /\ v5' \in Browser!Pages[v1] /\ v5'.key # <<>>
          /\ v5'.route.reads \cap p.route.writes # {}
        BY <2>1 DEF Browser!Watching, Browser!Rendered
    <2>4. Browser!Invalidates(p, v5') \/ v5'.key \in p.put \/ p.after = "leaves"
        BY <2>1, <2>3, PortalAssumption DEF Browser!TablesFit, PortalTypes
    <2>5. Browser!Put' \/ Browser!Invalidated' \/ v4'.after = "leaves"
        BY <2>1, <2>4 DEF Browser!Put, Browser!Invalidated, Browser!Invalidates
    <2> QED
        BY <2>1, <2>2, <2>5 DEF Showing
<1>3. CASE Browser!Reopen \/ Browser!DoAnother \/ Browser!Edit \/ Browser!Press
    BY <1>3, ShowingFrame DEF Browser!Reopen, Browser!DoAnother, Browser!Fill, Browser!Edit,
                              Browser!Press, Browser!ghosts
<1>4. CASE Browser!GiveUp \/ Browser!Fail
    BY <1>4, ShowingFrame DEF Browser!GiveUp, Browser!Fail, Browser!client, Browser!ghosts
<1>5. ASSUME NEW r \in v11, Browser!Replay(r) \/ Browser!Refuse(r) \/ Browser!Work(r) PROVE Showing'
    BY <1>5, ShowingFrame DEF Browser!Replay, Browser!Refuse, Browser!Work, Browser!Reply,
                              Browser!client
<1>6. CASE Browser!OthersChange
    BY <1>6, ShowingFrame DEF Browser!OthersChange, Browser!client, Browser!ghosts
<1>7. CASE Browser!Refetch
    <2>1. v8' = {v6} /\ UNCHANGED <<v4, v5, v7, v16, v17>>
        BY <1>7 DEF Browser!Refetch, Browser!ghosts
    <2>2. (Browser!Put' <=> Browser!Put) /\ (Browser!Invalidated' <=> Browser!Invalidated)
        BY <2>1 DEF Browser!Put, Browser!Invalidated, Browser!Invalidates
    <2>3. v16 <= v6
        BY DEF Effects
    <2> QED
        BY <2>1, <2>2, <2>3 DEF Showing
<1>8. CASE Browser!Succeed
    <2> SUFFICES ASSUME v5' # Browser!Nothing PROVE Showing'
        BY DEF Showing
    <2>1. /\ v5' = v5 /\ v5 # Browser!Nothing /\ v4.after # "leaves" /\ v16' = v13.version
          /\ v7' = (IF Browser!Put THEN v13.version ELSE v7)
          /\ v8' = (IF Browser!Invalidated THEN {v6} ELSE v8)
          /\ UNCHANGED <<v4, v17>>
        BY <1>8 DEF Browser!Succeed, Browser!Refetched
    <2>2. (Browser!Put' <=> Browser!Put) /\ (Browser!Invalidated' <=> Browser!Invalidated)
        BY <2>1 DEF Browser!Put, Browser!Invalidated, Browser!Invalidates
    <2>3. v13.version <= v6 /\ v13.version \in Nat /\ v6 \in Nat
        BY <1>8, Fields DEF Effects, Browser!Succeed, PortalTypes
    <2>4. Browser!Put \/ Browser!Invalidated
        BY <2>1 DEF Showing
    <2>5. CASE Browser!Invalidated
        BY <2>1, <2>2, <2>3, <2>5 DEF Showing
    <2>6. CASE ~Browser!Invalidated
        <3>1. v7' = v16'
            BY <2>1, <2>4, <2>6
        <3>2. ~(v7' < v16')
            BY <2>1, <2>3, <3>1
        <3> QED
            BY <2>1, <2>2, <2>4, <2>6, <3>2 DEF Showing
    <2> QED
        BY <2>5, <2>6
<1>9. ASSUME NEW v \in v8, Browser!Arrive(v) PROVE Showing'
    <2>1. /\ v7' = v /\ v8' = {} /\ UNCHANGED <<v4, v5, v16>>
        BY <1>9 DEF Browser!Arrive
    <2> DEFINE late == v < v16 /\ v16 <= v7
    <2>7. v17' = (v17 \/ late)
        BY <1>9 DEF Browser!Arrive
    <2>8. late <=> v < v16 /\ v16 <= v7
        OBVIOUS
    <2> HIDE DEF late
    <2>2. (Browser!Put' <=> Browser!Put) /\ (Browser!Invalidated' <=> Browser!Invalidated)
        BY <2>1 DEF Browser!Put, Browser!Invalidated, Browser!Invalidates
    <2>3. v \in Nat /\ v16 \in Nat /\ v7 \in Nat
        BY DEF PortalTypes
    <2>4. CASE v5 # Browser!Nothing /\ Browser!Invalidated
        <3>1. v16 <= v /\ ~v17
            BY <2>4 DEF Showing
        <3>2. ~late
            BY <2>3, <2>8, <3>1
        <3>3. ~v17'
            BY <2>7, <3>1, <3>2
        <3> QED
            BY <2>1, <2>2, <2>4, <3>1, <3>3 DEF Showing
    <2>5. CASE v5 # Browser!Nothing /\ ~Browser!Invalidated /\ Browser!Put
        <3>1. v < v16 => v17 \/ late
            BY <2>3, <2>5, <2>8 DEF Showing
        <3>2. v < v16 => v17'
            BY <2>7, <3>1
        <3>3. v7' < v16' => v17'
            BY <2>1, <3>2
        <3> QED
            BY <2>1, <2>2, <2>5, <3>3 DEF Showing
    <2>6. CASE v5 # Browser!Nothing /\ ~Browser!Invalidated /\ ~Browser!Put
        <3>1. v16 = 0 /\ ~v17 /\ v4.after = "leaves"
            BY <2>6 DEF Showing
        <3>2. ~late
            BY <2>3, <2>8, <3>1
        <3>3. ~v17'
            BY <2>7, <3>1, <3>2
        <3> QED
            BY <2>1, <2>2, <2>6, <3>1, <3>3 DEF Showing
    <2> QED
        BY <2>1, <2>4, <2>5, <2>6 DEF Showing
<1>10. CASE UNCHANGED Browser!vars
    BY <1>10, ShowingFrame DEF Browser!vars, Browser!client, Browser!ghosts
<1>11. ASSUME NEW p \in Browser!Rendered, Browser!OpenForm(p), v5' = Browser!Nothing PROVE Showing'
    BY <1>11 DEF Showing
<1> QED
    BY <1>1, <1>2, <1>3, <1>4, <1>5, <1>6, <1>7, <1>8, <1>9, <1>10, <1>11 DEF Browser!Next

LEMMA PortalOpens == Browser!Init => PortalInv
<1> SUFFICES ASSUME Browser!Init PROVE PortalInv
    OBVIOUS
<1>1. PortalTypes
    <2>1. v1 \in DOMAIN Browser!Pages
        BY PortalAssumption DEF Browser!Init
    <2>2. Browser!Nothing \in Answers /\ Browser!Closed \in FormRow
        BY Fields DEF Answers
    <2>3. v14 \in [Intent -> Nat]
        BY DEF Browser!Init, Intent
    <2> QED
        BY <2>1, <2>2, <2>3 DEF Browser!Init, PortalTypes
<1>2. Opened
    BY DEF Browser!Init, Opened, Intent
<1>3. /\ v9.keyedFor = 0 /\ v9.typed = 1 /\ v9.key = 0 /\ v9.intent = 0
      /\ v9.values = 0 /\ ~v9.open
      /\ v11 = {} /\ v4 = Browser!Nothing /\ v10 = 0 /\ v15 = {} /\ v6 = 1
      /\ \A i \in Intent : v14[i] = 0
    BY DEF Browser!Init, Browser!Closed, Intent
<1>4. KeyUses = {} /\ ValueUses = {<<0, 0>>}
    BY <1>3 DEF KeyUses, ValueUses
<1>5. Keys
    BY <1>3, <1>4 DEF Keys, Keeps
<1>9. Waits
    BY <1>3 DEF Waits, Keeps, Browser!Init, Browser!Nothing
<1>6. Values
    BY <1>3, <1>4 DEF Values
<1>7. Effects
    <2>1. v13.is # "success"
        BY DEF Browser!Init, Browser!Nothing
    <2> QED
        BY <1>3, <2>1 DEF Browser!Init, Effects
<1>8. Showing
    BY DEF Browser!Init, Showing
<1> QED
    BY <1>1, <1>2, <1>5, <1>6, <1>7, <1>8, <1>9 DEF PortalInv

LEMMA PortalPromises ==
    ASSUME PortalInv
    PROVE  Browser!OneEffectPerIntent /\ Browser!OwnChangesShow /\ Browser!NoBlindOverwrite
<1>1. PortalTypes /\ Opened /\ Keys /\ Values /\ Effects /\ Showing
    BY DEF PortalInv
<1>2. Browser!NoBlindOverwrite
    BY <1>1 DEF Browser!NoBlindOverwrite, Values
<1>3. Browser!OneEffectPerIntent
    <2> SUFFICES ASSUME v1 \notin DOMAIN Browser!AuthPages
                 PROVE  /\ \A i \in DOMAIN v14 : v14[i] <= 1
                        /\ v13.is = "success" =>
                               \/ v14[v13.intent] = 1
                               \/ v4.after = "keeps"
                                  /\ \E i \in DOMAIN v14 : i < v13.intent /\ v14[i] = 1
        BY DEF Browser!OneEffectPerIntent
    <2>1. DOMAIN v14 = Intent /\ \A i \in Intent : v14[i] \in Nat
        BY <1>1 DEF PortalTypes
    <2>2. CASE v4 = Browser!Nothing
        <3>1. v13.is # "success" /\ \A i \in Intent : v14[i] = 0
            BY <1>1, <2>2 DEF Opened, Browser!Nothing
        <3> QED
            BY <2>1, <3>1
    <2>3. CASE v4 # Browser!Nothing
        <3>1. Safe(v4)
            BY <1>1, <2>3, PortalAssumption DEF Browser!TablesFit, Opened, PortalTypes, Safe
        <3>2. /\ \A i \in Intent : v14[i] <= 1
              /\ v13.is = "success" => v14[v13.intent] = 1 \/ Earlier(v13.intent)
            BY <1>1, <2>3, <3>1 DEF Effects
        <3>3. \A i \in Intent : v14[i] > 0 => v14[i] = 1
            BY <2>1, <3>2
        <3> QED
            BY <2>1, <3>2, <3>3 DEF Earlier, Keeps
    <2> QED
        BY <2>2, <2>3
<1>4. Browser!OwnChangesShow
    <2> SUFFICES ASSUME v5 # Browser!Nothing
                 PROVE  /\ v8 = {} /\ v7 < v16 => v17
                        /\ v17 => Browser!Put /\ ~Browser!Invalidated
        BY DEF Browser!OwnChangesShow
    <2>1. v7 \in Nat /\ v16 \in Nat
        BY <1>1 DEF PortalTypes
    <2> QED
        BY <1>1, <2>1 DEF Showing
<1> QED
    BY <1>2, <1>3, <1>4

AtPortal == part = "portal"

(* Every step of a person at the portal, of the network, the server and of others *)
(* keeps the invariant.                                                           *)
LEMMA PortalStays ==
    /\ OfficeSpec /\ AtPortal => [](AtPortal /\ PortalInv)
    /\ OfficeSpec /\ ~AtPortal => []~AtPortal
<1>1. OfficeInit /\ AtPortal => AtPortal /\ PortalInv
    BY PortalOpens DEF OfficeInit, AtPortal
<1>2. AtPortal /\ [OfficeNext]_office => AtPortal' /\ [Browser!Next]_(Browser!vars)
    BY DEF OfficeNext, office, Browser!vars, Browser!walk, Browser!client, Browser!server,
           Browser!network, Browser!ghosts, AtPortal
<1>3. PortalInv /\ [Browser!Next]_(Browser!vars) => PortalInv'
    BY PortalTypesStep, OpenedStep, KeysStep, WaitsStep, ValuesStep, EffectsStep, ShowingStep DEF PortalInv
<1>4. ~AtPortal /\ [OfficeNext]_office => ~AtPortal'
    BY DEF OfficeNext, office, AtPortal
<1>5. OfficeSpec /\ AtPortal => [](AtPortal /\ PortalInv)
    BY <1>1, <1>2, <1>3, PTL DEF OfficeSpec
<1>6. OfficeSpec /\ ~AtPortal => []~AtPortal
    BY <1>4, PTL DEF OfficeSpec
<1> QED
    BY <1>5, <1>6

(* Whatever the network loses and however often the button is pressed, what a *)
(* person sets out to do is done once at most, and is done when they are told *)
(* so (portal lib/idempotency.ts); where a form keeps its key, as the import  *)
(* screen does, that or something they did before it.                         *)
THEOREM EffectsStayOnce == OfficeSpec => []OneEffectPerIntent
<1>1. (~AtPortal => OneEffectPerIntent) /\ (AtPortal /\ PortalInv => OneEffectPerIntent)
    BY PortalPromises DEF OneEffectPerIntent, AtPortal
<1> QED
    BY <1>1, PortalStays, PTL

(* A quiet page shows at least what the person was told they changed, however *)
(* refetches, answers and changes of others come in, except where an answer   *)
(* is only put into the cache (the portal's invalidations).                   *)
THEOREM ChangesStayShown == OfficeSpec => []OwnChangesShow
<1>1. (~AtPortal => OwnChangesShow) /\ (AtPortal /\ PortalInv => OwnChangesShow)
    BY PortalPromises DEF OwnChangesShow, AtPortal
<1> QED
    BY <1>1, PortalStays, PTL

(* A change that carries a version never replaces values its form did not     *)
(* show (portal lib/api.ts, ifMatch).                                         *)
THEOREM NothingOverwrittenBlind == OfficeSpec => []NoBlindOverwrite
<1>1. (~AtPortal => NoBlindOverwrite) /\ (AtPortal /\ PortalInv => NoBlindOverwrite)
    BY PortalPromises DEF NoBlindOverwrite, AtPortal
<1> QED
    BY <1>1, PortalStays, PTL
=============================================================================
