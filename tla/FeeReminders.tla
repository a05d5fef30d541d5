---------------------------- MODULE FeeReminders ----------------------------
(***************************************************************************)
(* The hourly job that emails people about instalments that are due or      *)
(* overdue.  Several workers may run it at once, a run may be cut off, take *)
(* past midnight or be missed for days.  Its whole run is one transaction:  *)
(* the log entries and the queued emails commit together.                   *)
(***************************************************************************)
EXTENDS Integers, FiniteSets

CONSTANTS
    Worker,
    Installment,
    DueDate,        \* the day each instalment is due
    CreatedOn,      \* the day its invoice was made
    FirstDay,
    MaxDay          \* bound on the calendar

VARIABLES
    enabled,        \* the module fee_reminders
    open,           \* instalments not fully paid, of an invoice neither paid nor void
    contact,        \* instalments whose payer or student has an email address
    reminderLog,    \* committed rows
    mailed,         \* how many emails were queued about each instalment and stage
    today,
    tx

vars == <<enabled, open, contact, reminderLog, mailed, today, tx>>

Elsewhere == <<enabled, open, contact, today>>

(* REMINDER_STAGES, each with its threshold in days past due. *)
ReminderStages ==
    {[key |-> "due_in_3", threshold |-> -3], [key |-> "due_today", threshold |-> 0],
     [key |-> "overdue_3", threshold |-> 3], [key |-> "overdue_7", threshold |-> 7]}

GraceDays     == 2
LookaheadDays == 3
LookbackDays  == 7 + GraceDays

DaysPastDue(day, i) == day - DueDate[i]

(* The latest stage reached, unless it was sent or was reached too long ago. *)
StageToSend(daysPast, alreadySent) ==
    {s.key : s \in {s \in ReminderStages :
        /\ daysPast >= s.threshold
        /\ \A later \in ReminderStages :
              later.threshold > s.threshold => daysPast < later.threshold
        /\ s.key \notin alreadySent
        /\ daysPast - s.threshold <= GraceDays}}

StageKeys == {s.key : s \in ReminderStages}

Candidates(day) ==
    {i \in open : DueDate[i] \in (day - LookbackDays) .. (day + LookaheadDays)}

Sent(i) == {r.stage : r \in {r \in reminderLog : r.installment = i}}

Idle == [step |-> "idle"]

Init ==
    /\ enabled = TRUE
    /\ open = Installment
    /\ contact \in SUBSET Installment
    /\ reminderLog = {}
    /\ mailed = [k \in Installment \X StageKeys |-> 0]
    /\ today = FirstDay
    /\ tx = [w \in Worker |-> Idle]

(* run: the module is on, and the institution's date is read. *)
Start(w) ==
    /\ tx[w] = Idle
    /\ enabled
    /\ tx' = [tx EXCEPT ![w] = [step |-> "started", day |-> today]]
    /\ UNCHANGED <<Elsewhere, reminderLog, mailed>>

(* Nothing to look at: the run ends. *)
NoCandidates(w) ==
    /\ tx[w].step = "started"
    /\ Candidates(tx[w].day) = {}
    /\ tx' = [tx EXCEPT ![w] = Idle]
    /\ UNCHANGED <<Elsewhere, reminderLog, mailed>>

ReadCandidates(w) ==
    /\ tx[w].step = "started"
    /\ Candidates(tx[w].day) # {}
    /\ tx' = [tx EXCEPT ![w] = [step |-> "candidates", day |-> @.day, unpaid |-> open,
                                candidates |-> Candidates(@.day)]]
    /\ UNCHANGED <<Elsewhere, reminderLog, mailed>>

(* The log, the students and their payers, in statements of their own; what is  *)
(* left to do for each candidate follows from them.                             *)
ReadSent(w) ==
    /\ tx[w].step = "candidates"
    /\ LET day == tx[w].day
           Todo == {[installment |-> i, stage |-> s,
                     outcome |-> IF i \in contact THEN "queued" ELSE "no_contact"] :
                    i \in {i \in tx[w].candidates : CreatedOn[i] # day},
                    s \in StageKeys}
       IN tx' = [tx EXCEPT ![w] = [step |-> "sending", day |-> day, unpaid |-> @.unpaid,
                     todo |-> {r \in Todo : r.stage \in StageToSend(
                                   DaysPastDue(day, r.installment), Sent(r.installment))},
                     recorded |-> {}]]
    /\ UNCHANGED <<Elsewhere, reminderLog, mailed>>

Key(r) == <<r.installment, r.stage>>
Keys(rows) == {Key(r) : r \in rows}

(* Mutant: the insert ignores the unique key of the log. *)
RecordUnchecked(w, r) ==
    /\ tx[w].step = "sending"
    /\ r \in tx[w].todo
    /\ tx' = [tx EXCEPT ![w].todo = @ \ {r}, ![w].recorded = @ \cup {r}]
    /\ UNCHANGED <<Elsewhere, reminderLog, mailed>>

(* INSERT ... ON CONFLICT DO NOTHING: waits for another run that holds the key,  *)
(* and skips the instalment when that run committed.                             *)
Record(w, r) ==
    /\ tx[w].step = "sending"
    /\ r \in tx[w].todo
    /\ \A v \in Worker \ {w} : tx[v].step = "sending" => Key(r) \notin Keys(tx[v].recorded)
    /\ tx' = [tx EXCEPT ![w].todo = @ \ {r},
                        ![w].recorded = IF Key(r) \in Keys(reminderLog) THEN @ ELSE @ \cup {r}]
    /\ UNCHANGED <<Elsewhere, reminderLog, mailed>>

(* The commit makes the log entries and the emails of this run visible. *)
Commit(w) ==
    /\ tx[w].step = "sending"
    /\ tx[w].todo = {}
    /\ reminderLog' = reminderLog \cup tx[w].recorded
    /\ mailed' = [k \in DOMAIN mailed |->
                     mailed[k] + Cardinality({r \in tx[w].recorded : Key(r) = k /\ r.outcome = "queued"})]
    /\ tx' = [tx EXCEPT ![w] = Idle]
    /\ UNCHANGED Elsewhere

(* A failure anywhere, a crash of the worker, or a deadlock of two runs that     *)
(* take the same instalments in a different order.                               *)
Abort(w) ==
    /\ tx[w] # Idle
    /\ tx' = [tx EXCEPT ![w] = Idle]
    /\ UNCHANGED <<Elsewhere, reminderLog, mailed>>

(* Other handlers: a payment or its void, the module switch, the contact. *)
MoneyMoves(i) ==
    /\ open' = IF i \in open THEN open \ {i} ELSE open \cup {i}
    /\ UNCHANGED <<enabled, contact, today, reminderLog, mailed, tx>>

SwitchModule ==
    /\ enabled' = ~enabled
    /\ UNCHANGED <<open, contact, today, reminderLog, mailed, tx>>

DayPasses ==
    /\ today < MaxDay
    /\ today' = today + 1
    /\ UNCHANGED <<enabled, open, contact, reminderLog, mailed, tx>>

Next ==
    \/ \E w \in Worker :
          \/ Start(w) \/ NoCandidates(w) \/ ReadCandidates(w) \/ ReadSent(w)
          \/ \E r \in UNION {tx[v].todo : v \in {v \in Worker : tx[v].step = "sending"}} : Record(w, r)
          \/ Commit(w) \/ Abort(w)
    \/ \E i \in Installment : MoneyMoves(i)
    \/ SwitchModule
    \/ DayPasses

Spec == Init /\ [][Next]_vars

-----------------------------------------------------------------------------
(* What a run on that day owes: each stage in whose days of grace it falls. *)
Owed(day, unpaid) ==
    {k \in unpaid \X StageKeys :
        /\ CreatedOn[k[1]] # day
        /\ \E s \in ReminderStages :
              /\ s.key = k[2]
              /\ DaysPastDue(day, k[1]) \in s.threshold .. (s.threshold + GraceDays)}

MailedAsLogged ==
    \A k \in DOMAIN mailed :
        LET rows == {r \in reminderLog : Key(r) = k}
        IN  /\ mailed[k] = Cardinality({r \in rows : r.outcome = "queued"})
            /\ Cardinality(rows) <= 1

NothingLeftOut ==
    \A w \in Worker :
        /\ Commit(w) => Owed(tx[w].day, tx[w].unpaid) \subseteq Keys(reminderLog')
        /\ NoCandidates(w) => Owed(tx[w].day, open) = {}

(* Reminders are sent exactly once.  However many workers run the job, and       *)
(* wherever they are cut off, a stage of an instalment is emailed once if it is   *)
(* logged as queued and never otherwise; and a run that ends without an error     *)
(* leaves nothing out: every stage whose days of grace include its day is logged  *)
(* for every instalment it found unpaid, by this run or by another.               *)
RemindersAreExact == []MailedAsLogged /\ [][NothingLeftOut]_vars

=============================================================================
