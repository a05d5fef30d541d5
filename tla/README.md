# EMIS: specifications, model checking and proofs

EMIS runs a school's office: admissions, classes, invoices and payments, staff
accounts and the messages all of these send. The API is a NestJS program over
PostgreSQL with a BullMQ queue in Valkey; `src/apps/api/src` is the code most
of this directory is about, `src/apps/portal/src` the staff's user interface to
it. Most of what can go wrong in it is not a wrong formula: it is two requests
that read the same row, a process that dies between two writes, a job delivered
twice, a check made before the lock that should protect it. These modules model
that part of the code, TLC checks it on small instances, and TLAPS proves what
matters most for instances of every size.

Paths below are relative to `src/apps/api/src` unless they start with `docs/` or
`README.md`, which are the repository's.

- [1. Inventory](#1-inventory)
- [2. How the code is turned into actions](#2-how-the-code-is-turned-into-actions)
- [3. The modules](#3-the-modules)
- [4. The runs](#4-the-runs)
- [5. What is proved](#5-what-is-proved)
- [6. Where code and documentation part](#6-where-code-and-documentation-part)
- [7. What is not modelled](#7-what-is-not-modelled)
- [8. Plan](#8-plan)

To repeat everything, in this directory: `tlc -config X.cfg M` for the pairs of
section 4, and `tlapm <module>.tla` for each module under "Proofs" in section 3.

## 1. Inventory

Every request handler that changes something runs in one READ COMMITTED
transaction on one PostgreSQL, in one of several API processes. The state is
the tables; a component owns some of them and calls another's service inside
the same transaction. There are two exceptions: the queue, which delivers
messages to a worker process of its own, and the mail server it calls.

| Component (where) | State | Operations that change it | Interacts with |
| --- | --- | --- | --- |
| Billing: payments, discounts, voids, approvals (`modules/billing`) | invoices, installments, payments, payment_allocations, receipts, discounts, approval_requests | record a payment; ask for a discount or a void; approve or reject | numbering (receipts), audit, outbox, idempotency |
| Billing: fees, invoice creation | fee_structures, payment_plans, invoices | set a price, issue an invoice | cohorts, settings |
| Billing: fee reminders | reminder_log | the daily scan | outbox, mail |
| Cohorts (`modules/cohorts`) | cohorts, enrollments | enroll, withdraw (promotes from the waitlist), record a result, change a class or its status | catalog (rooms), admissions (application finished), outbox |
| Messaging (`messaging`) | outbox_events, processed_events, the queue | publish, relay, consume, retry, purge | every publisher; mail |
| Idempotent requests (`common/idempotency`) | idempotency_keys | run a request once per key, replay, refuse, purge | every POST that carries a key |
| Audit log (`modules/audit`) | audit_log | record, verify | every handler that changes something |
| Access (`modules/access`) | user_accounts, user_role_assignments, user_invitations | invite, resend, accept, disable, enable, grant, remove | identity, mail |
| Identity (`modules/identity`) | user_sessions, user_totp_factors, user_recovery_codes, password_reset_tokens | sign in and out, second factor, reset and change a password | access, mail |
| Settings: numbering | number_series, number_counters | next number, change a pattern | billing, students, documents |
| Settings: institution, branches, modules, lists, setup | institution, branches, departments, module_settings, descriptors | change, deactivate, turn a module on or off, set up once | everything that asks whether a module is on |
| Admissions, students, duplicates (`modules/admissions`, `modules/students`) | applications, intakes, students | pipeline moves, website form, convert, register, merge check | cohorts, numbering, outbox |
| Imports (`modules/imports`) | none of its own | preview, commit | students |
| Catalog (`modules/catalog`) | programs, courses, course_prerequisites, rooms, academic_years, holidays | their changes, prerequisites | cohorts |
| Documents (`modules/documents`) | certificates, student_cards | issue, revoke, verify | numbering, billing |
| Posts (`modules/posts`) | posts | draft, publish, schedule, unpublish, remove | website |
| Paged lists (`packages/db/src/pagination.ts`) | none: the cursor travels with the client | fetch the next page | every list of the API |
| Portal (`apps/portal`) | the query cache, open forms, idempotency keys | follow links, open a form, send, retry, refetch | every route of the API |
| Dashboard, reports, public catalogue, website | read-only | | |
| Process set-up, configuration, health, command line | none in the tables | | access (`ensureAdmin`) |

What is hard in each, and the property that makes it correct:

- **Billing.** Two clerks pay one invoice; a discount is approved while a
  payment is open; a void is approved twice; a transaction dies after it has
  drawn a receipt number. Correct means: stored totals are those of the
  instalments and these are those of the payments posted; no instalment takes
  more than it asks for; receipt numbers have no gap; nothing is reversed or
  waived without the approval of a second person, and then once. The loops that
  split, allocate and cut amounts must lose no cent to rounding.
- **Cohorts.** Seats are counted and then taken; a withdrawal frees a seat and
  picks a successor; results and room changes take no lock on the class.
  Correct means: never above the class's limit, one live place per student and
  class, the line moves up in order, nobody in a class that is over, and the
  application behind a seat is finished.
- **Messaging.** Deaths between any two writes, jobs that stall and then come
  back, overlapping attempts, a lost queue. Correct means: exactly-once
  database effects of committed changes only, no repeated external call without
  a cause, nothing forgotten unless the queue dropped it, and progress.
- **Idempotent requests.** Two attempts at once, an attempt cut off after its
  work, an expiry or purge between attempts, one key for two different
  requests. Correct means: the work once, one answer, every attempt ends.
- **Audit log.** Concurrent writers, numbers lost to rollbacks, a verification
  that reads while they write. Correct means: one chain, no false alarm, no
  row or damage missed.
- **Access.** Links that are resent, expire and are followed twice;
  administrators who demote each other. Correct means: a link sets a password
  once, and an administrator remains.
- **Identity.** Handlers without a transaction: each statement commits alone, and
  two requests carry the same secret. Correct means: a reset link, a code and a
  time step work once, guesses made at once do not get past the lock, one set of
  recovery codes and one link are in force. The code has exceptions, which the
  properties name: a switch-off accepts a code without claiming it, a late
  confirmation sets the last used step back, a confirmation beside a switch-off
  leaves codes behind, and two links may be asked for at once.
- **Registration** (admissions, students, imports). One person comes in from
  three sides at once, applications are changed on rows read earlier. Correct
  means: one open request per person and course, one student per application,
  nobody imported twice, guardians that are one person's list, stages in the
  order of the pipeline.
- **Numbering.** Patterns, years and branches change while numbers are drawn.
  Correct means: gapless in each scope, and no number printed twice.
- **Configuration records and settings.** Partial updates checked against a row
  read earlier; switches that depend on each other. Correct means: rows stay
  sound, nobody overwrites what they have not seen (but the set-up, once, the
  institution's row), a branch remains active, modules have what they need, no
  circle of prerequisites, set up once.
- **Documents.** Replacing and revoking while the record behind changes. Correct
  means: one certificate and one card verify, and an answer only worsens.
- **Reminders.** Several workers, missed days, runs past midnight. Correct means:
  a stage is mailed once, and a run that ends has left nothing out.
- **Posts.** A right that is read before the write. Correct means: only
  publishers change what is on the website. A removal escapes that.
- **Paged lists.** Rows come and go between two pages. Correct means: nothing
  twice at the same place, nothing skipped.
- **Portal.** Lost answers, second presses, refetches behind a form, roles and
  modules that hide parts of a screen, a key that outlives what it was for.
  Correct means: one effect per intent, no
  blind overwrite, own changes show, and no button the API refuses.

`PROJECT.json` lists every component with its files, and every hazard at the
line where it bites with the properties that would notice.

## 2. How the code is turned into actions

- **A worker is a request handler.** Its state `tx[w]` is what its open
  transaction has read and written. What it has written reaches the tables in
  one commit step; an abort (an error, a lost connection, a killed process)
  drops it, at any step. That is the whole of READ COMMITTED that these
  handlers rely on: each statement sees what is committed when it runs, so a
  value read in one step may be out of date in the next unless a lock protects
  it.
- **A handler is cut into steps only where others can come between**: at a lock
  that may have to wait, and after a read whose value is used later. A part of
  a handler that runs under a lock everybody else respects, or is a single
  statement, is one action. A trailing settle, promotion or finish is part of
  the commit it precedes.
- **Locks.** `SELECT ... FOR UPDATE`, advisory transaction locks and the row
  lock an `UPDATE` takes are held to the end of the transaction. Waiting is a
  step that is not enabled. A request refused before it
  holds a lock, or in the step that takes its first one, changes nothing and is
  no step; one refused later has a step of its own, since its locks have to come
  back.
- **The database's own constraints** (unique indexes, checks, immutability
  triggers) are left out wherever the code is meant not to reach them, so that
  a property shows the code's own checks are enough.
- **`audit.record`**, which ends nearly every audited step, is left to
  `AuditChain`. Its lock is one for the whole log and is kept to the end of the
  transaction, so the orders in which handlers take it and other locks matter:
  a withdrawal that promotes someone has it before it finishes their
  application (`enrollments.service.ts:409`), while other handlers change an
  application before they record it. PostgreSQL breaks such a cycle by aborting
  one of the two, which every model allows at any step; that the cycles are
  rare, or none, is not shown here.
- **Definitions under a `MUTANT` comment** are plausible mistakes. The
  specifications do not use them; each shows that a property can fail, when it
  takes the place of the definition that comes after it.

## 3. The modules

| Component | Abstract | Model | Properties | Proofs | For TLC |
| --- | --- | --- | --- | --- | --- |
| Money arithmetic | promises in `MoneyFlow` | `MoneyFlow`, `MoneyFlowRun` | in `MoneyFlowRun` | `BillingProofs`, `DeskProofs` | `MCOffice` |
| Billing | `Ledger` | `Billing` | `BillingProperties` | `BillingProofs` | `MCBilling` |
| Cohorts | | `Enrollment` | `EnrollmentProperties` | `EnrollmentProofs` | `MCEnrollment` |
| Messaging | `Delivery` | `Outbox` | `OutboxProperties` | `OutboxProofs` | `MCOutbox` |
| Idempotent requests | | `Idempotency` | `IdempotencyProperties` | `IdempotencyProofs` | `MCIdempotency` |
| Audit log | | `AuditChain` | `AuditChainProperties` | `OfficeProofs` | `MCOffice` |
| Access | | `StaffAccess` | `StaffAccessProperties` | `StaffAccessProofs`, `OfficeProofs` | `MCOffice`, `MCStaffAccess` |
| Identity | | `Identity` | in the module | `IdentityProofs`, `OfficeProofs` | `MCOffice` |
| Admissions, students, imports | | `Registration` | `RegistrationProperties` | `DeskProofs` | `MCOffice` |
| Numbering | | `Numbering` | in the module | `DeskProofs` | `MCOffice` |
| Institution, branches, lists, catalog, prices | | `Records` | in the module | `OfficeProofs` | `MCOffice` |
| Modules, set-up, terminology, prerequisites | | `Settings` | in the module | `OfficeProofs` | `MCOffice` |
| Certificates and cards | `VerifyCard`, `VerifyCertificate` | `Documents` | in the module | `OfficeProofs` | `MCOffice` |
| Fee reminders | `Owed` | `FeeReminders` | in the module | `DeskProofs` | `MCOffice` |
| Posts | | `Posts` | in the module | `OfficeProofs` | `MCOffice`, `MCPosts` |
| Paged lists | | `Paging` | in the module | `DeskProofs` | `MCOffice` |
| Routes, screens, portal | | `Api`, `Screens`, `Portal` | in `Portal` | `DeskProofs` | `MCOffice` |

`Office` composes the parts that share no table, `MCOffice` is its instance for TLC.

### MoneyFlow and MoneyFlowRun

`MoneyFlow` holds `modules/billing/domain/money-flow.ts`: the split of a total
into instalments (`BuildInstallments`), the oldest-first allocation of a payment
(`AllocatePayment`), the discount taken from the instalments
(`CutDiscount`) and its size (`DiscountAmount`), written as recursive functions
with the same order of passes and roundings. Money is a whole number of cents.
Next to the loops stands what callers rely on: `PaymentSplits` and
`DiscountCuts` are the sets of results that keep the promise. `MoneyFlowRun`
starts an invoice from any total and plan and pays and discounts it in any
order; TLC compares loop and promise in every state, and `BillingProofs` proves that
they agree for all of them.

`Billing` uses the promises and not the loops, which are the same: the set holds the loop's result and nothing else, and is empty when the
amount is more than is owed. So the proofs about `Billing` need no induction
over the loops: what the promise says of each instalment, and of the sum, is
enough.

### Billing and Ledger

Variables are the tables of `modules/billing` and the receipt series: `parts`
(instalments), `invoice`, `payment` (with allocations and receipt), `request`
(approval_requests), `discount`, `counter`; the three kinds of row lock; `tx`.

| Action | Code |
| --- | --- |
| `LockAndAllocate`, `TakeReceiptNumber`, `CommitPayment` | `payments.record`: invoice `FOR UPDATE`, balance check, allocation; `numbering.next`; rows and `settle` |
| `RequestDiscount`, `RequestVoid`, `CommitRequest`, `RefuseRequest` | `approvals.requestDiscount`, `requestVoid` and `create`, which refuses a second pending request on the same subject |
| `LockRequest`, `CommitRejection` | `approvals.decide`: request `FOR UPDATE`, still pending, another person |
| `ApplyDiscount`, `RefuseDiscount`, `CommitDiscount` | `decide` into `invoices.applyDiscount` and `settle` |
| `VoidPayment`, `RefuseVoid`, `CommitVoid` | `decide` into `payments.voidPayment` and `settle` |
| `Abort` | any error, or the end of the process |

Invoices start as `invoices.create` leaves them. No code sets an invoice to
`void`, so that status is not in the model. `Ledger` is the abstract view: what
is owed per invoice, the entries booked, the last number issued; it moves in
three ways (`Receive`, `Waive`, `Reverse`) and knows no transaction or lock.
`ImplementsLedger` maps the committed tables to it.

### Enrollment

Variables are `cohort` (status, limit, room), `capacity` of rooms, `enrollment`
rows, the `application` of each student, the class's row lock, and `tx`.
`enroll` is `LockToEnroll`, `CountSeats`, `CommitEnroll`; `withdraw` is
`ReadToWithdraw`, `LockToWithdraw`, `CountFreedSeat`, `CommitWithdraw`, whose
commit includes the promotion; `recordResult` is `ReadToRecord`, `CommitResult`; `cohorts.update` and `setStatus` are `LockToUpdate`,
`LockToMove`, `CommitCohort`. Each read taken before a lock is a step of its
own. `UpdateRoom` (catalog) and `Convert` (admissions) are what other modules
do to this state. The version check of `updateWithVersion` is `StillAsRead`;
`RefuseStale` is its failure. The unique index on live places is left out, so
the part of `PlacesAreSound` about places rests on the code's own check.

### Outbox and Delivery

A business change publishes an event (`Publish`, `CommitChange`, `RollBack`). A
relay is a transaction in three steps: `SelectBatch` (`FOR UPDATE SKIP LOCKED`,
lowest ids first), `AddBulk` into the queue, `MarkPublished` with the commit;
`RelayFails` can come after each. A consumer slot takes a job (`Take`) and runs
its handlers in order, each in a transaction: `Claim` inserts the
processed_events row, and waits for another transaction that has inserted the
same one; `Handle` makes the external call; `CommitHandler`. `Throw` is a
failed attempt, `Die` a dead worker, `Recover` and `LoseLock` the stalled-job
check for a dead and for a live holder, `GiveUp` and `Requeue` the queue's
decision. `ForgetJob` is the removal of old jobs, `PurgeDelivered` that of old
rows, `LoseQueue` a Valkey that comes back empty.

External, modelled from how the code uses it: BullMQ and Valkey (a job id
exists once; `attempts` retries; one stall allowed, the default that
`event-consumer.service.ts:31` keeps) and the mail server. `wake` and the loop
of `relayAll` only decide when a batch starts, and here it may start whenever
the relay is idle. No caller of `publish` passes `availableAt`. A purge comes
30 days after publication, far beyond all retries and the seven days failed
jobs are kept, so `PurgeDelivered` needs the job to be over. Completed jobs go
after 24 hours or 10 000 others; a row relayed a second time then runs again,
and the inbox makes it harmless. `OutboxDrain` is for tests only. The one
handler registered today is `mail.send`; the model has any number.
`Delivery` is the abstract view: a change that commits is acted on at most once
by each handler, one that does not never.

### Idempotency

An attempt goes `Send`, `Lock` (the advisory lock on caller and key), then
`Replay`, `Refuse` (same key, other request) or `Run` and `Commit`, which
stores the response in the same transaction. `RollBack` cuts an attempt off at
any point, `Expire` lets a stored response grow old, `Purge` deletes it. The
response is named by the attempt that made it, so a replay is recognisable.

### AuditChain

A writer begins, locks, reads the newest row's hash, inserts, and may insert
again under the lock it holds; a rollback gives back everything but its sequence
numbers. The verifier reads batches in order with no transaction around them.
Rows are edited, removed or exchanged behind the code's back by `EditRow`,
`RemoveRow`, `ExchangeRows`. The hash is taken to be collision-free. A log cut
off at its end looks intact to `verify`, since nothing outside records how long
it was; `VerifierIsRight` therefore leaves the removal of the newest row out.

### StaffAccess

Handlers read the account without a lock; `assertAnotherAdmin` takes an
advisory lock that only demotions take. So disabling and removing a role are
`ReadToDisable` or `ReadToRemove`, `AssertAnotherAdmin` when the row read says
so, then `Disable` or `RemoveAssignment`; resending is `ReadToResend`,
`SeeOpenLinks`, `Reissue`; accepting is `FindOpen`, `Accept`. Two resends at
once can leave two open links; `LinkUsedOnce` holds nevertheless, since a link
is consumed by a conditional update. Ending the sessions of a disabled account
belongs to `Identity`.

### Identity

One account, its sessions, factor, recovery codes and reset links. Most handlers
run outside a transaction, so each statement is a step: `ReadAccount`,
`CountFailure` or `ClearFailures`, `OpenSession` for a sign-in; `CheckCode`,
`ClaimTimeStep` or `ConsumeRecoveryCode`, `Rotate` for the second factor, and
`WrongCode`, `RecordMfaFailure`, `EndSession` for a wrong one. `Setup` and
`CheckEnrollment` prepare a confirmation; `ReplaceCodes` and `Enable` are its
transaction, `CheckDisable` precedes the transaction `DeleteCodes`,
`RemoveFactor` that switches the factor off. Both transactions delete the
recovery codes their DELETE sees, and a row inserted meanwhile is not among
them, so each keeps that snapshot until it commits; the confirmation also holds
the factor's row (`RowIsFree`) unless that row was deleted since it was read
(`gone`). `RetireLinks`, `SendLink` send a link in the same manner, and
`FindLink`, `ApplyReset` use it for a forgotten password. `Die` ends a handler
between any two of them. Secrets are abstracted to which one they are and whether
they are right; a TOTP code is the secret it was made with and its time step, and
each is counted in `spent` wherever it is accepted: by a confirmation, by a
claim and by a switch-off (`Accept`).

Not every code the service accepts is claimed first, and `SecretsWorkOnce` says
for which it does not speak (`exempt`). A switch-off checks its code and claims
nothing (`mfa.service.ts:122`), so the code may have signed in at the same moment, and
what is under way to be claimed when the row goes names only the user and can be
claimed of the next factor. A confirmation writes its step unconditionally
(`mfa.service.ts:148`): one that comes after another of the same row may carry
the same code and sets `lastUsedTimeStep` back, one that comes after the row was
deleted leaves no trace of its code (`Reopened`). Wrong passwords are counted
one by one after they were compared, so several requests can be past the check
when the account locks; `LockHolds` says that those are all that get past, again
each time the lock runs out before the count is cleared (`expired`).

A sign-in that read the account before a password reset may still open a session
after it: the model has the behaviour, and no text of the repository excludes
it. `MCOffice` has two instances, one that enrolls and one that sends links and
counts wrong passwords; what they share is the session, which any request may
lose at any time in both.

### Registration

Three services that register the same people. `Create` and `LookForRequest`,
`CommitRequest` are the desk and the website's form; `Update`, `Transition`,
`RecordPlacement` prepare a change that `CommitEdit` writes if the version is
still the one read; `LockToConvert`, `LookToConvert`, `CommitLink` and
`CommitStudent` convert; `LookForStudent` is `students.create` at the desk;
`ReplaceGuardians`, `CommitGuardians` replace the list under the student's row
lock; `StartImport`, `LookAtRow`, `AddRow`, `CommitImport` import a file row by
row. A preview is an import that aborts. Which lock is held follows from `tx`.
`Alike` stands for the duplicate search. Two registrations at the desk can both
pass that search, which takes no lock; the properties promise nothing of them.
`Tried` bounds the stages staff choose, `MaxChanges` the changes of rows.

### Numbering

`setPattern` changes the pattern while workers go `ReadPattern`, `TakeNumber`
(the upsert that locks the counter's row), `Store` or `Abort`; `DayPasses` moves
the calendar, across the fiscal year too. Rendering is modelled by what it
prints: a number is a sequence of symbols, so that two scopes can print the same
one, which the table's unique index then refuses (the worker aborts and the
counter goes back).

### Records

Fourteen tables with one protocol: `Open` (a person sees a row and its version),
the update handler of the table (its checks against the row it reads), `Save`
(`updateWithVersion` and the constraints) or `Refuse`; one create handler per
table; `deleteHoliday`. A behaviour is about one table. One writer does not follow
the protocol: `completeSetup` writes the wizard's columns over the institution's
row and raises its version without comparing it (`setup.service.ts:93`), so
`AuthorHadSeen` leaves out the step that sets the institution up, and
`StaysSetUp` says there is one such step. `updateBranch` takes the advisory lock
of the last active branch. `clearDefault` takes the default from the other plans
without touching their versions, so a plan's default may be gone though a person
saw it; `Watched` leaves that column out. A retired plan can be made the default
again.

### Settings

`CheckSwitch`, `CommitSwitch` switch modules under a lock; `LockInstitution`,
`CommitSetup` complete the set-up beside an administrator who creates
departments and edits the institution (`OpenInstitution`, `updateInstitution`).
The departments are kept (`onConflictDoNothing`), the edit is overwritten: the
institution's row is kept as who wrote it last and its version, and
`InstitutionIsSeen` says that only the first set-up changes it unseen.
`StartDelete`, `FinishDelete`, `CommitRename` replace the wording;
`LockProgram`, `CommitPrerequisites` change what a course requires, with
`Needed` as the search the code does.

### Documents, FeeReminders, Posts

`Documents`: `ReadEnrollment`, `ReadBalance`, `Issue`; `ReadToRevoke`, `Revoke`;
`ReadStudent`, `RevokeCard`, `IssueCard`; the student, the result and the balance
change at any time. The balance is read without the invoice's lock, so a void
that commits meanwhile leaves a certificate for an unpaid course; the model lets
it happen and no property speaks of it. `FeeReminders`: `Start`,
`ReadCandidates`, `ReadSent`, `Record` (INSERT ... ON CONFLICT DO NOTHING, which
waits for another run's key), `Commit`; days pass at any time. Two runs that take
the same instalments in a different order may deadlock, which `Abort` covers; a
run that crosses midnight may mail stages out of their order. `Posts`: `PickSlug`,
`Create` under the lock on slugs; `Open`, `Check`, then `Update`, `Publish`,
`Unpublish` (with the version the portal loaded) or `Remove` (without). A drafter
may therefore remove a post that was published after they loaded it;
`PublishersDecide` allows removals of posts changed since (`RemovedLate`), and
`posts_remove` shows one.

### Paging

`Begin`, `Insert`, `Commit` and `Tick` fill a list whose rows get the stamp of
their transaction's start; `Move` and `Leave` change a chosen date and filter a
row away; `FetchPage` reads one page after the cursor. `EncodeCursor` cuts a
stamp to the millisecond as `toISOString` does. A cursor is at the start, at the end
or after the key of the last row shown. `InOrder` stands for ORDER BY: the enumeration of
what was read in which every row precedes the next. Each list of the API is in
`Lists` with what it sorts by.

### Api, Screens, Portal

`Api` gives every route what a caller needs (permission, module, version, key)
and what it reads, writes and does when it is asked twice. `Screens` gives every
component of the portal the queries, changes and links it renders, each behind
the checks the component makes. `Portal` is one person: they `Follow` links with
some of the system's roles and any modules on, `OpenForm`, `Edit`, `Press`, while
the server does the work, replays it or refuses it (`Work`, `Replay`, `Refuse`),
answers get lost (`Fail`), others change the row (`OthersChange`) and the page
refetches (`Refetch`, `Arrive`). A table stands for the rows a screen shows from
it; names joined in for display are left out, so is a refetch that fails. Screens
ask for a permission at any scope and services assert it at one; roles held at
one branch, roles an institution makes itself and typed URLs are not in the
model. A person who cancels after a lost answer and opens the form again starts
something new. After a success a form closes, or stays with its key reset, as
each screen has it; the import screen alone keeps its key for the same file and choice
(`after`: `keeps`), so that the answer to an earlier import can come back. A change that only puts its answer into the cache can be
overtaken by a refetch that had read the row before (`overtaken`). `TablesFit` says
what has to be true of every screen in the tables for the promises about changes to be
kept: a form of a versioned row sends the version its values came with, a screen
refetches, puts or leaves what its change writes, a form that keeps its key sends it,
and nothing but signing in is sent that would be done twice if it came twice.

### Office and MCOffice

The parts that share no tables are checked in one run: a behaviour is about one
part, chosen in its initial state, and the other parts' variables are empty. The
states explored are the sum of the parts', not their product, and each property
speaks of its own part. `Office` takes the bounds and data of every part as constants,
under assumptions that say what the code and the calendar make sure of; `MCOffice` and
`Office.cfg` give their values for TLC. What does interact is in one module already (registration
from three sides, enrollment with rooms and applications, billing with numbering).

## 4. The runs

TLC explores every state of each instance. Model values are interchangeable
where a run checks no liveness, and symmetry is used there only.

| Run (module, config) | Asks | Instance and why it is enough |
| --- | --- | --- |
| `billing` (`MCBilling`, `Billing.cfg`) | Books, receipts, maker-checker, locks, refinement of `Ledger` | Two invoices (2+1, and 1+0 with an empty part), three payments, two requests, two people, two workers, aborts anywhere. Two workers are what every conflict needs; two invoices let locks be taken in two orders |
| `billing_live` (`MCBilling`, `BillingLive.cfg`) | Every transaction ends | One invoice, so that everybody meets at its lock; `FairSpec` |
| `enrollment` (`MCEnrollment`, `Enrollment.cfg`) | Seats, places, line, closed classes | Three students, one from an application, one class and room with limits 1 and 2: two in line behind a full class, and a resize that matters |
| `enrollment_line_jump` (`EnrollmentLineJump.cfg`) | First come, first served | as above; violated, see section 6 |
| `outbox` (`MCOutbox`, `Outbox.cfg`) | Nothing forgotten; no call repeated without a cut-off one | Two events, two relays, two consumers, three faults, a lost queue: two relays compete for rows, and a second event is in the queue while the first stalls |
| `outbox_live` (`OutboxLive.cfg`) | Completed means handled, exactly-once effects, progress | One event with two handlers, three attempts, four faults: a retry that skips the first handler, overlapping attempts after a lost lock, and giving up |
| `outbox_two_crashes` (`OutboxTwoCrashes.cfg`) | A crash loses nothing | Eight attempts as in the code, two faults, no lost queue; violated, see section 6 |
| `idempotency` (`MCIdempotency`, `Idempotency.cfg`) | Work once, one answer, stored exactly when done, every attempt ends | Three attempts under two keys with two requests and one expiry: a replay, a refusal and a second life of a key in one behaviour |
| `office` (`MCOffice`, `Office.cfg`) | The thirteen parts listed below | see below |
| `staff_last_admin` (`StaffLastAdmin.cfg`) | An administrator always remains | One administrator and one newcomer; violated, see section 6 |
| `paging_walk` (`Paging`, `PagingWalk.cfg`) | A walk shows every row | Pages of one row, two ticks to a millisecond, three rows; violated, see section 6 |
| `posts_remove` (`MCPosts`, `PostsRemove.cfg`) | Drafters leave what is published alone | Two people, three posts; violated, see section 6 |

The parts of `office`, each with two workers unless it says otherwise:

| Part | Asks | Instance and why it is enough |
| --- | --- | --- |
| audit log | `ChainNeverForks`, `VerifierIsRight` | Two entries per transaction, four sequence numbers, batches of two, one damage: gaps, a last batch exactly full, rows added during a verification |
| money | `MoneyIsExact` | Totals 1, 2, 5, 7 and six plans, which include shares that round to nothing and totals smaller than the number of parts; payments to 8 and discounts of both kinds, so the loops meet partly paid and partly cut instalments |
| staff | `StaffIsSafe` | A founder and a clerk who can become the second administrator, two links, one role granted: the two can demote each other, and a link can be followed twice |
| sign-in (second factor) | `SignInIsExact` | One session, two TOTP secrets, two enrollments of one recovery code each, the clock in its first time step, in which codes of two steps are good: two requests with the same secret in every combination, a later code followed by an earlier one, a confirmation that finishes after another one, or after the factor was switched off |
| sign-in (passwords) | `SignInIsExact` | One session, two links, a lock after two wrong passwords, four in all: two links asked for at once, a link used while a newer one is sent, a sign-in that clears the count, a lock that runs out while wrong passwords are under way |
| registration | `RegistrationIsExact`, `StagesFollowThePipeline` | Two applications, two students, one person twice in a file, four changes: a form sent twice, a conversion raced by a rejection, two imports |
| numbering | `NumbersAreExact` | Three records, two branches, five patterns, digits to base 2: patterns that share a scope, that differ only in a fixed symbol, a width that overflows, two fiscal years |
| records | `RecordsHold` | Two rows, two codes, three times, two versions: two edits of one row, a set-up over an edit, and two rows that collide |
| settings | `SettingsHold` | Three courses, two departments, three changes: a circle of three, a switch from both ends, a set-up that overwrites an edit |
| documents | `DocumentsAreTrue` | Two documents of each kind, three days, cards valid for one: a replaced card that also expires |
| reminders | `RemindersAreExact` | An instalment not yet due and one overdue, three days: two stages of one instalment, the last day of grace, an invoice made today |
| posts | `PostsAreGuarded` | Two posts whose titles collide in two ways, two versions to lose |
| lists | `PagesAreExact` | Three kinds of list, three rows, pages of one |
| portal | `NoDeadButton`, `OneEffectPerIntent`, `OwnChangesShow`, `NoBlindOverwrite` | Every set of the system's roles and of modules, every page, every change; two intents, two presses, three versions: a lost answer, a second press and another person's change in one behaviour |

Bounds that are not the code's are constants and named: `MaxFaults`,
`MaxLosses`, `MaxExpiries`, `MaxSeq`, `PerTransaction`, `MaxDamage`,
`MaxTokens`, `MaxGrants`, `MaxPayment`, `MaxStep`, `MaxSecrets`, `MaxEnrollments`,
`MaxFailures`, `MaxChanges`, `Tried`, `MaxRecords`, `MaxTime`, `MaxVersion`,
`MaxDocuments`, `MaxDay`, `MaxRows`, `MaxClock`, `MaxIntents`, `MaxPresses`; the finite sets of ids bound the rest.

`CHECK_DEADLOCK FALSE` stands where the system may stop: no request has to
come, or all ids and bounds are used up. The two `enrollment` runs check
deadlock: a room can always be resized there.

### Fairness

- `Billing`, `Enrollment`: strong fairness of each worker's next step (in
  `Billing`, weak fairness where the step is its commit). A handler runs to its end, and PostgreSQL queues those
  who wait for a row, so someone who waits for a lock that is free again and
  again gets it. Strong fairness says no more. Nobody is made to start a request
  and nothing makes a transaction fail.
- `Outbox`: weak fairness of the relay (its five-second poll, and a batch does
  not hang), of the queue handing out jobs and of a handler returning, and of
  the stalled-job check. Changes need not commit and faults need not happen;
  `EventuallyHandled` allows for jobs given up and a queue that was lost.
- `Idempotency`: weak fairness of each attempt. The advisory lock is free
  whenever its holder has ended, and attempts are finitely many.

## 5. What is proved

Every proof is inductive: a conjunction (`Inv`, `OutboxInv` and so on) that
holds at the start, that every action preserves, and that implies the
properties. TLC checked each conjunction on a small instance first.

**Billing** (`BillingProofs`), for any sets of invoices, payments, requests,
people and workers, and any fees, amounts and discounts. Assumed:
`NoOneIsNobody`, `FeesAreIssued` (an invoice's instalments are a finite sequence of
naturals that add up to more than nothing), `AmountsArePositive`,
`TermsAreDiscounts`.

- `Inv == TypeOK /\ WorkIsCurrent /\ NoInstalmentOverpaid`. That no instalment
  is overpaid is not inductive alone: a payment commits an allocation computed
  earlier. `WorkIsCurrent` is what is missing. It says that whoever has
  allocated, cut or reversed still holds the lock of that invoice, and that
  what it read is still what is stored; each action keeps it because it needs
  the same lock to change the same rows (lemma `Frame` carries it across
  everybody else's steps).
- `TypeCorrect`, `NeverOverpaid`, `LocksKeepWorkCurrent` follow from
  `Invariance`. The only facts used about the arithmetic are those that
  `PaymentSplits` and `DiscountCuts` state for each instalment (`SplitType`,
  `CutType`) and, further down, for their sum.
- `NumbersWithoutGap` adds `ReceiptsGapless` to the invariant: the number a
  payment carries is still the counter's successor when it commits
  (`WorkIsCurrent`), and no other commit touches numbers (`OnlyCommitsShow`).
- `WrittenForGood` shows `HistoryIsFinal`, an action property, by looking at the
  five commits one by one.
- `MakerChecker` proves `FourEyes` with `Eyes` added: payments that do not exist
  yet have no approved void either, a discount is written once when its request
  is approved and never before, and the decider differs from the asker. A
  commit can rely on the request it decides being pending because it holds that
  request's lock (`DecisionsArePending`).
- `TotalsFollowParts`: the row of an invoice is what `SettledRow` makes of its
  instalments. It is the first third of `BooksBalance`.
- `BooksAlwaysBalance` proves all of it. The instalments store what they carry and
  owe; the same amounts can be counted from the payments posted and the
  discounts written. `Books` says that the two counts agree instalment by
  instalment (`PaidByPayments`, `CutByDiscounts`), and `TxAddsUp` that what an
  open transaction is about to write adds up to its amount. One commit changes
  one payment or one discount, so each sum moves by one term:
  `BooksOnPayment`, `BooksOnVoid`, `BooksOnDiscount`. A void can reverse exactly
  what the payment added because the payment it holds is still posted
  (`WorkIsCurrent`, `FourEyes`). `MoneyInvariance` is the conjunction of it all.
- `BillingImplementsLedger` proves the refinement of `Ledger`. A commit of a
  payment is `Receive`, of an approved discount `Waive`, of an approved void
  `Reverse`; all other steps stutter (`LedgerStep`). What is owed on an invoice
  is a sum over its instalments, so that it goes down by the payment's amount,
  and not below zero, is a statement about sums too (`ReceivesOnPayment`,
  `WaivesOnDiscount`, `ReversesOnVoid`).
- The first part of the module holds what these need of `SumFunction` and of sums over a
  chosen set: one term can be taken out, sums of equals are equal, sums are added,
  subtracted and compared term by term. The library defines such a sum by
  choosing one element after the other; that the choice does not matter
  (`AnyFirst`) is shown by induction on the size of the set, in the form of a
  smallest set for which it would.

**Money arithmetic** (the last sections of `BillingProofs`), for any bill and amount. The
library's induction theorems cannot be instantiated, so the loops are proved from
the smallest number of visits at which a fact would fail (`LeastNat`).

- Both loops are one: instalments are visited in some order (`Visits`; from the
  first for a payment, `Reversed` for a discount), and each takes what it is
  asked or all that is left (`Flows`). What `InTurn` promises of such an order has exactly
  one member if enough is owed and none otherwise, and it is the loop's
  (`LoopIsInTurn`).
- `PaymentLoop`, `DiscountLoop`: `PaymentSplits` and `DiscountCuts` hold the result of
  `AllocatePayment` and `CutDiscount` and nothing else, and are empty exactly
  when something is left over. This is what `Billing` takes for granted by using
  the promises.
- `PartsOfTotal`: the parts that `BuildInstallments` makes are naturals and add up to the
  total. The shares rounded down never exceed it, so the last part, which gets
  what is left over, is not negative.
- `MoneyStaysExact` proves `MoneyIsExact` for `One`, an instance of `MoneyFlowRun` with any
  totals, plans, payments and discounts, by the invariant `BillInv`. Assumed, as a
  hypothesis: `Priced`. Amounts are naturals, and the shares of a plan add up to 10000 basis
  points, which `planIsValid` demands of every plan (`packages/contracts/src/billing.ts:87`).
  `DeskProofs` carries it over to the `MoneyIsExact` of `Office`, whose `MoneyAssumption`
  says the same and is evaluated by TLC (`SameSums`, `SameLoops` and `SameSteps` say that both
  instances compute alike).

**Idempotency** (`IdempotencyProofs`), for any numbers of attempts, keys,
requests and expiries. Assumed: `IdempotencyAssumption`.

- `Inv` is the conjunction of `TypeOK`, `Serialized` (one holder of a key's
  lock), `Keyed`, `RunsWithoutRow` (while someone runs the handler there is no
  fresh response to replay), `DoneIsOver`, `RowOfItsKey`, and the two
  properties. `WorkedOnce` needs `StoredIffDone`: the work cannot be done again
  because a response is stored, and the response is there because work and
  response commit together. That in turn needs the lock: without `Serialized`
  a second attempt could have looked before the first one stored.
- `OncePerKey` and `StoredExactly` follow from `Invariance`. `RetriesAgree` adds
  that an answer given is the stored one of its key for as long as it lasts.

**Outbox** (`OutboxProofs`), for any numbers of events, handlers, relays and
consumers and any numbers of faults. Assumed: `OutboxAssumption`.

- A step is, for a consumer, one of six moves, and for a job one of six fates;
  the invariants are proved from those. `OutboxInv` is the conjunction of
  `TypeOK`, `Runs`, `Sourced` (only committed changes are relayed), `RowsLocked`
  (`SKIP LOCKED`: a row is in one batch), `Exclusive` (an inbox row is one
  transaction's), `Inbox` (it remembers every effect that could still be
  repeated), `Behind` (handlers in order), `Calls`, `Queue` and `Kept`.
- `CompletedIsHandled` and `NothingSlips` follow. `NoNeedlessRepeat` does from
  `Calls`, which counts external calls: each ended in an effect, was cut, or is
  under way.
- `OutboxImplementsDelivery` is the refinement: each step is one of `Delivery`'s
  or a stutter. That an effect is not repeated after its inbox row is purged is
  `Inbox`: by then the event is `Gone` from outbox, queue and consumers.

**Enrollment** (`EnrollmentProofs`), for any sets of classes, places, students,
rooms and handlers. Assumed: `NoOneIsNoWorker`, `StudentsComeFromSomewhere`,
`SizesArePositive`, `PlacesAreFinite` (a table has finitely many rows; the
proofs count them).

- While a class's row lock is held nothing happens to the class but results
  recorded on its active rows, which are not taken under that lock
  (`CalmWhileHeld`). They free seats and leave the line as it is. So what
  `enroll` (`Entering`), `withdraw` (`Promoting`) and `update` (`Updating`)
  counted under the lock still holds when they write, though it may no longer
  be exact; and a row whose version is still the one read is the row that was
  read (`AsRead`). `Line` says that waiting times in a class differ.
- `NoClassOverfilled`, `PlacesSound` and `SeatsFinishApplications` are parts of
  `EnrollmentInv`; `FinishedStaysFinal` and `NobodyJumpsTheLine` are action
  properties shown from it.

**Audit log** (the last section of `OfficeProofs`), for any numbers of writers and entries, any
batch size and any damage. Assumed: `AuditAssumption`.

- Two facts carry it. What is not committed comes after all that is
  (`Ascending`), so the rows a verification has passed stay as they were
  (`Walking`). And a hash contains the one before it, hence is longer
  (`Lengthens`): a row that was changed, moved or lost its predecessor cannot
  fit the one it has now (`Marked`). This is the abstraction of SHA-256 as
  something that never collides.
- `RecordsFormOneChain`: `ChainNeverForks`. `VerificationIsRight`:
  `VerifierIsRight`, no false alarm and nothing missed.

**Staff** (`StaffAccessProofs`), for any people, transactions and bounds, under
`Sensible`: at least one administrator at the start, an empty column is not an
assignment, bounds are naturals. It is a hypothesis of the theorems.

- `StaffStaysSafe` proves `StaffIsSafe`. `assertAnotherAdmin` lets one
  transaction at a time past the count (`OneGuard`), and what it counted stays
  true to that transaction's end (`GuardHolds`): whoever disables an account
  without the guard has read that it is no administrator's (`BegunBy`), and
  unless a role is given to an account that exists it does not become one.
  Without that condition the promise fails: `staff_last_admin`.

**Identity** (`IdentityProofs`), for any requests, sessions, links, codes and
thresholds, under `Sensible`: the bounds are naturals and the requests finitely many
at a time, again a hypothesis.

- `SignInStaysExact` proves `SignInIsExact`. That a secret was accepted can be
  seen in the tables (`StepsSpent`: the factor's last step is not before it, or
  it is exempt; `CodesSpent`; `LinksSpent`), and the conditional UPDATEs look there.
- What is exempt is decided where the code gives the control away: at the commit of a
  switch-off and of a late confirmation. A claim under way at a switch-off succeeds only
  if an earlier code confirms the next factor before it; the instance that TLC checks has
  one time step, so that this combination rests on the proof.
- The lock: what was counted, with what is past the check, is below the threshold
  plus one request's worth per lock that fell. A count at the threshold has locked
  the row; while it is locked nobody passes the check, and once the lock has run out
  each request can pass once more before it falls again.
- One set of codes: a confirmation or switch-off about to commit has every code
  in its snapshot that was not left behind by a confirmation beside a
  switch-off (`Snapshots`). This needs that one confirmation holds the
  factor's row (`OneHolder`), and that one whose row is gone knows it ran beside
  a switch-off (`Confirmations`).
- The newest link: a request under way has seen every unused link that was not
  asked for at the same time (`Asking`).

**Office** (`OfficeProofs` and `DeskProofs`), for any numbers of workers, rows and people, any
calendar, patterns, titles, files and lists. A behaviour of `Office` is one of its parts,
so every theorem is `OfficeSpec =>` the property of a part, from an invariant of that
part alone. Assumed, and evaluated by TLC on the instance: `StaffAssumption`,
`PostAssumption`, `DocumentAssumption`, `NumberingAssumption`, `ReminderAssumption`,
`PagingAssumption`, `TableAssumption` (a table has finitely many rows, and requests are
finitely many at a time),
`AdmissionAssumption`, `MoneyAssumption`, `PortalAssumption`.

- `StaffStaysSafe`, `SignInStaysExact`: the two theorems above, whose hypotheses the
  office's assumptions meet.
- `PostsStayGuarded` (`PostsInv`). `UniqueSlug` tries one number more than there are posts,
  so by the pigeonhole principle it finds a free one, and the slug lock keeps it free
  to the insert. An update that finds the version it opened writes over the
  status it checked; a removal that does is of the draft it checked, and one that
  does not is `RemovedLate`.
- `DocumentsStayTrue` (`DocumentsInv`). One certificate is in force, and no card but the
  newest one: the unique indexes see to the inserts, and a replacement revokes what it
  held locked in the commit that inserts. Revoked is for good and days only pass, so
  an answer only worsens.
- `SettingsStayConsistent` (`SettingsInv`). `Needed` is what the code's search walks to
  (`NeededIsWalked`). That it has walked far enough after as many rounds as there are
  courses is shown by the sizes of the sets it passes (`NeededIsClosed`). A new
  requirement then closes no circle (`NoCircleCloses`), because
  the lock on the program keeps the requirements that were searched. Whoever edits the
  institution writes over the row of the version they opened (`InstitutionRow`); the
  set-up alone does not look.
- `RecordsStaySound` (`RecordsInv`). A version tells what the row held when a person
  opened it, so `updateWithVersion` writes over exactly what they saw; the set-up, which
  does not use it, finds the row not set up and leaves it so (`CompleteSteps`); the
  unique indexes and the branch lock do the rest. The default of a payment plan is taken
  away without a new version and is in no promise.

Those are in `OfficeProofs`; what the front desk and the public meet is in `DeskProofs`:

- `RegistrationStaysExact`, `StagesStayInPipeline` (`RegistrationInv`). What each handler
  still has to rely on between its check and its commit is a conjunct:
  `EditHolds` and `ConvertHolds` (the version is unchanged, so the stage is, and the move
  is one of the pipeline's), `SubmitHolds` (no open request, under the lock on the phone
  number), `ReplaceHolds` (guardians, under the student's row lock), `ImportHolds` (whom it adds
  is like nobody imported before and nobody else it adds, under the import lock). `Permitted(w)` says
  what a step of one worker may change, and `OthersHold` that such a step leaves the
  others' conjuncts true. An import commits as many students as it adds, each one of them (`TwoOfEach`).
- `NumbersStayExact` (`NumberingInv`). While a worker holds the row of a counter, the
  number it took is the next of its scope (`TakesNext`), and nobody else takes one there
  (`CountersHeld`). The unique index refuses a number that would print the same as another.
- `RemindersStayExact` (`RemindersInv`). `RunFits`: a run's candidates are all that was
  due when it read them, and each stage it owes is logged, inserted by it or still to do.
  `KeysApart`: two open runs have inserted no key in common. `OwedIsDue`: the days in
  which the stages of an instalment are owed do not overlap.
- `PagesStayExact` (`PagingInv`). `Accounted` is the walk's balance: whatever was there
  when it began and stays has been shown, or comes after the cursor, or bears the
  millisecond of a row that was shown. A row committed late has a later
  stamp than the cursor or the same millisecond (`CursorBehind`). A finite set of rows in
  a strict order can be listed, in one way (`SortedExists`), so `InOrder` means something.

- `EffectsStayOnce`, `ChangesStayShown`, `NothingOverwrittenBlind` (`PortalInv`), for any
  numbers of intents, presses and versions. `Keys`: the requests under way and the form
  use one key for one intent and one intent for one key (but for a form that keeps its
  key), and a key is stored at the server exactly when its intent is done. `Values`: a versioned request carries the
  version its form showed, and once an intent is done the row has moved past it, so a
  second request for it is refused. `Showing`: every refetch that is under way when a
  change is answered is replaced, so those that are left have read what the person was
  told. Of the tables the proof uses `TablesFit` alone, which TLC evaluates for all of
  their rows through `PortalAssumption`; a screen that does not fit stops the run.

**Model-checked only.** Liveness, which is out of the prover's reach, and `NoDeadButton`,
which speaks of the concrete tables of `Api` and `Screens`: these are finite, TLC goes
through every combination of them, and a proof would do the same row by row.

## 6. Where code and documentation part

Five runs end in a counterexample. Each checks a sentence of the documentation,
a comment or a test.

- `enrollment_line_jump`. "Waitlist: numbered, first come first served"
  (`README.md:127`). `enroll` compares the active students with the seats and
  does not look at the line (`enrollments.service.ts:297`). A seat freed by a
  result, or added by a bigger room or limit, goes to the next newcomer, ahead
  of everyone waiting. What does hold is `LineKeepsOrder`.
- `outbox_two_crashes`. "A crash loses nothing"
  (`docs/adr/0006-reliable-side-effects.md:16`). The consumer keeps BullMQ's
  default of one stall, so a second worker death during the same job makes it
  failed for good, whatever `attempts` says, and the outbox row has long been
  marked published. What does hold is `LostOnlyByTheQueue`.
- `staff_last_admin`. "The last active admin can't be removed or disabled"
  (`README.md:270`). `setStatus` decides whether it needs the guard from roles
  it read before; a role granted in between goes unseen. What does hold is
  `DemotionsLeaveAnAdmin`, a part of `StaffIsSafe`.
- `paging_walk`. "walks every row exactly once, newest first"
  (`packages/db/src/pagination.int.test.ts:69`, whose rows are stamped on whole
  minutes). The cursor of a list sorted by creation time holds
  `createdAt.toISOString()`, in milliseconds, and the column keeps microseconds,
  the same for all rows of one transaction. The rest of an import that ends a
  page in its middle is on no page (`students.service.ts:149` and the other
  lists by creation time). What does hold is `PagesAreExact`.
- `posts_remove`. People "who can only draft (`posts.manage`) may not touch a post
  that is live or scheduled" (`posts.service.ts:44`). `remove` checks the row it
  read and deletes by id, so a post published in between is deleted. Edits carry
  a version: `PostsAreGuarded` holds.

Observed while modelling, without a run of their own: saving the institution's
wording carries no version (`configuration.controller.ts:191`,
`terminology-screen.tsx:36`), although "Settings changes need `If-Match`"
(`README.md:88`), so one administrator can replace another's wording unseen, and
the first change of a term's singular blanks its plural; and boxes of the start
page lead to `/billing/invoices`, which has no page (`home-screen.tsx:70`,
`docs/guide-front-desk.md:20`; `NoDeadButton` exempts links of that page).
"One Idempotency-Key per logical submission" (`apps/portal/src/lib/idempotency.ts:4`)
is not so on the import screen, which stays after an import and does not reset its key
(`import-screen.tsx:117`): the same file imported again, after a branch or a category it
refers to was put right elsewhere, is sent with the old key, the API replays the first
answer, and the screen says Done for an import that did not run.
`OneEffectPerIntent` allows that answer for a form that keeps its key, and for no other.

Four more are in `Settings` and `Identity`. The set-up overwrites what an
administrator put into the institution's row while the wizard was open
(`setup.service.ts:93`, although "Settings changes need `If-Match`",
`README.md:88`). "TOTP two-factor with replay protection" (`README.md:258`): the code that
switches the factor off may have signed in at the same moment, or do so, and a late confirmation takes a
code that was used and reopens later ones (`mfa.service.ts:122`, `mfa.service.ts:148`);
`SecretsWorkOnce` says that nothing else is accepted twice. "Only the newest link works"
(`password.service.ts:124`): two requests for a link that run at the same moment
do not see each other's, and both stay open; `NewestLinkWorks` says that nothing
else leaves two. And a confirmation of the second factor that finishes while, or
after, the factor is switched off leaves recovery codes that belong to no
factor (`mfa.service.ts:133`, `mfa.service.ts:152`); `OneSetOfCodes` says that nothing else does. They can
be used once a factor is confirmed again only if that confirmation has not seen
them: it deletes those it sees.

One thing the code means to allow is worth knowing: a room may be made smaller
than the classes in it. A class is therefore never above its own limit
(`NeverOverMaxSize`) but may be above its room's seats.

## 7. What is not modelled

- *Creating invoices*: the price on a date and the insert of the invoice.
  `Billing` starts with invoices as `invoices.create` leaves them.
- *Creating a class* and generating its sessions.
- *The order of locks across parts*: see section 2.
- *Security events*: written beside the steps of `Identity`, read by nobody.
- *Read-only*: dashboard, reports, the public catalogue, listings and
  presentation. They change nothing.
- *The website*: its pages read; its form is in `Registration`, its posts in
  `Posts`. Of the portal, layout and wording.
- *Wording, layout, parsing*: mail texts, PDF rendering, CSV syntax, validation
  schemas of the requests.
- *Infrastructure*: configuration, probes, containers, backup scripts.
- *Who may do what* is in the models only where a rule relates people to one
  another (maker-checker, who manages staff, who may publish) and in `Portal`.
  Scopes of grants are left out.
- *Time* is an event that may happen (`Expire`, `Purge`, a poll), or a day or tick
  that passes when it likes.

## 8. Plan

Done, in this order: `MoneyFlow`, `MoneyFlowRun`, `Ledger`, `Billing`,
`BillingProofs`, `Enrollment`, `Delivery`, `Outbox`, `Idempotency`,
`IdempotencyProofs`, `OutboxProofs`, `EnrollmentProofs`, `AuditChain`,
`StaffAccess`, `StaffAccessProofs`, `IdentityProofs`; then `Identity`,
`Registration`, `Numbering`, `Records`, `Settings`, `Documents`, `FeeReminders`,
`Posts`, `Paging`, `Api`, `Screens`, `Portal`, and `Office`, which composes
them; then `OfficeProofs` and `DeskProofs`, and the loops of `MoneyFlow` in `BillingProofs`.

Left to model:

| Module | What it models | What it has to show |
| --- | --- | --- |
| `LockOrder` | the order in which every handler takes row, counter and advisory locks, composed | which handlers can wait for each other in a circle, and that an aborted one can always be repeated |
| `Invoicing` | the price on a date, plans, creating an invoice; composed with `Billing` | one invoice per enrollment and price, whatever is changed meanwhile |
| `Timetable` | creating a class and generating its sessions | no room or teacher is taken twice |
| `Permissions` | grants at scopes | what a person may do is what the grants say, at every scope |

To prove next, once they are written: that `Invoicing` makes one invoice per
enrollment and price, and that the circles `LockOrder` allows are the ones it lists.
