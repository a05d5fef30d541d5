------------------------------- MODULE Outbox -------------------------------
(***************************************************************************)
(* The transactional outbox: a business transaction inserts an event, the  *)
(* relays of the workers move committed events to the BullMQ queue, and    *)
(* the consumers run the event's handlers behind the processed_events      *)
(* inbox.  Postgres is READ COMMITTED; a transaction that dies leaves      *)
(* nothing.  The queue is external and modelled from how the code uses it: *)
(* a job id exists once, a failed job is retried, a job whose worker stops *)
(* renewing its lock is stalled and given to another worker.               *)
(*                                                                         *)
(* wake() and the loop of relayAll (outbox-relay 61-85) only decide when a *)
(* batch starts: here a batch may start whenever the relay is idle.  The   *)
(* fairness of SelectBatch is the five second poll.  No caller of publish  *)
(* passes availableAt, so every committed row is due.                      *)
(***************************************************************************)
EXTENDS Integers, FiniteSets

CONSTANTS Event,            \* event ids, numbers: relays take the lowest first
          HandlerCount,     \* handlers of the event type, run in order
          Relay, Consumer,  \* the relay loops and the consumer slots
          BatchSize,        \* rows a batch takes at most (100 in the code)
          Attempts,         \* failures before a job is given up (8 in the code)
          MaxStalled,       \* stalls a job survives (BullMQ's default of 1)
          MaxFaults,        \* bound: errors, deaths and lost locks in a behaviour
          MaxLosses,        \* bound: times the queue loses its data
          None

ASSUME OutboxAssumption ==
    /\ Event \subseteq Nat
    /\ HandlerCount \in Nat \ {0}
    /\ BatchSize \in Nat \ {0} /\ Attempts \in Nat \ {0} /\ MaxStalled \in Nat
    /\ MaxFaults \in Nat /\ MaxLosses \in Nat
    /\ None \notin Event \cup Consumer

Handler == 1..HandlerCount

VARIABLES
    change,     \* the business transaction that publishes the event
    outbox,     \* its row: "absent", "pending", "published" or "purged"
    relay,      \* per relay: where its transaction is and the rows it has locked
    job,        \* the event's job in the queue
    run,        \* per consumer: the event, the handler and the step it is at
    processed,  \* the committed rows of processed_events
    effect,     \* ghost: times a handler's own database writes committed
    sent,       \* ghost: times a handler made its external call
    cut,        \* ghost: calls whose transaction then did not commit
    gaveUp,     \* ghost: events the queue stopped retrying
    faults, losses

worker == <<run, processed, effect, sent, cut>>
ghost == <<gaveUp, faults, losses>>
vars == <<change, outbox, relay, job, worker, ghost>>

NoJob == [state |-> "none", tries |-> 0, stalls |-> 0, holder |-> None]
NoRun == [event |-> None, nth |-> 0, at |-> "idle"]
NoBatch == [at |-> "idle", rows |-> {}]

Init == /\ change = [e \in Event |-> "idle"]
        /\ outbox = [e \in Event |-> "absent"]
        /\ relay = [r \in Relay |-> NoBatch]
        /\ job = [e \in Event |-> NoJob]
        /\ run = [c \in Consumer |-> NoRun]
        /\ processed = {}
        /\ effect = [p \in Handler \X Event |-> 0]
        /\ sent = effect /\ cut = effect
        /\ gaveUp = {} /\ faults = 0 /\ losses = 0

Fault == faults < MaxFaults /\ faults' = faults + 1
-----------------------------------------------------------------------------
(* The request that changes something and publishes an event about it.     *)

Publish(e) == /\ change[e] = "idle"
              /\ change' = [change EXCEPT ![e] = "open"]
              /\ UNCHANGED <<outbox, relay, job, worker, ghost>>

CommitChange(e) == /\ change[e] = "open"
                   /\ change' = [change EXCEPT ![e] = "committed"]
                   /\ outbox' = [outbox EXCEPT ![e] = "pending"]
                   /\ UNCHANGED <<relay, job, worker, ghost>>

\* MUTANT: the row is inserted outside the caller's transaction
RollBackKeepsRow(e) == /\ change[e] = "open"
                       /\ change' = [change EXCEPT ![e] = "rolled back"]
                       /\ outbox' = [outbox EXCEPT ![e] = "pending"]
                       /\ UNCHANGED <<relay, job, worker, ghost>>
RollBack(e) == /\ change[e] = "open"
               /\ change' = [change EXCEPT ![e] = "rolled back"]
               /\ UNCHANGED <<outbox, relay, job, worker, ghost>>
-----------------------------------------------------------------------------
(* The relay, one transaction per batch.                                   *)

LockedRows == UNION {relay[r].rows : r \in Relay}

\* The due rows nobody has locked, lowest ids first, at most BatchSize.
Claimable == LET free == {e \in Event : outbox[e] = "pending"} \ LockedRows
             IN  {e \in free : Cardinality({f \in free : f < e}) < BatchSize}

SelectBatch(r) == /\ relay[r].at = "idle"
                  /\ Claimable # {}
                  /\ relay' = [relay EXCEPT ![r] = [at |-> "selected", rows |-> Claimable]]
                  /\ UNCHANGED <<change, outbox, job, worker, ghost>>

\* A job id already in the queue, in whatever state, is left as it is.
AddBulk(r) ==
    /\ relay[r].at = "selected"
    /\ job' = [e \in Event |->
                 IF e \in relay[r].rows /\ job[e] = NoJob
                 THEN [NoJob EXCEPT !.state = "waiting"] ELSE job[e]]
    /\ relay' = [relay EXCEPT ![r].at = "queued"]
    /\ UNCHANGED <<change, outbox, worker, ghost>>

\* MUTANT: the rows are marked before they are in the queue
MarkPublishedFirst(r) ==
    /\ relay[r].at = "selected"
    /\ outbox' = [e \in Event |-> IF e \in relay[r].rows THEN "published" ELSE outbox[e]]
    /\ UNCHANGED <<change, relay, job, worker, ghost>>
MarkPublished(r) ==
    /\ relay[r].at = "queued"
    /\ outbox' = [e \in Event |-> IF e \in relay[r].rows THEN "published" ELSE outbox[e]]
    /\ relay' = [relay EXCEPT ![r] = NoBatch]
    /\ UNCHANGED <<change, job, worker, ghost>>

\* MUTANT: the failed transaction's connection keeps its locks
RelayKeepsLocks(r) == /\ relay[r].at # "idle" /\ Fault
                      /\ relay' = [relay EXCEPT ![r].at = "idle"]
                      /\ UNCHANGED <<change, outbox, job, worker, gaveUp, losses>>
\* The worker dies, Valkey refuses the batch or the commit fails: the rows are
\* unlocked and still pending, whether or not their jobs are in the queue.
RelayFails(r) == /\ relay[r].at # "idle" /\ Fault
                 /\ relay' = [relay EXCEPT ![r] = NoBatch]
                 /\ UNCHANGED <<change, outbox, job, worker, gaveUp, losses>>
-----------------------------------------------------------------------------
(* A consumer: one attempt at a job runs the handlers in order, each in a  *)
(* transaction of its own: insert the inbox row, handle, commit.           *)

Take(c, e) ==
    /\ run[c] = NoRun
    /\ job[e].state = "waiting"
    /\ job' = [job EXCEPT ![e].state = "active", ![e].holder = c]
    /\ run' = [run EXCEPT ![c] = [event |-> e, nth |-> 1, at |-> "claim"]]
    /\ UNCHANGED <<change, outbox, relay, processed, effect, sent, cut, ghost>>

NextHandler(c) == run' = [run EXCEPT ![c].nth = @ + 1, ![c].at = "claim"]

\* Another transaction has inserted the same inbox row and not committed yet.
ClaimedElsewhere(c) == \E d \in Consumer \ {c} :
    /\ run[d].event = run[c].event /\ run[d].nth = run[c].nth
    /\ run[d].at \in {"handle", "commit"}

\* MUTANT: a claim another transaction still holds counts as done
ClaimWithoutWaiting(c) ==
    /\ run[c].at = "claim" /\ run[c].nth \in Handler
    /\ IF <<run[c].nth, run[c].event>> \in processed \/ ClaimedElsewhere(c)
       THEN NextHandler(c)
       ELSE run' = [run EXCEPT ![c].at = "handle"]
    /\ UNCHANGED <<change, outbox, relay, job, processed, effect, sent, cut, ghost>>
\* MUTANT: the inbox is not consulted
ClaimBlindly(c) ==
    /\ run[c].at = "claim" /\ run[c].nth \in Handler
    /\ run' = [run EXCEPT ![c].at = "handle"]
    /\ UNCHANGED <<change, outbox, relay, job, processed, effect, sent, cut, ghost>>
\* INSERT ... ON CONFLICT DO NOTHING waits for the other transaction.
Claim(c) ==
    /\ run[c].at = "claim" /\ run[c].nth \in Handler
    /\ ~ClaimedElsewhere(c)
    /\ IF <<run[c].nth, run[c].event>> \in processed
       THEN NextHandler(c)
       ELSE run' = [run EXCEPT ![c].at = "handle"]
    /\ UNCHANGED <<change, outbox, relay, job, processed, effect, sent, cut, ghost>>

Handle(c) ==
    /\ run[c].at = "handle"
    /\ sent' = [sent EXCEPT ![<<run[c].nth, run[c].event>>] = @ + 1]
    /\ run' = [run EXCEPT ![c].at = "commit"]
    /\ UNCHANGED <<change, outbox, relay, job, processed, effect, cut, ghost>>

CommitHandler(c) ==
    /\ run[c].at = "commit"
    /\ processed' = processed \cup {<<run[c].nth, run[c].event>>}
    /\ effect' = [effect EXCEPT ![<<run[c].nth, run[c].event>>] = @ + 1]
    /\ NextHandler(c)
    /\ UNCHANGED <<change, outbox, relay, job, sent, cut, ghost>>

\* The attempt is over without its current handler having committed.
AbandonRun(c) ==
    /\ run' = [run EXCEPT ![c] = NoRun]
    /\ cut' = IF run[c].at = "commit"
              THEN [cut EXCEPT ![<<run[c].nth, run[c].event>>] = @ + 1] ELSE cut
    /\ UNCHANGED <<processed, effect, sent>>

\* A job is settled by the worker that holds its lock, or not at all.
Holds(c) == job[run[c].event].state = "active" /\ job[run[c].event].holder = c

\* Every handler was run or skipped: the job is completed.
Finish(c) ==
    LET e == run[c].event IN
    /\ run[c].nth = HandlerCount + 1
    /\ job' = IF Holds(c) THEN [job EXCEPT ![e].state = "completed", ![e].holder = None]
              ELSE job
    /\ run' = [run EXCEPT ![c] = NoRun]
    /\ UNCHANGED <<change, outbox, relay, processed, effect, sent, cut, ghost>>

GiveUp(e) == /\ job' = [job EXCEPT ![e].state = "failed", ![e].holder = None]
             /\ gaveUp' = gaveUp \cup {e}

\* The claim, the handler or the commit throws; the mail server may have
\* accepted the message before it did.  Backoff is a delay, so no step.
Throw(c) ==
    LET e == run[c].event IN
    /\ run[c].nth \in Handler /\ Fault
    /\ AbandonRun(c)
    /\ CASE ~Holds(c) -> UNCHANGED <<job, gaveUp>>
         [] Holds(c) /\ job[e].tries + 1 >= Attempts -> GiveUp(e)
         [] OTHER -> /\ job' = [job EXCEPT ![e].state = "waiting", ![e].holder = None,
                                           ![e].tries = @ + 1]
                     /\ UNCHANGED gaveUp
    /\ UNCHANGED <<change, outbox, relay, losses>>

Die(c) == /\ run[c] # NoRun /\ Fault
          /\ AbandonRun(c)
          /\ UNCHANGED <<change, outbox, relay, job, gaveUp, losses>>
-----------------------------------------------------------------------------
(* The queue: stalled jobs, retention, loss.                               *)

Requeue(e) ==
    IF job[e].stalls >= MaxStalled THEN GiveUp(e)
    ELSE /\ job' = [job EXCEPT ![e].state = "waiting", ![e].holder = None,
                               ![e].stalls = @ + 1]
         /\ UNCHANGED gaveUp

StillRuns(e) == run[job[e].holder].event = e

\* The stalled-job check finds a job whose worker died.
Recover(e) == /\ job[e].state = "active" /\ ~StillRuns(e)
              /\ Requeue(e)
              /\ UNCHANGED <<change, outbox, relay, worker, faults, losses>>

\* The same check takes the job from a worker that is slow, not dead.
LoseLock(e) == /\ job[e].state = "active" /\ StillRuns(e) /\ Fault
               /\ Requeue(e)
               /\ UNCHANGED <<change, outbox, relay, worker, losses>>

\* removeOnComplete (24 h or 10 000 jobs) and removeOnFail (7 days)
ForgetJob(e) == /\ job[e].state \in {"completed", "failed"}
                /\ job' = [job EXCEPT ![e] = NoJob]
                /\ UNCHANGED <<change, outbox, relay, worker, ghost>>

LoseQueue == /\ losses < MaxLosses /\ losses' = losses + 1
             /\ job' = [e \in Event |-> NoJob]
             /\ UNCHANGED <<change, outbox, relay, worker, gaveUp, faults>>
-----------------------------------------------------------------------------
(* purge-delivered-events: rows published more than 7 days ago, then inbox *)
(* rows older than 30 days.  No job is forgotten and no attempt lasts as   *)
(* long as that (retries span minutes, a finished job a week at most), so  *)
(* the inbox rows go when the outbox row and the job are gone.             *)

PurgeDelivered(e) ==
    /\ \/ /\ outbox[e] = "published"
          /\ outbox' = [outbox EXCEPT ![e] = "purged"]
          /\ UNCHANGED processed
       \/ /\ outbox[e] = "purged" /\ job[e] = NoJob
          /\ \A c \in Consumer : run[c].event # e
          /\ \E h \in Handler : <<h, e>> \in processed
          /\ processed' = {p \in processed : p[2] # e}
          /\ UNCHANGED outbox
    /\ UNCHANGED <<change, relay, job, run, effect, sent, cut, ghost>>
-----------------------------------------------------------------------------
RelayNext(r) == SelectBatch(r) \/ AddBulk(r) \/ MarkPublished(r)
ConsumerNext(c) == Claim(c) \/ Handle(c) \/ CommitHandler(c) \/ Finish(c)

Next == \/ \E e \in Event : Publish(e) \/ CommitChange(e) \/ RollBack(e)
        \/ \E r \in Relay : RelayNext(r) \/ RelayFails(r)
        \/ \E c \in Consumer : \/ \E e \in Event : Take(c, e)
                               \/ ConsumerNext(c) \/ Throw(c) \/ Die(c)
        \/ \E e \in Event : Recover(e) \/ LoseLock(e) \/ ForgetJob(e) \/ PurgeDelivered(e)
        \/ LoseQueue

Spec == Init /\ [][Next]_vars

\* The relay's poll, the queue handing out jobs, a handler returning and the
\* stalled-job check.  Commits and faults need not happen.
Fairness == /\ \A r \in Relay : WF_vars(RelayNext(r))
            /\ \A c \in Consumer : /\ WF_vars(\E e \in Event : Take(c, e))
                                   /\ WF_vars(ConsumerNext(c))
            /\ \A e \in Event : WF_vars(Recover(e))

FairSpec == Spec /\ Fairness
=============================================================================
