---------------------------- MODULE OutboxProofs ----------------------------
(***************************************************************************)
(* Proofs about Outbox for any number of events, handlers, relays and      *)
(* consumers, and any number of faults.                                    *)
(*                                                                         *)
(* A step of the outbox is, for a consumer, one of six moves (Began ...    *)
(* Left), and for a job one of six fates (JobMoves).  The invariants are   *)
(* proved from these.                                                      *)
(***************************************************************************)
EXTENDS OutboxProperties, TLAPS

Claiming(c, h, e) ==
    run[c].event = e /\ run[c].nth = h /\ run[c].at \in {"handle", "commit"}
Calling(c, h, e) == run[c].event = e /\ run[c].nth = h /\ run[c].at = "commit"

(* Only committed changes are relayed, queued or handled, and none lacks a row. *)
Sourced == \A e \in Event :
    /\ outbox[e] # "absent" => change[e] = "committed"
    /\ job[e] # NoJob => change[e] = "committed"
    /\ \A c \in Consumer : run[c].event = e => change[e] = "committed"
    /\ change[e] = "committed" => outbox[e] # "absent"

(* SKIP LOCKED: a pending row is in one batch at most. *)
RowsLocked ==
    /\ \A r \in Relay : \A e \in relay[r].rows : outbox[e] = "pending"
    /\ \A r, s \in Relay : r # s => relay[r].rows \cap relay[s].rows = {}

(* What an attempt at a job looks like. *)
Attempting(c) ==
    /\ run[c].event \in Event /\ run[c].nth \in 1..(HandlerCount + 1)
    /\ run[c].at \in {"claim", "handle", "commit"}
    /\ run[c].at # "claim" => run[c].nth \in Handler
Runs == \A c \in Consumer : run[c] = NoRun \/ Attempting(c)

(* The inbox row of a handler and an event is one transaction's at a time. *)
Exclusive == \A c, d \in Consumer, h \in Handler, e \in Event :
    Claiming(c, h, e) /\ Claiming(d, h, e) => c = d

(* An event that can never be handled again. *)
Gone(e) == /\ outbox[e] = "purged" /\ job[e] = NoJob
           /\ \A c \in Consumer : run[c].event # e

(* The inbox remembers every effect for as long as it could be repeated. *)
Inbox == \A h \in Handler, e \in Event :
    /\ effect[<<h, e>>] \in {0, 1}
    /\ <<h, e>> \in processed => effect[<<h, e>>] = 1
    /\ effect[<<h, e>>] = 1 => <<h, e>> \in processed \/ Gone(e)
    /\ \A c \in Consumer : Claiming(c, h, e) => <<h, e>> \notin processed

(* Handlers run in order. *)
Behind == \A c \in Consumer, h \in Handler :
    run[c].event \in Event /\ h < run[c].nth => effect[<<h, run[c].event>>] = 1

(* Every call ended in an effect, was cut, or is under way. *)
UnderWay(h, e) == IF \E c \in Consumer : Calling(c, h, e) THEN 1 ELSE 0
Calls == \A h \in Handler, e \in Event :
    sent[<<h, e>>] = cut[<<h, e>>] + effect[<<h, e>>] + UnderWay(h, e)

Queue == \A e \in Event :
    /\ job[e].state = "none" => job[e] = NoJob
    /\ job[e].state = "completed" => Handled(e)
    /\ job[e].state = "failed" => e \in gaveUp

(* What has left the outbox, or is about to, is with the queue or done with. *)
InHand(e) == \/ job[e].state \in {"waiting", "active"}
             \/ Handled(e) \/ e \in gaveUp \/ losses > 0
Kept == \A e \in Event :
    /\ outbox[e] \in {"published", "purged"} => InHand(e)
    /\ \A r \in Relay : relay[r].at = "queued" /\ e \in relay[r].rows => InHand(e)

-----------------------------------------------------------------------------
(* The tables after one of their rows is replaced. *)
LEMMA RunRow ==
    ASSUME TypeOK, NEW c \in Consumer, NEW row \in Run, run' = [run EXCEPT ![c] = row]
    PROVE  /\ run' \in [Consumer -> Run]
           /\ run'[c] = row
           /\ \A d \in Consumer \ {c} : run'[d] = run[d]
BY DEF TypeOK

LEMMA JobRow ==
    ASSUME TypeOK, NEW e \in Event, NEW row \in Job, job' = [job EXCEPT ![e] = row]
    PROVE  /\ job' \in [Event -> Job]
           /\ job'[e] = row
           /\ \A f \in Event \ {e} : job'[f] = job[f]
BY DEF TypeOK

LEMMA TallyUp ==
    ASSUME NEW f \in Tally, NEW h \in Handler, NEW e \in Event,
           NEW g, g = [f EXCEPT ![<<h, e>>] = @ + 1]
    PROVE  /\ g \in Tally
           /\ g[<<h, e>>] = f[<<h, e>>] + 1
           /\ \A k \in Handler, d \in Event : <<k, d>> # <<h, e>> => g[<<k, d>>] = f[<<k, d>>]
BY DEF Tally

LEMMA EmptyRows ==
    /\ NoRun \in Run /\ NoJob \in Job
    /\ NoRun.event = None /\ NoRun.nth = 0 /\ NoRun.at = "idle"
    /\ NoJob.state = "none"
BY OutboxAssumption DEF NoRun, Run, NoJob, Job

-----------------------------------------------------------------------------
(* The moves of a consumer. *)
Inboxes == <<processed, effect, sent, cut>>
Began(c) == \E e \in Event :
    /\ run[c] = NoRun /\ job[e].state = "waiting"
    /\ run'[c] = [event |-> e, nth |-> 1, at |-> "claim"]
    /\ UNCHANGED Inboxes
Skipped(c) ==
    /\ Attempting(c) /\ run[c].nth \in Handler /\ run[c].at = "claim"
    /\ <<run[c].nth, run[c].event>> \in processed
    /\ run'[c] = [event |-> run[c].event, nth |-> run[c].nth + 1, at |-> "claim"]
    /\ UNCHANGED Inboxes
Claimed(c) ==
    /\ Attempting(c) /\ run[c].nth \in Handler /\ run[c].at = "claim"
    /\ <<run[c].nth, run[c].event>> \notin processed
    /\ ~ClaimedElsewhere(c)
    /\ run'[c] = [event |-> run[c].event, nth |-> run[c].nth, at |-> "handle"]
    /\ UNCHANGED Inboxes
Called(c) ==
    /\ Attempting(c) /\ run[c].at = "handle"
    /\ run'[c] = [event |-> run[c].event, nth |-> run[c].nth, at |-> "commit"]
    /\ sent' = [sent EXCEPT ![<<run[c].nth, run[c].event>>] = @ + 1]
    /\ UNCHANGED <<processed, effect, cut>>
Acted(c) ==
    /\ Attempting(c) /\ run[c].at = "commit"
    /\ run'[c] = [event |-> run[c].event, nth |-> run[c].nth + 1, at |-> "claim"]
    /\ processed' = processed \cup {<<run[c].nth, run[c].event>>}
    /\ effect' = [effect EXCEPT ![<<run[c].nth, run[c].event>>] = @ + 1]
    /\ UNCHANGED <<sent, cut>>
Left(c) ==
    /\ Attempting(c)
    /\ run'[c] = NoRun
    /\ cut' = IF run[c].at = "commit"
              THEN [cut EXCEPT ![<<run[c].nth, run[c].event>>] = @ + 1] ELSE cut
    /\ UNCHANGED <<processed, effect, sent>>
Moves(c) == /\ run' \in [Consumer -> Run]
            /\ \A d \in Consumer \ {c} : run'[d] = run[d]
            /\ \/ Began(c) \/ Skipped(c) \/ Claimed(c) \/ Called(c) \/ Acted(c) \/ Left(c)

LEMMA TakeMoves ==
    ASSUME TypeOK, NEW c \in Consumer, NEW e \in Event, Take(c, e)
    PROVE  Moves(c)
<1> DEFINE row == [event |-> e, nth |-> 1, at |-> "claim"]
<1>1. row \in Run
    BY OutboxAssumption DEF Run
<1>2. run' = [run EXCEPT ![c] = row]
    BY DEF Take
<1>3. /\ run' \in [Consumer -> Run] /\ run'[c] = row
      /\ \A d \in Consumer \ {c} : run'[d] = run[d]
    BY <1>1, <1>2, RunRow
<1> QED
    BY <1>3 DEF Take, Moves, Began, Inboxes

(* The row a consumer is left with by its own steps. *)
LEMMA NextRow ==
    ASSUME TypeOK, NEW c \in Consumer, Attempting(c), run[c].nth \in Handler,
           NEW n \in {run[c].nth, run[c].nth + 1}, NEW at \in {"claim", "handle", "commit"},
           run' = [run EXCEPT ![c].nth = n, ![c].at = at]
    PROVE  /\ run' \in [Consumer -> Run]
           /\ run'[c] = [event |-> run[c].event, nth |-> n, at |-> at]
           /\ \A d \in Consumer \ {c} : run'[d] = run[d]
<1> DEFINE row == [event |-> run[c].event, nth |-> n, at |-> at]
<1>1. run[c] \in Run
    BY DEF TypeOK
<1>2. n \in 0..(HandlerCount + 1)
    BY OutboxAssumption DEF Handler
<1>3. row \in Run
    BY <1>1, <1>2 DEF Run
<1>4. run \in [Consumer -> Run]
    BY DEF TypeOK
<1>5. run'[c] = row
    BY <1>4 DEF Run
<1>6. \A d \in Consumer \ {c} : run'[d] = run[d]
    BY <1>4
<1>7. run' \in [Consumer -> Run]
    BY <1>3, <1>4, <1>5, <1>6
<1> QED
    BY <1>5, <1>6, <1>7

LEMMA ClaimMoves ==
    ASSUME TypeOK, Runs, NEW c \in Consumer, Claim(c)
    PROVE  Moves(c)
<1>1. Attempting(c)
    BY EmptyRows DEF Claim, Runs
<1>2. CASE <<run[c].nth, run[c].event>> \in processed
    <2>1. run' = [run EXCEPT ![c].nth = run[c].nth + 1, ![c].at = "claim"]
        BY <1>2 DEF Claim, NextHandler
    <2>2. /\ run' \in [Consumer -> Run]
          /\ run'[c] = [event |-> run[c].event, nth |-> run[c].nth + 1, at |-> "claim"]
          /\ \A d \in Consumer \ {c} : run'[d] = run[d]
        BY <1>1, <2>1, NextRow DEF Claim
    <2> QED
        BY <1>1, <1>2, <2>2 DEF Claim, Moves, Skipped, Inboxes
<1>3. CASE <<run[c].nth, run[c].event>> \notin processed
    <2>1. run' = [run EXCEPT ![c].nth = run[c].nth, ![c].at = "handle"]
        BY <1>3 DEF Claim, TypeOK, Run
    <2>2. /\ run' \in [Consumer -> Run]
          /\ run'[c] = [event |-> run[c].event, nth |-> run[c].nth, at |-> "handle"]
          /\ \A d \in Consumer \ {c} : run'[d] = run[d]
        BY <1>1, <2>1, NextRow DEF Claim
    <2> QED
        BY <1>1, <1>3, <2>2 DEF Claim, Moves, Claimed, Inboxes
<1> QED
    BY <1>2, <1>3

LEMMA HandleMoves ==
    ASSUME TypeOK, Runs, NEW c \in Consumer, Handle(c)
    PROVE  Moves(c)
<1>1. Attempting(c) /\ run[c].nth \in Handler
    BY EmptyRows DEF Handle, Runs, Attempting
<1>2. run' = [run EXCEPT ![c].nth = run[c].nth, ![c].at = "commit"]
    BY DEF Handle, TypeOK, Run
<1>3. /\ run' \in [Consumer -> Run]
      /\ run'[c] = [event |-> run[c].event, nth |-> run[c].nth, at |-> "commit"]
      /\ \A d \in Consumer \ {c} : run'[d] = run[d]
    BY <1>1, <1>2, NextRow
<1> QED
    BY <1>1, <1>3 DEF Handle, Moves, Called

LEMMA CommitMoves ==
    ASSUME TypeOK, Runs, NEW c \in Consumer, CommitHandler(c)
    PROVE  Moves(c)
<1>1. Attempting(c) /\ run[c].nth \in Handler
    BY EmptyRows DEF CommitHandler, Runs, Attempting
<1>2. run' = [run EXCEPT ![c].nth = run[c].nth + 1, ![c].at = "claim"]
    BY DEF CommitHandler, NextHandler
<1>3. /\ run' \in [Consumer -> Run]
      /\ run'[c] = [event |-> run[c].event, nth |-> run[c].nth + 1, at |-> "claim"]
      /\ \A d \in Consumer \ {c} : run'[d] = run[d]
    BY <1>1, <1>2, NextRow
<1> QED
    BY <1>1, <1>3 DEF CommitHandler, Moves, Acted

LEMMA LeaveMoves ==
    ASSUME TypeOK, NEW c \in Consumer, Attempting(c), AbandonRun(c)
    PROVE  Moves(c)
<1>1. run' = [run EXCEPT ![c] = NoRun]
    BY DEF AbandonRun
<1>2. /\ run' \in [Consumer -> Run] /\ run'[c] = NoRun
      /\ \A d \in Consumer \ {c} : run'[d] = run[d]
    BY <1>1, EmptyRows, RunRow
<1> QED
    BY <1>2 DEF AbandonRun, Moves, Left

LEMMA FinishMoves ==
    ASSUME TypeOK, Runs, NEW c \in Consumer, Finish(c)
    PROVE  Moves(c) /\ Attempting(c)
<1>1. run[c].nth \notin Handler /\ run[c].nth # 0
    BY OutboxAssumption DEF Finish, Handler
<1>2. Attempting(c) /\ run[c].at = "claim"
    BY <1>1, EmptyRows DEF Runs, Attempting
<1>3. AbandonRun(c)
    BY <1>2 DEF Finish, AbandonRun
<1> QED
    BY <1>2, <1>3, LeaveMoves

(* A step moves at most one consumer; nothing else writes the inbox but    *)
(* the purge, which only removes rows of an event that is gone.            *)
LEMMA ConsumerMoves ==
    ASSUME TypeOK, Runs, [Next]_vars
    PROVE  \/ UNCHANGED <<run, processed, effect, sent, cut>>
           \/ \E e \in Event : PurgeDelivered(e) /\ UNCHANGED <<run, effect, sent, cut>>
           \/ \E c \in Consumer : Moves(c)
<1>1. CASE UNCHANGED vars
    BY <1>1 DEF vars, worker
<1>2. ASSUME NEW e \in Event, Publish(e) \/ CommitChange(e) \/ RollBack(e)
      PROVE  UNCHANGED <<run, processed, effect, sent, cut>>
    BY <1>2 DEF Publish, CommitChange, RollBack, worker
<1>3. ASSUME NEW r \in Relay, RelayNext(r) \/ RelayFails(r)
      PROVE  UNCHANGED <<run, processed, effect, sent, cut>>
    BY <1>3 DEF RelayNext, SelectBatch, AddBulk, MarkPublished, RelayFails, worker
<1>4. ASSUME NEW c \in Consumer, ConsumerNext(c) \/ Throw(c) \/ Die(c)
      PROVE  Moves(c)
    <2>1. CASE Throw(c) \/ Die(c)
        <3>1. Attempting(c) /\ AbandonRun(c)
            BY <2>1, EmptyRows, OutboxAssumption DEF Throw, Die, Runs, Handler
        <3> QED
            BY <3>1, LeaveMoves
    <2> QED
        BY <1>4, <2>1, ClaimMoves, HandleMoves, CommitMoves, FinishMoves DEF ConsumerNext
<1>5. ASSUME NEW e \in Event, Recover(e) \/ LoseLock(e) \/ ForgetJob(e)
      PROVE  UNCHANGED <<run, processed, effect, sent, cut>>
    BY <1>5 DEF Recover, LoseLock, ForgetJob, worker
<1>6. ASSUME NEW e \in Event, PurgeDelivered(e)
      PROVE  UNCHANGED <<run, effect, sent, cut>>
    BY <1>6 DEF PurgeDelivered
<1>7. CASE LoseQueue
    BY <1>7 DEF LoseQueue, worker
<1> QED
    BY <1>1, <1>2, <1>3, <1>4, <1>5, <1>6, <1>7, TakeMoves DEF Next

-----------------------------------------------------------------------------
(* The fates of a job.  An event that is gone gets no new job, because its *)
(* row is in no batch.                                                     *)
OneJob(e) == job' \in [Event -> Job] /\ \A f \in Event \ {e} : job'[f] = job[f]
Live == {"waiting", "active"}
Fate(e) ==
    \/ job'[e] = job[e]
    \/ job'[e] = NoJob /\ (job[e].state \in {"completed", "failed"} \/ losses' > 0)
    \/ /\ job[e] = NoJob /\ job'[e].state = "waiting"
       /\ \E r \in Relay : relay[r].at = "selected" /\ e \in relay[r].rows
    \/ job[e].state \in Live /\ job'[e].state \in Live
    \/ /\ job[e].state = "active" /\ job'[e].state = "completed"
       /\ \E c \in Consumer : run[c].event = e /\ run[c].nth = HandlerCount + 1
    \/ job[e].state = "active" /\ job'[e].state = "failed" /\ e \in gaveUp'

LEMMA GaveUp ==
    ASSUME TypeOK, NEW e \in Event, GiveUp(e)
    PROVE  /\ OneJob(e) /\ job'[e].state = "failed"
           /\ gaveUp \subseteq gaveUp' /\ gaveUp' \subseteq Event /\ e \in gaveUp'
<1> DEFINE row == [state |-> "failed", tries |-> job[e].tries, stalls |-> job[e].stalls,
                   holder |-> None]
<1>1. job'[e] = row /\ \A f \in Event \ {e} : job'[f] = job[f]
    BY DEF GiveUp, TypeOK, Job
<1>2. job[e] \in Job
    BY DEF TypeOK
<1>3. row \in Job
    BY <1>2 DEF Job
<1>4. job' \in [Event -> Job]
    BY <1>1, <1>3 DEF GiveUp, TypeOK
<1>5. gaveUp \subseteq Event /\ gaveUp' = gaveUp \cup {e}
    BY DEF GiveUp, TypeOK
<1> QED
    BY <1>1, <1>4, <1>5 DEF OneJob

LEMMA Requeued ==
    ASSUME TypeOK, NEW e \in Event, job[e].state = "active", Requeue(e)
    PROVE  /\ OneJob(e) /\ Fate(e)
           /\ gaveUp \subseteq gaveUp' /\ gaveUp' \subseteq Event
<1>1. CASE job[e].stalls >= MaxStalled
    BY <1>1, GaveUp DEF Requeue, Fate
<1>2. CASE ~(job[e].stalls >= MaxStalled)
    <2> DEFINE row == [state |-> "waiting", tries |-> job[e].tries,
                       stalls |-> job[e].stalls + 1, holder |-> None]
    <2>0. /\ job \in [Event -> Job] /\ gaveUp \subseteq Event /\ UNCHANGED gaveUp
          /\ job' = [job EXCEPT ![e].state = "waiting", ![e].holder = None,
                                ![e].stalls = @ + 1]
        BY <1>2 DEF Requeue, TypeOK
    <2>1. job'[e] = row /\ \A f \in Event \ {e} : job'[f] = job[f]
        BY <2>0 DEF Job
    <2>2. job[e] \in Job
        BY <2>0
    <2>3. row \in Job
        BY <1>2, <2>2, OutboxAssumption DEF Job
    <2>4. job' \in [Event -> Job]
        BY <2>0, <2>1, <2>3
    <2> QED
        BY <2>0, <2>1, <2>4 DEF OneJob, Fate, Live
<1> QED
    BY <1>1, <1>2

LEMMA ThrowJob ==
    ASSUME TypeOK, NEW c \in Consumer, run[c].event \in Event, Throw(c)
    PROVE  /\ OneJob(run[c].event) /\ Fate(run[c].event)
           /\ gaveUp \subseteq gaveUp' /\ gaveUp' \subseteq Event
<1>0. PICK e \in Event : e = run[c].event
    OBVIOUS
<1>1. CASE ~Holds(c)
    BY <1>0, <1>1 DEF Throw, OneJob, Fate, TypeOK
<1>2. CASE Holds(c) /\ job[e].tries + 1 >= Attempts
    BY <1>0, <1>2, GaveUp DEF Throw, Holds, Fate
<1>3. CASE Holds(c) /\ ~(job[e].tries + 1 >= Attempts)
    <2> DEFINE row == [state |-> "waiting", tries |-> job[e].tries + 1,
                       stalls |-> job[e].stalls, holder |-> None]
    <2>1. /\ job \in [Event -> Job] /\ gaveUp \subseteq Event /\ UNCHANGED gaveUp
          /\ job' = [job EXCEPT ![e].state = "waiting", ![e].holder = None,
                                ![e].tries = @ + 1]
        BY <1>0, <1>3 DEF Throw, TypeOK
    <2>2. job'[e] = row /\ \A f \in Event \ {e} : job'[f] = job[f]
        BY <2>1 DEF Job
    <2>3. job[e] \in Job
        BY <2>1
    <2>4. row \in Job
        BY <1>3, <2>3, OutboxAssumption DEF Job
    <2>5. job' \in [Event -> Job]
        BY <2>1, <2>2, <2>4
    <2>6. job[e].state = "active"
        BY <1>0, <1>3 DEF Holds
    <2>7. OneJob(e) /\ Fate(e)
        BY <2>2, <2>5, <2>6 DEF OneJob, Fate, Live
    <2> QED
        BY <1>0, <2>1, <2>7
<1> QED
    BY <1>1, <1>2, <1>3

LEMMA TakeJob ==
    ASSUME TypeOK, NEW c \in Consumer, NEW e \in Event, Take(c, e)
    PROVE  OneJob(e) /\ Fate(e)
<1> DEFINE row == [state |-> "active", tries |-> job[e].tries,
                   stalls |-> job[e].stalls, holder |-> c]
<1>1. job'[e] = row /\ \A f \in Event \ {e} : job'[f] = job[f]
    BY DEF Take, TypeOK, Job
<1>2. job[e] \in Job
    BY DEF TypeOK
<1>3. row \in Job
    BY <1>2 DEF Job
<1>4. job' \in [Event -> Job]
    BY <1>1, <1>3 DEF Take, TypeOK
<1> QED
    BY <1>1, <1>4 DEF OneJob, Fate, Live, Take

LEMMA FinishJob ==
    ASSUME TypeOK, NEW c \in Consumer, run[c].event \in Event, Finish(c)
    PROVE  OneJob(run[c].event) /\ Fate(run[c].event)
<1>0. PICK e \in Event : e = run[c].event
    OBVIOUS
<1>1. CASE ~Holds(c)
    BY <1>0, <1>1 DEF Finish, OneJob, Fate, TypeOK
<1>2. CASE Holds(c)
    <2> DEFINE row == [state |-> "completed", tries |-> job[e].tries,
                       stalls |-> job[e].stalls, holder |-> None]
    <2>1. job' = [job EXCEPT ![e].state = "completed", ![e].holder = None]
        BY <1>0, <1>2 DEF Finish
    <2>2. job'[e] = row /\ \A f \in Event \ {e} : job'[f] = job[f]
        BY <2>1 DEF TypeOK, Job
    <2>3. job[e] \in Job
        BY DEF TypeOK
    <2>4. row \in Job
        BY <2>3 DEF Job
    <2>5. job' \in [Event -> Job]
        BY <2>1, <2>2, <2>4 DEF TypeOK
    <2>6. job[e].state = "active" /\ run[c].event = e /\ run[c].nth = HandlerCount + 1
        BY <1>0, <1>2 DEF Holds, Finish
    <2>7. OneJob(e) /\ Fate(e)
        BY <2>2, <2>5, <2>6 DEF OneJob, Fate
    <2> QED
        BY <1>0, <2>7
<1> QED
    BY <1>1, <1>2

LEMMA JobMoves ==
    ASSUME TypeOK, Runs, [Next]_vars
    PROVE  /\ job' \in [Event -> Job]
           /\ gaveUp \subseteq gaveUp' /\ gaveUp' \subseteq Event
           /\ \A e \in Event : Fate(e)
<1> DEFINE Goal == /\ job' \in [Event -> Job]
                   /\ gaveUp \subseteq gaveUp' /\ gaveUp' \subseteq Event
                   /\ \A e \in Event : Fate(e)
<1>1. ASSUME NEW e \in Event, OneJob(e), Fate(e),
             gaveUp \subseteq gaveUp', gaveUp' \subseteq Event
      PROVE  Goal
    BY <1>1 DEF OneJob, Fate
<1>2. ASSUME UNCHANGED <<job, gaveUp>>
      PROVE  Goal
    BY <1>2 DEF Fate, TypeOK
<1>3. CASE UNCHANGED vars
    BY <1>2, <1>3 DEF vars, ghost
<1>4. ASSUME NEW e \in Event, Publish(e) \/ CommitChange(e) \/ RollBack(e) \/ PurgeDelivered(e)
      PROVE  Goal
    BY <1>2, <1>4 DEF Publish, CommitChange, RollBack, PurgeDelivered, ghost
<1>5. ASSUME NEW r \in Relay, RelayNext(r) \/ RelayFails(r)
      PROVE  Goal
    <2>1. CASE AddBulk(r)
        <3>1. [NoJob EXCEPT !.state = "waiting"] \in Job
            BY OutboxAssumption DEF NoJob, Job
        <3>2. job' \in [Event -> Job]
            BY <2>1, <3>1 DEF AddBulk, TypeOK
        <3>3. [NoJob EXCEPT !.state = "waiting"].state = "waiting"
            BY DEF NoJob
        <3>4. \A e \in Event : Fate(e)
            BY <2>1, <3>3 DEF AddBulk, Fate
        <3> QED
            BY <2>1, <3>2, <3>4 DEF AddBulk, ghost, TypeOK
    <2> QED
        BY <1>2, <1>5, <2>1 DEF RelayNext, SelectBatch, MarkPublished, RelayFails, ghost
<1>6. ASSUME NEW c \in Consumer, NEW e \in Event, Take(c, e)
      PROVE  Goal
    <2>1. UNCHANGED gaveUp
        BY <1>6 DEF Take, ghost
    <2> QED
        BY <1>1, <1>6, <2>1, TakeJob DEF TypeOK
<1>7. ASSUME NEW c \in Consumer, Finish(c)
      PROVE  Goal
    <2>1. UNCHANGED gaveUp
        BY <1>7 DEF Finish, ghost
    <2>2. run[c].event \in Event
        BY <1>7, FinishMoves DEF Attempting
    <2> QED
        BY <1>1, <1>7, <2>1, <2>2, FinishJob DEF TypeOK
<1>8. ASSUME NEW c \in Consumer, Throw(c)
      PROVE  Goal
    <2>1. run[c].event \in Event
        BY <1>8, EmptyRows, OutboxAssumption DEF Throw, Runs, Attempting, Handler
    <2> QED
        BY <1>1, <1>8, <2>1, ThrowJob
<1>9. ASSUME NEW c \in Consumer, Claim(c) \/ Handle(c) \/ CommitHandler(c) \/ Die(c)
      PROVE  Goal
    BY <1>2, <1>9 DEF Claim, Handle, CommitHandler, Die, ghost
<1>10. ASSUME NEW e \in Event, Recover(e) \/ LoseLock(e)
       PROVE  Goal
    BY <1>1, <1>10, Requeued DEF Recover, LoseLock
<1>11. ASSUME NEW e \in Event, ForgetJob(e)
       PROVE  Goal
    <2>1. job' = [job EXCEPT ![e] = NoJob] /\ UNCHANGED gaveUp
        BY <1>11 DEF ForgetJob, ghost
    <2>2. OneJob(e) /\ job'[e] = NoJob
        BY <2>1, EmptyRows, JobRow DEF OneJob
    <2>3. Fate(e)
        BY <1>11, <2>2 DEF ForgetJob, Fate
    <2> QED
        BY <1>1, <2>1, <2>2, <2>3 DEF TypeOK
<1>12. CASE LoseQueue
    <2>0. losses \in 0..MaxLosses /\ gaveUp \subseteq Event
        BY DEF TypeOK
    <2>1. losses \in Nat /\ gaveUp \subseteq Event
        BY <2>0, OutboxAssumption
    <2>2. job' = [e \in Event |-> NoJob] /\ UNCHANGED gaveUp /\ losses' > 0
        BY <1>12, <2>1 DEF LoseQueue
    <2> QED
        BY <2>1, <2>2, EmptyRows DEF Fate
<1> QED
    BY <1>3, <1>4, <1>5, <1>6, <1>7, <1>8, <1>9, <1>10, <1>11, <1>12 DEF Next, ConsumerNext

-----------------------------------------------------------------------------
(* The fates of an outbox row and of the change it belongs to. *)
RowFate(e) ==
    \/ outbox'[e] = outbox[e] /\ change'[e] = change[e]
    \/ outbox'[e] = outbox[e] /\ change[e] # "committed" /\ change'[e] # "committed"
    \/ change'[e] = "committed" /\ outbox'[e] = "pending" /\ change[e] = "open"
    \/ /\ change'[e] = change[e] /\ outbox'[e] = "published"
       /\ \E r \in Relay : relay[r].at = "queued" /\ e \in relay[r].rows
    \/ change'[e] = change[e] /\ outbox'[e] = "purged" /\ outbox[e] = "published"

LEMMA RowMoves ==
    ASSUME TypeOK, [Next]_vars
    PROVE  /\ change' \in [Event -> {"idle", "open", "committed", "rolled back"}]
           /\ outbox' \in [Event -> Row]
           /\ \A e \in Event : RowFate(e)
<1> DEFINE Goal == /\ change' \in [Event -> {"idle", "open", "committed", "rolled back"}]
                   /\ outbox' \in [Event -> Row]
                   /\ \A e \in Event : RowFate(e)
<1>1. /\ change \in [Event -> {"idle", "open", "committed", "rolled back"}]
      /\ outbox \in [Event -> Row]
    BY DEF TypeOK
<1>2. ASSUME UNCHANGED <<change, outbox>>
      PROVE  Goal
    BY <1>1, <1>2 DEF RowFate
<1>3. ASSUME NEW e \in Event, Publish(e) \/ RollBack(e)
      PROVE  Goal
    BY <1>1, <1>3 DEF Publish, RollBack, RowFate
<1>4. ASSUME NEW e \in Event, CommitChange(e)
      PROVE  Goal
    BY <1>1, <1>4 DEF CommitChange, RowFate, Row
<1>5. ASSUME NEW e \in Event, PurgeDelivered(e)
      PROVE  Goal
    BY <1>1, <1>5 DEF PurgeDelivered, RowFate, Row
<1>6. ASSUME NEW r \in Relay, RelayNext(r) \/ RelayFails(r)
      PROVE  Goal
    <2>1. CASE MarkPublished(r)
        BY <1>1, <2>1 DEF MarkPublished, RowFate, Row
    <2> QED
        BY <1>2, <1>6, <2>1 DEF RelayNext, SelectBatch, AddBulk, RelayFails
<1>7. ASSUME NEW c \in Consumer, NEW e \in Event, Take(c, e)
      PROVE  Goal
    BY <1>2, <1>7 DEF Take
<1>8. ASSUME NEW c \in Consumer, ConsumerNext(c) \/ Throw(c) \/ Die(c)
      PROVE  Goal
    BY <1>2, <1>8 DEF ConsumerNext, Claim, Handle, CommitHandler, Finish, Throw, Die
<1>9. ASSUME NEW e \in Event, Recover(e) \/ LoseLock(e) \/ ForgetJob(e)
      PROVE  Goal
    BY <1>2, <1>9 DEF Recover, LoseLock, ForgetJob
<1>10. CASE LoseQueue \/ UNCHANGED vars
    BY <1>2, <1>10 DEF LoseQueue, vars
<1> QED
    BY <1>3, <1>4, <1>5, <1>6, <1>7, <1>8, <1>9, <1>10 DEF Next

(* The relays: a step starts, queues or ends one batch, or none. *)
Batch == [at : {"idle", "selected", "queued"}, rows : SUBSET Event]
LEMMA BatchMoves ==
    ASSUME TypeOK, [Next]_vars
    PROVE  /\ relay' \in [Relay -> Batch]
           /\ \/ UNCHANGED relay
              \/ \E r \in Relay :
                    /\ \A s \in Relay \ {r} : relay'[s] = relay[s]
                    /\ \/ /\ relay'[r] = [at |-> "selected", rows |-> Claimable]
                          /\ UNCHANGED outbox
                       \/ AddBulk(r) /\ relay'[r] = [at |-> "queued", rows |-> relay[r].rows]
                       \/ /\ relay'[r] = [at |-> "idle", rows |-> {}]
                          /\ MarkPublished(r) \/ RelayFails(r)
<1>1. relay \in [Relay -> Batch]
    BY DEF TypeOK, Batch
<1>2. ASSUME NEW r \in Relay, SelectBatch(r)
      PROVE  /\ relay' \in [Relay -> Batch] /\ UNCHANGED outbox
             /\ \A s \in Relay \ {r} : relay'[s] = relay[s]
             /\ relay'[r] = [at |-> "selected", rows |-> Claimable]
    <2>1. [at |-> "selected", rows |-> Claimable] \in Batch
        BY DEF Batch, Claimable
    <2> QED
        BY <1>1, <1>2, <2>1 DEF SelectBatch
<1>3. ASSUME NEW r \in Relay, AddBulk(r)
      PROVE  /\ relay' \in [Relay -> Batch]
             /\ \A s \in Relay \ {r} : relay'[s] = relay[s]
             /\ relay'[r] = [at |-> "queued", rows |-> relay[r].rows]
    <2>1. relay' = [relay EXCEPT ![r].at = "queued"]
        BY <1>3 DEF AddBulk
    <2>2. /\ \A s \in Relay \ {r} : relay'[s] = relay[s]
          /\ relay'[r] = [at |-> "queued", rows |-> relay[r].rows]
        BY <1>1, <2>1 DEF Batch
    <2>3. [at |-> "queued", rows |-> relay[r].rows] \in Batch
        BY <1>1 DEF Batch
    <2> QED
        BY <1>1, <2>1, <2>2, <2>3
<1>4. ASSUME NEW r \in Relay, MarkPublished(r) \/ RelayFails(r)
      PROVE  /\ relay' \in [Relay -> Batch]
             /\ \A s \in Relay \ {r} : relay'[s] = relay[s]
             /\ relay'[r] = [at |-> "idle", rows |-> {}]
    <2>1. NoBatch \in Batch
        BY DEF NoBatch, Batch
    <2> QED
        BY <1>1, <1>4, <2>1 DEF MarkPublished, RelayFails, NoBatch
<1>5. ASSUME NEW r \in Relay, RelayNext(r) \/ RelayFails(r)
      PROVE  /\ relay' \in [Relay -> Batch]
             /\ \A s \in Relay \ {r} : relay'[s] = relay[s]
             /\ \/ /\ relay'[r] = [at |-> "selected", rows |-> Claimable]
                   /\ UNCHANGED outbox
                \/ AddBulk(r) /\ relay'[r] = [at |-> "queued", rows |-> relay[r].rows]
                \/ /\ relay'[r] = [at |-> "idle", rows |-> {}]
                   /\ MarkPublished(r) \/ RelayFails(r)
    BY <1>2, <1>3, <1>4, <1>5 DEF RelayNext
<1>6. ASSUME NEW e \in Event, Publish(e) \/ CommitChange(e) \/ RollBack(e) \/ PurgeDelivered(e)
      PROVE  UNCHANGED relay
    BY <1>6 DEF Publish, CommitChange, RollBack, PurgeDelivered
<1>7. ASSUME NEW c \in Consumer, NEW e \in Event, Take(c, e)
      PROVE  UNCHANGED relay
    BY <1>7 DEF Take
<1>8. ASSUME NEW c \in Consumer, ConsumerNext(c) \/ Throw(c) \/ Die(c)
      PROVE  UNCHANGED relay
    BY <1>8 DEF ConsumerNext, Claim, Handle, CommitHandler, Finish, Throw, Die
<1>9. ASSUME NEW e \in Event, Recover(e) \/ LoseLock(e) \/ ForgetJob(e)
      PROVE  UNCHANGED relay
    BY <1>9 DEF Recover, LoseLock, ForgetJob
<1>10. CASE LoseQueue \/ UNCHANGED vars
    BY <1>1, <1>10 DEF LoseQueue, vars
<1> QED
    BY <1>1, <1>5, <1>6, <1>7, <1>8, <1>9, <1>10 DEF Next

LEMMA BoundsStep ==
    ASSUME TypeOK, [Next]_vars
    PROVE  faults' \in 0..MaxFaults /\ losses' \in 0..MaxLosses /\ losses' >= losses
<1>1. faults \in 0..MaxFaults /\ losses \in 0..MaxLosses
    BY DEF TypeOK
<1>2. CASE UNCHANGED <<faults, losses>>
    BY <1>1, <1>2
<1>3. CASE Fault /\ UNCHANGED losses
    BY <1>1, <1>3, OutboxAssumption DEF Fault
<1>4. CASE LoseQueue
    BY <1>1, <1>4, OutboxAssumption DEF LoseQueue
<1>5. ASSUME NEW e \in Event, Publish(e) \/ CommitChange(e) \/ RollBack(e) \/ PurgeDelivered(e)
                              \/ Recover(e) \/ LoseLock(e) \/ ForgetJob(e)
      PROVE  UNCHANGED <<faults, losses>> \/ (Fault /\ UNCHANGED losses)
    BY <1>5 DEF Publish, CommitChange, RollBack, PurgeDelivered, Recover, LoseLock, ForgetJob, ghost
<1>6. ASSUME NEW r \in Relay, RelayNext(r) \/ RelayFails(r)
      PROVE  UNCHANGED <<faults, losses>> \/ (Fault /\ UNCHANGED losses)
    BY <1>6 DEF RelayNext, SelectBatch, AddBulk, MarkPublished, RelayFails, ghost
<1>7. ASSUME NEW c \in Consumer, NEW e \in Event, Take(c, e)
      PROVE  UNCHANGED <<faults, losses>>
    BY <1>7 DEF Take, ghost
<1>8. ASSUME NEW c \in Consumer, ConsumerNext(c) \/ Throw(c) \/ Die(c)
      PROVE  UNCHANGED <<faults, losses>> \/ (Fault /\ UNCHANGED losses)
    BY <1>8 DEF ConsumerNext, Claim, Handle, CommitHandler, Finish, Throw, Die, ghost
<1> QED
    BY <1>2, <1>3, <1>4, <1>5, <1>6, <1>7, <1>8 DEF Next, vars, ghost

-----------------------------------------------------------------------------
(* Type correctness. *)
LEMMA InboxTypes ==
    ASSUME TypeOK, NEW c \in Consumer, Moves(c)
    PROVE  /\ processed' \subseteq Handler \X Event
           /\ effect' \in Tally /\ sent' \in Tally /\ cut' \in Tally
<1>1. /\ processed \subseteq Handler \X Event
      /\ effect \in Tally /\ sent \in Tally /\ cut \in Tally
    BY DEF TypeOK
<1>2. CASE Began(c) \/ Skipped(c) \/ Claimed(c)
    BY <1>1, <1>2 DEF Began, Skipped, Claimed, Inboxes
<1>3. CASE Called(c)
    <2>1. run[c].nth \in Handler /\ run[c].event \in Event
        BY <1>3 DEF Called, Attempting
    <2> QED
        BY <1>1, <1>3, <2>1, TallyUp DEF Called
<1>4. CASE Acted(c)
    <2>1. run[c].nth \in Handler /\ run[c].event \in Event
        BY <1>4 DEF Acted, Attempting
    <2>2. effect' \in Tally
        BY <1>1, <1>4, <2>1, TallyUp DEF Acted
    <2>3. processed' \subseteq Handler \X Event
        BY <1>1, <1>4, <2>1 DEF Acted
    <2> QED
        BY <1>1, <1>4, <2>2, <2>3 DEF Acted
<1>5. CASE Left(c)
    <2>1. run[c].at = "commit" => run[c].nth \in Handler /\ run[c].event \in Event
        BY <1>5 DEF Left, Attempting
    <2> QED
        BY <1>1, <1>5, <2>1, TallyUp DEF Left
<1> QED
    BY <1>2, <1>3, <1>4, <1>5 DEF Moves

LEMMA TypeStep ==
    ASSUME TypeOK, Runs, [Next]_vars
    PROVE  TypeOK'
<1> DEFINE Goal == /\ run' \in [Consumer -> Run] /\ processed' \subseteq Handler \X Event
                   /\ effect' \in Tally /\ sent' \in Tally /\ cut' \in Tally
<1>1. Goal
    <2>1. /\ run \in [Consumer -> Run] /\ processed \subseteq Handler \X Event
          /\ effect \in Tally /\ sent \in Tally /\ cut \in Tally
        BY DEF TypeOK
    <2>2. CASE UNCHANGED <<run, processed, effect, sent, cut>>
        BY <2>1, <2>2
    <2>3. ASSUME NEW e \in Event, PurgeDelivered(e), UNCHANGED <<run, effect, sent, cut>>
          PROVE  Goal
        BY <2>1, <2>3 DEF PurgeDelivered
    <2>4. ASSUME NEW c \in Consumer, Moves(c)
          PROVE  Goal
        BY <2>4, InboxTypes DEF Moves
    <2> QED
        BY <2>2, <2>3, <2>4, ConsumerMoves
<1>2. relay' \in [Relay -> [at : {"idle", "selected", "queued"}, rows : SUBSET Event]]
    BY BatchMoves DEF Batch
<1> QED
    BY <1>1, <1>2, JobMoves, RowMoves, BoundsStep DEF TypeOK

LEMMA RunsStep ==
    ASSUME TypeOK, Runs, [Next]_vars
    PROVE  Runs'
<1>1. CASE UNCHANGED run
    BY <1>1 DEF Runs, Attempting
<1>2. ASSUME NEW c \in Consumer, Moves(c)
      PROVE  Runs'
    <2>1. run'[c] = NoRun \/ Attempting(c)'
        BY <1>2, OutboxAssumption
           DEF Moves, Began, Skipped, Claimed, Called, Acted, Left, Attempting, Handler
    <2>2. \A d \in Consumer \ {c} : run'[d] = run[d]
        BY <1>2 DEF Moves
    <2> QED
        BY <2>1, <2>2 DEF Runs, Attempting
<1> QED
    BY <1>1, <1>2, ConsumerMoves

(* A relay selects rows that nobody has locked and that are pending. *)
LEMMA LockStep ==
    ASSUME TypeOK, RowsLocked, [Next]_vars, Sourced
    PROVE  RowsLocked'
<1>1. relay \in [Relay -> Batch] /\ relay' \in [Relay -> Batch]
    BY BatchMoves DEF TypeOK, Batch
<1>2. CASE UNCHANGED relay
    <2>1. ASSUME NEW r \in Relay, NEW e \in relay[r].rows
          PROVE  outbox'[e] = "pending"
        <3>1. e \in Event /\ outbox[e] = "pending" /\ change[e] = "committed"
            BY <1>1, <2>1 DEF RowsLocked, Batch, Sourced
        <3>2. ASSUME NEW s \in Relay, MarkPublished(s)
              PROVE  FALSE
            <4>1. relay'[s].at = "idle"
                BY <1>1, <3>2 DEF MarkPublished, NoBatch
            <4> QED
                BY <1>2, <3>2, <4>1 DEF MarkPublished
        <3>3. UNCHANGED outbox \/ \E f \in Event : CommitChange(f) \/ PurgeDelivered(f)
            BY <3>2 DEF Next, vars, worker, ghost, Publish, RollBack, RelayNext, SelectBatch, AddBulk,
               RelayFails, Take, ConsumerNext, Claim, Handle, CommitHandler, Finish, Throw,
               Die, Recover, LoseLock, ForgetJob, LoseQueue
        <3>4. ASSUME NEW f \in Event, CommitChange(f)
              PROVE  outbox'[e] = "pending"
            BY <3>1, <3>4 DEF CommitChange, TypeOK
        <3>5. ASSUME NEW f \in Event, PurgeDelivered(f)
              PROVE  outbox'[e] = "pending"
            BY <3>1, <3>5 DEF PurgeDelivered, TypeOK
        <3> QED
            BY <3>1, <3>3, <3>4, <3>5
    <2> QED
        BY <1>2, <2>1 DEF RowsLocked
<1>3. ASSUME NEW r \in Relay, \A s \in Relay \ {r} : relay'[s] = relay[s],
             relay'[r] = [at |-> "selected", rows |-> Claimable], UNCHANGED outbox
      PROVE  RowsLocked'
    <2>1. \A e \in Claimable : outbox[e] = "pending"
        BY DEF Claimable
    <2>2. \A s \in Relay : Claimable \cap relay[s].rows = {}
        BY DEF Claimable, LockedRows
    <2>3. relay'[r].rows = Claimable
        BY <1>3
    <2> QED
        BY <1>3, <2>1, <2>2, <2>3 DEF RowsLocked
<1>4. ASSUME NEW r \in Relay, \A s \in Relay \ {r} : relay'[s] = relay[s],
             AddBulk(r), relay'[r] = [at |-> "queued", rows |-> relay[r].rows]
      PROVE  RowsLocked'
    <2>1. \A s \in Relay : relay'[s].rows = relay[s].rows
        BY <1>4
    <2> QED
        BY <1>4, <2>1 DEF RowsLocked, AddBulk
<1>5. ASSUME NEW r \in Relay, \A s \in Relay \ {r} : relay'[s] = relay[s],
             relay'[r] = [at |-> "idle", rows |-> {}], MarkPublished(r) \/ RelayFails(r)
      PROVE  RowsLocked'
    <2>1. relay'[r].rows = {}
        BY <1>5
    <2>2. \A s \in Relay \ {r} : relay'[s].rows = relay[s].rows
        BY <1>5
    <2>3. \A e \in Event : e \notin relay[r].rows => outbox'[e] = outbox[e]
        BY <1>5 DEF MarkPublished, RelayFails
    <2>4. \A s \in Relay \ {r} : \A e \in relay[s].rows : e \in Event /\ e \notin relay[r].rows
        BY <1>1 DEF RowsLocked, Batch
    <2> QED
        BY <2>1, <2>2, <2>3, <2>4 DEF RowsLocked
<1> QED
    BY <1>2, <1>3, <1>4, <1>5, BatchMoves

-----------------------------------------------------------------------------
(* An attempt starts with a job that waits. *)
LEMMA Joins ==
    ASSUME TypeOK, Runs, [Next]_vars, NEW c \in Consumer, NEW e \in Event, run'[c].event = e
    PROVE  run[c].event = e \/ job[e].state = "waiting"
<1>1. CASE run'[c] = run[c]
    BY <1>1
<1>2. CASE Began(c)
    <2>1. PICK f \in Event : job[f].state = "waiting"
                             /\ run'[c] = [event |-> f, nth |-> 1, at |-> "claim"]
        BY <1>2 DEF Began
    <2> QED
        BY <2>1
<1>3. CASE Left(c)
    BY <1>3, EmptyRows, OutboxAssumption DEF Left
<1>4. CASE Skipped(c) \/ Claimed(c) \/ Called(c) \/ Acted(c)
    BY <1>4 DEF Skipped, Claimed, Called, Acted
<1> QED
    BY <1>1, <1>2, <1>3, <1>4, ConsumerMoves DEF Moves

(* Nothing is handled that did not commit. *)
LEMMA SourcedStep ==
    ASSUME TypeOK, Runs, RowsLocked, Sourced, [Next]_vars
    PROVE  Sourced'
<1> SUFFICES ASSUME NEW e \in Event
             PROVE  /\ outbox'[e] # "absent" => change'[e] = "committed"
                    /\ job'[e] # NoJob => change'[e] = "committed"
                    /\ \A c \in Consumer : run'[c].event = e => change'[e] = "committed"
                    /\ change'[e] = "committed" => outbox'[e] # "absent"
    BY DEF Sourced
<1>1. RowFate(e) /\ Fate(e)
    BY RowMoves, JobMoves
<1>2. change[e] = "committed" => change'[e] = "committed"
    BY <1>1 DEF RowFate
<1>3. \A r \in Relay : e \in relay[r].rows => change[e] = "committed"
    BY DEF RowsLocked, Sourced
<1>4. /\ outbox'[e] # "absent" => change'[e] = "committed"
      /\ change'[e] = "committed" => outbox'[e] # "absent"
    BY <1>1, <1>2, <1>3 DEF RowFate, Sourced
<1>5. job[e].state \in {"waiting", "active"} => change[e] = "committed"
    BY EmptyRows DEF Sourced
<1>6. job'[e] # NoJob => change[e] = "committed"
    BY <1>1, <1>3, <1>5 DEF Fate, Sourced, Live
<1>7. ASSUME NEW c \in Consumer, run'[c].event = e
      PROVE  change[e] = "committed"
    BY <1>5, <1>7, Joins DEF Sourced
<1> QED
    BY <1>2, <1>4, <1>6, <1>7

(* INSERT ... ON CONFLICT waits: no two transactions hold one inbox row. *)
LEMMA ExclusiveStep ==
    ASSUME TypeOK, Runs, Exclusive, [Next]_vars
    PROVE  Exclusive'
<1> SUFFICES ASSUME NEW c \in Consumer, NEW d \in Consumer, NEW h \in Handler, NEW e \in Event,
                    Claiming(c, h, e)', Claiming(d, h, e)', c # d
             PROVE  FALSE
    BY DEF Exclusive
<1>1. ASSUME NEW b \in Consumer, Moves(b), Claiming(b, h, e)'
      PROVE  \/ Claiming(b, h, e)
             \/ run[b].event = e /\ run[b].nth = h /\ ~ClaimedElsewhere(b)
    <2>0. run'[b].at \in {"handle", "commit"}
        BY <1>1 DEF Claiming
    <2>1. ~Began(b)
        <3>1. ASSUME NEW f \in Event, run'[b] = [event |-> f, nth |-> 1, at |-> "claim"]
              PROVE  FALSE
            BY <2>0, <3>1
        <3> QED
            BY <3>1 DEF Began
    <2>5. ~Left(b)
        BY <2>0 DEF Left, NoRun
    <2>4. ~Skipped(b) /\ ~Acted(b)
        BY <2>0 DEF Skipped, Acted
    <2>2. CASE Claimed(b)
        BY <1>1, <2>2 DEF Claimed, Claiming
    <2>3. CASE Called(b)
        BY <1>1, <2>3 DEF Called, Claiming
    <2> QED
        BY <1>1, <2>1, <2>2, <2>3, <2>4, <2>5 DEF Moves
<1>2. ASSUME NEW b \in Consumer, run'[b] = run[b], Claiming(b, h, e)'
      PROVE  Claiming(b, h, e)
    BY <1>2 DEF Claiming
<1>3. ASSUME NEW a \in Consumer, NEW b \in Consumer, a # b, Moves(a), run'[b] = run[b],
             Claiming(a, h, e)', Claiming(b, h, e)'
      PROVE  FALSE
    <2>1. Claiming(b, h, e)
        BY <1>2, <1>3
    <2>2. ~Claiming(a, h, e)
        BY <1>3, <2>1 DEF Exclusive
    <2>3. run[a].event = e /\ run[a].nth = h /\ ~ClaimedElsewhere(a)
        BY <1>1, <1>3, <2>2
    <2> QED
        BY <1>3, <2>1, <2>3 DEF ClaimedElsewhere, Claiming
<1>4. CASE UNCHANGED run
    BY <1>2, <1>4 DEF Exclusive
<1>5. ASSUME NEW b \in Consumer, Moves(b)
      PROVE  FALSE
    <2>1. \A a \in Consumer \ {b} : run'[a] = run[a]
        BY <1>5 DEF Moves
    <2>2. CASE b = c
        BY <1>3, <1>5, <2>1, <2>2
    <2>3. CASE b = d
        BY <1>3, <1>5, <2>1, <2>3
    <2>4. CASE b # c /\ b # d
        BY <1>2, <2>1, <2>4 DEF Exclusive
    <2> QED
        BY <2>2, <2>3, <2>4
<1> QED
    BY <1>4, <1>5, ConsumerMoves

-----------------------------------------------------------------------------
(* What is gone stays gone. *)
LEMMA GoneStays ==
    ASSUME TypeOK, Runs, RowsLocked, Sourced, [Next]_vars, NEW e \in Event, Gone(e)
    PROVE  Gone(e)'
<1>1. outbox[e] = "purged" /\ job[e] = NoJob /\ \A c \in Consumer : run[c].event # e
    BY DEF Gone
<1>2. change[e] = "committed" /\ \A r \in Relay : e \notin relay[r].rows
    BY <1>1 DEF RowsLocked, Sourced
<1>3. RowFate(e) /\ Fate(e)
    BY RowMoves, JobMoves
<1>4. job'[e] = NoJob
    BY <1>1, <1>2, <1>3, EmptyRows DEF Fate, Live
<1>5. outbox'[e] = "purged"
    BY <1>1, <1>2, <1>3 DEF RowFate
<1>6. job[e].state # "waiting"
    BY <1>1, EmptyRows
<1>7. \A c \in Consumer : run'[c].event # e
    BY <1>1, <1>6, Joins
<1> QED
    BY <1>4, <1>5, <1>7 DEF Gone

(* The moving consumer holds the only claim; its handler has not acted. *)
LEMMA NotYet ==
    ASSUME TypeOK, Inbox, NEW c \in Consumer, NEW h \in Handler, NEW e \in Event,
           Claiming(c, h, e)
    PROVE  effect[<<h, e>>] = 0 /\ <<h, e>> \notin processed
<1>1. <<h, e>> \notin processed /\ effect[<<h, e>>] \in {0, 1}
    BY DEF Inbox
<1>2. ~Gone(e)
    BY DEF Gone, Claiming
<1> QED
    BY <1>1, <1>2 DEF Inbox

(* Effects happen at most once and are never undone. *)
LEMMA EffectStep ==
    ASSUME TypeOK, Runs, Inbox, [Next]_vars, NEW h \in Handler, NEW e \in Event
    PROVE  \/ effect'[<<h, e>>] = effect[<<h, e>>]
           \/ /\ effect[<<h, e>>] = 0 /\ effect'[<<h, e>>] = 1
              /\ \E c \in Consumer : Acted(c) /\ run[c].nth = h /\ run[c].event = e
<1>1. CASE UNCHANGED effect
    BY <1>1
<1>2. ASSUME NEW c \in Consumer, Acted(c)
      PROVE  \/ effect'[<<h, e>>] = effect[<<h, e>>]
             \/ /\ effect[<<h, e>>] = 0 /\ effect'[<<h, e>>] = 1
                /\ run[c].nth = h /\ run[c].event = e
    <2>1. PICK k \in Handler, f \in Event : k = run[c].nth /\ f = run[c].event
        BY <1>2 DEF Acted, Attempting
    <2>2. effect \in Tally /\ effect' = [effect EXCEPT ![<<k, f>>] = @ + 1]
        BY <1>2, <2>1 DEF Acted, TypeOK
    <2>3. Claiming(c, k, f)
        BY <1>2, <2>1 DEF Acted, Claiming
    <2>4. effect[<<k, f>>] = 0
        BY <2>3, NotYet
    <2>5. /\ effect'[<<k, f>>] = effect[<<k, f>>] + 1
          /\ <<h, e>> # <<k, f>> => effect'[<<h, e>>] = effect[<<h, e>>]
        BY <2>2 DEF Tally
    <2>6. CASE <<h, e>> = <<k, f>>
        BY <2>1, <2>4, <2>5, <2>6
    <2> QED
        BY <2>5, <2>6
<1> QED
    BY <1>1, <1>2, ConsumerMoves DEF Moves, Began, Skipped, Claimed, Called, Left, Inboxes

(* What the inbox holds after a step. *)
LEMMA ProcessedStep ==
    ASSUME TypeOK, Runs, [Next]_vars, NEW h \in Handler, NEW e \in Event
    PROVE  \/ <<h, e>> \in processed' <=> <<h, e>> \in processed
           \/ \E c \in Consumer : Acted(c) /\ run[c].nth = h /\ run[c].event = e
           \/ <<h, e>> \notin processed' /\ Gone(e)
<1>1. CASE UNCHANGED processed
    BY <1>1
<1>2. ASSUME NEW f \in Event, PurgeDelivered(f)
      PROVE  (<<h, e>> \in processed' <=> <<h, e>> \in processed)
             \/ (<<h, e>> \notin processed' /\ Gone(e))
    <2>1. CASE UNCHANGED processed
        BY <2>1
    <2>2. CASE Gone(f) /\ processed' = {p \in processed : p[2] # f}
        BY <2>2
    <2> QED
        BY <1>2, <2>1, <2>2 DEF PurgeDelivered, Gone
<1>3. ASSUME NEW c \in Consumer, Acted(c)
      PROVE  \/ <<h, e>> \in processed' <=> <<h, e>> \in processed
             \/ run[c].nth = h /\ run[c].event = e
    BY <1>3 DEF Acted
<1> QED
    BY <1>1, <1>2, <1>3, ConsumerMoves DEF Moves, Began, Skipped, Claimed, Called, Left, Inboxes

(* Who claims an inbox row after a step claimed it before or found it free. *)
LEMMA ClaimStep ==
    ASSUME TypeOK, Runs, [Next]_vars, NEW c \in Consumer, NEW h \in Handler, NEW e \in Event,
           Claiming(c, h, e)'
    PROVE  /\ Claiming(c, h, e) \/ (Claimed(c) /\ run[c].nth = h /\ run[c].event = e)
           /\ ~Acted(c)
<1>1. run'[c].event = e /\ run'[c].nth = h /\ run'[c].at \in {"handle", "commit"}
    BY DEF Claiming
<1>2. ~Acted(c) /\ ~Skipped(c)
    BY <1>1 DEF Acted, Skipped
<1>3. ~Left(c)
    BY <1>1 DEF Left, NoRun
<1>4. ~Began(c)
    <2>1. ASSUME NEW f \in Event, run'[c] = [event |-> f, nth |-> 1, at |-> "claim"]
          PROVE  FALSE
        BY <1>1, <2>1
    <2> QED
        BY <2>1 DEF Began
<1>5. CASE run'[c] = run[c]
    BY <1>1, <1>2, <1>5 DEF Claiming
<1>6. CASE Claimed(c)
    BY <1>1, <1>2, <1>6 DEF Claimed
<1>7. CASE Called(c)
    BY <1>1, <1>2, <1>7 DEF Called, Claiming
<1> QED
    BY <1>2, <1>3, <1>4, <1>5, <1>6, <1>7, ConsumerMoves DEF Moves

LEMMA InboxStep ==
    ASSUME TypeOK, Runs, RowsLocked, Sourced, Exclusive, Inbox, [Next]_vars
    PROVE  Inbox'
<1> SUFFICES ASSUME NEW h \in Handler, NEW e \in Event
             PROVE  /\ effect'[<<h, e>>] \in {0, 1}
                    /\ <<h, e>> \in processed' => effect'[<<h, e>>] = 1
                    /\ effect'[<<h, e>>] = 1 => <<h, e>> \in processed' \/ Gone(e)'
                    /\ \A c \in Consumer : Claiming(c, h, e)' => <<h, e>> \notin processed'
    BY DEF Inbox
<1>1. /\ effect[<<h, e>>] \in {0, 1}
      /\ <<h, e>> \in processed => effect[<<h, e>>] = 1
      /\ effect[<<h, e>>] = 1 => <<h, e>> \in processed \/ Gone(e)
      /\ \A c \in Consumer : Claiming(c, h, e) => <<h, e>> \notin processed
    BY DEF Inbox
<1>2. Gone(e) => Gone(e)'
    BY GoneStays
<1>3. CASE \E c \in Consumer : Acted(c) /\ run[c].nth = h /\ run[c].event = e
    <2>1. PICK c \in Consumer : Acted(c) /\ run[c].nth = h /\ run[c].event = e
        BY <1>3
    <2>2. Claiming(c, h, e)
        BY <2>1 DEF Acted, Claiming
    <2>3. effect[<<h, e>>] = 0
        BY <2>2, NotYet
    <2>4. effect \in Tally /\ effect' = [effect EXCEPT ![<<h, e>>] = @ + 1]
        BY <2>1 DEF Acted, TypeOK
    <2>5. effect'[<<h, e>>] = 1
        BY <2>3, <2>4 DEF Tally
    <2>6. <<h, e>> \in processed'
        BY <2>1 DEF Acted
    <2>7. ASSUME NEW d \in Consumer, Claiming(d, h, e)'
          PROVE  FALSE
        <3>1. d # c
            BY <2>1, <2>7, ClaimStep
        <3>2. ~Claiming(d, h, e)
            BY <2>2, <3>1 DEF Exclusive
        <3>3. Claimed(d)
            BY <2>7, <3>2, ClaimStep
        <3>4. UNCHANGED effect
            BY <3>3 DEF Claimed, Inboxes
        <3> QED
            BY <2>3, <2>5, <3>4
    <2> QED
        BY <2>5, <2>6, <2>7
<1>4. CASE ~\E c \in Consumer : Acted(c) /\ run[c].nth = h /\ run[c].event = e
    <2>1. effect'[<<h, e>>] = effect[<<h, e>>]
        BY <1>4, EffectStep
    <2>2. \/ <<h, e>> \in processed' <=> <<h, e>> \in processed
          \/ <<h, e>> \notin processed' /\ Gone(e)
        BY <1>4, ProcessedStep
    <2>3. ASSUME NEW c \in Consumer, Claiming(c, h, e)'
          PROVE  <<h, e>> \notin processed
        <3>1. CASE Claiming(c, h, e)
            BY <1>1, <3>1
        <3>2. CASE Claimed(c) /\ run[c].nth = h /\ run[c].event = e
            BY <3>2 DEF Claimed
        <3> QED
            BY <2>3, <3>1, <3>2, ClaimStep
    <2> QED
        BY <1>1, <1>2, <2>1, <2>2, <2>3
<1> QED
    BY <1>3, <1>4

LEMMA BehindStep ==
    ASSUME TypeOK, Runs, Inbox, Behind, [Next]_vars
    PROVE  Behind'
<1> SUFFICES ASSUME NEW c \in Consumer, NEW h \in Handler,
                    run'[c].event \in Event, h < run'[c].nth
             PROVE  effect'[<<h, run'[c].event>>] = 1
    BY DEF Behind
<1>1. PICK e \in Event : e = run'[c].event
    OBVIOUS
<1>2. effect[<<h, e>>] = 1 => effect'[<<h, e>>] = 1
    BY EffectStep
<1>3. CASE run'[c] = run[c]
    BY <1>1, <1>2, <1>3 DEF Behind
<1>4. CASE Began(c)
    <2>1. PICK f \in Event : run'[c] = [event |-> f, nth |-> 1, at |-> "claim"]
        BY <1>4 DEF Began
    <2> QED
        BY <2>1 DEF Handler
<1>5. CASE Claimed(c) \/ Called(c)
    <2>1. run'[c].event = run[c].event /\ run'[c].nth = run[c].nth
        BY <1>5 DEF Claimed, Called
    <2> QED
        BY <1>1, <1>2, <2>1 DEF Behind
<1>6. CASE Skipped(c) \/ Acted(c)
    <2>1. /\ run'[c].event = run[c].event /\ run'[c].nth = run[c].nth + 1
          /\ run[c].nth \in Handler
        BY <1>6 DEF Skipped, Acted, Attempting
    <2>2. CASE h < run[c].nth
        BY <1>1, <1>2, <2>1, <2>2 DEF Behind
    <2>3. CASE h = run[c].nth
        <3>1. CASE Skipped(c)
            BY <1>1, <1>2, <2>1, <2>3, <3>1 DEF Skipped, Inbox
        <3>2. CASE Acted(c)
            <4>1. Claiming(c, h, e)
                BY <1>1, <2>1, <2>3, <3>2 DEF Acted, Claiming
            <4>2. effect[<<h, e>>] = 0
                BY <4>1, NotYet
            <4>3. effect \in Tally /\ effect' = [effect EXCEPT ![<<h, e>>] = @ + 1]
                BY <1>1, <2>1, <2>3, <3>2 DEF Acted, TypeOK
            <4>4. effect'[<<h, e>>] = 1
                BY <4>2, <4>3 DEF Tally
            <4> QED
                BY <1>1, <4>4
        <3> QED
            BY <1>6, <3>1, <3>2
    <2> QED
        BY <2>1, <2>2, <2>3 DEF Handler
<1>7. CASE Left(c)
    BY <1>7, EmptyRows, OutboxAssumption DEF Left
<1> QED
    BY <1>3, <1>4, <1>5, <1>6, <1>7, ConsumerMoves DEF Moves

-----------------------------------------------------------------------------
(* The calls add up: the step that starts or ends one is the only one that *)
(* counts it, because no other attempt is at the same handler.             *)
LEMMA UnderWayIs ==
    ASSUME NEW h, NEW e
    PROVE  /\ \A c \in Consumer : Calling(c, h, e) => UnderWay(h, e) = 1
           /\ (\A c \in Consumer : ~Calling(c, h, e)) => UnderWay(h, e) = 0
BY DEF UnderWay

(* A step that starts or ends no call of the handler leaves it as it was. *)
LEMMA UnderWaySame ==
    ASSUME NEW h, NEW e, \A c \in Consumer : Calling(c, h, e)' <=> Calling(c, h, e)
    PROVE  UnderWay(h, e)' = UnderWay(h, e)
BY DEF UnderWay

LEMMA CalledCounts ==
    ASSUME TypeOK, Exclusive, Calls, NEW h \in Handler, NEW e \in Event,
           NEW c \in Consumer, Moves(c), Called(c), run[c].nth = h, run[c].event = e
    PROVE  sent'[<<h, e>>] = cut'[<<h, e>>] + effect'[<<h, e>>] + UnderWay(h, e)'
<1>1. /\ effect \in Tally /\ sent \in Tally /\ cut \in Tally
      /\ sent' = [sent EXCEPT ![<<h, e>>] = @ + 1] /\ UNCHANGED <<effect, cut>>
    BY DEF Called, TypeOK
<1>2. Claiming(c, h, e) /\ ~Calling(c, h, e)
    BY DEF Called, Claiming, Calling
<1>3. \A d \in Consumer : ~Calling(d, h, e)
    BY <1>2 DEF Exclusive, Claiming, Calling
<1>4. UnderWay(h, e) = 0
    BY <1>3, UnderWayIs
<1>5. Calling(c, h, e)'
    BY DEF Called, Calling
<1>6. UnderWay(h, e)' = 1
    BY <1>5 DEF UnderWay
<1>7. sent[<<h, e>>] = cut[<<h, e>>] + effect[<<h, e>>] + 0
    BY <1>4 DEF Calls
<1>8. sent'[<<h, e>>] = sent[<<h, e>>] + 1
    BY <1>1 DEF Tally
<1>9. effect[<<h, e>>] \in Nat /\ cut[<<h, e>>] \in Nat
    BY <1>1 DEF Tally
<1> QED
    BY <1>1, <1>6, <1>7, <1>8, <1>9

LEMMA CallEnds ==
    ASSUME TypeOK, Exclusive, NEW h \in Handler, NEW e \in Event, NEW c \in Consumer,
           Moves(c), Calling(c, h, e), run'[c].at # "commit"
    PROVE  UnderWay(h, e) = 1 /\ UnderWay(h, e)' = 0
<1>1. UnderWay(h, e) = 1
    BY UnderWayIs
<1>2. ASSUME NEW d \in Consumer, Calling(d, h, e)'
      PROVE  FALSE
    <2>1. d # c
        BY <1>2 DEF Calling
    <2>2. run'[d] = run[d]
        BY <2>1 DEF Moves
    <2>3. Calling(d, h, e)
        BY <1>2, <2>2 DEF Calling
    <2> QED
        BY <2>1, <2>3 DEF Exclusive, Calling, Claiming
<1> QED
    BY <1>1, <1>2 DEF UnderWay

LEMMA EndedCounts ==
    ASSUME TypeOK, Exclusive, Calls, NEW h \in Handler, NEW e \in Event,
           NEW c \in Consumer, Moves(c), Acted(c) \/ Left(c), Calling(c, h, e)
    PROVE  sent'[<<h, e>>] = cut'[<<h, e>>] + effect'[<<h, e>>] + UnderWay(h, e)'
<1>1. /\ effect \in Tally /\ sent \in Tally /\ cut \in Tally
    BY DEF TypeOK
<1>2. run[c].nth = h /\ run[c].event = e /\ run[c].at = "commit"
    BY DEF Calling
<1>3. run'[c].at # "commit"
    BY DEF Acted, Left, NoRun
<1>4. UnderWay(h, e) = 1 /\ UnderWay(h, e)' = 0
    BY <1>3, CallEnds
<1>5. sent[<<h, e>>] = cut[<<h, e>>] + effect[<<h, e>>] + 1
    BY <1>4 DEF Calls
<1>6. effect[<<h, e>>] \in Nat /\ cut[<<h, e>>] \in Nat
    BY <1>1 DEF Tally
<1>7. CASE Acted(c)
    <2>1. effect' = [effect EXCEPT ![<<h, e>>] = @ + 1] /\ UNCHANGED <<sent, cut>>
        BY <1>2, <1>7 DEF Acted
    <2>2. effect'[<<h, e>>] = effect[<<h, e>>] + 1
        BY <1>1, <2>1 DEF Tally
    <2> QED
        BY <1>4, <1>5, <1>6, <2>1, <2>2
<1>8. CASE Left(c)
    <2>1. cut' = [cut EXCEPT ![<<h, e>>] = @ + 1] /\ UNCHANGED <<sent, effect>>
        BY <1>2, <1>8 DEF Left
    <2>2. cut'[<<h, e>>] = cut[<<h, e>>] + 1
        BY <1>1, <2>1 DEF Tally
    <2> QED
        BY <1>4, <1>5, <1>6, <2>1, <2>2
<1> QED
    BY <1>7, <1>8

LEMMA ElsewhereCounts ==
    ASSUME TypeOK, Calls, NEW h \in Handler, NEW e \in Event, NEW c \in Consumer, Moves(c),
           ~(Called(c) /\ run[c].nth = h /\ run[c].event = e),
           ~((Acted(c) \/ Left(c)) /\ Calling(c, h, e))
    PROVE  sent'[<<h, e>>] = cut'[<<h, e>>] + effect'[<<h, e>>] + UnderWay(h, e)'
<1>1. /\ effect \in Tally /\ sent \in Tally /\ cut \in Tally
    BY DEF TypeOK
<1>2. /\ Calling(c, h, e)' <=> Calling(c, h, e)
      /\ effect'[<<h, e>>] = effect[<<h, e>>] /\ sent'[<<h, e>>] = sent[<<h, e>>]
      /\ cut'[<<h, e>>] = cut[<<h, e>>]
    <2>1. CASE Began(c)
        <3>1. PICK f \in Event : run'[c] = [event |-> f, nth |-> 1, at |-> "claim"]
            BY <2>1 DEF Began
        <3> QED
            BY <2>1, <3>1, EmptyRows DEF Began, Inboxes, Calling
    <2>2. CASE Skipped(c) \/ Claimed(c)
        BY <2>2 DEF Skipped, Claimed, Inboxes, Calling
    <2>3. CASE Called(c)
        <3>1. PICK k \in Handler, f \in Event : k = run[c].nth /\ f = run[c].event
            BY <2>3 DEF Called, Attempting
        <3>2. <<k, f>> # <<h, e>>
            BY <2>3, <3>1
        <3>3. sent' = [sent EXCEPT ![<<k, f>>] = @ + 1] /\ UNCHANGED <<effect, cut>>
            BY <2>3, <3>1 DEF Called
        <3>4. sent'[<<h, e>>] = sent[<<h, e>>]
            BY <1>1, <3>2, <3>3 DEF Tally
        <3>5. ~Calling(c, h, e)' /\ ~Calling(c, h, e)
            BY <2>3 DEF Called, Calling
        <3> QED
            BY <3>3, <3>4, <3>5
    <2>4. CASE Acted(c)
        <3>1. PICK k \in Handler, f \in Event : k = run[c].nth /\ f = run[c].event
            BY <2>4 DEF Acted, Attempting
        <3>2. <<k, f>> # <<h, e>>
            BY <2>4, <3>1 DEF Acted, Calling
        <3>3. effect' = [effect EXCEPT ![<<k, f>>] = @ + 1] /\ UNCHANGED <<sent, cut>>
            BY <2>4, <3>1 DEF Acted
        <3>4. effect'[<<h, e>>] = effect[<<h, e>>]
            BY <1>1, <3>2, <3>3 DEF Tally
        <3>5. ~Calling(c, h, e)' /\ ~Calling(c, h, e)
            BY <2>4 DEF Acted, Calling
        <3> QED
            BY <3>3, <3>4, <3>5
    <2>5. CASE Left(c)
        <3>1. ~Calling(c, h, e)' /\ ~Calling(c, h, e)
            BY <2>5 DEF Left, Calling, NoRun
        <3>2. cut'[<<h, e>>] = cut[<<h, e>>]
            <4>1. CASE run[c].at # "commit"
                BY <2>5, <4>1 DEF Left
            <4>2. CASE run[c].at = "commit"
                <5>1. PICK k \in Handler, f \in Event : k = run[c].nth /\ f = run[c].event
                    BY <2>5, <4>2 DEF Left, Attempting
                <5>2. <<k, f>> # <<h, e>>
                    BY <3>1, <4>2, <5>1 DEF Calling
                <5>3. cut' = [cut EXCEPT ![<<k, f>>] = @ + 1]
                    BY <2>5, <4>2, <5>1 DEF Left
                <5> QED
                    BY <1>1, <5>2, <5>3 DEF Tally
            <4> QED
                BY <4>1, <4>2
        <3> QED
            BY <2>5, <3>1, <3>2 DEF Left
    <2> QED
        BY <2>1, <2>2, <2>3, <2>4, <2>5 DEF Moves
<1>3. \A d \in Consumer \ {c} : Calling(d, h, e)' <=> Calling(d, h, e)
    BY DEF Moves, Calling
<1>4. UnderWay(h, e)' = UnderWay(h, e)
    BY <1>2, <1>3, UnderWaySame
<1> QED
    BY <1>2, <1>4 DEF Calls

LEMMA CallsStep ==
    ASSUME TypeOK, Runs, Exclusive, Calls, [Next]_vars
    PROVE  Calls'
<1> SUFFICES ASSUME NEW h \in Handler, NEW e \in Event
             PROVE  sent'[<<h, e>>] = cut'[<<h, e>>] + effect'[<<h, e>>] + UnderWay(h, e)'
    BY DEF Calls
<1>1. CASE UNCHANGED <<run, effect, sent, cut>>
    <2>1. UnderWay(h, e)' = UnderWay(h, e)
        BY <1>1, UnderWaySame DEF Calling
    <2> QED
        BY <1>1, <2>1 DEF Calls
<1> QED
    BY <1>1, ConsumerMoves, CalledCounts, EndedCounts, ElsewhereCounts

-----------------------------------------------------------------------------
(* A completed job was completed by an attempt that had every handler      *)
(* behind it, and nothing is undone.                                       *)
LEMMA HandledStays ==
    ASSUME TypeOK, Runs, Inbox, [Next]_vars, NEW e \in Event, Handled(e)
    PROVE  Handled(e)'
<1> SUFFICES ASSUME NEW h \in Handler
             PROVE  effect'[<<h, e>>] > 0
    BY DEF Handled
<1>1. effect[<<h, e>>] > 0
    BY DEF Handled
<1> QED
    BY <1>1, EffectStep

LEMMA AllBehind ==
    ASSUME Behind, NEW c \in Consumer, NEW e \in Event, run[c].event = e,
           run[c].nth = HandlerCount + 1
    PROVE  Handled(e)
<1> SUFFICES ASSUME NEW h \in Handler
             PROVE  effect[<<h, e>>] > 0
    BY DEF Handled
<1>1. h < run[c].nth
    BY OutboxAssumption DEF Handler
<1>2. effect[<<h, e>>] = 1
    BY <1>1 DEF Behind
<1> QED
    BY <1>2

LEMMA QueueStep ==
    ASSUME TypeOK, Runs, Inbox, Behind, Queue, [Next]_vars
    PROVE  Queue'
<1> SUFFICES ASSUME NEW e \in Event
             PROVE  /\ job'[e].state = "none" => job'[e] = NoJob
                    /\ job'[e].state = "completed" => Handled(e)'
                    /\ job'[e].state = "failed" => e \in gaveUp'
    BY DEF Queue
<1>1. Fate(e) /\ gaveUp \subseteq gaveUp'
    BY JobMoves
<1>2. /\ job[e].state = "none" => job[e] = NoJob
      /\ job[e].state = "completed" => Handled(e)
      /\ job[e].state = "failed" => e \in gaveUp
    BY DEF Queue
<1>3. Handled(e) => Handled(e)'
    BY HandledStays
<1>4. (\E c \in Consumer : run[c].event = e /\ run[c].nth = HandlerCount + 1) => Handled(e)
    BY AllBehind
<1> QED
    BY <1>1, <1>2, <1>3, <1>4, EmptyRows DEF Fate, Live

LEMMA HandStays ==
    ASSUME TypeOK, Runs, Inbox, Behind, Queue, [Next]_vars, NEW e \in Event, InHand(e)
    PROVE  InHand(e)'
<1>1. Fate(e) /\ gaveUp \subseteq gaveUp'
    BY JobMoves
<1>2. losses \in 0..MaxLosses /\ losses' \in 0..MaxLosses /\ losses' >= losses
    BY BoundsStep DEF TypeOK
<1>3. losses > 0 => losses' > 0
    BY <1>2, OutboxAssumption
<1>4. Handled(e) => Handled(e)'
    BY HandledStays
<1>5. (\E c \in Consumer : run[c].event = e /\ run[c].nth = HandlerCount + 1) => Handled(e)
    BY AllBehind
<1>6. job[e].state \in Live
      => job'[e].state \in Live \/ Handled(e) \/ e \in gaveUp' \/ losses' > 0
    BY <1>1, <1>5, EmptyRows DEF Fate, Live
<1> QED
    BY <1>1, <1>3, <1>4, <1>6 DEF InHand, Live

(* addBulk puts every row of the batch in the queue, or finds it there. *)
LEMMA Queued ==
    ASSUME TypeOK, Queue, NEW r \in Relay, AddBulk(r), NEW e \in relay[r].rows, e \in Event
    PROVE  InHand(e) \/ InHand(e)'
<1>1. CASE job[e] = NoJob
    <2>1. job'[e] = [NoJob EXCEPT !.state = "waiting"]
        BY <1>1 DEF AddBulk
    <2>2. job'[e].state = "waiting"
        BY <2>1 DEF NoJob
    <2> QED
        BY <2>2 DEF InHand
<1>2. CASE job[e] # NoJob
    <2>1. job[e].state \in {"waiting", "active", "completed", "failed"}
        BY <1>2 DEF Queue, TypeOK, Job
    <2> QED
        BY <2>1 DEF Queue, InHand
<1> QED
    BY <1>1, <1>2

LEMMA KeptStep ==
    ASSUME TypeOK, Runs, RowsLocked, Inbox, Behind, Queue, Kept, [Next]_vars
    PROVE  Kept'
<1>1. \A e \in Event : InHand(e) => InHand(e)'
    BY HandStays
<1>2. ASSUME NEW e \in Event, outbox'[e] \in {"published", "purged"}
      PROVE  InHand(e)'
    <2>1. RowFate(e)
        BY RowMoves
    <2>2. InHand(e)
        BY <1>2, <2>1 DEF RowFate, Kept
    <2> QED
        BY <1>1, <2>2
<1>3. ASSUME NEW e \in Event, NEW r \in Relay, relay'[r].at = "queued", e \in relay'[r].rows
      PROVE  InHand(e)'
    <2>1. CASE relay'[r] = relay[r]
        BY <1>1, <1>3, <2>1 DEF Kept
    <2>2. CASE AddBulk(r) /\ relay'[r] = [at |-> "queued", rows |-> relay[r].rows]
        <3>1. e \in relay[r].rows
            BY <1>3, <2>2
        <3> QED
            BY <1>1, <2>2, <3>1, Queued
    <2>3. relay'[r] # [at |-> "selected", rows |-> Claimable]
        BY <1>3
    <2>4. relay'[r] # [at |-> "idle", rows |-> {}]
        BY <1>3
    <2>5. CASE UNCHANGED relay
        BY <2>1, <2>5
    <2>6. ASSUME NEW s \in Relay, \A t \in Relay \ {s} : relay'[t] = relay[t], s # r
          PROVE  InHand(e)'
        BY <2>1, <2>6
    <2> QED
        BY <2>2, <2>3, <2>4, <2>5, <2>6, BatchMoves
<1> QED
    BY <1>2, <1>3 DEF Kept

-----------------------------------------------------------------------------
(* The inductive invariant. *)
OutboxInv == /\ TypeOK /\ Runs /\ Sourced /\ RowsLocked /\ Exclusive
             /\ Inbox /\ Behind /\ Calls /\ Queue /\ Kept

LEMMA InitInv == Init => OutboxInv
<1> SUFFICES ASSUME Init PROVE OutboxInv
    OBVIOUS
<1>1. /\ \A e \in Event : change[e] = "idle" /\ outbox[e] = "absent" /\ job[e] = NoJob
      /\ \A r \in Relay : relay[r] = NoBatch
      /\ \A c \in Consumer : run[c] = NoRun
      /\ \A h \in Handler, e \in Event :
            effect[<<h, e>>] = 0 /\ sent[<<h, e>>] = 0 /\ cut[<<h, e>>] = 0
      /\ processed = {}
    BY DEF Init
<1>2. TypeOK
    <2>1. [p \in Handler \X Event |-> 0] \in Tally
        BY DEF Tally
    <2>2. effect \in Tally /\ sent \in Tally /\ cut \in Tally
        BY <2>1 DEF Init
    <2>3. faults \in 0..MaxFaults /\ losses \in 0..MaxLosses
        BY OutboxAssumption DEF Init
    <2>4. relay \in [Relay -> [at : {"idle", "selected", "queued"}, rows : SUBSET Event]]
        BY DEF Init, NoBatch
    <2> QED
        BY <2>2, <2>3, <2>4, EmptyRows DEF Init, TypeOK, Row
<1>3. \A c \in Consumer, e \in Event : run[c].event # e /\ run[c].event \notin Event
    BY <1>1, EmptyRows, OutboxAssumption
<1>4. \A c \in Consumer, h \in Handler, e \in Event : ~Claiming(c, h, e) /\ ~Calling(c, h, e)
    BY <1>3 DEF Claiming, Calling
<1>5. \A r \in Relay : relay[r].rows = {} /\ relay[r].at = "idle"
    BY <1>1 DEF NoBatch
<1>6. Runs /\ Sourced /\ RowsLocked /\ Exclusive
    BY <1>1, <1>3, <1>4, <1>5 DEF Runs, Sourced, RowsLocked, Exclusive
<1>7. Inbox
    <2> SUFFICES ASSUME NEW h \in Handler, NEW e \in Event
                 PROVE  /\ effect[<<h, e>>] \in {0, 1}
                        /\ <<h, e>> \in processed => effect[<<h, e>>] = 1
                        /\ effect[<<h, e>>] = 1 => <<h, e>> \in processed \/ Gone(e)
                        /\ \A c \in Consumer : Claiming(c, h, e) => <<h, e>> \notin processed
        BY DEF Inbox
    <2>1. effect[<<h, e>>] = 0 /\ <<h, e>> \notin processed
        BY <1>1
    <2> QED
        BY <2>1
<1>8. Behind
    BY <1>3 DEF Behind
<1>9. Calls
    <2>1. \A h \in Handler, e \in Event : UnderWay(h, e) = 0
        BY <1>4, UnderWayIs
    <2> SUFFICES ASSUME NEW h \in Handler, NEW e \in Event
                 PROVE  sent[<<h, e>>] = cut[<<h, e>>] + effect[<<h, e>>] + UnderWay(h, e)
        BY DEF Calls
    <2>2. sent[<<h, e>>] = 0 /\ cut[<<h, e>>] = 0 /\ effect[<<h, e>>] = 0
        BY <1>1
    <2> QED
        BY <2>1, <2>2
<1>10. Queue /\ Kept
    BY <1>1, <1>5, EmptyRows DEF Queue, Kept
<1> QED
    BY <1>2, <1>6, <1>7, <1>8, <1>9, <1>10 DEF OutboxInv

LEMMA InvStep == OutboxInv /\ [Next]_vars => OutboxInv'
BY TypeStep, RunsStep, SourcedStep, LockStep, ExclusiveStep, InboxStep, BehindStep,
   CallsStep, QueueStep, KeptStep DEF OutboxInv

(* The invariant holds throughout: types, the life of an attempt, the      *)
(* relays' row locks, the exclusive inbox row and the count of calls.      *)
THEOREM OutboxInvariance == Spec => []OutboxInv
BY InitInv, InvStep, PTL DEF Spec

(* Every variable has its type. *)
THEOREM OutboxTypes == Spec => []TypeOK
<1>1. OutboxInv => TypeOK
    BY DEF OutboxInv
<1> QED
    BY <1>1, OutboxInvariance, PTL

(* A job the queue completed has been handled in full (event-dispatcher    *)
(* 48-63): the attempt that completed it had every handler behind it,      *)
(* committed by itself or by the attempt whose inbox rows made it skip.    *)
THEOREM CompletedIsHandled == Spec => []CompletedMeansHandled
<1>1. OutboxInv => CompletedMeansHandled
    BY DEF OutboxInv, Queue, CompletedMeansHandled
<1> QED
    BY <1>1, OutboxInvariance, PTL

(* An external call is repeated only after a call that was cut (events.ts  *)
(* 12-14), however the attempts overlap.                                   *)
THEOREM NoNeedlessRepeat == Spec => []RepeatsNeedACut
<1>1. ASSUME OutboxInv
      PROVE  RepeatsNeedACut
    <2> SUFFICES ASSUME NEW h \in Handler, NEW e \in Event
                 PROVE  sent[<<h, e>>] <= 1 + cut[<<h, e>>]
        BY DEF RepeatsNeedACut
    <2>1. /\ TypeOK /\ Inbox
          /\ sent[<<h, e>>] = cut[<<h, e>>] + effect[<<h, e>>] + UnderWay(h, e)
          /\ effect[<<h, e>>] \in {0, 1}
        BY <1>1 DEF OutboxInv, Calls, Inbox
    <2>2. cut[<<h, e>>] \in Nat
        BY <2>1 DEF TypeOK, Tally
    <2>3. CASE \E c \in Consumer : Calling(c, h, e)
        <3>1. PICK c \in Consumer : Calling(c, h, e)
            BY <2>3
        <3>2. effect[<<h, e>>] = 0
            BY <2>1, <3>1, NotYet DEF Calling, Claiming
        <3>3. UnderWay(h, e) = 1
            BY <3>1, UnderWayIs
        <3> QED
            BY <2>1, <2>2, <3>2, <3>3
    <2>4. CASE ~\E c \in Consumer : Calling(c, h, e)
        <3>1. UnderWay(h, e) = 0
            BY <2>4, UnderWayIs
        <3> QED
            BY <2>1, <2>2, <3>1
    <2> QED
        BY <2>3, <2>4
<1> QED
    BY <1>1, OutboxInvariance, PTL

(* A committed change that is not yet handled is in the outbox or in the   *)
(* queue, unless the queue gave it up or lost its data (outbox-relay       *)
(* 87-134): no order of relay deaths, lost locks and overlapping attempts  *)
(* drops an event.                                                         *)
THEOREM NothingSlips == Spec => []LostOnlyByTheQueue
<1>1. ASSUME OutboxInv
      PROVE  LostOnlyByTheQueue
    <2> SUFFICES ASSUME NEW e \in Event, change[e] = "committed", ~Handled(e)
                 PROVE  StillToDo(e) \/ e \in gaveUp \/ losses > 0
        BY DEF LostOnlyByTheQueue
    <2>1. outbox[e] \in Row /\ outbox[e] # "absent"
        BY <1>1 DEF OutboxInv, TypeOK, Sourced
    <2>2. outbox[e] = "pending" \/ InHand(e)
        BY <1>1, <2>1 DEF OutboxInv, Kept, Row
    <2> QED
        BY <2>2 DEF InHand, StillToDo
<1> QED
    BY <1>1, OutboxInvariance, PTL

-----------------------------------------------------------------------------
(* The outbox implements Delivery: the commit of a handler's transaction   *)
(* is the abstract Act, and relay, queue, retries and purges are stutters. *)
LEMMA StepImplements ==
    ASSUME OutboxInv, [Next]_vars
    PROVE  [Promise!Next]_(Promise!vars)
<1>1. TypeOK /\ Runs /\ Sourced /\ Inbox
    BY DEF OutboxInv
<1>2. CASE UNCHANGED <<change, effect>>
    BY <1>2 DEF Promise!vars
<1>3. ASSUME NEW e \in Event, Publish(e) \/ CommitChange(e) \/ RollBack(e)
      PROVE  Promise!Next
    <2>1. UNCHANGED effect
        BY <1>3 DEF Publish, CommitChange, RollBack, worker
    <2>2. Publish(e) => Promise!Begin(e)
        BY <2>1 DEF Publish, Promise!Begin
    <2>3. CommitChange(e) \/ RollBack(e) => Promise!End(e)
        BY <2>1 DEF CommitChange, RollBack, Promise!End
    <2> QED
        BY <1>3, <2>2, <2>3 DEF Promise!Next
<1>4. ASSUME NEW c \in Consumer, CommitHandler(c)
      PROVE  Promise!Next
    <2>1. run[c] # NoRun
        BY <1>4, EmptyRows DEF CommitHandler
    <2>2. PICK h \in Handler, e \in Event : h = run[c].nth /\ e = run[c].event
        BY <1>1, <1>4, <2>1 DEF Runs, Attempting, CommitHandler
    <2>3. Claiming(c, h, e)
        BY <1>4, <2>2 DEF CommitHandler, Claiming
    <2>4. effect[<<h, e>>] = 0
        BY <1>1, <2>3, NotYet
    <2>5. change[e] = "committed"
        BY <1>1, <2>2 DEF Sourced
    <2>6. effect' = [effect EXCEPT ![<<h, e>>] = 1] /\ UNCHANGED change
        BY <1>4, <2>2, <2>4 DEF CommitHandler
    <2>7. Promise!Act(h, e)
        BY <2>4, <2>5, <2>6 DEF Promise!Act
    <2> QED
        BY <2>7 DEF Promise!Next, Promise!Handler, Handler
<1>5. ASSUME NEW r \in Relay, RelayNext(r) \/ RelayFails(r)
      PROVE  UNCHANGED <<change, effect>>
    BY <1>5 DEF RelayNext, SelectBatch, AddBulk, MarkPublished, RelayFails, worker
<1>6. ASSUME NEW c \in Consumer, NEW e \in Event, Take(c, e)
      PROVE  UNCHANGED <<change, effect>>
    BY <1>6 DEF Take
<1>7. ASSUME NEW c \in Consumer, Claim(c) \/ Handle(c) \/ Finish(c) \/ Throw(c) \/ Die(c)
      PROVE  UNCHANGED <<change, effect>>
    BY <1>7 DEF Claim, Handle, Finish, Throw, Die, AbandonRun
<1>8. ASSUME NEW e \in Event, Recover(e) \/ LoseLock(e) \/ ForgetJob(e) \/ PurgeDelivered(e)
      PROVE  UNCHANGED <<change, effect>>
    BY <1>8 DEF Recover, LoseLock, ForgetJob, PurgeDelivered, worker
<1>9. CASE LoseQueue \/ UNCHANGED vars
    BY <1>2, <1>9 DEF LoseQueue, vars, worker
<1> QED
    BY <1>2, <1>3, <1>4, <1>5, <1>6, <1>7, <1>8, <1>9 DEF Next, ConsumerNext

(* Exactly-once database effects of committed changes and of nothing else  *)
(* (outbox.service 19-22, event-dispatcher 20-24): every behaviour of the  *)
(* outbox is one of Delivery.                                              *)
THEOREM OutboxImplementsDelivery == Spec => ImplementsDelivery
<1>1. Init => Promise!Init
    BY DEF Init, Promise!Init, Promise!Handler, Handler
<1> QED
    BY <1>1, StepImplements, OutboxInvariance, PTL DEF Spec, ImplementsDelivery, Promise!Spec
=============================================================================
