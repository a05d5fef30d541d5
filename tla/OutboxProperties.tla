-------------------------- MODULE OutboxProperties --------------------------
EXTENDS Outbox

Row == {"absent", "pending", "published", "purged"}
Job == [state : {"none", "waiting", "active", "completed", "failed"},
        tries : 0..Attempts, stalls : 0..MaxStalled, holder : Consumer \cup {None}]
Run == [event : Event \cup {None}, nth : 0..(HandlerCount + 1),
        at : {"idle", "claim", "handle", "commit"}]
Tally == [Handler \X Event -> Nat]

(* Every variable has its type. *)
TypeOK ==
    /\ change \in [Event -> {"idle", "open", "committed", "rolled back"}]
    /\ outbox \in [Event -> Row]
    /\ relay \in [Relay -> [at : {"idle", "selected", "queued"}, rows : SUBSET Event]]
    /\ job \in [Event -> Job]
    /\ run \in [Consumer -> Run]
    /\ processed \subseteq Handler \X Event
    /\ effect \in Tally /\ sent \in Tally /\ cut \in Tally
    /\ gaveUp \subseteq Event
    /\ faults \in 0..MaxFaults /\ losses \in 0..MaxLosses

(* Every handler's writes for the event have committed. *)
Handled(e) == \A h \in Handler : effect[<<h, e>>] > 0

(* Something will still be done about the event: the relay or the queue    *)
(* has it.                                                                 *)
StillToDo(e) == outbox[e] = "pending" \/ job[e].state \in {"waiting", "active"}

(* The outbox and the inbox together give exactly-once database effects of *)
(* committed changes and of nothing else (outbox.service 19-22,            *)
(* event-dispatcher 20-24), whatever dies, stalls or is delivered twice.   *)
Promise == INSTANCE Delivery
ImplementsDelivery == Promise!Spec

(* An event with handlers left to run is never forgotten by both the       *)
(* outbox and the queue, unless the queue gave it up or lost its data:     *)
(* relay deaths between addBulk and the commit, several relays, lost locks *)
(* and attempts that overlap lose nothing (outbox-relay 87-134).           *)
LostOnlyByTheQueue == \A e \in Event :
    change[e] = "committed" /\ ~Handled(e)
        => StillToDo(e) \/ e \in gaveUp \/ losses > 0

(* A job is completed only when every handler's work is committed, even    *)
(* when the attempt that completed it skipped handlers another attempt was *)
(* running (event-dispatcher 48-63).                                       *)
CompletedMeansHandled == \A e \in Event : job[e].state = "completed" => Handled(e)

(* An external call is repeated only after a call whose transaction did    *)
(* not commit: overlapping attempts alone never send twice (events.ts      *)
(* 12-14).                                                                 *)
RepeatsNeedACut == \A h \in Handler, e \in Event : sent[<<h, e>>] <= 1 + cut[<<h, e>>]

(* Every committed change is acted on by every handler, unless the queue   *)
(* gives its event up or loses its data ("the worker relays it whenever it *)
(* can", outbox.service 21).                                               *)
EventuallyHandled == \A e \in Event :
    change[e] = "committed" ~> Handled(e) \/ e \in gaveUp \/ losses > 0

(* What the documentation says and the code does not do.                   *)

(* "a crash loses nothing" (docs/adr/0006, line 16) and "the queue can be  *)
(* lost ... without losing the record of what must be sent" (line 31).     *)
NothingLost == \A e \in Event :
    change[e] = "committed" /\ ~Handled(e)
        => StillToDo(e) \/ \E c \in Consumer : run[c].event = e
=============================================================================
