------------------------------ MODULE Delivery ------------------------------
(***************************************************************************)
(* What the outbox promises the rest of the application, without relay,    *)
(* queue, retries or crashes: a change commits or rolls back once, and     *)
(* each handler registered for its event acts on the database at most      *)
(* once, only after the change has committed.  Outbox implements it.       *)
(***************************************************************************)
EXTENDS Integers

CONSTANTS Event,            \* the events, one per business change
          HandlerCount      \* handlers registered for them, in order 1..HandlerCount

Handler == 1..HandlerCount

VARIABLES change,           \* the business transaction that publishes the event
          effect            \* times each handler's database writes committed
vars == <<change, effect>>

Init == /\ change = [e \in Event |-> "idle"]
        /\ effect = [p \in Handler \X Event |-> 0]

Begin(e) == /\ change[e] = "idle"
            /\ change' = [change EXCEPT ![e] = "open"]
            /\ UNCHANGED effect

End(e) == /\ change[e] = "open"
          /\ \E how \in {"committed", "rolled back"} :
                change' = [change EXCEPT ![e] = how]
          /\ UNCHANGED effect

Act(h, e) == /\ change[e] = "committed"
             /\ effect[<<h, e>>] = 0
             /\ effect' = [effect EXCEPT ![<<h, e>>] = 1]
             /\ UNCHANGED change

Next == \E e \in Event : Begin(e) \/ End(e) \/ \E h \in Handler : Act(h, e)

Spec == Init /\ [][Next]_vars
=============================================================================
