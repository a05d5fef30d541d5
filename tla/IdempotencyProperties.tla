----------------------- MODULE IdempotencyProperties -----------------------
EXTENDS Idempotency

Step == {"unsent", "waiting", "locked", "running", "answered", "refused", "cut off"}
AttemptRow == [at : Step, key : Key \cup {None}, request : Request \cup {None},
               answer : Attempt \cup {None}, date : 0..MaxExpiries]
StoreRow == [request : Request \cup {None}, answer : Attempt \cup {None}, fresh : BOOLEAN]

(* Every variable has its type.                                            *)
TypeOK ==
    /\ attempt \in [Attempt -> AttemptRow]
    /\ store \in [Key -> StoreRow]
    /\ expiries \in [Key -> 0..MaxExpiries]
    /\ done \subseteq [by : Attempt, date : 0..MaxExpiries]

(* However a request is repeated, and wherever its attempts are cut off,   *)
(* its work commits at most once while the key lasts                       *)
(* (idempotency.interceptor 27-34, 82-105).                                *)
WorkedOnce == \A d, e \in done :
    KeyOf(d.by) = KeyOf(e.by) /\ d.date = e.date => d = e

(* "The stored response exists exactly when the work committed"            *)
(* (idempotency.interceptor 32): a fresh row is the answer of work that    *)
(* committed since the key last expired, and such work has a fresh row.    *)
StoredIffDone == \A k \in Key :
    /\ store[k].fresh => [by |-> store[k].answer, date |-> expiries[k]] \in done
    /\ \A d \in done : KeyOf(d.by) = k /\ d.date = expiries[k]
                        => store[k] = StoredAs(d.by)

(* A client that retries is told what happened to the very request it      *)
(* sent: an answer comes from committed work of the same request under the *)
(* same key, and every retry of the key's lifetime gets the same answer    *)
(* (idempotency.interceptor 92-105).                                       *)
AnswersAgree == \A a \in Attempt : At(a, "answered") =>
    /\ [by |-> attempt[a].answer, date |-> attempt[a].date] \in done
    /\ attempt[attempt[a].answer].request = attempt[a].request
    /\ \A b \in Attempt :
         At(b, "answered") /\ KeyOf(b) = KeyOf(a) /\ attempt[b].date = attempt[a].date
            => attempt[b].answer = attempt[a].answer

(* Every attempt gets an answer, a refusal or an error: waiting for the    *)
(* lock of a key does not last for ever (idempotency.interceptor 83-85).   *)
EveryAttemptEnds == \A a \in Attempt :
    At(a, "waiting") ~> attempt[a].at \in {"answered", "refused", "cut off"}
=============================================================================
