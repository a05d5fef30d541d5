---------------------------- MODULE Idempotency ----------------------------
(***************************************************************************)
(* The idempotency interceptor.  An attempt is one HTTP request carrying   *)
(* an Idempotency-Key: a first try, a double click or a client's retry.    *)
(* The whole attempt is one transaction: it takes the advisory lock on     *)
(* (caller, key), looks for a stored response, and runs the handler and    *)
(* stores its response only when there is none it can replay.  A Key here  *)
(* is a (caller, key) pair, and a Request is the method, path and body.    *)
(* The answer of an execution is named by the attempt that executed it.    *)
(***************************************************************************)
EXTENDS Integers, FiniteSets

CONSTANTS Attempt, Key, Request,
          MaxExpiries,      \* bound: times the response of a key expires
          None

ASSUME IdempotencyAssumption == MaxExpiries \in Nat /\ None \notin Attempt

VARIABLES
    attempt,    \* per attempt: where it is, its key and request, what the client got
    store,      \* idempotency_keys: per key the stored request and response, or None
    expiries,   \* per key: times its response expired, which dates the rest
    done        \* ghost: the attempts whose work committed, with that date
vars == <<attempt, store, expiries, done>>

Unsent == [at |-> "unsent", key |-> None, request |-> None,
           answer |-> None, date |-> 0]
NoRow == [request |-> None, answer |-> None, fresh |-> FALSE]

Init == /\ attempt = [a \in Attempt |-> Unsent]
        /\ store = [k \in Key |-> NoRow]
        /\ expiries = [k \in Key |-> 0]
        /\ done = {}

At(a, where) == attempt[a].at = where
KeyOf(a) == attempt[a].key

Send(a, k, req) ==
    /\ At(a, "unsent")
    /\ attempt' = [attempt EXCEPT ![a].at = "waiting", ![a].key = k, ![a].request = req]
    /\ UNCHANGED <<store, expiries, done>>

\* MUTANT: pg_advisory_lock, which a rollback does not release
LockedForSession(k) == \E b \in Attempt :
    KeyOf(b) = k /\ attempt[b].at \in {"locked", "running", "cut off"}
\* pg_advisory_xact_lock: held until the transaction ends.
Locked(k) == \E b \in Attempt : KeyOf(b) = k /\ attempt[b].at \in {"locked", "running"}

\* MUTANT: the lock is not taken
LockNothing(a) == /\ At(a, "waiting")
                  /\ attempt' = [attempt EXCEPT ![a].at = "locked"]
                  /\ UNCHANGED <<store, expiries, done>>
Lock(a) == /\ At(a, "waiting")
           /\ ~Locked(KeyOf(a))
           /\ attempt' = [attempt EXCEPT ![a].at = "locked"]
           /\ UNCHANGED <<store, expiries, done>>

Answer(a, answer) == attempt' = [attempt EXCEPT ![a].at = "answered", ![a].answer = answer,
                                                ![a].date = expiries[KeyOf(a)]]

\* MUTANT: the stored request is not compared
ReplayAnything(a) ==
    /\ At(a, "locked")
    /\ store[KeyOf(a)].fresh
    /\ Answer(a, store[KeyOf(a)].answer)
    /\ UNCHANGED <<store, expiries, done>>
Replay(a) ==
    /\ At(a, "locked")
    /\ store[KeyOf(a)].fresh /\ store[KeyOf(a)].request = attempt[a].request
    /\ Answer(a, store[KeyOf(a)].answer)
    /\ UNCHANGED <<store, expiries, done>>

Refuse(a) ==
    /\ At(a, "locked")
    /\ store[KeyOf(a)].fresh /\ store[KeyOf(a)].request # attempt[a].request
    /\ attempt' = [attempt EXCEPT ![a].at = "refused"]
    /\ UNCHANGED <<store, expiries, done>>

Run(a) == /\ At(a, "locked") /\ ~store[KeyOf(a)].fresh
          /\ attempt' = [attempt EXCEPT ![a].at = "running"]
          /\ UNCHANGED <<store, expiries, done>>

StoredAs(a) == [request |-> attempt[a].request, answer |-> a, fresh |-> TRUE]

\* MUTANT: the handler's work commits before its response is stored
CommitWorkOnly(a) ==
    /\ At(a, "running")
    /\ done' = done \cup {[by |-> a, date |-> expiries[KeyOf(a)]]}
    /\ attempt' = [attempt EXCEPT ![a].at = "cut off"]
    /\ UNCHANGED <<store, expiries>>
\* The handler's writes and the stored response commit together; the answer
\* reaches the client or is lost with the connection or the process.
Commit(a) ==
    /\ At(a, "running")
    /\ done' = done \cup {[by |-> a, date |-> expiries[KeyOf(a)]]}
    /\ store' = [store EXCEPT ![KeyOf(a)] = StoredAs(a)]
    /\ Answer(a, a) \/ attempt' = [attempt EXCEPT ![a].at = "cut off"]
    /\ UNCHANGED expiries

\* The handler refuses, or the process or the connection dies: rolled back.
RollBack(a) == /\ attempt[a].at \in {"waiting", "locked", "running"}
               /\ attempt' = [attempt EXCEPT ![a].at = "cut off"]
               /\ UNCHANGED <<store, expiries, done>>

Expire(k) == /\ store[k].fresh /\ expiries[k] < MaxExpiries
             /\ store' = [store EXCEPT ![k].fresh = FALSE]
             /\ expiries' = [expiries EXCEPT ![k] = @ + 1]
             /\ UNCHANGED <<attempt, done>>

Purge(k) == /\ store[k] # NoRow /\ ~store[k].fresh
            /\ store' = [store EXCEPT ![k] = NoRow]
            /\ UNCHANGED <<attempt, expiries, done>>

Progress(a) == Lock(a) \/ Replay(a) \/ Refuse(a) \/ Run(a) \/ Commit(a)

Next == \/ \E a \in Attempt : \/ \E k \in Key, req \in Request : Send(a, k, req)
                              \/ Progress(a) \/ RollBack(a)
        \/ \E k \in Key : Expire(k) \/ Purge(k)

Spec == Init /\ [][Next]_vars

\* A transaction in progress goes on by itself, and Postgres hands a free lock
\* to an attempt that waits for it.  No fairness is asked of rolling back.
FairSpec == Spec /\ \A a \in Attempt : WF_vars(Progress(a))
=============================================================================
