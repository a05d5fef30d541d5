----------------------------- MODULE AuditChain -----------------------------
(***************************************************************************)
(* The hash-chained audit log.  record() runs inside the transaction of    *)
(* the change it describes: it takes the log's advisory lock, reads the    *)
(* newest row's hash and inserts a row that chains from it.  The lock and  *)
(* the row stay with the transaction until it ends, and the sequence that  *)
(* numbers the rows does not roll back.  verify() reads the log in batches *)
(* with no transaction around them, while writers go on.                   *)
(*                                                                         *)
(* The hash is taken to be collision free, so the hash of a row is the     *)
(* sequence of the contents chained up to it, and null is the empty one.   *)
(***************************************************************************)
EXTENDS Integers, Sequences, FiniteSets

CONSTANTS Writer,           \* transactions that change something and record it
          Content,          \* what an entry says
          VerifyBatch,      \* rows read at a time (1000 in the code)
          PerTransaction,   \* bound: entries a transaction records
          MaxSeq,           \* bound: sequence numbers drawn
          MaxDamage         \* bound: rows edited, removed or exchanged

ASSUME AuditAssumption ==
    /\ VerifyBatch \in Nat \ {0}
    /\ PerTransaction \in Nat \ {0} /\ MaxSeq \in Nat /\ MaxDamage \in Nat

VARIABLES
    log,        \* the committed rows
    seq,        \* the last sequence number drawn
    tx,         \* per writer: its step, the hash it read and its uncommitted rows
    verifier,   \* the verification under way and its result
    damage      \* ghost: what happened to the rows behind the code's back
vars == <<log, seq, tx, verifier, damage>>

NoTx == [at |-> "idle", last |-> <<>>, rows |-> {}]
NotVerifying == [at |-> "idle", prev |-> <<>>, after |-> 0, checked |-> 0,
                 intact |-> TRUE, before |-> {}, sound |-> TRUE]

Init == /\ log = {} /\ seq = 0
        /\ tx = [w \in Writer |-> NoTx]
        /\ verifier = NotVerifying
        /\ damage = <<>>

chainHash(content, prevHash) == Append(prevHash, content)

Newest(rows) == CHOOSE r \in rows : \A s \in rows : s.seq <= r.seq
HashOfNewest(rows) == IF rows = {} THEN <<>> ELSE Newest(rows).hash
-----------------------------------------------------------------------------
Begin(w) == /\ tx[w].at = "idle" /\ seq < MaxSeq
            /\ tx' = [tx EXCEPT ![w].at = "open"]
            /\ UNCHANGED <<log, seq, verifier, damage>>

\* MUTANT: writers are not serialized
LockNothing(w) == /\ tx[w].at = "open"
                  /\ tx' = [tx EXCEPT ![w].at = "locked"]
                  /\ UNCHANGED <<log, seq, verifier, damage>>
\* Held to the end of the transaction, so its next entry asks again and has it.
Lock(w) == /\ tx[w].at = "open"
           /\ \A v \in Writer : tx[v].at \in {"idle", "open"}
           /\ tx' = [tx EXCEPT ![w].at = "locked"]
           /\ UNCHANGED <<log, seq, verifier, damage>>

ReadLast(w) == /\ tx[w].at \in {"locked", "recorded"}
               /\ Cardinality(tx[w].rows) < PerTransaction
               /\ tx' = [tx EXCEPT ![w].at = "read",
                                   ![w].last = HashOfNewest(log \cup tx[w].rows)]
               /\ UNCHANGED <<log, seq, verifier, damage>>

Entry(w, c) == [seq |-> seq + 1, content |-> c, prevHash |-> tx[w].last,
              hash |-> chainHash(c, tx[w].last)]

Insert(w, c) == /\ tx[w].at = "read" /\ seq < MaxSeq
                /\ seq' = seq + 1
                /\ tx' = [tx EXCEPT ![w].at = "recorded", ![w].rows = @ \cup {Entry(w, c)}]
                /\ UNCHANGED <<log, verifier, damage>>

Commit(w) == /\ tx[w].at \in {"open", "recorded"}
             /\ log' = log \cup tx[w].rows
             /\ tx' = [tx EXCEPT ![w] = NoTx]
             /\ UNCHANGED <<seq, verifier, damage>>

RollBack(w) == /\ tx[w].at # "idle"
               /\ tx' = [tx EXCEPT ![w] = NoTx]
               /\ UNCHANGED <<log, seq, verifier, damage>>
-----------------------------------------------------------------------------
StartVerify ==
    /\ verifier.at \in {"idle", "reported"}
    /\ verifier' = [NotVerifying EXCEPT !.at = "reading", !.before = log,
                                        !.sound = damage = <<>>]
    /\ UNCHANGED <<log, seq, tx, damage>>

\* MUTANT: the cursor steps over a row
BatchAfterNext == LET rest == {r \in log : r.seq > verifier.after + 1}
                  IN  {r \in rest : Cardinality({s \in rest : s.seq < r.seq}) < VerifyBatch}
Batch == LET rest == {r \in log : r.seq > verifier.after}
         IN  {r \in rest : Cardinality({s \in rest : s.seq < r.seq}) < VerifyBatch}

\* The hash the verifier has in hand when it comes to row r of the batch.
Before(r, batch) == LET earlier == {s \in batch : s.seq < r.seq}
                    IN  IF earlier = {} THEN verifier.prev ELSE Newest(earlier).hash

Fits(r, batch) == /\ r.prevHash = Before(r, batch)
                  /\ chainHash(r.content, r.prevHash) = r.hash

Report(result) == verifier' = [verifier EXCEPT !.at = "reported", !.intact = result]

VerifyNextBatch ==
    /\ verifier.at = "reading"
    /\ IF Batch = {} THEN Report(TRUE)
       ELSE IF \E r \in Batch : ~Fits(r, Batch) THEN Report(FALSE)
       ELSE verifier' = [verifier EXCEPT !.prev = Newest(Batch).hash,
                                         !.after = Newest(Batch).seq,
                                         !.checked = @ + Cardinality(Batch)]
    /\ UNCHANGED <<log, seq, tx, damage>>
-----------------------------------------------------------------------------
(* What the chain is there to show: rows changed by something other than   *)
(* record(), such as a restore or a statement run by hand.                 *)

Damage(what) == /\ Len(damage) < MaxDamage
                /\ damage' = Append(damage, what)
                /\ UNCHANGED <<seq, tx, verifier>>

EditRow == \E r \in log : \E c \in Content \ {r.content} :
    /\ log' = (log \ {r}) \cup {[r EXCEPT !.content = c]}
    /\ Damage("edited")
RemoveRow == \E r \in log :
    /\ log' = log \ {r}
    /\ Damage(IF r = Newest(log) THEN "newest removed" ELSE "removed")
ExchangeRows == \E r, s \in log :
    /\ r.seq < s.seq
    /\ log' = (log \ {r, s}) \cup {[r EXCEPT !.seq = s.seq], [s EXCEPT !.seq = r.seq]}
    /\ Damage("exchanged")
-----------------------------------------------------------------------------
Next == \/ \E w \in Writer : \/ Begin(w) \/ Lock(w) \/ ReadLast(w)
                             \/ \E c \in Content : Insert(w, c)
                             \/ Commit(w) \/ RollBack(w)
        \/ StartVerify \/ VerifyNextBatch
        \/ EditRow \/ RemoveRow \/ ExchangeRows

Spec == Init /\ [][Next]_vars
=============================================================================
