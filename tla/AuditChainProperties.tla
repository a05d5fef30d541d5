------------------------ MODULE AuditChainProperties ------------------------
EXTENDS AuditChain

AuditRow == [seq : 1..MaxSeq, content : Content, prevHash : Seq(Content), hash : Seq(Content)]

(* Every variable has its type.                                            *)
TypeOK ==
    /\ log \subseteq AuditRow
    /\ seq \in 0..MaxSeq
    /\ tx \in [Writer -> [at : {"idle", "open", "locked", "read", "recorded"},
                          last : Seq(Content), rows : SUBSET AuditRow]]
    /\ verifier \in [at : {"idle", "reading", "reported"}, prev : Seq(Content),
                     after : 0..MaxSeq, checked : 0..MaxSeq, intact : BOOLEAN,
                     before : SUBSET AuditRow, sound : BOOLEAN]
    /\ damage \in Seq({"edited", "removed", "newest removed", "exchanged"})

Predecessor(r) == HashOfNewest({s \in log : s.seq < r.seq})

(* "... serializes writers so the chain never forks" (audit.service 55-56): *)
(* with any number of writers, aborted transactions and transactions that  *)
(* record several entries, every committed row chains from the row before  *)
(* it in sequence order.                                                   *)
ChainNeverForks == damage = <<>> => \A r \in log :
    r.prevHash = Predecessor(r) /\ r.hash = chainHash(r.content, r.prevHash)

(* Checking the log while staff work raises no false alarm: rows become    *)
(* visible in the order of their numbers, so a batch read between two      *)
(* commits still chains (audit.service 138-155).                           *)
NoFalseAlarm == verifier.at = "reported" /\ damage = <<>> => verifier.intact

(* A log reported intact was checked to the end: no row committed before   *)
(* the check began escapes it by having a number the check has passed      *)
(* (audit.service 139-144).                                                *)
ChecksEverything ==
    verifier.at = "reported" /\ verifier.intact /\ damage = <<>>
        => Cardinality(verifier.before) <= verifier.checked

(* An edited row, a removed row that has a successor and two exchanged     *)
(* rows are reported, whatever was appended since (audit.service 132-151). *)
DamageShows ==
    verifier.at = "reported" /\ ~verifier.sound /\ Len(damage) = 1
        /\ damage[1] # "newest removed"
    => ~verifier.intact

(* What an administrator may conclude from a verification of the log, taken together:   *)
(* no false alarm, nothing left out, no damage missed (audit.service 132-156).          *)
VerifierIsRight == NoFalseAlarm /\ ChecksEverything /\ DamageShows
=============================================================================
