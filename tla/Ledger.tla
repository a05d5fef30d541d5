------------------------------- MODULE Ledger -------------------------------
(***************************************************************************)
(* What billing promises, with no locks and no transactions: a book in     *)
(* which every entry is one indivisible step.  An invoice owes an amount;  *)
(* a payment takes from it, never more than is owed, and is given the next *)
(* receipt number; an approved discount waives part of it; a reversal puts *)
(* one payment's money back, once.  Billing implements it.                 *)
(***************************************************************************)
EXTENDS Integers

CONSTANTS Invoice, Payment,
          Opening    \* [Invoice -> Nat], what each invoice owes when issued

VARIABLES owed,      \* [Invoice -> Nat]
          entry,     \* [Payment -> the payment as booked]
          issued     \* receipt numbers given out so far

ledgerVars == <<owed, entry, issued>>

Unused == [status |-> "none"]
Entry  == [status : {"posted", "void"}, invoice : Invoice, amount : Nat \ {0}, receipt : Nat \ {0}]

LedgerInit ==
    /\ owed = Opening
    /\ entry = [p \in Payment |-> Unused]
    /\ issued = 0

Receive(i, p, a) ==
    /\ entry[p] = Unused
    /\ a \in 1..owed[i]
    /\ owed' = [owed EXCEPT ![i] = @ - a]
    /\ issued' = issued + 1
    /\ entry' = [entry EXCEPT ![p] =
           [status |-> "posted", invoice |-> i, amount |-> a, receipt |-> issued']]

Waive(i, a) ==
    /\ a \in 1..owed[i]
    /\ owed' = [owed EXCEPT ![i] = @ - a]
    /\ UNCHANGED <<entry, issued>>

Reverse(p) ==
    /\ entry[p].status = "posted"
    /\ owed' = [owed EXCEPT ![entry[p].invoice] = @ + entry[p].amount]
    /\ entry' = [entry EXCEPT ![p].status = "void"]
    /\ UNCHANGED issued

LedgerNext ==
    \/ \E i \in Invoice : \E a \in 1..owed[i] :
           Waive(i, a) \/ \E p \in Payment : Receive(i, p, a)
    \/ \E p \in Payment : Reverse(p)

LedgerSpec == LedgerInit /\ [][LedgerNext]_ledgerVars

=============================================================================
