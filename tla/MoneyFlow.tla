------------------------------ MODULE MoneyFlow ------------------------------
(***************************************************************************)
(* The arithmetic of an invoice: modules/billing/domain/money-flow.ts and  *)
(* the split of contracts/money.ts it calls.                               *)
(*                                                                         *)
(* An invoice's instalments are a function from 1..n to records            *)
(* [amount, paid].  The number of an instalment is its place in the order  *)
(* byDueDate: a plan's due offsets never decrease with the sequence        *)
(* (contracts/billing.ts's planIsValid) and due dates are immutable, so the sort   *)
(* the code repeats on every call never changes the order of sequences.    *)
(* Money is a whole number of minor units.                                 *)
(***************************************************************************)
EXTENDS Integers, Sequences, Functions

Smaller(a, b) == IF a <= b THEN a ELSE b

(* What instalment k still owes. *)
Owed(parts) == [k \in DOMAIN parts |-> parts[k].amount - parts[k].paid]

AmountOf(parts) == SumFunction([k \in DOMAIN parts |-> parts[k].amount])
PaidOf(parts)   == SumFunction([k \in DOMAIN parts |-> parts[k].paid])

(* Mutant: the leftover dropped. *)
SplitDroppingLeftover(total, shares) ==
    [k \in DOMAIN shares |-> (total * shares[k]) \div 10000]

(***************************************************************************)
(* splitByBasisPoints: every share rounded down, the leftover to the last. *)
(***************************************************************************)
SplitByBasisPoints(total, shares) ==
    LET floors == [k \in DOMAIN shares |-> (total * shares[k]) \div 10000]
        last   == Len(shares)
    IN  [floors EXCEPT ![last] = @ + (total - SumFunction(floors))]

(* buildInstallments: the parts of a new invoice, nothing paid yet. *)
BuildInstallments(total, shares) ==
    LET split == SplitByBasisPoints(total, shares)
    IN  [k \in DOMAIN shares |-> [amount |-> split[k], paid |-> 0]]

(***************************************************************************)
(* allocatePayment, as the loop runs: left[k] is what is left of the       *)
(* payment after instalments 1..k have taken what they owe.                *)
(***************************************************************************)
AllocatePayment(parts, amount) ==
    LET owed == Owed(parts)
        left[k \in 0..Len(parts)] ==
            IF k = 0 THEN amount
                     ELSE left[k - 1] - Smaller(left[k - 1], owed[k])
    IN  [take      |-> [k \in DOMAIN parts |-> left[k - 1] - left[k]],
         remainder |-> left[Len(parts)]]

(***************************************************************************)
(* applyDiscount: the same loop from the last instalment to the first.     *)
(* The caller has checked that nothing is left over (invoices.service.ts   *)
(* :337); `rest' is what the code would throw on.                          *)
(***************************************************************************)
CutDiscount(parts, amount) ==
    LET owed == Owed(parts)
        n    == Len(parts)
        left[k \in 1..(n + 1)] ==
            IF k = n + 1 THEN amount
                         ELSE left[k + 1] - Smaller(left[k + 1], owed[k])
    IN  [cut  |-> [k \in DOMAIN parts |-> left[k + 1] - left[k]],
         rest |-> left[1]]

(* What a discount comes to on the invoice's current total. *)
DiscountAmount(kind, value, currentTotal) ==
    IF kind = "fixed" THEN value ELSE (currentTotal * value) \div 10000

InvoiceStatusFor(total, paid) ==
    IF paid >= total THEN "paid"
    ELSE IF paid > 0 THEN "partially_paid"
    ELSE "issued"

(***************************************************************************)
(* The same two functions by what they promise instead of by their loop.   *)
(* A payment is split oldest first: an instalment takes nothing while an   *)
(* earlier one still owes.  A discount is cut latest first.  The set is    *)
(* empty exactly when the amount is more than what is owed.  MoneyFlowRun  *)
(* compares these with the loops; Billing uses them.                       *)
(***************************************************************************)
PaymentSplits(parts, amount) ==
    LET owed == Owed(parts)
    IN  {take \in [DOMAIN parts -> 0..amount] :
            /\ \A k \in DOMAIN parts : take[k] <= owed[k]
            /\ \A j, k \in DOMAIN parts :
                   j < k /\ take[k] > 0 => take[j] = owed[j]
            /\ SumFunction(take) = amount}

DiscountCuts(parts, amount) ==
    LET owed == Owed(parts)
    IN  {cut \in [DOMAIN parts -> 0..amount] :
            /\ \A k \in DOMAIN parts : cut[k] <= owed[k]
            /\ \A j, k \in DOMAIN parts :
                   j < k /\ cut[j] > 0 => cut[k] = owed[k]
            /\ SumFunction(cut) = amount}

=============================================================================
