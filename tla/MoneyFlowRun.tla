---------------------------- MODULE MoneyFlowRun ----------------------------
(***************************************************************************)
(* One invoice, one caller: the pure functions of MoneyFlow applied over   *)
(* and over, from every plan and total, to the states a real invoice goes  *)
(* through.  The callers' checks (payments.service.ts:181-185,             *)
(* invoices.service.ts:332-337) guard each step.  Billing has the same     *)
(* steps with concurrent callers; this module is where the loops of the    *)
(* code are compared with what they promise.                               *)
(***************************************************************************)
EXTENDS MoneyFlow, FiniteSets

CONSTANTS Totals,     \* the fee totals an invoice may start from
          Plans,      \* payment plans: shares in basis points that add up to 10000
          MaxPayment, \* the largest amount offered in one payment
          Discounts   \* <<kind, value>> pairs that may be asked for

VARIABLES parts,    \* the instalments
          subtotal, \* the fee before discounts
          received, \* what has been paid in
          waived    \* what has been discounted
vars == <<parts, subtotal, received, waived>>

Init == \E total \in Totals, plan \in Plans :
            /\ parts = BuildInstallments(total, plan)
            /\ subtotal = total
            /\ received = 0
            /\ waived = 0

Open == InvoiceStatusFor(AmountOf(parts), PaidOf(parts)) # "paid"

Pay(amount) ==
    /\ Open
    /\ LET split == AllocatePayment(parts, amount)
       IN  /\ split.remainder = 0
           /\ parts' = [k \in DOMAIN parts |->
                           [parts[k] EXCEPT !.paid = @ + split.take[k]]]
    /\ received' = received + amount
    /\ UNCHANGED <<subtotal, waived>>

Discount(kind, value) ==
    LET amount == DiscountAmount(kind, value, AmountOf(parts))
    IN  /\ Open
        /\ amount >= 1
        /\ amount <= AmountOf(parts) - PaidOf(parts)
        /\ parts' = [k \in DOMAIN parts |->
                        [parts[k] EXCEPT !.amount = @ - CutDiscount(parts, amount).cut[k]]]
        /\ waived' = waived + amount
        /\ UNCHANGED <<subtotal, received>>

Next == \/ \E amount \in 1..MaxPayment : Pay(amount)
        \/ \E d \in Discounts : Discount(d[1], d[2])

Spec == Init /\ [][Next]_vars

-----------------------------------------------------------------------------
(* Not a santim is lost or made: the instalments always add up to the fee  *)
(* less the discounts and carry exactly what was received, each between    *)
(* nothing and what it asks for, however the shares round                  *)
(* (splitByBasisPoints' leftover, a percentage's floor).                   *)
NothingLostToRounding ==
    /\ \A k \in DOMAIN parts : 0 <= parts[k].paid /\ parts[k].paid <= parts[k].amount
    /\ AmountOf(parts) = subtotal - waived
    /\ PaidOf(parts) = received

(* Paid instalments run from the front, untouched ones to the back: a      *)
(* payment finishes the oldest instalment before it starts the next, and   *)
(* no discount ever breaks that order.                                     *)
PaidFromTheFront ==
    \A j, k \in DOMAIN parts :
        j < k /\ parts[k].paid > 0 => parts[j].paid = parts[j].amount

(* allocatePayment and the promise agree on every amount: the loop returns *)
(* the only oldest-first split there is, and leaves a remainder exactly    *)
(* when there is none (the overpayment the caller refuses).                *)
LoopKeepsPaymentPromise ==
    \A amount \in 1..MaxPayment :
        LET split == AllocatePayment(parts, amount)
        IN  PaymentSplits(parts, amount) =
                IF split.remainder = 0 THEN {split.take} ELSE {}

(* The same for applyDiscount, latest first: the `throw' at the end of the *)
(* loop is reached exactly when the caller's check would have refused.     *)
LoopKeepsDiscountPromise ==
    \A amount \in 1..MaxPayment :
        LET down == CutDiscount(parts, amount)
        IN  /\ DiscountCuts(parts, amount) =
                   IF down.rest = 0 THEN {down.cut} ELSE {}
            /\ down.rest = 0 <=> amount <= AmountOf(parts) - PaidOf(parts)

(* The arithmetic of money-flow.ts, taken together.                        *)
MoneyIsExact ==
    /\ NothingLostToRounding /\ PaidFromTheFront
    /\ LoopKeepsPaymentPromise /\ LoopKeepsDiscountPromise

=============================================================================
