-------------------------- MODULE BillingProperties --------------------------
(***************************************************************************)
(* What is asked of Billing, and the ledger it implements.                 *)
(***************************************************************************)
EXTENDS Billing

PayingTx(i) ==
    [step : {"allocated"}, invoice : {i}, amount : Amount, take : Shares(i), seen : Parts(i)]
    \cup [step : {"numbered"}, invoice : {i}, amount : Amount, take : Shares(i),
          seen : Parts(i), receipt : Nat \ {0}]
ApprovingTx(i) ==
    [step : {"discounted"}, request : Request, by : User, invoice : {i}, amount : Nat,
     seen : Parts(i)]
    \cup [step : {"reversed"}, request : Request, by : User, invoice : {i},
          payment : Payment, seen : Parts(i)]
RequestTx ==
    [step : {"asking"}, by : User, what : Discount \cup Void]
    \cup [step : {"deciding"}, request : Request, by : User, decision : {"approve", "reject"}]

TypeOK ==
    /\ DOMAIN parts = Invoice /\ \A i \in Invoice : parts[i] \in Parts(i)
    /\ DOMAIN invoice = Invoice
    /\ \A i \in Invoice : invoice[i].status \in {"issued", "partially_paid", "paid"}
    /\ DOMAIN payment = Payment
    /\ \A p \in Payment : payment[p] = NoPayment \/ \E i \in Invoice : payment[p] \in PaymentOf(i)
    /\ request \in [Request -> RequestRow]
    /\ discount \in [Request -> Seq(Nat)]
    /\ counter \in Nat
    /\ invoiceLock \in [Invoice -> Worker \cup {NoOne}]
    /\ requestLock \in [Request -> Worker \cup {NoOne}]
    /\ seriesLock \in Worker \cup {NoOne}
    /\ DOMAIN tx = Worker
    /\ \A w \in Worker :
           \/ tx[w] = Idle
           \/ tx[w] \in RequestTx
           \/ \E i \in Invoice : tx[w] \in PayingTx(i) \cup ApprovingTx(i)

-----------------------------------------------------------------------------
PostedOn(i) == {p \in Payment : payment[p] # NoPayment
                                /\ payment[p].status = "posted" /\ payment[p].invoice = i}
DiscountsOf(i) == {r \in Request : discount[r] # <<>> /\ request[r].what.invoice = i}

(* The totals and the status stored on an invoice are those its            *)
(* instalments come to (settle, called last by payments.record,            *)
(* voidPayment and applyDiscount).                                         *)
TotalsSettled == \A i \in Invoice : invoice[i] = SettledRow(i, parts[i])

(* Two clerks, a void and a discount may work on one invoice at once: the  *)
(* totals stored on it are always those of its instalments, the paid       *)
(* amounts are those of the payments still posted, and what was taken off  *)
(* the fee is what the discounts say (payments.record, voidPayment,        *)
(* applyDiscount, settle).                                                 *)
BooksBalance ==
    /\ TotalsSettled
    /\ \A i \in Invoice :
        /\ \A k \in DOMAIN parts[i] :
               parts[i][k].paid =
                   SumFunction([p \in PostedOn(i) |-> payment[p].take[k]])
        /\ invoice[i].discountTotal =
               SumFunction([r \in DiscountsOf(i) |-> SumFunction(discount[r])])

(* No interleaving of payments, voids and discounts makes an instalment    *)
(* carry more than it asks for: installments_paid_check is never what      *)
(* stops a transaction (payments.record and applyDiscount read under the   *)
(* invoice's lock).                                                        *)
NoInstalmentOverpaid ==
    \A i \in Invoice : \A k \in DOMAIN parts[i] : parts[i][k].paid <= parts[i][k].amount

(* Receipt numbers run 1, 2, 3... with no hole and no repeat, whatever     *)
(* aborts after its number was taken and whatever is voided later          *)
(* (numbering.next in the transaction of payments.record).                 *)
Receipted == {p \in Payment : payment[p] # NoPayment}
ReceiptsGapless ==
    /\ {payment[p].receipt : p \in Receipted} = 1..counter
    /\ \A p, q \in Receipted : payment[p].receipt = payment[q].receipt => p = q

(* Maker and checker: a payment is void exactly when one approved request, *)
(* decided by someone other than who asked, says so, and a discount has    *)
(* been written exactly once for each approved one and for no other        *)
(* (approvals.decide makes the change in its own transaction).             *)
ApprovedVoids(p) == {r \in Request : /\ request[r] # NoRequest
                                     /\ request[r].status = "approved"
                                     /\ request[r].what.type = "payment_void"
                                     /\ request[r].what.payment = p}
FourEyes ==
    /\ \A p \in Receipted :
           IF payment[p].status = "void" THEN Cardinality(ApprovedVoids(p)) = 1
                                         ELSE ApprovedVoids(p) = {}
    /\ \A r \in Request :
           Len(discount[r]) = IF /\ request[r] # NoRequest
                                 /\ request[r].status = "approved"
                                 /\ request[r].what.type = "discount"
                              THEN 1 ELSE 0
    /\ \A r \in Request : request[r] # NoRequest /\ request[r].status # "pending" =>
           request[r].decidedBy \in User \ {request[r].by}

(* What an open transaction is about to commit is still right when it      *)
(* commits: it holds the rows it has read, and nothing that happened since *)
(* has taken away the money it allocates, the amount it cuts, the payment  *)
(* it reverses or the number it was given (invoices.lock: "everything that *)
(* moves money on an invoice does this first").                            *)
PayingIsCurrent(w) ==
    LET i == tx[w].invoice
    IN  /\ invoiceLock[i] = w
        /\ \A k \in DOMAIN parts[i] : tx[w].take[k] <= parts[i][k].amount - parts[i][k].paid
        /\ tx[w].seen = AfterPayment(parts[i], tx[w].take)
        /\ tx[w].step = "numbered" => seriesLock = w /\ tx[w].receipt = counter + 1

DecidingIsCurrent(w) ==
    LET r == tx[w].request
    IN  /\ requestLock[r] = w
        /\ request[r].status = "pending"
        /\ tx[w].by # request[r].by

DiscountIsCurrent(w) ==
    LET i == tx[w].invoice
    IN  /\ invoiceLock[i] = w
        /\ request[tx[w].request].what.type = "discount"
        /\ \A k \in DOMAIN parts[i] : /\ parts[i][k].paid <= tx[w].seen[k].amount
                                      /\ parts[i][k].paid = tx[w].seen[k].paid

VoidIsCurrent(w) ==
    LET i == tx[w].invoice
        p == tx[w].payment
    IN  /\ invoiceLock[i] = w
        /\ request[tx[w].request].what = [type |-> "payment_void", payment |-> p]
        /\ payment[p].status = "posted" /\ payment[p].invoice = i
        /\ tx[w].seen = AfterVoid(parts[i], payment[p].take)

IsCurrent(w) ==
    /\ tx[w].step \in {"allocated", "numbered"} => PayingIsCurrent(w)
    /\ tx[w].step \in {"deciding", "discounted", "reversed"} => DecidingIsCurrent(w)
    /\ tx[w].step = "discounted" => DiscountIsCurrent(w)
    /\ tx[w].step = "reversed" => VoidIsCurrent(w)

WorkIsCurrent == \A w \in Worker : IsCurrent(w)

(* What is written stays written: a payment only ever turns void, keeping  *)
(* its amount, split and receipt number; a decided request never changes   *)
(* and nothing more is written under it; numbers are never handed back     *)
(* (the immutability triggers of 0008_billing.sql are never reached).      *)
HistoryIsFinal ==
    [][/\ \A p \in Payment : payment[p] # NoPayment =>
              payment'[p] \in {payment[p], [payment[p] EXCEPT !.status = "void"]}
       /\ \A r \in Request : request[r] # NoRequest /\ request[r].status # "pending" =>
              request'[r] = request[r] /\ discount'[r] = discount[r]
       /\ counter' >= counter]_vars

(* Every transaction ends: no two workers wait for each other's locks, and *)
(* a refused approval gives its lock back.                                 *)
TransactionsEnd == \A w \in Worker : (tx[w] # Idle) ~> (tx[w] = Idle)

-----------------------------------------------------------------------------
(* The ledger seen through the committed tables. *)
BookedAs(p) ==
    IF payment[p] = NoPayment THEN [status |-> "none"]
    ELSE [status |-> payment[p].status, invoice |-> payment[p].invoice,
          amount |-> payment[p].amount, receipt |-> payment[p].receipt]

Book == INSTANCE Ledger WITH
            Opening <- [i \in Invoice |-> Subtotal(i)],
            owed    <- [i \in Invoice |-> Balance(i)],
            entry   <- [p \in Payment |-> BookedAs(p)],
            issued  <- counter

(* Each commit is one step of the ledger and everything else is invisible  *)
(* in it: balances move by exactly the amounts booked.                     *)
ImplementsLedger == Book!LedgerSpec

=============================================================================
