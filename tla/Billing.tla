------------------------------- MODULE Billing -------------------------------
(***************************************************************************)
(* Payments, discounts and voids on issued invoices, as database           *)
(* transactions of concurrent request handlers: modules/billing.           *)
(*                                                                         *)
(* A worker is an API process handling one request in one READ COMMITTED   *)
(* transaction.  What it has written is kept in tx[w] and reaches the      *)
(* tables in one Commit step; Abort (an error, a lost connection, a killed *)
(* process) drops it.  A row lock (FOR UPDATE, or the counter row of the   *)
(* receipt series) is held from the step that takes it until the end of    *)
(* the transaction; a worker that needs a lock another one holds waits,    *)
(* that is, its step is not enabled.  A request refused before it holds    *)
(* anything changes nothing and is no step.                                *)
(***************************************************************************)
EXTENDS MoneyFlow, FiniteSets

CONSTANTS Invoice,  \* issued invoices
          Payment,  \* ids of payment rows
          Request,  \* ids of approval_requests rows
          User,     \* members of staff
          Worker,   \* request handlers
          NoOne,    \* neither a worker nor a user
          Fee,      \* Fee[i] : the instalments invoice i was issued with
          Amount,   \* the amounts a clerk may enter
          Terms     \* the discounts that may be asked for

ASSUME NoOneIsNobody == NoOne \notin Worker \cup User
ASSUME FeesAreIssued ==
    \A i \in Invoice : Fee[i] \in Seq(Nat) /\ SumFunction(Fee[i]) > 0
ASSUME AmountsArePositive == Amount \subseteq Nat \ {0}
ASSUME TermsAreDiscounts ==
    \A t \in Terms : /\ t.kind \in {"fixed", "percent"}
                     /\ t.value \in Nat \ {0}

VARIABLES parts,       \* installments: [amount, paid] of each part of an invoice
          invoice,     \* invoices: total, paidTotal, discountTotal, status
          payment,     \* payments, with their allocations and receipt
          request,     \* approval_requests
          discount,    \* discounts: the amounts of the rows written under a request
          counter,     \* number_counters: last receipt number given out
          invoiceLock, \* who holds the row lock of an invoice
          requestLock, \* who holds the row lock of an approval request
          seriesLock,  \* who holds the counter row of the receipt series
          tx           \* what each worker's open transaction has done

tables == <<parts, invoice, payment, request, discount, counter>>
locks  == <<invoiceLock, requestLock, seriesLock>>
vars   == <<parts, invoice, payment, request, discount, counter,
            invoiceLock, requestLock, seriesLock, tx>>

-----------------------------------------------------------------------------
(* Rows.                                                                   *)

Subtotal(i) == SumFunction(Fee[i])

Parts(i)    == [DOMAIN Fee[i] -> [amount : Int, paid : Int]]
Shares(i)   == [DOMAIN Fee[i] -> Nat]

NoPayment == [status |-> "none"]
NoRequest == [status |-> "none"]
Idle      == [step |-> "idle"]

Discount == [type : {"discount"}, invoice : Invoice, terms : Terms]
Void     == [type : {"payment_void"}, payment : Payment]

PaymentOf(i) == [status : {"posted", "void"}, invoice : {i}, amount : Amount,
                 take : Shares(i), receipt : Nat \ {0}]
RequestRow == {NoRequest} \cup
              [status : {"pending", "approved", "rejected"}, what : Discount \cup Void,
               by : User, decidedBy : User \cup {NoOne}]

(* invoices.settle: the row recomputed from the instalments the transaction sees. *)
SettledRow(i, seen) ==
    [total         |-> AmountOf(seen),
     paidTotal     |-> PaidOf(seen),
     discountTotal |-> Subtotal(i) - AmountOf(seen),
     status        |-> InvoiceStatusFor(AmountOf(seen), PaidOf(seen))]

IsOpen(i)  == invoice[i].status # "paid"
Balance(i) == invoice[i].total - invoice[i].paidTotal

(* What each kind of change does to the instalments. *)
AfterPayment(ps, take) == [k \in DOMAIN ps |-> [ps[k] EXCEPT !.paid = @ + take[k]]]
AfterVoid(ps, take)    == [k \in DOMAIN ps |-> [ps[k] EXCEPT !.paid = @ - take[k]]]
AfterDiscount(ps, cut) == [k \in DOMAIN ps |-> [ps[k] EXCEPT !.amount = @ - cut[k]]]
NewAmounts(ps, seen)   == [k \in DOMAIN ps |-> [ps[k] EXCEPT !.amount = seen[k].amount]]

-----------------------------------------------------------------------------
(* An invoice as invoices.create leaves it: nothing paid, status issued.   *)
Issued(i) == [k \in DOMAIN Fee[i] |-> [amount |-> Fee[i][k], paid |-> 0]]

Init ==
    /\ parts = [i \in Invoice |-> Issued(i)]
    /\ invoice = [i \in Invoice |-> SettledRow(i, Issued(i))]
    /\ payment = [p \in Payment |-> NoPayment]
    /\ request = [r \in Request |-> NoRequest]
    /\ discount = [r \in Request |-> <<>>]
    /\ counter = 0
    /\ invoiceLock = [i \in Invoice |-> NoOne]
    /\ requestLock = [r \in Request |-> NoOne]
    /\ seriesLock = NoOne
    /\ tx = [w \in Worker |-> Idle]

(* The end of a transaction, committed or not, frees its locks. *)
Release(w) ==
    /\ invoiceLock' = [i \in Invoice |-> IF invoiceLock[i] = w THEN NoOne ELSE invoiceLock[i]]
    /\ requestLock' = [r \in Request |-> IF requestLock[r] = w THEN NoOne ELSE requestLock[r]]
    /\ seriesLock' = IF seriesLock = w THEN NoOne ELSE seriesLock
    /\ tx' = [tx EXCEPT ![w] = Idle]

-----------------------------------------------------------------------------
(* payments.record                                                         *)

(* The bounds of the model: a payment or a request is started only while a *)
(* row id is left for it (the program's ids are fresh uuids).              *)
IdLeft ==
    Cardinality({v \in Worker : tx[v].step \in {"allocated", "numbered"}})
        < Cardinality({p \in Payment : payment[p] = NoPayment})

RequestIdLeft ==
    Cardinality({v \in Worker : tx[v].step = "asking"})
        < Cardinality({r \in Request : request[r] = NoRequest})

(* Mutants: two clerks allocate from one balance; an overpayment is cut    *)
(* down to what is owed but booked in full.                                *)
AllocateUnlocked(w, i, a) ==
    /\ tx[w] = Idle
    /\ IsOpen(i)
    /\ IdLeft
    /\ \E take \in PaymentSplits(parts[i], a) :
           tx' = [tx EXCEPT ![w] =
                     [step |-> "allocated", invoice |-> i, amount |-> a, take |-> take,
                      seen |-> AfterPayment(parts[i], take)]]
    /\ invoiceLock' = [invoiceLock EXCEPT ![i] = w]
    /\ UNCHANGED <<tables, requestLock, seriesLock>>
AllocateKeepingChange(w, i, a) ==
    /\ tx[w] = Idle
    /\ invoiceLock[i] = NoOne
    /\ IsOpen(i)
    /\ IdLeft
    /\ \E take \in PaymentSplits(parts[i], Smaller(a, Balance(i))) :
           tx' = [tx EXCEPT ![w] =
                     [step |-> "allocated", invoice |-> i, amount |-> a, take |-> take,
                      seen |-> AfterPayment(parts[i], take)]]
    /\ invoiceLock' = [invoiceLock EXCEPT ![i] = w]
    /\ UNCHANGED <<tables, requestLock, seriesLock>>

(* Lock the invoice; refuse a paid one; split the amount over the          *)
(* instalments (no split: overpayment, refused); write and settle.         *)
LockAndAllocate(w, i, a) ==
    /\ tx[w] = Idle
    /\ invoiceLock[i] = NoOne
    /\ IsOpen(i)
    /\ IdLeft
    /\ \E take \in PaymentSplits(parts[i], a) :
           tx' = [tx EXCEPT ![w] =
                     [step |-> "allocated", invoice |-> i, amount |-> a, take |-> take,
                      seen |-> AfterPayment(parts[i], take)]]
    /\ invoiceLock' = [invoiceLock EXCEPT ![i] = w]
    /\ UNCHANGED <<tables, requestLock, seriesLock>>

(* Mutant: no lock on the counter. *)
TakeNumberUnlocked(w) ==
    /\ tx[w].step = "allocated"
    /\ tx' = [tx EXCEPT ![w] =
                 [step |-> "numbered", invoice |-> tx[w].invoice, amount |-> tx[w].amount,
                  take |-> tx[w].take, seen |-> tx[w].seen, receipt |-> counter + 1]]
    /\ UNCHANGED <<tables, locks>>

(* numbering.next('receipt'): bump the counter row, keeping its lock. *)
TakeReceiptNumber(w) ==
    /\ tx[w].step = "allocated"
    /\ seriesLock = NoOne
    /\ seriesLock' = w
    /\ tx' = [tx EXCEPT ![w] =
                 [step |-> "numbered", invoice |-> tx[w].invoice, amount |-> tx[w].amount,
                  take |-> tx[w].take, seen |-> tx[w].seen, receipt |-> counter + 1]]
    /\ UNCHANGED <<tables, invoiceLock, requestLock>>

CommitPayment(w) ==
    /\ tx[w].step = "numbered"
    /\ \E p \in Payment :
           /\ payment[p] = NoPayment
           /\ payment' = [payment EXCEPT ![p] =
                 [status |-> "posted", invoice |-> tx[w].invoice, amount |-> tx[w].amount,
                  take |-> tx[w].take, receipt |-> tx[w].receipt]]
    /\ LET i == tx[w].invoice
       IN  /\ parts' = [parts EXCEPT ![i] = AfterPayment(parts[i], tx[w].take)]
           /\ invoice' = [invoice EXCEPT ![i] = SettledRow(i, tx[w].seen)]
    /\ counter' = tx[w].receipt
    /\ Release(w)
    /\ UNCHANGED <<request, discount>>

-----------------------------------------------------------------------------
(* approvals.requestDiscount, approvals.requestVoid.  They lock nothing,   *)
(* so what they read may have changed when they insert; the partial unique *)
(* index approval_requests_one_pending_key allows one pending request for  *)
(* each type and subject.                                                  *)

ReadAndAsk(w, u, what) ==
    /\ tx[w] = Idle
    /\ RequestIdLeft
    /\ tx' = [tx EXCEPT ![w] = [step |-> "asking", by |-> u, what |-> what]]
    /\ UNCHANGED <<tables, locks>>

RequestDiscount(w, u, i, t) ==
    /\ IsOpen(i)
    /\ DiscountAmount(t.kind, t.value, invoice[i].total) \in 1..Balance(i)
    /\ ReadAndAsk(w, u, [type |-> "discount", invoice |-> i, terms |-> t])

RequestVoid(w, u, p) ==
    /\ payment[p].status = "posted"
    /\ ReadAndAsk(w, u, [type |-> "payment_void", payment |-> p])

SameSubject(a, b) ==
    /\ a.type = b.type
    /\ IF a.type = "discount" THEN a.invoice = b.invoice ELSE a.payment = b.payment

PendingFor(what) ==
    {r \in Request : /\ request[r].status = "pending"
                     /\ SameSubject(request[r].what, what)}

CommitRequest(w) ==
    /\ tx[w].step = "asking"
    /\ PendingFor(tx[w].what) = {}
    /\ \E r \in Request :
           /\ request[r] = NoRequest
           /\ request' = [request EXCEPT ![r] =
                 [status |-> "pending", what |-> tx[w].what, by |-> tx[w].by,
                  decidedBy |-> NoOne]]
    /\ Release(w)
    /\ UNCHANGED <<parts, invoice, payment, discount, counter>>

(* requestPending: the insert ran into the unique index. *)
RefuseRequest(w) ==
    /\ tx[w].step = "asking"
    /\ PendingFor(tx[w].what) # {}
    /\ Release(w)
    /\ UNCHANGED tables

-----------------------------------------------------------------------------
(* approvals.decide                                                        *)

(* Mutant: no check of who asked. *)
LockOwnRequest(w, r, u, decision) ==
    /\ tx[w] = Idle
    /\ requestLock[r] = NoOne
    /\ request[r].status = "pending"
    /\ requestLock' = [requestLock EXCEPT ![r] = w]
    /\ tx' = [tx EXCEPT ![w] =
                 [step |-> "deciding", request |-> r, by |-> u, decision |-> decision]]
    /\ UNCHANGED <<tables, invoiceLock, seriesLock>>

(* Lock the request row; refuse a decided request and one's own.           *)
LockRequest(w, r, u, decision) ==
    /\ tx[w] = Idle
    /\ requestLock[r] = NoOne
    /\ request[r].status = "pending"
    /\ request[r].by # u
    /\ requestLock' = [requestLock EXCEPT ![r] = w]
    /\ tx' = [tx EXCEPT ![w] =
                 [step |-> "deciding", request |-> r, by |-> u, decision |-> decision]]
    /\ UNCHANGED <<tables, invoiceLock, seriesLock>>

Approving(w, type) ==
    /\ tx[w].step = "deciding"
    /\ tx[w].decision = "approve"
    /\ request[tx[w].request].what.type = type

(* What the discount asked for in r comes to today. *)
AmountNow(r) ==
    LET what == request[r].what
    IN  DiscountAmount(what.terms.kind, what.terms.value, invoice[what.invoice].total)

DiscountIsDue(r) ==
    LET i == request[r].what.invoice
    IN  /\ IsOpen(i)
        /\ AmountNow(r) \in Nat \ {0}
        /\ AmountNow(r) <= Balance(i)

(* invoices.applyDiscount, called by decide in the same transaction. *)
ApplyDiscount(w) ==
    /\ Approving(w, "discount")
    /\ LET r == tx[w].request
           i == request[r].what.invoice
       IN  /\ invoiceLock[i] = NoOne
           /\ DiscountIsDue(r)
           /\ invoiceLock' = [invoiceLock EXCEPT ![i] = w]
           /\ \E cut \in DiscountCuts(parts[i], AmountNow(r)) :
                  tx' = [tx EXCEPT ![w] =
                     [step |-> "discounted", request |-> r, by |-> tx[w].by, invoice |-> i,
                      amount |-> AmountNow(r), seen |-> AfterDiscount(parts[i], cut)]]
    /\ UNCHANGED <<tables, requestLock, seriesLock>>

(* Mutant: the case of an invoice paid in the meantime forgotten. *)
RefuseLargeDiscount(w) ==
    /\ Approving(w, "discount")
    /\ invoiceLock[request[tx[w].request].what.invoice] = NoOne
    /\ IsOpen(request[tx[w].request].what.invoice)
    /\ ~ DiscountIsDue(tx[w].request)
    /\ Release(w)
    /\ UNCHANGED tables

(* invoiceClosed, discountTooSmall, discountTooLarge: rolled back, and the *)
(* request stays pending.                                                  *)
RefuseDiscount(w) ==
    /\ Approving(w, "discount")
    /\ invoiceLock[request[tx[w].request].what.invoice] = NoOne
    /\ ~ DiscountIsDue(tx[w].request)
    /\ Release(w)
    /\ UNCHANGED tables

(* payments.voidPayment: the payment is read again once the invoice is locked. *)
VoidPayment(w) ==
    /\ Approving(w, "payment_void")
    /\ LET r == tx[w].request
           p == request[r].what.payment
           i == payment[p].invoice
       IN  /\ invoiceLock[i] = NoOne
           /\ payment[p].status = "posted"
           /\ invoiceLock' = [invoiceLock EXCEPT ![i] = w]
           /\ tx' = [tx EXCEPT ![w] =
                 [step |-> "reversed", request |-> r, by |-> tx[w].by, invoice |-> i,
                  payment |-> p, seen |-> AfterVoid(parts[i], payment[p].take)]]
    /\ UNCHANGED <<tables, requestLock, seriesLock>>

RefuseVoid(w) ==
    /\ Approving(w, "payment_void")
    /\ LET p == request[tx[w].request].what.payment
       IN  /\ invoiceLock[payment[p].invoice] = NoOne
           /\ payment[p].status # "posted"
    /\ Release(w)
    /\ UNCHANGED tables

(* updateWithVersion: the row must still be at the version that was read; *)
(* deciding is all that ever changes it.                                   *)
Decided(w, status) ==
    /\ request[tx[w].request].status = "pending"
    /\ request' = [request EXCEPT ![tx[w].request].status = status,
                                  ![tx[w].request].decidedBy = tx[w].by]

CommitDiscount(w) ==
    /\ tx[w].step = "discounted"
    /\ LET i == tx[w].invoice
       IN  /\ parts' = [parts EXCEPT ![i] = NewAmounts(parts[i], tx[w].seen)]
           /\ invoice' = [invoice EXCEPT ![i] = SettledRow(i, tx[w].seen)]
    /\ discount' = [discount EXCEPT ![tx[w].request] = Append(@, tx[w].amount)]
    /\ Decided(w, "approved")
    /\ Release(w)
    /\ UNCHANGED <<payment, counter>>

(* Mutants: a void that forgets to settle the invoice; one that erases the *)
(* payment's allocations.                                                  *)
CommitVoidUnsettled(w) ==
    /\ tx[w].step = "reversed"
    /\ LET i == tx[w].invoice
           p == tx[w].payment
       IN  /\ parts' = [parts EXCEPT ![i] = AfterVoid(parts[i], payment[p].take)]
           /\ payment' = [payment EXCEPT ![p].status = "void"]
    /\ Decided(w, "approved")
    /\ Release(w)
    /\ UNCHANGED <<invoice, discount, counter>>
CommitVoidErasing(w) ==
    /\ tx[w].step = "reversed"
    /\ LET i == tx[w].invoice
           p == tx[w].payment
       IN  /\ parts' = [parts EXCEPT ![i] = AfterVoid(parts[i], payment[p].take)]
           /\ invoice' = [invoice EXCEPT ![i] = SettledRow(i, tx[w].seen)]
           /\ payment' = [payment EXCEPT ![p].status = "void",
                                         ![p].take = [k \in DOMAIN parts[i] |-> 0]]
    /\ Decided(w, "approved")
    /\ Release(w)
    /\ UNCHANGED <<discount, counter>>

CommitVoid(w) ==
    /\ tx[w].step = "reversed"
    /\ LET i == tx[w].invoice
           p == tx[w].payment
       IN  /\ parts' = [parts EXCEPT ![i] = AfterVoid(parts[i], payment[p].take)]
           /\ invoice' = [invoice EXCEPT ![i] = SettledRow(i, tx[w].seen)]
           /\ payment' = [payment EXCEPT ![p].status = "void"]
    /\ Decided(w, "approved")
    /\ Release(w)
    /\ UNCHANGED <<discount, counter>>

CommitRejection(w) ==
    /\ tx[w].step = "deciding"
    /\ tx[w].decision = "reject"
    /\ Decided(w, "rejected")
    /\ Release(w)
    /\ UNCHANGED <<parts, invoice, payment, discount, counter>>

(* The transaction fails for any other reason at any point before its commit. *)
Abort(w) ==
    /\ tx[w] # Idle
    /\ Release(w)
    /\ UNCHANGED tables

-----------------------------------------------------------------------------
Starting(w) ==
    \/ \E i \in Invoice, a \in Amount : LockAndAllocate(w, i, a)
    \/ \E u \in User, i \in Invoice, t \in Terms : RequestDiscount(w, u, i, t)
    \/ \E u \in User, p \in Payment : RequestVoid(w, u, p)
    \/ \E r \in Request, u \in User, decision \in {"approve", "reject"} :
           LockRequest(w, r, u, decision)

Working(w) ==
    \/ TakeReceiptNumber(w)
    \/ RefuseRequest(w)
    \/ ApplyDiscount(w) \/ RefuseDiscount(w)
    \/ VoidPayment(w) \/ RefuseVoid(w)

Committing(w) ==
    \/ CommitPayment(w) \/ CommitRequest(w)
    \/ CommitDiscount(w) \/ CommitVoid(w) \/ CommitRejection(w)

Next == \E w \in Worker : Starting(w) \/ Working(w) \/ Committing(w) \/ Abort(w)

Spec == Init /\ [][Next]_vars

(***************************************************************************)
(* A worker that can go on does, and a lock wait is served: PostgreSQL     *)
(* queues the waiters of a row lock, so a worker that waits for a lock     *)
(* that keeps being freed gets it.  Nothing makes staff start or ask.      *)
(***************************************************************************)
Fairness == \A w \in Worker : SF_vars(Working(w)) /\ WF_vars(Committing(w))

FairSpec == Spec /\ Fairness

=============================================================================
