---------------------------- MODULE BillingProofs ----------------------------
(***************************************************************************)
(* Proofs about Billing for any number of invoices, instalments, payments, *)
(* requests, users and workers, and any amounts; and, from `The loops of   *)
(* the money arithmetic' on, about the arithmetic it relies on.            *)
(***************************************************************************)
EXTENDS BillingProperties, FiniteSetTheorems, WellFoundedInduction, TLAPS

Inv == TypeOK /\ WorkIsCurrent /\ NoInstalmentOverpaid

(* The end of a transaction keeps locks and transactions well formed. *)
LEMMA ReleaseType ==
    ASSUME TypeOK, NEW w \in Worker, Release(w)
    PROVE  /\ invoiceLock' \in [Invoice -> Worker \cup {NoOne}]
           /\ requestLock' \in [Request -> Worker \cup {NoOne}]
           /\ seriesLock' \in Worker \cup {NoOne}
           /\ DOMAIN tx' = Worker
           /\ tx'[w] = Idle
           /\ \A v \in Worker \ {w} : tx'[v] = tx[v]
           /\ \A i \in Invoice : \A v \in Worker \ {w} : invoiceLock[i] = v => invoiceLock'[i] = v
           /\ \A r \in Request : \A v \in Worker \ {w} : requestLock[r] = v => requestLock'[r] = v
           /\ \A v \in Worker \ {w} : seriesLock = v => seriesLock' = v
BY NoOneIsNobody DEF TypeOK, Release

LEMMA IssuedType ==
    ASSUME NEW i \in Invoice
    PROVE  /\ Issued(i) \in Parts(i)
           /\ \A k \in DOMAIN Issued(i) : Issued(i)[k].paid <= Issued(i)[k].amount
BY FeesAreIssued DEF Issued, Parts

(* What a split, a cut or a void does to well-formed instalments. *)
LEMMA AfterTypes ==
    ASSUME NEW i \in Invoice, NEW ps \in Parts(i), NEW take \in Shares(i)
    PROVE  /\ AfterPayment(ps, take) \in Parts(i)
           /\ AfterVoid(ps, take) \in Parts(i)
           /\ AfterDiscount(ps, take) \in Parts(i)
           /\ \A other \in Parts(i) : NewAmounts(ps, other) \in Parts(i)
BY DEF Parts, Shares, AfterPayment, AfterVoid, AfterDiscount, NewAmounts

LEMMA SplitType ==
    ASSUME NEW i \in Invoice, NEW ps \in Parts(i), NEW a \in Nat,
           NEW take \in PaymentSplits(ps, a)
    PROVE  /\ take \in Shares(i)
           /\ \A k \in DOMAIN ps : take[k] <= ps[k].amount - ps[k].paid
BY DEF PaymentSplits, Owed, Parts, Shares

LEMMA CutType ==
    ASSUME NEW i \in Invoice, NEW ps \in Parts(i), NEW a \in Nat,
           NEW cut \in DiscountCuts(ps, a)
    PROVE  /\ cut \in Shares(i)
           /\ \A k \in DOMAIN ps : cut[k] <= ps[k].amount - ps[k].paid
BY DEF DiscountCuts, Owed, Parts, Shares

LEMMA SettledStatus ==
    ASSUME NEW i, NEW seen
    PROVE  SettledRow(i, seen).status \in {"issued", "partially_paid", "paid"}
BY DEF SettledRow, InvoiceStatusFor

LEMMA InitInv == Init => Inv
<1> SUFFICES ASSUME Init PROVE Inv
    OBVIOUS
<1>1. TypeOK
    BY IssuedType, SettledStatus, NoOneIsNobody DEF Init, TypeOK, Idle, RequestRow
<1>2. WorkIsCurrent
    BY DEF Init, WorkIsCurrent, IsCurrent, Idle
<1>3. NoInstalmentOverpaid
    BY IssuedType DEF Init, NoInstalmentOverpaid
<1> QED
    BY <1>1, <1>2, <1>3 DEF Inv

(* The step a worker is at tells what kind of transaction it has open. *)
LEMMA PayingStep ==
    ASSUME TypeOK, NEW w \in Worker, tx[w].step \in {"allocated", "numbered"}
    PROVE  \E i \in Invoice : tx[w] \in PayingTx(i)
<1>1. tx[w] # Idle
    BY DEF Idle
<1>2. tx[w] \notin RequestTx
    BY DEF RequestTx
<1>3. \A i \in Invoice : tx[w] \notin ApprovingTx(i)
    BY DEF ApprovingTx
<1> QED
    BY <1>1, <1>2, <1>3 DEF TypeOK

LEMMA RequestStep ==
    ASSUME TypeOK, NEW w \in Worker, tx[w].step \in {"asking", "deciding"}
    PROVE  tx[w] \in RequestTx
<1>1. tx[w] # Idle
    BY DEF Idle
<1>2. \A i \in Invoice : tx[w] \notin PayingTx(i)
    BY DEF PayingTx
<1>3. \A i \in Invoice : tx[w] \notin ApprovingTx(i)
    BY DEF ApprovingTx
<1> QED
    BY <1>1, <1>2, <1>3 DEF TypeOK

LEMMA ApprovingStep ==
    ASSUME TypeOK, NEW w \in Worker, tx[w].step \in {"discounted", "reversed"}
    PROVE  \E i \in Invoice : tx[w] \in ApprovingTx(i)
<1>1. tx[w] # Idle
    BY DEF Idle
<1>2. tx[w] \notin RequestTx
    BY DEF RequestTx
<1>3. \A i \in Invoice : tx[w] \notin PayingTx(i)
    BY DEF PayingTx
<1> QED
    BY <1>1, <1>2, <1>3 DEF TypeOK

(* A payment that has a status other than none is a whole row. *)
LEMMA BookedPayment ==
    ASSUME TypeOK, NEW p \in Payment, payment[p].status # "none"
    PROVE  /\ payment[p] # NoPayment
           /\ payment[p].invoice \in Invoice
           /\ payment[p] \in PaymentOf(payment[p].invoice)
           /\ payment[p].take \in Shares(payment[p].invoice)
<1>1. payment[p] # NoPayment
    BY DEF NoPayment
<1>2. PICK i \in Invoice : payment[p] \in PaymentOf(i)
    BY <1>1 DEF TypeOK
<1>3. payment[p].invoice = i /\ payment[p].take \in Shares(i)
    BY <1>2 DEF PaymentOf
<1> QED
    BY <1>1, <1>2, <1>3

-----------------------------------------------------------------------------
(* A worker's pending work stays right through a step of the others that   *)
(* leaves its locks and the rows behind them alone.                        *)
LEMMA Frame ==
    ASSUME TypeOK, NEW v \in Worker, IsCurrent(v), tx'[v] = tx[v],
           \A i \in Invoice : invoiceLock[i] = v =>
               /\ invoiceLock'[i] = v
               /\ parts'[i] = parts[i]
               /\ \A p \in Payment : payment[p].status = "posted" /\ payment[p].invoice = i =>
                      payment'[p] = payment[p],
           \A r \in Request : requestLock[r] = v /\ request[r] # NoRequest =>
               requestLock'[r] = v /\ request'[r] = request[r],
           seriesLock = v => seriesLock' = v /\ counter' = counter
    PROVE  IsCurrent(v)'
<1>1. CASE tx[v] = Idle
    BY <1>1 DEF IsCurrent, Idle
<1>2. CASE tx[v] \in RequestTx
    BY <1>2 DEF IsCurrent, RequestTx, DecidingIsCurrent, NoRequest
<1>3. ASSUME NEW i \in Invoice, tx[v] \in PayingTx(i)
      PROVE  IsCurrent(v)'
    BY <1>3 DEF IsCurrent, PayingTx, PayingIsCurrent
<1>4. ASSUME NEW i \in Invoice, tx[v] \in ApprovingTx(i)
      PROVE  IsCurrent(v)'
    BY <1>4 DEF IsCurrent, ApprovingTx, DecidingIsCurrent, DiscountIsCurrent, VoidIsCurrent,
                NoRequest
<1> QED
    BY <1>1, <1>2, <1>3, <1>4 DEF TypeOK

LEMMA LockAndAllocateInv ==
    ASSUME Inv, NEW w \in Worker, NEW i \in Invoice, NEW a \in Amount, LockAndAllocate(w, i, a)
    PROVE  Inv'
<1> USE DEF Inv
<1>1. PICK take \in PaymentSplits(parts[i], a) :
          tx' = [tx EXCEPT ![w] =
                    [step |-> "allocated", invoice |-> i, amount |-> a, take |-> take,
                     seen |-> AfterPayment(parts[i], take)]]
    BY DEF LockAndAllocate
<1>2. /\ take \in Shares(i)
      /\ \A k \in DOMAIN parts[i] : take[k] <= parts[i][k].amount - parts[i][k].paid
    BY SplitType, AmountsArePositive DEF TypeOK
<1>3. tx'[w] \in PayingTx(i)
    BY <1>1, <1>2, AfterTypes DEF TypeOK, PayingTx
<1>4. TypeOK'
    BY <1>1, <1>3 DEF TypeOK, LockAndAllocate, tables
<1>5. NoInstalmentOverpaid'
    BY DEF NoInstalmentOverpaid, LockAndAllocate, tables
<1>6. IsCurrent(w)'
    BY <1>1, <1>2 DEF TypeOK, LockAndAllocate, tables, IsCurrent, PayingIsCurrent
<1>7. ASSUME NEW v \in Worker \ {w}
      PROVE  IsCurrent(v)'
    BY <1>1, Frame, NoOneIsNobody DEF TypeOK, LockAndAllocate, tables, WorkIsCurrent
<1> QED
    BY <1>4, <1>5, <1>6, <1>7 DEF WorkIsCurrent

LEMMA TakeReceiptNumberInv ==
    ASSUME Inv, NEW w \in Worker, TakeReceiptNumber(w)
    PROVE  Inv'
<1> USE DEF Inv
<1>1. PICK i \in Invoice : tx[w] \in PayingTx(i)
    BY PayingStep DEF TakeReceiptNumber
<1>2. /\ tx'[w] \in PayingTx(i)
      /\ tx'[w].step = "numbered" /\ tx'[w].receipt = counter + 1
      /\ tx'[w].invoice = i /\ tx'[w].take = tx[w].take /\ tx'[w].seen = tx[w].seen
    BY <1>1 DEF TypeOK, TakeReceiptNumber, PayingTx
<1>3. TypeOK'
    BY <1>2 DEF TypeOK, TakeReceiptNumber, tables
<1>4. NoInstalmentOverpaid'
    BY DEF NoInstalmentOverpaid, TakeReceiptNumber, tables
<1>5. IsCurrent(w)'
    <2>1. PayingIsCurrent(w) /\ tx[w].invoice = i
        BY <1>1 DEF TakeReceiptNumber, WorkIsCurrent, IsCurrent, PayingTx
    <2>2. PayingIsCurrent(w)'
        BY <1>2, <2>1 DEF TypeOK, TakeReceiptNumber, tables, PayingIsCurrent
    <2> QED
        BY <1>2, <2>2 DEF IsCurrent
<1>6. ASSUME NEW v \in Worker \ {w}
      PROVE  IsCurrent(v)'
    BY Frame, NoOneIsNobody DEF TypeOK, TakeReceiptNumber, tables, WorkIsCurrent
<1> QED
    BY <1>3, <1>4, <1>5, <1>6 DEF WorkIsCurrent

LEMMA CommitPaymentInv ==
    ASSUME Inv, NEW w \in Worker, CommitPayment(w)
    PROVE  Inv'
<1> USE DEF Inv
<1>1. PICK i \in Invoice : tx[w] \in PayingTx(i)
    BY PayingStep DEF CommitPayment
<1>2. /\ tx[w].invoice = i /\ tx[w].take \in Shares(i) /\ tx[w].amount \in Amount
      /\ tx[w].receipt \in Nat \ {0}
    BY <1>1 DEF CommitPayment, PayingTx
<1>3. PICK p \in Payment :
          /\ payment[p] = NoPayment
          /\ payment' = [payment EXCEPT ![p] =
                 [status |-> "posted", invoice |-> i, amount |-> tx[w].amount,
                  take |-> tx[w].take, receipt |-> tx[w].receipt]]
    BY <1>2 DEF CommitPayment
<1>4. /\ parts' = [parts EXCEPT ![i] = AfterPayment(parts[i], tx[w].take)]
      /\ invoice' = [invoice EXCEPT ![i] = SettledRow(i, tx[w].seen)]
      /\ counter' = tx[w].receipt
      /\ UNCHANGED <<request, discount>>
      /\ Release(w)
    BY <1>2 DEF CommitPayment
<1>5. PayingIsCurrent(w)
    BY DEF CommitPayment, WorkIsCurrent, IsCurrent
<1>6. TypeOK'
    <2>1. payment'[p] \in PaymentOf(i)
        BY <1>2, <1>3 DEF TypeOK, PaymentOf
    <2>2. \A j \in Invoice : parts'[j] \in Parts(j)
        BY <1>2, <1>4, AfterTypes DEF TypeOK
    <2>3. \A j \in Invoice : invoice'[j].status \in {"issued", "partially_paid", "paid"}
        BY <1>4, SettledStatus DEF TypeOK
    <2> QED
        BY <1>2, <1>3, <1>4, <2>1, <2>2, <2>3, ReleaseType DEF TypeOK
<1>7. NoInstalmentOverpaid'
    BY <1>2, <1>4, <1>5 DEF TypeOK, NoInstalmentOverpaid, PayingIsCurrent, AfterPayment, Parts, Shares
<1>8. IsCurrent(w)'
    BY <1>4, ReleaseType DEF IsCurrent, Idle
<1>9. ASSUME NEW v \in Worker \ {w}
      PROVE  IsCurrent(v)'
    <2>1. invoiceLock[i] = w /\ seriesLock = w
        BY <1>2, <1>5 DEF PayingIsCurrent, CommitPayment
    <2>2. \A q \in Payment : payment[q].status = "posted" => payment'[q] = payment[q]
        <3>1. p \in Payment /\ payment[p].status = "none"
            BY <1>3 DEF NoPayment
        <3> QED
            BY <1>3, <3>1 DEF TypeOK
    <2>3. \A j \in Invoice : j # i => parts'[j] = parts[j]
        BY <1>4 DEF TypeOK
    <2>4. /\ tx'[v] = tx[v] /\ request' = request
          /\ \A j \in Invoice : invoiceLock[j] = v => invoiceLock'[j] = v
          /\ \A r \in Request : requestLock[r] = v => requestLock'[r] = v
        BY <1>4, ReleaseType
    <2> QED
        BY <2>1, <2>2, <2>3, <2>4, Frame DEF WorkIsCurrent
<1> QED
    BY <1>6, <1>7, <1>8, <1>9 DEF WorkIsCurrent

LEMMA AskInv ==
    ASSUME Inv, NEW w \in Worker, NEW u \in User, NEW what \in Discount \cup Void,
           ReadAndAsk(w, u, what)
    PROVE  Inv'
<1> USE DEF Inv
<1>1. tx'[w] \in RequestTx /\ tx'[w].step = "asking"
    BY DEF TypeOK, ReadAndAsk, RequestTx
<1>2. TypeOK'
    BY <1>1 DEF TypeOK, ReadAndAsk, tables, locks
<1>3. NoInstalmentOverpaid'
    BY DEF NoInstalmentOverpaid, ReadAndAsk, tables
<1>4. IsCurrent(w)'
    BY <1>1 DEF IsCurrent
<1>5. ASSUME NEW v \in Worker \ {w}
      PROVE  IsCurrent(v)'
    BY Frame DEF TypeOK, ReadAndAsk, tables, locks, WorkIsCurrent
<1> QED
    BY <1>2, <1>3, <1>4, <1>5 DEF WorkIsCurrent

LEMMA CommitRequestInv ==
    ASSUME Inv, NEW w \in Worker, CommitRequest(w)
    PROVE  Inv'
<1> USE DEF Inv
<1>1. tx[w].by \in User /\ tx[w].what \in Discount \cup Void
    <2>1. tx[w] \in RequestTx
        BY RequestStep DEF CommitRequest
    <2> QED
        BY <2>1 DEF CommitRequest, RequestTx
<1>2. PICK r \in Request :
          /\ request[r] = NoRequest
          /\ request' = [request EXCEPT ![r] =
                 [status |-> "pending", what |-> tx[w].what, by |-> tx[w].by,
                  decidedBy |-> NoOne]]
    BY DEF CommitRequest
<1>3. Release(w) /\ UNCHANGED <<parts, invoice, payment, discount, counter>>
    BY DEF CommitRequest
<1> DEFINE row == [status |-> "pending", what |-> tx[w].what, by |-> tx[w].by,
                   decidedBy |-> NoOne]
<1>r. row \in RequestRow
    BY <1>1 DEF RequestRow
<1>q. request' = [request EXCEPT ![r] = row]
    BY <1>2
<1> HIDE DEF row
<1>4. TypeOK'
    <2>1. request' \in [Request -> RequestRow]
        BY <1>r, <1>q DEF TypeOK
    <2> QED
        BY <1>3, <2>1, ReleaseType DEF TypeOK
<1>5. NoInstalmentOverpaid'
    BY <1>3 DEF NoInstalmentOverpaid
<1>6. IsCurrent(w)'
    BY <1>3, ReleaseType DEF IsCurrent, Idle
<1>7. ASSUME NEW v \in Worker \ {w}
      PROVE  IsCurrent(v)'
    <2>1. \A q \in Request : request[q] # NoRequest => request'[q] = request[q]
        BY <1>2, <1>q DEF TypeOK
    <2> QED
        BY <1>3, <2>1, Frame, ReleaseType DEF WorkIsCurrent
<1> QED
    BY <1>4, <1>5, <1>6, <1>7 DEF WorkIsCurrent

(* A rolled back transaction, refused or aborted, changes no table. *)
LEMMA RollbackInv ==
    ASSUME Inv, NEW w \in Worker, Release(w), UNCHANGED tables
    PROVE  Inv'
<1> USE DEF Inv
<1>1. TypeOK'
    BY ReleaseType DEF TypeOK, tables
<1>2. NoInstalmentOverpaid'
    BY DEF NoInstalmentOverpaid, tables
<1>3. IsCurrent(w)'
    BY ReleaseType DEF IsCurrent, Idle
<1>4. ASSUME NEW v \in Worker \ {w}
      PROVE  IsCurrent(v)'
    BY Frame, ReleaseType DEF TypeOK, tables, WorkIsCurrent
<1> QED
    BY <1>1, <1>2, <1>3, <1>4 DEF WorkIsCurrent

LEMMA LockRequestInv ==
    ASSUME Inv, NEW w \in Worker, NEW r \in Request, NEW u \in User,
           NEW decision \in {"approve", "reject"}, LockRequest(w, r, u, decision)
    PROVE  Inv'
<1> USE DEF Inv
<1>1. tx'[w] \in RequestTx /\ tx'[w].step = "deciding" /\ tx'[w].request = r /\ tx'[w].by = u
    BY DEF TypeOK, LockRequest, RequestTx
<1>2. TypeOK'
    BY <1>1 DEF TypeOK, LockRequest, tables
<1>3. NoInstalmentOverpaid'
    BY DEF NoInstalmentOverpaid, LockRequest, tables
<1>4. IsCurrent(w)'
    BY <1>1 DEF TypeOK, LockRequest, tables, IsCurrent, DecidingIsCurrent
<1>5. ASSUME NEW v \in Worker \ {w}
      PROVE  IsCurrent(v)'
    BY Frame, NoOneIsNobody DEF TypeOK, LockRequest, tables, WorkIsCurrent
<1> QED
    BY <1>2, <1>3, <1>4, <1>5 DEF WorkIsCurrent

(* What a worker that is deciding knows about its request. *)
LEMMA Deciding ==
    ASSUME Inv, NEW w \in Worker, tx[w].step = "deciding"
    PROVE  /\ tx[w] \in RequestTx
           /\ tx[w].request \in Request /\ tx[w].by \in User
           /\ DecidingIsCurrent(w)
           /\ request[tx[w].request] # NoRequest
<1>1. tx[w] \in RequestTx
    BY RequestStep DEF Inv
<1>2. tx[w].request \in Request /\ tx[w].by \in User
    BY <1>1 DEF RequestTx
<1>3. DecidingIsCurrent(w)
    BY DEF Inv, WorkIsCurrent, IsCurrent
<1> QED
    BY <1>1, <1>2, <1>3 DEF DecidingIsCurrent, NoRequest

LEMMA ApplyDiscountInv ==
    ASSUME Inv, NEW w \in Worker, ApplyDiscount(w)
    PROVE  Inv'
<1> USE DEF Inv
<1> DEFINE r == tx[w].request
           i == request[r].what.invoice
           amount == AmountNow(r)
<1>1. /\ tx[w].step = "deciding" /\ request[r].what.type = "discount"
      /\ invoiceLock[i] = NoOne
      /\ amount \in Nat \ {0}
      /\ invoiceLock' = [invoiceLock EXCEPT ![i] = w]
      /\ UNCHANGED <<tables, requestLock, seriesLock>>
    BY DEF ApplyDiscount, Approving, DiscountIsDue
<1>2. PICK cut \in DiscountCuts(parts[i], amount) :
          tx' = [tx EXCEPT ![w] =
             [step |-> "discounted", request |-> r, by |-> tx[w].by, invoice |-> i,
              amount |-> amount, seen |-> AfterDiscount(parts[i], cut)]]
    BY DEF ApplyDiscount
<1>3. r \in Request /\ tx[w].by \in User /\ DecidingIsCurrent(w) /\ request[r] # NoRequest
    BY <1>1, Deciding
<1>4. i \in Invoice
    BY <1>1, <1>3 DEF TypeOK, RequestRow, Discount, Void
<1> HIDE DEF i, amount
<1>5. /\ cut \in Shares(i)
      /\ \A k \in DOMAIN parts[i] : cut[k] <= parts[i][k].amount - parts[i][k].paid
      /\ AfterDiscount(parts[i], cut) \in Parts(i)
    BY <1>1, <1>4, CutType, AfterTypes DEF TypeOK
<1>6. tx'[w] \in ApprovingTx(i)
    BY <1>1, <1>2, <1>3, <1>5 DEF TypeOK, ApprovingTx
<1>7. TypeOK'
    BY <1>1, <1>2, <1>4, <1>6 DEF TypeOK, tables
<1>8. NoInstalmentOverpaid'
    BY <1>1 DEF NoInstalmentOverpaid, tables
<1>9. IsCurrent(w)'
    <2>1. /\ tx'[w].step = "discounted" /\ tx'[w].request = r /\ tx'[w].by = tx[w].by
          /\ tx'[w].invoice = i /\ tx'[w].seen = AfterDiscount(parts[i], cut)
        BY <1>2 DEF TypeOK
    <2>2. DecidingIsCurrent(w)'
        BY <1>1, <1>3, <2>1 DEF DecidingIsCurrent, tables
    <2>3. DiscountIsCurrent(w)'
        <3>1. \A k \in DOMAIN parts[i] :
                  /\ parts[i][k].paid <= AfterDiscount(parts[i], cut)[k].amount
                  /\ parts[i][k].paid = AfterDiscount(parts[i], cut)[k].paid
            BY <1>4, <1>5 DEF TypeOK, AfterDiscount, Parts, Shares
        <3> QED
            BY <1>1, <1>4, <2>1, <3>1 DEF TypeOK, DiscountIsCurrent, tables, i
    <2> QED
        BY <2>1, <2>2, <2>3 DEF IsCurrent
<1>10. ASSUME NEW v \in Worker \ {w}
       PROVE  IsCurrent(v)'
    BY <1>1, <1>2, <1>4, Frame, NoOneIsNobody DEF TypeOK, tables, WorkIsCurrent
<1> QED
    BY <1>7, <1>8, <1>9, <1>10 DEF WorkIsCurrent

LEMMA VoidPaymentInv ==
    ASSUME Inv, NEW w \in Worker, VoidPayment(w)
    PROVE  Inv'
<1> USE DEF Inv
<1> DEFINE r == tx[w].request
           p == request[r].what.payment
           i == payment[p].invoice
<1>1. /\ tx[w].step = "deciding" /\ request[r].what.type = "payment_void"
      /\ invoiceLock[i] = NoOne
      /\ payment[p].status = "posted"
      /\ invoiceLock' = [invoiceLock EXCEPT ![i] = w]
      /\ tx' = [tx EXCEPT ![w] =
             [step |-> "reversed", request |-> r, by |-> tx[w].by, invoice |-> i,
              payment |-> p, seen |-> AfterVoid(parts[i], payment[p].take)]]
      /\ UNCHANGED <<tables, requestLock, seriesLock>>
    BY DEF VoidPayment, Approving
<1>2. r \in Request /\ tx[w].by \in User /\ DecidingIsCurrent(w) /\ request[r] # NoRequest
    BY <1>1, Deciding
<1>3. p \in Payment /\ request[r].what = [type |-> "payment_void", payment |-> p]
    BY <1>1, <1>2 DEF TypeOK, RequestRow, Discount, Void
<1>4. i \in Invoice /\ payment[p].take \in Shares(i)
    BY <1>1, <1>3, BookedPayment
<1>5. AfterVoid(parts[i], payment[p].take) \in Parts(i)
    BY <1>4, AfterTypes DEF TypeOK
<1>6. tx'[w] \in ApprovingTx(i)
    BY <1>1, <1>2, <1>3, <1>5 DEF TypeOK, ApprovingTx
<1>7. TypeOK'
    BY <1>1, <1>4, <1>6 DEF TypeOK, tables
<1>8. NoInstalmentOverpaid'
    BY <1>1 DEF NoInstalmentOverpaid, tables
<1>9. IsCurrent(w)'
    <2>1. /\ tx'[w].step = "reversed" /\ tx'[w].request = r /\ tx'[w].by = tx[w].by
          /\ tx'[w].invoice = i /\ tx'[w].payment = p
          /\ tx'[w].seen = AfterVoid(parts[i], payment[p].take)
        BY <1>1 DEF TypeOK
    <2>2. DecidingIsCurrent(w)'
        BY <1>1, <1>2, <2>1 DEF DecidingIsCurrent, tables
    <2>3. VoidIsCurrent(w)'
        BY <1>1, <1>3, <1>4, <2>1 DEF TypeOK, VoidIsCurrent, tables
    <2> QED
        BY <2>1, <2>2, <2>3 DEF IsCurrent
<1>10. ASSUME NEW v \in Worker \ {w}
       PROVE  IsCurrent(v)'
    BY <1>1, <1>4, Frame, NoOneIsNobody DEF TypeOK, tables, WorkIsCurrent
<1> QED
    BY <1>7, <1>8, <1>9, <1>10 DEF WorkIsCurrent

LEMMA DecidedRow ==
    ASSUME NEW row \in RequestRow \ {NoRequest}, NEW status \in {"approved", "rejected"},
           NEW u \in User
    PROVE  [row EXCEPT !.status = status, !.decidedBy = u] \in RequestRow
<1>1. row \in [status : {"pending", "approved", "rejected"}, what : Discount \cup Void,
               by : User, decidedBy : User \cup {NoOne}]
    BY DEF RequestRow
<1> QED
    BY <1>1 DEF RequestRow

(* The decision recorded on the request row. *)
LEMMA DecidedType ==
    ASSUME Inv, NEW w \in Worker, NEW status \in {"approved", "rejected"},
           tx[w].request \in Request, tx[w].by \in User, Decided(w, status)
    PROVE  /\ request' \in [Request -> RequestRow]
           /\ \A q \in Request \ {tx[w].request} : request'[q] = request[q]
<1> DEFINE r == tx[w].request
           row == [request[r] EXCEPT !.status = status, !.decidedBy = tx[w].by]
<1>1. request[r] \in RequestRow /\ request[r].status = "pending"
    BY DEF Inv, TypeOK, Decided
<1>2. row \in RequestRow
    <2>1. request[r] \in RequestRow \ {NoRequest}
        BY <1>1 DEF NoRequest
    <2> QED
        BY <2>1, DecidedRow
<1>3. request' = [request EXCEPT ![r] = row]
    BY <1>1 DEF Decided, Inv, TypeOK
<1> HIDE DEF row, r
<1>4. r = tx[w].request
    BY DEF r
<1> QED
    BY <1>2, <1>3, <1>4 DEF Inv, TypeOK

(* A worker that has the invoice in hand to commit an approved change. *)
LEMMA Approved ==
    ASSUME Inv, NEW w \in Worker, tx[w].step \in {"discounted", "reversed"}
    PROVE  \E i \in Invoice :
               /\ tx[w] \in ApprovingTx(i)
               /\ tx[w].invoice = i /\ tx[w].seen \in Parts(i)
               /\ tx[w].request \in Request /\ tx[w].by \in User
               /\ invoiceLock[i] = w /\ requestLock[tx[w].request] = w
               /\ request[tx[w].request] # NoRequest
<1>1. PICK i \in Invoice : tx[w] \in ApprovingTx(i)
    BY ApprovingStep DEF Inv
<1>2. /\ tx[w].invoice = i /\ tx[w].seen \in Parts(i)
      /\ tx[w].request \in Request /\ tx[w].by \in User
    BY <1>1 DEF ApprovingTx
<1>3. DecidingIsCurrent(w) /\ invoiceLock[i] = w
    BY <1>2 DEF Inv, WorkIsCurrent, IsCurrent, DiscountIsCurrent, VoidIsCurrent
<1> QED
    BY <1>1, <1>2, <1>3 DEF DecidingIsCurrent, NoRequest

LEMMA CommitDiscountInv ==
    ASSUME Inv, NEW w \in Worker, CommitDiscount(w)
    PROVE  Inv'
<1> USE DEF Inv
<1>1. PICK i \in Invoice :
          /\ tx[w] \in ApprovingTx(i)
          /\ tx[w].invoice = i /\ tx[w].seen \in Parts(i)
          /\ tx[w].request \in Request /\ tx[w].by \in User
          /\ invoiceLock[i] = w /\ requestLock[tx[w].request] = w
    BY Approved DEF CommitDiscount
<1>2. /\ parts' = [parts EXCEPT ![i] = NewAmounts(parts[i], tx[w].seen)]
      /\ invoice' = [invoice EXCEPT ![i] = SettledRow(i, tx[w].seen)]
      /\ discount' = [discount EXCEPT ![tx[w].request] = Append(@, tx[w].amount)]
      /\ Decided(w, "approved") /\ Release(w)
      /\ UNCHANGED <<payment, counter>>
    BY <1>1 DEF CommitDiscount
<1>3. tx[w].amount \in Nat
    BY <1>1 DEF ApprovingTx, CommitDiscount
<1>4. /\ request' \in [Request -> RequestRow]
      /\ \A q \in Request \ {tx[w].request} : request'[q] = request[q]
    BY <1>1, <1>2, DecidedType
<1>5. TypeOK'
    <2>1. \A j \in Invoice : parts'[j] \in Parts(j)
        <3>1. parts[i] \in Parts(i)
            BY DEF TypeOK
        <3>2. NewAmounts(parts[i], tx[w].seen) \in Parts(i)
            <4> HIDE DEF Inv
            <4> QED BY <1>1, <3>1 DEF NewAmounts, Parts
        <3> QED
            BY <1>2, <3>2 DEF TypeOK
    <2>2. \A j \in Invoice : invoice'[j].status \in {"issued", "partially_paid", "paid"}
        BY <1>2, SettledStatus DEF TypeOK
    <2>3. discount' \in [Request -> Seq(Nat)]
        BY <1>1, <1>2, <1>3 DEF TypeOK
    <2> QED
        BY <1>2, <1>4, <2>1, <2>2, <2>3, ReleaseType DEF TypeOK
<1>6. NoInstalmentOverpaid'
    <2>1. \A k \in DOMAIN parts[i] : parts[i][k].paid <= tx[w].seen[k].amount
        BY <1>1 DEF CommitDiscount, WorkIsCurrent, IsCurrent, DiscountIsCurrent
    <2>2. \A k \in DOMAIN parts'[i] : parts'[i][k].paid <= parts'[i][k].amount
        BY <1>1, <1>2, <2>1 DEF TypeOK, NewAmounts, Parts
    <2> QED
        BY <1>2, <2>2 DEF TypeOK, NoInstalmentOverpaid
<1>7. IsCurrent(w)'
    BY <1>2, ReleaseType DEF IsCurrent, Idle
<1>8. ASSUME NEW v \in Worker \ {w}
      PROVE  IsCurrent(v)'
    BY <1>1, <1>2, <1>4, Frame, ReleaseType DEF TypeOK, WorkIsCurrent
<1> QED
    BY <1>5, <1>6, <1>7, <1>8 DEF WorkIsCurrent

LEMMA CommitVoidInv ==
    ASSUME Inv, NEW w \in Worker, CommitVoid(w)
    PROVE  Inv'
<1> USE DEF Inv
<1> DEFINE p == tx[w].payment
<1>1. PICK i \in Invoice :
          /\ tx[w] \in ApprovingTx(i)
          /\ tx[w].invoice = i /\ tx[w].seen \in Parts(i)
          /\ tx[w].request \in Request /\ tx[w].by \in User
          /\ invoiceLock[i] = w /\ requestLock[tx[w].request] = w
    BY Approved DEF CommitVoid
<1>2. /\ parts' = [parts EXCEPT ![i] = AfterVoid(parts[i], payment[p].take)]
      /\ invoice' = [invoice EXCEPT ![i] = SettledRow(i, tx[w].seen)]
      /\ payment' = [payment EXCEPT ![p].status = "void"]
      /\ Decided(w, "approved") /\ Release(w)
      /\ UNCHANGED <<discount, counter>>
    BY <1>1 DEF CommitVoid
<1>3. /\ p \in Payment /\ payment[p].status = "posted" /\ payment[p].invoice = i
    BY <1>1 DEF ApprovingTx, CommitVoid, WorkIsCurrent, IsCurrent, VoidIsCurrent
<1>4. payment[p] \in PaymentOf(i) /\ payment[p].take \in Shares(i)
    BY <1>3, BookedPayment
<1>5. /\ request' \in [Request -> RequestRow]
      /\ \A q \in Request \ {tx[w].request} : request'[q] = request[q]
    BY <1>1, <1>2, DecidedType
<1>6. TypeOK'
    <2>1. \A j \in Invoice : parts'[j] \in Parts(j)
        BY <1>2, <1>4, AfterTypes DEF TypeOK
    <2>2. \A j \in Invoice : invoice'[j].status \in {"issued", "partially_paid", "paid"}
        BY <1>2, SettledStatus DEF TypeOK
    <2>3. /\ DOMAIN payment' = Payment
          /\ \A q \in Payment :
                 payment'[q] = NoPayment \/ \E j \in Invoice : payment'[q] \in PaymentOf(j)
        BY <1>2, <1>4 DEF TypeOK, PaymentOf
    <2> QED
        BY <1>2, <1>5, <2>1, <2>2, <2>3, ReleaseType DEF TypeOK
<1>7. NoInstalmentOverpaid'
    BY <1>2, <1>4 DEF TypeOK, NoInstalmentOverpaid, AfterVoid, Parts, Shares
<1>8. IsCurrent(w)'
    BY <1>2, ReleaseType DEF IsCurrent, Idle
<1>9. ASSUME NEW v \in Worker \ {w}
      PROVE  IsCurrent(v)'
    <2>1. \A q \in Payment : payment[q].invoice # i => payment'[q] = payment[q]
        BY <1>2, <1>3 DEF TypeOK
    <2>2. \A j \in Invoice : j # i => parts'[j] = parts[j]
        BY <1>2 DEF TypeOK
    <2>3. \A q \in Request : requestLock[q] = v => request'[q] = request[q]
        BY <1>1, <1>5
    <2>4. invoiceLock[i] # v
        BY <1>1
    <2>5. /\ tx'[v] = tx[v] /\ counter' = counter
          /\ \A j \in Invoice : invoiceLock[j] = v => invoiceLock'[j] = v
          /\ \A q \in Request : requestLock[q] = v => requestLock'[q] = v
          /\ seriesLock = v => seriesLock' = v
        BY <1>2, ReleaseType
    <2> QED
        BY <2>1, <2>2, <2>3, <2>4, <2>5, Frame DEF WorkIsCurrent
<1> QED
    BY <1>6, <1>7, <1>8, <1>9 DEF WorkIsCurrent

LEMMA CommitRejectionInv ==
    ASSUME Inv, NEW w \in Worker, CommitRejection(w)
    PROVE  Inv'
<1> USE DEF Inv
<1>1. /\ tx[w].request \in Request /\ tx[w].by \in User
      /\ requestLock[tx[w].request] = w
    BY Deciding DEF CommitRejection, DecidingIsCurrent
<1>2. /\ Decided(w, "rejected") /\ Release(w)
      /\ UNCHANGED <<parts, invoice, payment, discount, counter>>
    BY DEF CommitRejection
<1>3. /\ request' \in [Request -> RequestRow]
      /\ \A q \in Request \ {tx[w].request} : request'[q] = request[q]
    BY <1>1, <1>2, DecidedType
<1>4. TypeOK'
    BY <1>2, <1>3, ReleaseType DEF TypeOK
<1>5. NoInstalmentOverpaid'
    BY <1>2 DEF NoInstalmentOverpaid
<1>6. IsCurrent(w)'
    BY <1>2, ReleaseType DEF IsCurrent, Idle
<1>7. ASSUME NEW v \in Worker \ {w}
      PROVE  IsCurrent(v)'
    BY <1>1, <1>2, <1>3, Frame, ReleaseType DEF TypeOK, WorkIsCurrent
<1> QED
    BY <1>4, <1>5, <1>6, <1>7 DEF WorkIsCurrent

-----------------------------------------------------------------------------
LEMMA NextInv == Inv /\ [Next]_vars => Inv'
<1> SUFFICES ASSUME Inv, [Next]_vars PROVE Inv'
    OBVIOUS
<1>1. CASE UNCHANGED vars
    BY <1>1 DEF vars, Inv, TypeOK, NoInstalmentOverpaid, WorkIsCurrent, IsCurrent,
                PayingIsCurrent, DecidingIsCurrent, DiscountIsCurrent, VoidIsCurrent
<1>2. ASSUME NEW w \in Worker, Starting(w) PROVE Inv'
    <2>1. ASSUME NEW u \in User, NEW i \in Invoice, NEW t \in Terms, RequestDiscount(w, u, i, t)
          PROVE  Inv'
        BY <2>1, AskInv DEF RequestDiscount, Discount
    <2>2. ASSUME NEW u \in User, NEW p \in Payment, RequestVoid(w, u, p)
          PROVE  Inv'
        BY <2>2, AskInv DEF RequestVoid, Void
    <2> QED
        BY <1>2, <2>1, <2>2, LockAndAllocateInv, LockRequestInv DEF Starting
<1>3. ASSUME NEW w \in Worker, Working(w) PROVE Inv'
    BY <1>3, TakeReceiptNumberInv, ApplyDiscountInv, VoidPaymentInv, RollbackInv
    DEF Working, RefuseRequest, RefuseDiscount, RefuseVoid
<1>4. ASSUME NEW w \in Worker, Committing(w) PROVE Inv'
    BY <1>4, CommitPaymentInv, CommitRequestInv, CommitDiscountInv, CommitVoidInv,
       CommitRejectionInv DEF Committing
<1>5. ASSUME NEW w \in Worker, Abort(w) PROVE Inv'
    BY <1>5, RollbackInv DEF Abort
<1> QED
    BY <1>1, <1>2, <1>3, <1>4, <1>5 DEF Next

THEOREM Invariance == Spec => []Inv
<1> QED
    BY InitInv, NextInv, PTL DEF Spec

(* Every table, lock and open transaction is always well formed. *)
THEOREM TypeCorrect == Spec => []TypeOK
<1>1. Inv => TypeOK
    BY DEF Inv
<1> QED
    BY <1>1, Invariance, PTL

(* Whatever payments, voids and discounts run at once on an invoice, no    *)
(* instalment is ever paid more than it asks for.                          *)
THEOREM NeverOverpaid == Spec => []NoInstalmentOverpaid
<1>1. Inv => NoInstalmentOverpaid
    BY DEF Inv
<1> QED
    BY <1>1, Invariance, PTL

(* A transaction commits what is still true: its locks keep what it read.  *)
THEOREM LocksKeepWorkCurrent == Spec => []WorkIsCurrent
<1>1. Inv => WorkIsCurrent
    BY DEF Inv
<1> QED
    BY <1>1, Invariance, PTL

-----------------------------------------------------------------------------
(* The tables change only when a transaction commits. *)
LEMMA OnlyCommitsShow ==
    ASSUME [Next]_vars
    PROVE  UNCHANGED tables \/ \E w \in Worker : Committing(w)
<1>1. CASE UNCHANGED vars
    BY <1>1 DEF vars, tables
<1>2. ASSUME NEW w \in Worker, Starting(w) PROVE UNCHANGED tables
    BY <1>2 DEF Starting, LockAndAllocate, RequestDiscount, RequestVoid, ReadAndAsk, LockRequest
<1>3. ASSUME NEW w \in Worker, Working(w) PROVE UNCHANGED tables
    BY <1>3 DEF Working, TakeReceiptNumber, RefuseRequest, ApplyDiscount, RefuseDiscount,
                VoidPayment, RefuseVoid
<1>4. ASSUME NEW w \in Worker, Abort(w) PROVE UNCHANGED tables
    BY <1>4 DEF Abort
<1> QED
    BY <1>1, <1>2, <1>3, <1>4 DEF Next

(* What the commits of a payment and of a void do to the payments. *)
LEMMA PaymentBooked ==
    ASSUME Inv, NEW w \in Worker, CommitPayment(w)
    PROVE  /\ counter' = counter + 1
           /\ DOMAIN payment' = Payment
           /\ \E p \in Payment : /\ payment[p] = NoPayment
                                 /\ payment'[p] # NoPayment
                                 /\ payment'[p].receipt = counter + 1
                                 /\ \A q \in Payment \ {p} : payment'[q] = payment[q]
<1>1. counter' = counter + 1 /\ tx[w].receipt = counter + 1
    BY DEF Inv, WorkIsCurrent, IsCurrent, PayingIsCurrent, CommitPayment
<1>2. PICK p \in Payment :
          /\ payment[p] = NoPayment
          /\ payment' = [payment EXCEPT ![p] =
                 [status |-> "posted", invoice |-> tx[w].invoice, amount |-> tx[w].amount,
                  take |-> tx[w].take, receipt |-> tx[w].receipt]]
    BY DEF CommitPayment
<1>3. /\ DOMAIN payment' = Payment
      /\ payment'[p].status = "posted" /\ payment'[p].receipt = counter + 1
      /\ \A q \in Payment \ {p} : payment'[q] = payment[q]
    BY <1>1, <1>2 DEF Inv, TypeOK
<1>4. payment'[p] # NoPayment
    BY <1>3 DEF NoPayment
<1> QED
    BY <1>1, <1>2, <1>3, <1>4

LEMMA PaymentVoided ==
    ASSUME Inv, NEW w \in Worker, CommitVoid(w)
    PROVE  /\ counter' = counter
           /\ tx[w].payment \in Payment
           /\ payment[tx[w].payment].status = "posted"
           /\ payment[tx[w].payment] # NoPayment
           /\ payment'[tx[w].payment] = [payment[tx[w].payment] EXCEPT !.status = "void"]
           /\ payment'[tx[w].payment] # NoPayment
           /\ payment'[tx[w].payment].receipt = payment[tx[w].payment].receipt
           /\ \A q \in Payment \ {tx[w].payment} : payment'[q] = payment[q]
<1>1. PICK i \in Invoice : tx[w] \in ApprovingTx(i)
    BY Approved DEF CommitVoid
<1>2. tx[w].payment \in Payment /\ payment[tx[w].payment].status = "posted"
    BY <1>1 DEF CommitVoid, ApprovingTx, Inv, WorkIsCurrent, IsCurrent, VoidIsCurrent
<1>3. PICK j \in Invoice : payment[tx[w].payment] \in PaymentOf(j)
    BY <1>2, BookedPayment DEF Inv
<1>4. counter' = counter /\ payment' = [payment EXCEPT ![tx[w].payment].status = "void"]
    BY DEF CommitVoid
<1>5. /\ payment'[tx[w].payment] = [payment[tx[w].payment] EXCEPT !.status = "void"]
      /\ \A q \in Payment \ {tx[w].payment} : payment'[q] = payment[q]
    BY <1>2, <1>4 DEF Inv, TypeOK
<1>6. /\ payment'[tx[w].payment].status = "void"
      /\ payment'[tx[w].payment].receipt = payment[tx[w].payment].receipt
    BY <1>3, <1>5 DEF PaymentOf
<1> QED
    BY <1>2, <1>4, <1>5, <1>6 DEF NoPayment

LEMMA GaplessNext ==
    ASSUME Inv, ReceiptsGapless, [Next]_vars
    PROVE  ReceiptsGapless'
<1>1. CASE UNCHANGED <<payment, counter>>
    BY <1>1 DEF ReceiptsGapless, Receipted
<1>2. ASSUME NEW w \in Worker, CommitPayment(w)
      PROVE  ReceiptsGapless'
    <2>1. PICK p \in Payment : /\ payment[p] = NoPayment
                               /\ payment'[p] # NoPayment
                               /\ payment'[p].receipt = counter + 1
                               /\ \A q \in Payment \ {p} : payment'[q] = payment[q]
        BY <1>2, PaymentBooked
    <2>2. counter' = counter + 1 /\ counter \in Nat
        BY <1>2, PaymentBooked DEF Inv, TypeOK
    <2>3. Receipted' = Receipted \cup {p} /\ p \notin Receipted
        BY <2>1 DEF Receipted
    <2>4. \A q \in Receipted : payment'[q].receipt = payment[q].receipt /\ payment[q].receipt \in 1..counter
        BY <2>1, <2>3 DEF ReceiptsGapless, Receipted
    <2>5. {payment'[q].receipt : q \in Receipted'} = 1..counter'
        <3>1. 1..(counter + 1) = 1..counter \cup {counter + 1}
            BY <2>2
        <3> QED
            BY <2>1, <2>2, <2>3, <2>4, <3>1 DEF ReceiptsGapless
    <2>6. \A q \in Receipted : payment'[q].receipt # payment'[p].receipt
        BY <2>1, <2>2, <2>4
    <2>7. \A q, r \in Receipted' : payment'[q].receipt = payment'[r].receipt => q = r
        BY <2>3, <2>4, <2>6 DEF ReceiptsGapless
    <2> QED
        BY <2>5, <2>7 DEF ReceiptsGapless
<1>3. ASSUME NEW w \in Worker, CommitVoid(w)
      PROVE  ReceiptsGapless'
    <2>1. counter' = counter /\ Receipted' = Receipted
        BY <1>3, PaymentVoided DEF Receipted
    <2>2. \A q \in Receipted : payment'[q].receipt = payment[q].receipt
        BY <1>3, PaymentVoided DEF Receipted
    <2> QED
        BY <2>1, <2>2 DEF ReceiptsGapless
<1> QED
    BY <1>1, <1>2, <1>3, OnlyCommitsShow
    DEF tables, Committing, CommitRequest, CommitDiscount, CommitRejection

(* Receipt numbers have no hole and no repeat, for any number of clerks:   *)
(* the counter row's lock makes what numbering.next read the newest number *)
(* until the payment commits with it or gives it back.                     *)
THEOREM NumbersWithoutGap == Spec => []ReceiptsGapless
<1>1. Init => ReceiptsGapless
    BY DEF Init, ReceiptsGapless, Receipted
<1> QED
    BY <1>1, GaplessNext, Invariance, PTL DEF Spec

-----------------------------------------------------------------------------
(* A decision changes one pending request. *)
LEMMA DecisionsArePending ==
    ASSUME Inv, NEW w \in Worker, NEW status \in {"approved", "rejected"},
           tx[w].request \in Request, tx[w].by \in User, Decided(w, status)
    PROVE  \A r \in Request : request[r].status # "pending" =>
               r # tx[w].request /\ request'[r] = request[r]
BY DecidedType DEF Decided

Final ==
    /\ \A p \in Payment : payment[p] # NoPayment =>
           payment'[p] \in {payment[p], [payment[p] EXCEPT !.status = "void"]}
    /\ \A r \in Request : request[r] # NoRequest /\ request[r].status # "pending" =>
           request'[r] = request[r] /\ discount'[r] = discount[r]
    /\ counter' >= counter

LEMMA FinalNext ==
    ASSUME Inv, [Next]_vars
    PROVE  Final
<1>0. counter \in Nat
    BY DEF Inv, TypeOK
<1>1. CASE UNCHANGED tables
    BY <1>0, <1>1 DEF Final, tables
<1>2. ASSUME NEW w \in Worker, CommitPayment(w)
      PROVE  Final
    <2>1. PICK p \in Payment : /\ payment[p] = NoPayment
                               /\ \A q \in Payment \ {p} : payment'[q] = payment[q]
        BY <1>2, PaymentBooked
    <2>2. \A q \in Payment : payment[q] # NoPayment => payment'[q] = payment[q]
        BY <2>1
    <2>3. counter' = counter + 1
        BY <1>2, PaymentBooked
    <2>4. UNCHANGED <<request, discount>>
        BY <1>2 DEF CommitPayment
    <2> QED
        BY <1>0, <2>2, <2>3, <2>4 DEF Final
<1>3. ASSUME NEW w \in Worker, CommitRequest(w)
      PROVE  Final
    BY <1>0, <1>3 DEF CommitRequest, Final, Inv, TypeOK
<1>4. ASSUME NEW w \in Worker, CommitDiscount(w)
      PROVE  Final
    <2>1. tx[w].request \in Request /\ tx[w].by \in User
        BY <1>4, Approved DEF CommitDiscount
    <2>2. \A r \in Request : request[r].status # "pending" =>
              r # tx[w].request /\ request'[r] = request[r]
        BY <1>4, <2>1, DecisionsArePending DEF CommitDiscount
    <2>3. \A r \in Request : r # tx[w].request => discount'[r] = discount[r]
        BY <1>4 DEF CommitDiscount, Inv, TypeOK
    <2> QED
        BY <1>0, <1>4, <2>2, <2>3 DEF CommitDiscount, Final
<1>5. ASSUME NEW w \in Worker, CommitVoid(w)
      PROVE  Final
    <2>1. tx[w].request \in Request /\ tx[w].by \in User
        BY <1>5, Approved DEF CommitVoid
    <2>2. \A r \in Request : request[r].status # "pending" => request'[r] = request[r]
        BY <1>5, <2>1, DecisionsArePending DEF CommitVoid
    <2>3. \A p \in Payment : payment'[p] \in {payment[p], [payment[p] EXCEPT !.status = "void"]}
        BY <1>5, PaymentVoided
    <2> QED
        BY <1>0, <1>5, <2>2, <2>3 DEF CommitVoid, Final
<1>6. ASSUME NEW w \in Worker, CommitRejection(w)
      PROVE  Final
    <2>1. tx[w].request \in Request /\ tx[w].by \in User
        BY <1>6, Deciding DEF CommitRejection
    <2>2. \A r \in Request : request[r].status # "pending" => request'[r] = request[r]
        BY <1>6, <2>1, DecisionsArePending DEF CommitRejection
    <2> QED
        BY <1>0, <1>6, <2>2 DEF CommitRejection, Final
<1> QED
    BY <1>1, <1>2, <1>3, <1>4, <1>5, <1>6, OnlyCommitsShow DEF Committing

(* Booked payments only turn void and decided requests never change, for   *)
(* any number of workers.                                                  *)
THEOREM WrittenForGood == Spec => HistoryIsFinal
<1>1. Inv /\ [Next]_vars => [Final]_vars
    BY FinalNext
<1> QED
    BY <1>1, Invariance, PTL DEF Spec, HistoryIsFinal, Final

-----------------------------------------------------------------------------
(* The row a decision leaves behind. *)
LEMMA DecidedFields ==
    ASSUME Inv, NEW w \in Worker, NEW status \in {"approved", "rejected"},
           tx[w].request \in Request, tx[w].by \in User, Decided(w, status)
    PROVE  /\ request'[tx[w].request] # NoRequest
           /\ request'[tx[w].request].status = status
           /\ request'[tx[w].request].decidedBy = tx[w].by
           /\ request'[tx[w].request].what = request[tx[w].request].what
           /\ request'[tx[w].request].by = request[tx[w].request].by
<1> DEFINE r == tx[w].request
<1>1. request[r] \in RequestRow /\ request[r].status = "pending"
    BY DEF Inv, TypeOK, Decided
<1>2. request[r] \in [status : {"pending", "approved", "rejected"}, what : Discount \cup Void,
                      by : User, decidedBy : User \cup {NoOne}]
    BY <1>1 DEF RequestRow, NoRequest
<1>3. request'[r] = [request[r] EXCEPT !.status = status, !.decidedBy = tx[w].by]
    BY <1>2 DEF Decided, Inv, TypeOK
<1>4. /\ request'[r].status = status /\ request'[r].decidedBy = tx[w].by
      /\ request'[r].what = request[r].what /\ request'[r].by = request[r].by
    BY <1>2, <1>3
<1>5. request'[r] # NoRequest
    BY <1>4 DEF NoRequest
<1> QED
    BY <1>4, <1>5

IsApproved(r, type) ==
    /\ request[r] # NoRequest
    /\ request[r].status = "approved"
    /\ request[r].what.type = type

(* FourEyes in the form that is kept by every step: also a payment that    *)
(* does not exist yet has no approved void.                                *)
VoidedByOne ==
    \A p \in Payment : IF payment[p].status = "void"
                       THEN \E r \in Request : ApprovedVoids(p) = {r}
                       ELSE ApprovedVoids(p) = {}
WrittenByOne ==
    \A r \in Request : Len(discount[r]) = IF IsApproved(r, "discount") THEN 1 ELSE 0
DecidedByOther ==
    \A r \in Request : request[r] # NoRequest /\ request[r].status # "pending" =>
        request[r].decidedBy \in User \ {request[r].by}
Eyes == VoidedByOne /\ WrittenByOne /\ DecidedByOther

LEMMA EyesAreFour == ASSUME Inv, Eyes PROVE FourEyes
<1>1. ASSUME NEW p \in Receipted
      PROVE  IF payment[p].status = "void" THEN Cardinality(ApprovedVoids(p)) = 1
                                           ELSE ApprovedVoids(p) = {}
    <2>1. \A r \in Request : Cardinality({r}) = 1
        BY FS_Singleton
    <2> QED
        BY <2>1 DEF Eyes, VoidedByOne, Receipted
<1> QED
    BY <1>1 DEF Eyes, WrittenByOne, DecidedByOther, IsApproved, FourEyes

(* Requests whose status and subject stay leave the approved voids as they are. *)
LEMMA VoidsStay ==
    ASSUME NEW p \in Payment,
           \A r \in Request : request'[r] = request[r]
               \/ (~IsApproved(r, "payment_void") /\ ~IsApproved(r, "payment_void")')
    PROVE  ApprovedVoids(p)' = ApprovedVoids(p)
BY DEF ApprovedVoids, IsApproved

LEMMA EyesOnPayment ==
    ASSUME Inv, Eyes, NEW w \in Worker, CommitPayment(w)
    PROVE  Eyes'
<1>1. UNCHANGED <<request, discount>>
    BY DEF CommitPayment
<1>2. \A p \in Payment : ApprovedVoids(p)' = ApprovedVoids(p)
    BY <1>1 DEF ApprovedVoids
<1>3. PICK p \in Payment :
          /\ payment[p] = NoPayment
          /\ payment' = [payment EXCEPT ![p] =
                 [status |-> "posted", invoice |-> tx[w].invoice, amount |-> tx[w].amount,
                  take |-> tx[w].take, receipt |-> tx[w].receipt]]
    BY DEF CommitPayment
<1>4. /\ payment[p].status = "none" /\ payment'[p].status = "posted"
      /\ \A q \in Payment \ {p} : payment'[q] = payment[q]
    BY <1>3 DEF Inv, TypeOK, NoPayment
<1>5. VoidedByOne'
    BY <1>2, <1>4 DEF Eyes, VoidedByOne
<1> QED
    BY <1>1, <1>5 DEF Eyes, WrittenByOne, DecidedByOther, IsApproved

LEMMA EyesOnRequest ==
    ASSUME Inv, Eyes, NEW w \in Worker, CommitRequest(w)
    PROVE  Eyes'
<1>1. PICK r \in Request :
          /\ request[r] = NoRequest
          /\ request' = [request EXCEPT ![r] =
                 [status |-> "pending", what |-> tx[w].what, by |-> tx[w].by,
                  decidedBy |-> NoOne]]
    BY DEF CommitRequest
<1>2. /\ request'[r].status = "pending"
      /\ \A q \in Request \ {r} : request'[q] = request[q]
    BY <1>1 DEF Inv, TypeOK
<1>3. UNCHANGED <<payment, discount>>
    BY DEF CommitRequest
<1>4. \A type : ~IsApproved(r, type) /\ ~IsApproved(r, type)'
    BY <1>1, <1>2 DEF IsApproved
<1>5. \A p \in Payment : ApprovedVoids(p)' = ApprovedVoids(p)
    BY <1>2, <1>4, VoidsStay
<1>6. VoidedByOne'
    BY <1>3, <1>5 DEF Eyes, VoidedByOne
<1>7. WrittenByOne'
    BY <1>2, <1>3, <1>4 DEF Eyes, WrittenByOne, IsApproved
<1>8. DecidedByOther'
    BY <1>2 DEF Eyes, DecidedByOther
<1> QED
    BY <1>6, <1>7, <1>8 DEF Eyes

(* A decision of someone other than who asked. *)
LEMMA EyesOnDecision ==
    ASSUME Inv, Eyes, NEW w \in Worker, NEW status \in {"approved", "rejected"},
           tx[w].request \in Request, tx[w].by \in User, DecidingIsCurrent(w),
           Decided(w, status)
    PROVE  DecidedByOther'
<1>1. /\ \A q \in Request \ {tx[w].request} : request'[q] = request[q]
      /\ request'[tx[w].request].decidedBy = tx[w].by
      /\ request'[tx[w].request].by = request[tx[w].request].by
    BY DecidedType, DecidedFields
<1>2. tx[w].by # request[tx[w].request].by
    BY DEF DecidingIsCurrent
<1> QED
    BY <1>1, <1>2 DEF Eyes, DecidedByOther

LEMMA EyesOnRejection ==
    ASSUME Inv, Eyes, NEW w \in Worker, CommitRejection(w)
    PROVE  Eyes'
<1>1. PICK r \in Request : r = tx[w].request /\ tx[w].by \in User /\ DecidingIsCurrent(w)
    BY Deciding DEF CommitRejection
<1>2. Decided(w, "rejected") /\ UNCHANGED <<payment, discount>>
    BY DEF CommitRejection
<1>3. /\ request[r].status = "pending" /\ request'[r].status = "rejected"
      /\ \A q \in Request \ {r} : request'[q] = request[q]
    BY <1>1, <1>2, DecidedType, DecidedFields DEF DecidingIsCurrent
<1>4. \A type : ~IsApproved(r, type) /\ ~IsApproved(r, type)'
    BY <1>3 DEF IsApproved
<1>5. \A p \in Payment : ApprovedVoids(p)' = ApprovedVoids(p)
    BY <1>3, <1>4, VoidsStay
<1>6. VoidedByOne'
    BY <1>2, <1>5 DEF Eyes, VoidedByOne
<1>7. WrittenByOne'
    BY <1>2, <1>3, <1>4 DEF Eyes, WrittenByOne, IsApproved
<1>8. DecidedByOther'
    BY <1>1, <1>2, EyesOnDecision
<1> QED
    BY <1>6, <1>7, <1>8 DEF Eyes

LEMMA EyesOnDiscount ==
    ASSUME Inv, Eyes, NEW w \in Worker, CommitDiscount(w)
    PROVE  Eyes'
<1>1. PICK r \in Request :
          /\ r = tx[w].request /\ tx[w].by \in User
          /\ DecidingIsCurrent(w) /\ request[r].what.type = "discount"
    <2>1. tx[w].request \in Request /\ tx[w].by \in User
        BY Approved DEF CommitDiscount
    <2> QED
        BY <2>1 DEF CommitDiscount, Inv, WorkIsCurrent, IsCurrent, DiscountIsCurrent
<1>2. /\ Decided(w, "approved") /\ UNCHANGED payment
      /\ discount' = [discount EXCEPT ![r] = Append(@, tx[w].amount)]
    BY <1>1 DEF CommitDiscount
<1>3. /\ request[r].status = "pending"
      /\ request'[r] # NoRequest /\ request'[r].status = "approved"
      /\ request'[r].what.type = "discount"
      /\ \A q \in Request \ {r} : request'[q] = request[q]
    BY <1>1, <1>2, DecidedType, DecidedFields DEF DecidingIsCurrent
<1>4. /\ ~IsApproved(r, "payment_void") /\ ~IsApproved(r, "payment_void")'
      /\ ~IsApproved(r, "discount") /\ IsApproved(r, "discount")'
    BY <1>3 DEF IsApproved
<1>5. \A p \in Payment : ApprovedVoids(p)' = ApprovedVoids(p)
    BY <1>3, <1>4, VoidsStay
<1>6. VoidedByOne'
    BY <1>2, <1>5 DEF Eyes, VoidedByOne
<1>7. WrittenByOne'
    <2>1. Len(discount'[r]) = 1
        <3>1. discount[r] \in Seq(Nat) /\ Len(discount[r]) = 0 /\ tx[w].amount \in Nat
            <4>1. PICK i \in Invoice : tx[w] \in ApprovingTx(i)
                BY Approved DEF CommitDiscount
            <4>2. tx[w].amount \in Nat
                BY <4>1 DEF ApprovingTx, CommitDiscount
            <4> QED
                BY <1>1, <1>4, <4>2 DEF Eyes, WrittenByOne, Inv, TypeOK
        <3>2. discount'[r] = Append(discount[r], tx[w].amount)
            BY <1>1, <1>2 DEF Inv, TypeOK
        <3> QED
            BY <3>1, <3>2
    <2>2. \A q \in Request \ {r} : discount'[q] = discount[q]
        BY <1>2 DEF Inv, TypeOK
    <2>3. \A q \in Request \ {r} : IsApproved(q, "discount")' <=> IsApproved(q, "discount")
        BY <1>3 DEF IsApproved
    <2> QED
        BY <1>4, <2>1, <2>2, <2>3 DEF Eyes, WrittenByOne
<1>8. DecidedByOther'
    BY <1>1, <1>2, EyesOnDecision
<1> QED
    BY <1>6, <1>7, <1>8 DEF Eyes

LEMMA EyesOnVoid ==
    ASSUME Inv, Eyes, NEW w \in Worker, CommitVoid(w)
    PROVE  Eyes'
<1>p. PICK p \in Payment : p = tx[w].payment
    BY PaymentVoided
<1>1. PICK r \in Request :
          /\ r = tx[w].request /\ tx[w].by \in User /\ DecidingIsCurrent(w)
          /\ request[r].what = [type |-> "payment_void", payment |-> p]
    <2>1. tx[w].request \in Request /\ tx[w].by \in User
        BY Approved DEF CommitVoid
    <2> QED
        BY <1>p, <2>1 DEF CommitVoid, Inv, WorkIsCurrent, IsCurrent, VoidIsCurrent
<1>2. Decided(w, "approved") /\ UNCHANGED discount
    BY DEF CommitVoid
<1>3. /\ request[r].status = "pending"
      /\ request'[r] # NoRequest /\ request'[r].status = "approved"
      /\ request'[r].what = request[r].what
      /\ \A q \in Request \ {r} : request'[q] = request[q]
    BY <1>1, <1>2, DecidedType, DecidedFields DEF DecidingIsCurrent
<1>4. /\ p \in Payment /\ payment[p].status = "posted"
      /\ payment'[p].status = "void"
      /\ \A q \in Payment \ {p} : payment'[q] = payment[q]
    <2>1. p \in Payment /\ payment[p].status = "posted"
        BY <1>p, PaymentVoided
    <2>2. payment'[p] = [payment[p] EXCEPT !.status = "void"]
        BY <1>p, PaymentVoided
    <2>3. payment[p] \in PaymentOf(payment[p].invoice)
        BY <2>1, BookedPayment DEF Inv
    <2>4. payment'[p].status = "void"
        BY <2>2, <2>3 DEF PaymentOf
    <2> QED
        BY <1>p, <2>1, <2>4, PaymentVoided
<1>5. VoidedByOne'
    <2>1. ApprovedVoids(p)' = {r}
        <3>1. ApprovedVoids(p) = {}
            BY <1>4 DEF Eyes, VoidedByOne
        <3>2. \A q \in Request \ {r} : q \notin ApprovedVoids(p)'
            BY <1>3, <3>1 DEF ApprovedVoids
        <3>3. r \in ApprovedVoids(p)'
            BY <1>1, <1>3 DEF ApprovedVoids
        <3>4. ApprovedVoids(p)' \subseteq Request
            BY DEF ApprovedVoids
        <3> QED
            BY <3>2, <3>3, <3>4
    <2>2. \A q \in Payment \ {p} : ApprovedVoids(q)' = ApprovedVoids(q)
        <3>1. \A q \in Payment \ {p} : r \notin ApprovedVoids(q) /\ r \notin ApprovedVoids(q)'
            BY <1>1, <1>3 DEF ApprovedVoids
        <3>2. \A q \in Payment \ {p}, s \in Request \ {r} :
                  s \in ApprovedVoids(q)' <=> s \in ApprovedVoids(q)
            BY <1>3 DEF ApprovedVoids
        <3>3. \A q \in Payment : ApprovedVoids(q) \subseteq Request /\ ApprovedVoids(q)' \subseteq Request
            BY DEF ApprovedVoids
        <3> QED
            BY <3>1, <3>2, <3>3
    <2> QED
        BY <1>1, <1>4, <2>1, <2>2 DEF Eyes, VoidedByOne
<1>6. WrittenByOne'
    <2>1. ~IsApproved(r, "discount") /\ ~IsApproved(r, "discount")'
        BY <1>1, <1>3 DEF IsApproved
    <2>2. \A q \in Request \ {r} : IsApproved(q, "discount")' <=> IsApproved(q, "discount")
        BY <1>3 DEF IsApproved
    <2> QED
        BY <1>2, <2>1, <2>2 DEF Eyes, WrittenByOne
<1>7. DecidedByOther'
    BY <1>1, <1>2, EyesOnDecision
<1> QED
    BY <1>5, <1>6, <1>7 DEF Eyes

LEMMA EyesNext == ASSUME Inv, Eyes, [Next]_vars PROVE Eyes'
<1>1. CASE UNCHANGED tables
    BY <1>1 DEF tables, Eyes, VoidedByOne, WrittenByOne, DecidedByOther, IsApproved, ApprovedVoids
<1> QED
    BY <1>1, OnlyCommitsShow, EyesOnPayment, EyesOnRequest, EyesOnDiscount, EyesOnVoid,
       EyesOnRejection DEF Committing

(* A payment is void, and a discount written, exactly when one approved    *)
(* request says so, decided by someone other than who asked, for any       *)
(* number of people deciding at once (approvals.decide).                   *)
THEOREM MakerChecker == Spec => []FourEyes
<1>1. Init => Eyes
    BY DEF Init, Eyes, VoidedByOne, WrittenByOne, DecidedByOther, IsApproved, ApprovedVoids,
           NoPayment
<1> QED
    BY <1>1, EyesNext, EyesAreFour, Invariance, PTL DEF Spec

-----------------------------------------------------------------------------
(* An allowed discount changes nothing but amounts, so what the            *)
(* transaction saw is what it leaves behind.                               *)
LEMMA DiscountLeavesSeen ==
    ASSUME NEW i \in Invoice, NEW ps \in Parts(i), NEW seen \in Parts(i),
           \A k \in DOMAIN ps : ps[k].paid = seen[k].paid
    PROVE  NewAmounts(ps, seen) = seen
<1>1. \A k \in DOMAIN Fee[i] : [ps[k] EXCEPT !.amount = seen[k].amount] = seen[k]
    BY DEF Parts
<1> QED
    BY <1>1 DEF Parts, NewAmounts

(* Settling an invoice with what the instalments become. *)
LEMMA SettleKeepsTotals ==
    ASSUME TypeOK, TotalsSettled, NEW i \in Invoice, NEW now,
           parts' = [parts EXCEPT ![i] = now],
           invoice' = [invoice EXCEPT ![i] = SettledRow(i, now)]
    PROVE  TotalsSettled'
<1> SUFFICES ASSUME NEW j \in Invoice PROVE invoice'[j] = SettledRow(j, parts'[j])
    BY DEF TotalsSettled, SettledRow
<1>1. CASE j = i
    BY <1>1 DEF TypeOK
<1>2. CASE j # i
    BY <1>2 DEF TypeOK, TotalsSettled
<1> QED
    BY <1>1, <1>2

LEMMA TotalsNext == ASSUME Inv, TotalsSettled, [Next]_vars PROVE TotalsSettled'
<1>1. CASE UNCHANGED <<parts, invoice>>
    BY <1>1 DEF TotalsSettled, SettledRow
<1>2. ASSUME NEW w \in Worker, CommitPayment(w) PROVE TotalsSettled'
    <2>1. PICK i \in Invoice : i = tx[w].invoice
        <3>1. PICK i \in Invoice : tx[w] \in PayingTx(i)
            BY <1>2, PayingStep DEF Inv, CommitPayment
        <3> QED
            BY <3>1 DEF PayingTx
    <2>2. tx[w].seen = AfterPayment(parts[i], tx[w].take)
        BY <1>2, <2>1 DEF Inv, WorkIsCurrent, IsCurrent, PayingIsCurrent, CommitPayment
    <2>3. /\ parts' = [parts EXCEPT ![i] = tx[w].seen]
          /\ invoice' = [invoice EXCEPT ![i] = SettledRow(i, tx[w].seen)]
        BY <1>2, <2>1, <2>2 DEF CommitPayment
    <2> QED
        BY <2>3, SettleKeepsTotals DEF Inv
<1>3. ASSUME NEW w \in Worker, CommitDiscount(w) PROVE TotalsSettled'
    <2>1. PICK i \in Invoice : i = tx[w].invoice /\ tx[w].seen \in Parts(i)
        BY <1>3, Approved DEF CommitDiscount
    <2>2. \A k \in DOMAIN parts[i] : parts[i][k].paid = tx[w].seen[k].paid
        BY <1>3, <2>1 DEF Inv, WorkIsCurrent, IsCurrent, DiscountIsCurrent, CommitDiscount
    <2>3. NewAmounts(parts[i], tx[w].seen) = tx[w].seen
        BY <2>1, <2>2, DiscountLeavesSeen DEF Inv, TypeOK
    <2>4. /\ parts' = [parts EXCEPT ![i] = tx[w].seen]
          /\ invoice' = [invoice EXCEPT ![i] = SettledRow(i, tx[w].seen)]
        BY <1>3, <2>1, <2>3 DEF CommitDiscount
    <2> QED
        BY <2>4, SettleKeepsTotals DEF Inv
<1>4. ASSUME NEW w \in Worker, CommitVoid(w) PROVE TotalsSettled'
    <2>1. PICK i \in Invoice : i = tx[w].invoice
        BY <1>4, Approved DEF CommitVoid
    <2>2. tx[w].seen = AfterVoid(parts[i], payment[tx[w].payment].take)
        BY <1>4, <2>1 DEF Inv, WorkIsCurrent, IsCurrent, VoidIsCurrent, CommitVoid
    <2>3. /\ parts' = [parts EXCEPT ![i] = tx[w].seen]
          /\ invoice' = [invoice EXCEPT ![i] = SettledRow(i, tx[w].seen)]
        BY <1>4, <2>1, <2>2 DEF CommitVoid
    <2> QED
        BY <2>3, SettleKeepsTotals DEF Inv
<1> QED
    BY <1>1, <1>2, <1>3, <1>4, OnlyCommitsShow
    DEF tables, Committing, CommitRequest, CommitRejection

(* The totals stored on an invoice are those of its stored instalments,    *)
(* although they are computed from what a transaction saw earlier.         *)
THEOREM TotalsFollowParts == Spec => []TotalsSettled
<1>1. Init => TotalsSettled
    BY DEF Init, TotalsSettled
<1> QED
    BY <1>1, TotalsNext, Invariance, PTL DEF Spec

-----------------------------------------------------------------------------
(* What SumFunction adds up: the sums of money-flow.ts and of the settle   *)
(* query are sums over the instalments, payments and discounts of an       *)
(* invoice.  SumFunction is defined by recursion over the finite subsets   *)
(* of its domain; everything up to TotalOfOne follows from the fact that a *)
(* non-empty set of naturals has a least element, so that nothing holds of *)
(* all sets but one of least size.                                         *)

(* The element the recursion takes from a set. *)
Pick(s) == CHOOSE x \in s : TRUE

(* h is the sum of f over every subset of S, by the recursion that defines it. *)
AddsUp(h, f, S) ==
    h = [s \in SUBSET S |-> IF s = {} THEN 0 ELSE f[Pick(s)] + h[s \ {Pick(s)}]]

(* It does not matter which element is taken. *)
InAnyOrder(h, f, S) == \A s \in SUBSET S : \A x \in s : h[s] = f[x] + h[s \ {x}]

(* f has a number for everything in S. *)
Counts(f, S) == IsFiniteSet(S) /\ \A x \in S : f[x] \in Int

(* A non-empty set of naturals has a least element. *)
LEMMA LeastNat ==
    ASSUME NEW N \in SUBSET Nat, N # {} PROVE \E m \in N : \A n \in N : m <= n
<1> DEFINE R == OpToRel(<, Nat)
<1>1. IsWellFoundedOn(R, Nat)
    BY NatLessThanWellFounded
<1>2. \A x, y \in Nat : y < x => <<y, x>> \in R
    BY Zenon DEF OpToRel
<1> HIDE DEF R
<1>3. PICK x \in N : \A y \in N : ~ (<<y, x>> \in R)
    BY <1>1, WFMin
<1>4. ASSUME NEW n \in N PROVE x <= n
    <2>1. x \in Nat /\ n \in Nat
        OBVIOUS
    <2>2. ~ (n < x)
        BY <1>2, <1>3, <2>1, Zenon
    <2> QED
        BY <2>1, <2>2
<1> QED
    BY <1>4

(* Hence a non-empty collection of subsets of a finite set has one that no *)
(* other is smaller than.                                                  *)
LEMMA SmallestSubset ==
    ASSUME NEW S, IsFiniteSet(S), NEW C \in SUBSET SUBSET S, C # {}
    PROVE  \E s \in C : \A t \in C : Cardinality(s) <= Cardinality(t)
<1> DEFINE N == {Cardinality(s) : s \in C}
<1>1. \A s \in C : Cardinality(s) \in Nat
    BY FS_Subset, FS_CardinalityType
<1>2. N \in SUBSET Nat /\ N # {}
    BY <1>1
<1>3. PICK m \in N : \A n \in N : m <= n
    <2> HIDE DEF N
    <2> QED
        BY <1>2, LeastNat
<1> QED
    BY <1>3

LEMMA PickIsMember == \A s : s # {} => Pick(s) \in s
BY DEF Pick

(* One element less makes a finite set smaller. *)
LEMMA OneLess ==
    ASSUME NEW S, IsFiniteSet(S), NEW s \in SUBSET S, NEW x \in s
    PROVE  /\ s \ {x} \in SUBSET S /\ IsFiniteSet(s) /\ IsFiniteSet(s \ {x})
           /\ Cardinality(s) \in Nat /\ Cardinality(s \ {x}) = Cardinality(s) - 1
<1>1. IsFiniteSet(s)
    BY FS_Subset
<1> QED
    BY <1>1, FS_RemoveElement, FS_CardinalityType

(* The recursion has a solution: one that is right up to some size can be  *)
(* carried to the sets with one element more.                              *)
LEMMA AddsUpExists ==
    ASSUME NEW f, NEW S, Counts(f, S)
    PROVE  \E h \in [SUBSET S -> Int] : AddsUp(h, f, S)
<1> DEFINE Upto(n) == {s \in SUBSET S : Cardinality(s) <= n}
           Right(h, n) ==
               /\ h \in [SUBSET S -> Int]
               /\ \A s \in Upto(n) :
                      h[s] = IF s = {} THEN 0 ELSE f[Pick(s)] + h[s \ {Pick(s)}]
           N == {n \in Nat : ~ \E h : Right(h, n)}
<1>1. IsFiniteSet(S) /\ \A x \in S : f[x] \in Int
    BY DEF Counts
<1>2. \E h : Right(h, 0)
    <2> DEFINE h == [s \in SUBSET S |-> 0]
    <2>1. \A s \in Upto(0) : s = {}
        BY <1>1, FS_Subset, FS_EmptySet, FS_CardinalityType
    <2>2. Right(h, 0)
        BY <2>1
    <2> QED
        BY <2>2
<1>3. ASSUME NEW n \in Nat, NEW h, Right(h, n)
      PROVE  \E g : Right(g, n + 1)
    <2> DEFINE g == [s \in SUBSET S |-> IF s = {} THEN 0
                        ELSE IF s \in Upto(n + 1) THEN f[Pick(s)] + h[s \ {Pick(s)}] ELSE 0]
    <2>1. \A s \in SUBSET S : s # {} => f[Pick(s)] \in Int /\ s \ {Pick(s)} \in SUBSET S
        BY <1>1, PickIsMember
    <2>2. g \in [SUBSET S -> Int]
        BY <1>3, <2>1
    <2>3. ASSUME NEW s \in Upto(n + 1), s # {}
          PROVE  g[s \ {Pick(s)}] = h[s \ {Pick(s)}]
        <3> DEFINE t == s \ {Pick(s)}
        <3>1. t \in Upto(n)
            <4>1. Pick(s) \in s /\ s \in SUBSET S
                BY <2>3, PickIsMember
            <4>p. PICK x \in s : x = Pick(s)
                BY <4>1
            <4>2. /\ t \in SUBSET S
                  /\ Cardinality(s) \in Nat /\ Cardinality(t) = Cardinality(s) - 1
                BY <1>1, <4>1, <4>p, OneLess
            <4>3. Cardinality(t) <= n
                BY <4>2
            <4> QED
                BY <4>2, <4>3
        <3>2. n <= n + 1 /\ \A m \in Nat : m <= n => m <= n + 1
            OBVIOUS
        <3>3. t \in Upto(n + 1)
            BY <1>1, <3>1, <3>2, FS_Subset, FS_CardinalityType
        <3>4. h[t] = IF t = {} THEN 0 ELSE f[Pick(t)] + h[t \ {Pick(t)}]
            BY <1>3, <3>1
        <3>5. g[t] = IF t = {} THEN 0 ELSE f[Pick(t)] + h[t \ {Pick(t)}]
            BY <3>3
        <3> QED
            BY <3>4, <3>5
    <2>4. \A s \in Upto(n + 1) :
              g[s] = IF s = {} THEN 0 ELSE f[Pick(s)] + g[s \ {Pick(s)}]
        BY <2>3
    <2> HIDE DEF g
    <2> QED
        BY <2>2, <2>4
<1>4. \E h : Right(h, Cardinality(S))
    <2> SUFFICES ASSUME ~ \E h : Right(h, Cardinality(S)) PROVE FALSE
        OBVIOUS
    <2> HIDE DEF Right
    <2>1. N # {} /\ N \in SUBSET Nat
        BY <1>1, FS_CardinalityType
    <2>2. PICK m \in N : \A n \in N : m <= n
        BY <2>1, LeastNat
    <2>3. m # 0
        BY <1>2
    <2>4. m - 1 \in Nat /\ m - 1 \notin N /\ (m - 1) + 1 = m
        BY <2>2, <2>3
    <2> QED
        BY <1>3, <2>4
<1>5. PICK h : Right(h, Cardinality(S))
    BY <1>4
<1>6. \A s \in SUBSET S : s \in Upto(Cardinality(S))
    BY <1>1, FS_Subset
<1>7. \A s \in SUBSET S : h[s] = IF s = {} THEN 0 ELSE f[Pick(s)] + h[s \ {Pick(s)}]
    BY <1>5, <1>6
<1>8. AddsUp(h, f, S)
    BY <1>5, <1>7 DEF AddsUp
<1> QED
    BY <1>5, <1>8

(* And only one: two solutions differ on no smallest set.                  *)
LEMMA AddsUpOnce ==
    ASSUME NEW f, NEW e, NEW S, NEW T, NEW g, NEW h,
           IsFiniteSet(S), T \subseteq S, \A x \in T : e[x] = f[x],
           AddsUp(g, f, S), AddsUp(h, e, T)
    PROVE  g[T] = h[T]
<1> DEFINE C == {s \in SUBSET T : g[s] # h[s]}
<1>1. IsFiniteSet(T)
    BY FS_Subset
<1>2. \A s \in SUBSET S : g[s] = IF s = {} THEN 0 ELSE f[Pick(s)] + g[s \ {Pick(s)}]
    BY DEF AddsUp
<1>3. \A s \in SUBSET T : h[s] = IF s = {} THEN 0 ELSE e[Pick(s)] + h[s \ {Pick(s)}]
    BY DEF AddsUp
<1>4. ASSUME C # {} PROVE FALSE
    <2>1. PICK s \in C : \A t \in C : Cardinality(s) <= Cardinality(t)
        BY <1>1, <1>4, SmallestSubset
    <2>2. s # {}
        BY <1>2, <1>3
    <2>3. Pick(s) \in s
        BY <2>2, PickIsMember
    <2>p. PICK x \in s : x = Pick(s)
        BY <2>3
    <2>4. /\ s \ {x} \in SUBSET T
          /\ Cardinality(s) \in Nat /\ Cardinality(s \ {x}) = Cardinality(s) - 1
        BY <1>1, OneLess
    <2>5. ~ (Cardinality(s) <= Cardinality(s \ {x}))
        BY <2>4
    <2>6. s \ {Pick(s)} \in (SUBSET T) \ C
        <3> HIDE DEF C
        <3> QED
            BY <2>p, <2>1, <2>4, <2>5
    <2> QED
        BY <1>2, <1>3, <2>2, <2>3, <2>6
<1> QED
    BY <1>4

(* It does not matter which element is taken first.                        *)
LEMMA AnyFirst ==
    ASSUME NEW f, NEW S, NEW h, Counts(f, S), h \in [SUBSET S -> Int], AddsUp(h, f, S)
    PROVE  InAnyOrder(h, f, S)
<1> DEFINE Odd(s) == \E x \in s : h[s] # f[x] + h[s \ {x}]
           C == {s \in SUBSET S : Odd(s)}
<1>1. IsFiniteSet(S) /\ \A x \in S : f[x] \in Int
    BY DEF Counts
<1>2. \A s \in SUBSET S : s # {} => h[s] = f[Pick(s)] + h[s \ {Pick(s)}]
    BY DEF AddsUp
<1>3. ASSUME C # {} PROVE FALSE
    <2>0. C \in SUBSET SUBSET S
        OBVIOUS
    <2>1. PICK s \in C : \A t \in C : Cardinality(s) <= Cardinality(t)
        <3> HIDE DEF C
        <3> QED
            BY <1>1, <1>3, <2>0, SmallestSubset
    <2>2. PICK x \in s : h[s] # f[x] + h[s \ {x}]
        OBVIOUS
    <2> DEFINE p == Pick(s)
    <2>3. p \in s
        BY PickIsMember
    <2>4. x # p
        BY <1>2, <2>2
    <2>5. ASSUME NEW y \in s
          PROVE  \A z \in s \ {y} : h[s \ {y}] = f[z] + h[(s \ {y}) \ {z}]
        <3> HIDE DEF C
        <3>1. s \in SUBSET S
            BY DEF C
        <3>2. /\ s \ {y} \in SUBSET S
              /\ Cardinality(s) \in Nat /\ Cardinality(s \ {y}) = Cardinality(s) - 1
            BY <1>1, <3>1, OneLess
        <3>3. ~ (Cardinality(s) <= Cardinality(s \ {y}))
            BY <3>2
        <3>4. s \ {y} \notin C
            BY <2>1, <3>3
        <3> QED
            BY <3>2, <3>4 DEF C
    <2> DEFINE u == (s \ {x}) \ {p}
    <2>6. (s \ {p}) \ {x} = u
        OBVIOUS
    <2>7. h[s \ {p}] = f[x] + h[u] /\ h[s \ {x}] = f[p] + h[u]
        BY <2>3, <2>4, <2>5, <2>6
    <2>8. h[s] = f[p] + h[s \ {p}]
        BY <1>2, <2>3
    <2>9. f[x] \in Int /\ f[p] \in Int /\ h[u] \in Int
        BY <1>1, <2>3
    <2>10. f[p] + (f[x] + h[u]) = f[x] + (f[p] + h[u])
        <3> HIDE DEF p, u
        <3> QED
            BY <2>9
    <2>11. h[s] = f[x] + h[s \ {x}]
        <3> HIDE DEF p, u
        <3> QED
            BY <2>7, <2>8, <2>10, Zenon
    <2> QED
        BY <2>2, <2>11
<1> QED
    BY <1>3 DEF InAnyOrder

-----------------------------------------------------------------------------
(* SumFunctionOnSet is such a solution, taken of the whole set.            *)
LEMMA SumIsAddsUp ==
    ASSUME NEW f, NEW S, Counts(f, S)
    PROVE  \E h \in [SUBSET S -> Int] : AddsUp(h, f, S) /\ SumFunctionOnSet(f, S) = h[S]
<1> DEFINE g == CHOOSE h : AddsUp(h, f, S)
<1>1. SumFunctionOnSet(f, S) = g[S]
    BY DEF SumFunctionOnSet, FoldFunctionOnSet, MapThenFoldSet, AddsUp, Pick
<1>2. PICK h \in [SUBSET S -> Int] : AddsUp(h, f, S)
    BY AddsUpExists
<1>3. AddsUp(g, f, S)
    BY <1>2
<1> HIDE DEF g
<1>4. g[S] = h[S]
    <2>1. IsFiniteSet(S) /\ S \in SUBSET S
        BY DEF Counts
    <2> QED
        BY <1>2, <1>3, <2>1, AddsUpOnce
<1> QED
    BY <1>1, <1>2, <1>4

(* The sum over a subset is what the solution has there.                   *)
LEMMA SumOfSubset ==
    ASSUME NEW f, NEW S, Counts(f, S), NEW g, AddsUp(g, f, S), NEW T \in SUBSET S
    PROVE  SumFunctionOnSet(f, T) = g[T]
<1>1. Counts(f, T) /\ IsFiniteSet(S)
    BY FS_Subset DEF Counts
<1>2. PICK h \in [SUBSET T -> Int] : AddsUp(h, f, T) /\ SumFunctionOnSet(f, T) = h[T]
    BY <1>1, SumIsAddsUp
<1>3. g[T] = h[T]
    <2>1. AddsUp(h, f, T) /\ IsFiniteSet(S) /\ \A x \in T : f[x] = f[x]
        BY <1>1, <1>2
    <2> QED
        BY <2>1, AddsUpOnce
<1> QED
    BY <1>2, <1>3

LEMMA SumOfNothing == \A f : SumFunctionOnSet(f, {}) = 0
<1> SUFFICES ASSUME NEW f PROVE SumFunctionOnSet(f, {}) = 0
    OBVIOUS
<1>1. Counts(f, {})
    BY FS_EmptySet DEF Counts
<1>2. PICK h \in [SUBSET {} -> Int] : AddsUp(h, f, {}) /\ SumFunctionOnSet(f, {}) = h[{}]
    BY <1>1, SumIsAddsUp
<1> QED
    BY <1>2 DEF AddsUp

LEMMA SumType ==
    ASSUME NEW f, NEW S, Counts(f, S) PROVE SumFunctionOnSet(f, S) \in Int
<1>1. PICK h \in [SUBSET S -> Int] : SumFunctionOnSet(f, S) = h[S]
    BY SumIsAddsUp
<1> QED
    BY <1>1

(* Any element may be taken out of a sum.                                  *)
LEMMA SumStep ==
    ASSUME NEW f, NEW S, Counts(f, S), NEW x \in S
    PROVE  /\ SumFunctionOnSet(f, S) = f[x] + SumFunctionOnSet(f, S \ {x})
           /\ SumFunctionOnSet(f, S \ {x}) \in Int /\ Counts(f, S \ {x})
<1>1. PICK h \in [SUBSET S -> Int] : AddsUp(h, f, S) /\ SumFunctionOnSet(f, S) = h[S]
    BY SumIsAddsUp
<1>2. S \ {x} \in SUBSET S
    OBVIOUS
<1>3. SumFunctionOnSet(f, S \ {x}) = h[S \ {x}]
    BY <1>1, <1>2, SumOfSubset
<1>4. h[S] = f[x] + h[S \ {x}]
    <2>1. Counts(f, S) /\ h \in [SUBSET S -> Int] /\ AddsUp(h, f, S)
        BY <1>1
    <2>2. InAnyOrder(h, f, S)
        BY <2>1, AnyFirst
    <2> QED
        BY <2>2 DEF InAnyOrder
<1>5. Counts(f, S \ {x})
    BY <1>2, FS_Subset DEF Counts
<1> QED
    BY <1>1, <1>2, <1>3, <1>4, <1>5

(* A sum depends on the numbers in it and on nothing else.                 *)
LEMMA SumSame ==
    ASSUME NEW f, NEW g, NEW S, \A x \in S : f[x] = g[x]
    PROVE  SumFunctionOnSet(f, S) = SumFunctionOnSet(g, S)
<1> DEFINE a == CHOOSE h : AddsUp(h, f, S)
<1>1. SumFunctionOnSet(f, S) = a[S]
    BY DEF SumFunctionOnSet, FoldFunctionOnSet, MapThenFoldSet, AddsUp, Pick
<1> DEFINE b == CHOOSE h : AddsUp(h, g, S)
<1>2. SumFunctionOnSet(g, S) = b[S]
    BY DEF SumFunctionOnSet, FoldFunctionOnSet, MapThenFoldSet, AddsUp, Pick
<1>3. ASSUME NEW h PROVE AddsUp(h, f, S) <=> AddsUp(h, g, S)
    <2>1. \A s \in SUBSET S : s # {} => f[Pick(s)] = g[Pick(s)]
        BY PickIsMember
    <2> QED
        BY <2>1 DEF AddsUp
<1>4. a = b
    BY <1>3, Zenon
<1> QED
    BY <1>1, <1>2, <1>4

(* Sums add: taking the same element out of all three leaves them equal.   *)
LEMMA SumsAdd ==
    ASSUME NEW S, NEW f, NEW g, NEW h, Counts(f, S), Counts(g, S),
           \A x \in S : h[x] = f[x] + g[x]
    PROVE  SumFunctionOnSet(h, S) = SumFunctionOnSet(f, S) + SumFunctionOnSet(g, S)
<1> DEFINE Adds(T) ==
               SumFunctionOnSet(h, T) = SumFunctionOnSet(f, T) + SumFunctionOnSet(g, T)
           C == {T \in SUBSET S : ~ Adds(T)}
<1>1. IsFiniteSet(S) /\ \A x \in S : f[x] \in Int /\ g[x] \in Int /\ h[x] \in Int
    BY DEF Counts
<1>2. ASSUME C # {} PROVE FALSE
    <2>1. PICK T \in C : \A U \in C : Cardinality(T) <= Cardinality(U)
        BY <1>1, <1>2, SmallestSubset
    <2>2. T \in SUBSET S /\ ~ Adds(T)
        OBVIOUS
    <2>3. T # {}
        <3>1. Adds({})
            BY SumOfNothing
        <3> HIDE DEF Adds
        <3> QED
            BY <2>2, <3>1
    <2>4. PICK x \in T : TRUE
        BY <2>3
    <2>5. Counts(f, T) /\ Counts(g, T) /\ Counts(h, T)
        BY <1>1, <2>2, FS_Subset DEF Counts
    <2>6. Adds(T \ {x})
        <3> HIDE DEF C, Adds
        <3>1. /\ T \ {x} \in SUBSET S
              /\ Cardinality(T) \in Nat /\ Cardinality(T \ {x}) = Cardinality(T) - 1
            BY <1>1, <2>2, OneLess
        <3>2. ~ (Cardinality(T) <= Cardinality(T \ {x}))
            BY <3>1
        <3>3. T \ {x} \notin C
            BY <2>1, <3>2
        <3> QED
            BY <3>1, <3>3 DEF C
    <2>7. /\ SumFunctionOnSet(f, T) = f[x] + SumFunctionOnSet(f, T \ {x})
          /\ SumFunctionOnSet(f, T \ {x}) \in Int
        BY <2>5, SumStep
    <2>8. /\ SumFunctionOnSet(g, T) = g[x] + SumFunctionOnSet(g, T \ {x})
          /\ SumFunctionOnSet(g, T \ {x}) \in Int
        BY <2>5, SumStep
    <2>9. SumFunctionOnSet(h, T) = h[x] + SumFunctionOnSet(h, T \ {x})
        BY <2>5, SumStep
    <2>10. x \in S /\ f[x] \in Int /\ g[x] \in Int /\ h[x] = f[x] + g[x]
        BY <1>1, <2>2
    <2>11. Adds(T)
        BY <2>6, <2>7, <2>8, <2>9, <2>10
    <2> QED
        BY <2>2, <2>11
<1>3. S \notin C
    BY <1>2
<1> QED
    BY <1>3

(* A sum of smaller numbers is smaller.                                    *)
LEMMA SumsCompare ==
    ASSUME NEW S, NEW f, NEW g, Counts(f, S), Counts(g, S), \A x \in S : f[x] <= g[x]
    PROVE  SumFunctionOnSet(f, S) <= SumFunctionOnSet(g, S)
<1> DEFINE Below(T) == SumFunctionOnSet(f, T) <= SumFunctionOnSet(g, T)
           C == {T \in SUBSET S : ~ Below(T)}
<1>1. IsFiniteSet(S) /\ \A x \in S : f[x] \in Int /\ g[x] \in Int
    BY DEF Counts
<1>2. ASSUME C # {} PROVE FALSE
    <2>1. PICK T \in C : \A U \in C : Cardinality(T) <= Cardinality(U)
        BY <1>1, <1>2, SmallestSubset
    <2>2. T \in SUBSET S /\ ~ Below(T)
        OBVIOUS
    <2>3. T # {}
        <3>1. Below({})
            BY SumOfNothing
        <3> HIDE DEF Below
        <3> QED
            BY <2>2, <3>1
    <2>4. PICK x \in T : TRUE
        BY <2>3
    <2>5. Counts(f, T) /\ Counts(g, T)
        BY <1>1, <2>2, FS_Subset DEF Counts
    <2>6. Below(T \ {x})
        <3> HIDE DEF C, Below
        <3>1. /\ T \ {x} \in SUBSET S
              /\ Cardinality(T) \in Nat /\ Cardinality(T \ {x}) = Cardinality(T) - 1
            BY <1>1, <2>2, OneLess
        <3>2. ~ (Cardinality(T) <= Cardinality(T \ {x}))
            BY <3>1
        <3>3. T \ {x} \notin C
            BY <2>1, <3>2
        <3> QED
            BY <3>1, <3>3 DEF C
    <2>7. /\ SumFunctionOnSet(f, T) = f[x] + SumFunctionOnSet(f, T \ {x})
          /\ SumFunctionOnSet(f, T \ {x}) \in Int
        BY <2>5, SumStep
    <2>8. /\ SumFunctionOnSet(g, T) = g[x] + SumFunctionOnSet(g, T \ {x})
          /\ SumFunctionOnSet(g, T \ {x}) \in Int
        BY <2>5, SumStep
    <2>9. x \in S /\ f[x] \in Int /\ g[x] \in Int /\ f[x] <= g[x]
        BY <1>1, <2>2
    <2>10. Below(T)
        BY <2>6, <2>7, <2>8, <2>9
    <2> QED
        BY <2>2, <2>10
<1>3. S \notin C
    BY <1>2
<1> QED
    BY <1>3

-----------------------------------------------------------------------------
(* The same for SumFunction, whose set is the function's domain.           *)
LEMMA TotalType ==
    ASSUME NEW S, IsFiniteSet(S), NEW f \in [S -> Int] PROVE SumFunction(f) \in Int
<1>1. Counts(f, S) /\ DOMAIN f = S
    BY DEF Counts
<1> QED
    BY <1>1, SumType DEF SumFunction

LEMMA TotalsAdd ==
    ASSUME NEW S, IsFiniteSet(S), NEW f \in [S -> Int], NEW g \in [S -> Int]
    PROVE  SumFunction([x \in S |-> f[x] + g[x]]) = SumFunction(f) + SumFunction(g)
<1> DEFINE h == [x \in S |-> f[x] + g[x]]
<1>1. Counts(f, S) /\ Counts(g, S) /\ DOMAIN f = S /\ DOMAIN g = S
    BY DEF Counts
<1>2. DOMAIN h = S /\ \A x \in S : h[x] = f[x] + g[x]
    OBVIOUS
<1> HIDE DEF h
<1>3. SumFunctionOnSet(h, S) = SumFunctionOnSet(f, S) + SumFunctionOnSet(g, S)
    BY <1>1, <1>2, SumsAdd
<1>4. SumFunction(h) = SumFunction(f) + SumFunction(g)
    BY <1>1, <1>2, <1>3 DEF SumFunction
<1> QED
    BY <1>4 DEF h

(* Sums subtract: what is left and what is taken away add up.              *)
LEMMA TotalsSubtract ==
    ASSUME NEW S, IsFiniteSet(S), NEW f \in [S -> Int], NEW g \in [S -> Int]
    PROVE  SumFunction([x \in S |-> f[x] - g[x]]) = SumFunction(f) - SumFunction(g)
<1> DEFINE d == [x \in S |-> f[x] - g[x]]
<1>1. d \in [S -> Int] /\ f = [x \in S |-> d[x] + g[x]]
    OBVIOUS
<1> HIDE DEF d
<1>2. SumFunction([x \in S |-> d[x] + g[x]]) = SumFunction(d) + SumFunction(g)
    BY <1>1, TotalsAdd
<1>3. SumFunction(f) \in Int /\ SumFunction(d) \in Int /\ SumFunction(g) \in Int
    BY <1>1, TotalType
<1>4. SumFunction(d) = SumFunction(f) - SumFunction(g)
    BY <1>1, <1>2, <1>3
<1> QED
    BY <1>4 DEF d

LEMMA TotalsCompare ==
    ASSUME NEW S, IsFiniteSet(S), NEW f \in [S -> Int], NEW g \in [S -> Int],
           \A x \in S : f[x] <= g[x]
    PROVE  SumFunction(f) <= SumFunction(g)
<1>1. Counts(f, S) /\ Counts(g, S) /\ DOMAIN f = S /\ DOMAIN g = S
    BY DEF Counts
<1>2. SumFunctionOnSet(f, S) <= SumFunctionOnSet(g, S)
    BY <1>1, SumsCompare
<1> QED
    BY <1>1, <1>2 DEF SumFunction

(* Nothing sums to nothing: zeros are twice themselves.                    *)
LEMMA TotalOfZeros ==
    ASSUME NEW S, IsFiniteSet(S) PROVE SumFunction([x \in S |-> 0]) = 0
<1> DEFINE z == [x \in S |-> 0]
<1>1. z \in [S -> Int] /\ z = [x \in S |-> z[x] + z[x]]
    OBVIOUS
<1> HIDE DEF z
<1>2. SumFunction([x \in S |-> z[x] + z[x]]) = SumFunction(z) + SumFunction(z)
    BY <1>1, TotalsAdd
<1>3. SumFunction(z) \in Int
    BY <1>1, TotalType
<1>4. SumFunction(z) = SumFunction(z) + SumFunction(z)
    BY <1>1, <1>2, Zenon
<1>5. \A s \in Int : s = s + s => s = 0
    OBVIOUS
<1>6. SumFunction(z) = 0
    BY <1>3, <1>4, <1>5, Zenon
<1> QED
    BY <1>6 DEF z

(* One more number is that much more.                                      *)
LEMMA TotalOfOneMore ==
    ASSUME NEW S, IsFiniteSet(S), NEW x, x \notin S, NEW f, DOMAIN f = S \cup {x},
           \A y \in S \cup {x} : f[y] \in Int
    PROVE  SumFunction(f) = f[x] + SumFunction([y \in S |-> f[y]])
<1> DEFINE g == [y \in S |-> f[y]]
<1>1. Counts(f, S \cup {x}) /\ x \in S \cup {x} /\ (S \cup {x}) \ {x} = S
    BY FS_AddElement DEF Counts
<1>2. SumFunctionOnSet(f, S \cup {x}) = f[x] + SumFunctionOnSet(f, S)
    BY <1>1, SumStep
<1>3. DOMAIN g = S /\ \A y \in S : f[y] = g[y]
    OBVIOUS
<1> HIDE DEF g
<1>4. SumFunctionOnSet(f, S) = SumFunctionOnSet(g, S)
    BY <1>3, SumSame
<1>5. SumFunction(f) = f[x] + SumFunction(g)
    BY <1>2, <1>3, <1>4 DEF SumFunction
<1> QED
    BY <1>5 DEF g

LEMMA TotalOfOne ==
    ASSUME NEW a \in Int PROVE SumFunction(<<a>>) = a
<1> DEFINE f == <<a>>
<1>1. DOMAIN f = {} \cup {1} /\ f[1] = a /\ 1 \notin {}
    OBVIOUS
<1>2. \A y \in {} \cup {1} : f[y] \in Int
    BY <1>1
<1> HIDE DEF f
<1>3. SumFunction(f) = f[1] + SumFunction([y \in {} |-> f[y]])
    <2>1. IsFiniteSet({})
        BY FS_EmptySet
    <2> DEFINE none == {}
    <2>2. /\ IsFiniteSet(none) /\ 1 \notin none /\ DOMAIN f = none \cup {1}
          /\ \A y \in none \cup {1} : f[y] \in Int
        BY <1>1, <1>2, <2>1
    <2> HIDE DEF none
    <2>3. SumFunction(f) = f[1] + SumFunction([y \in none |-> f[y]])
        BY <2>2, TotalOfOneMore
    <2> QED
        BY <2>3 DEF none
<1>4. DOMAIN [y \in {} |-> f[y]] = {}
    OBVIOUS
<1>5. SumFunction([y \in {} |-> f[y]]) = 0
    BY <1>4, SumOfNothing DEF SumFunction
<1>6. SumFunction(f) = a
    BY <1>1, <1>3, <1>5
<1> QED
    BY <1>6 DEF f

-----------------------------------------------------------------------------
(* The sums over an invoice's instalments are sums of finitely many        *)
(* integers.                                                               *)
LEMMA FeeSums ==
    ASSUME NEW i \in Invoice
    PROVE  IsFiniteSet(DOMAIN Fee[i]) /\ Fee[i] \in [DOMAIN Fee[i] -> Int] /\ Subtotal(i) \in Int
<1>1. Fee[i] \in Seq(Nat)
    BY FeesAreIssued
<1>2. DOMAIN Fee[i] = 1..Len(Fee[i]) /\ Len(Fee[i]) \in Nat
    BY <1>1
<1>3. IsFiniteSet(DOMAIN Fee[i])
    BY <1>2, FS_Interval
<1>4. Fee[i] \in [DOMAIN Fee[i] -> Int]
    BY <1>1
<1> QED
    BY <1>3, <1>4, TotalType DEF Subtotal

Amounts(ps) == [k \in DOMAIN ps |-> ps[k].amount]
Paids(ps)   == [k \in DOMAIN ps |-> ps[k].paid]

LEMMA PartSums ==
    ASSUME NEW i \in Invoice, NEW ps \in Parts(i)
    PROVE  /\ DOMAIN ps = DOMAIN Fee[i] /\ IsFiniteSet(DOMAIN Fee[i])
           /\ Amounts(ps) \in [DOMAIN Fee[i] -> Int] /\ AmountOf(ps) = SumFunction(Amounts(ps))
           /\ Paids(ps) \in [DOMAIN Fee[i] -> Int] /\ PaidOf(ps) = SumFunction(Paids(ps))
           /\ AmountOf(ps) \in Int /\ PaidOf(ps) \in Int
<1>1. /\ DOMAIN ps = DOMAIN Fee[i]
      /\ Amounts(ps) \in [DOMAIN Fee[i] -> Int] /\ Paids(ps) \in [DOMAIN Fee[i] -> Int]
    BY DEF Parts, Amounts, Paids
<1>2. AmountOf(ps) = SumFunction(Amounts(ps)) /\ PaidOf(ps) = SumFunction(Paids(ps))
    BY DEF AmountOf, PaidOf, Amounts, Paids
<1> QED
    BY <1>1, <1>2, FeeSums, TotalType

LEMMA ShareSums ==
    ASSUME NEW i \in Invoice, NEW take \in Shares(i)
    PROVE  take \in [DOMAIN Fee[i] -> Int] /\ SumFunction(take) \in Int
<1>1. take \in [DOMAIN Fee[i] -> Int]
    BY DEF Shares
<1> QED
    BY <1>1, FeeSums, TotalType

(* What a payment, a void or a discount does to an invoice's two sums.     *)
LEMMA AfterSums ==
    ASSUME NEW i \in Invoice, NEW ps \in Parts(i), NEW take \in Shares(i)
    PROVE  /\ AmountOf(AfterPayment(ps, take)) = AmountOf(ps)
           /\ PaidOf(AfterPayment(ps, take)) = PaidOf(ps) + SumFunction(take)
           /\ AmountOf(AfterVoid(ps, take)) = AmountOf(ps)
           /\ PaidOf(AfterVoid(ps, take)) = PaidOf(ps) - SumFunction(take)
           /\ AmountOf(AfterDiscount(ps, take)) = AmountOf(ps) - SumFunction(take)
           /\ PaidOf(AfterDiscount(ps, take)) = PaidOf(ps)
<1> DEFINE D == DOMAIN Fee[i]
<1>1. /\ AfterPayment(ps, take) \in Parts(i) /\ AfterVoid(ps, take) \in Parts(i)
      /\ AfterDiscount(ps, take) \in Parts(i)
    BY AfterTypes
<1>2. /\ IsFiniteSet(D) /\ take \in [D -> Int]
      /\ Amounts(ps) \in [D -> Int] /\ Paids(ps) \in [D -> Int]
    BY PartSums, ShareSums
<1>3. /\ Amounts(AfterPayment(ps, take)) = Amounts(ps)
      /\ Amounts(AfterVoid(ps, take)) = Amounts(ps)
      /\ Paids(AfterDiscount(ps, take)) = Paids(ps)
    BY DEF Amounts, Paids, AfterPayment, AfterVoid, AfterDiscount, Parts, Shares
<1>4. Paids(AfterPayment(ps, take)) = [k \in D |-> Paids(ps)[k] + take[k]]
    BY DEF Paids, AfterPayment, Parts, Shares
<1>5. Paids(AfterVoid(ps, take)) = [k \in D |-> Paids(ps)[k] - take[k]]
    BY DEF Paids, AfterVoid, Parts, Shares
<1>6. Amounts(AfterDiscount(ps, take)) = [k \in D |-> Amounts(ps)[k] - take[k]]
    BY DEF Amounts, AfterDiscount, Parts, Shares
<1>7. SumFunction(Paids(AfterPayment(ps, take))) = SumFunction(Paids(ps)) + SumFunction(take)
    BY <1>2, <1>4, TotalsAdd
<1>8. SumFunction(Paids(AfterVoid(ps, take))) = SumFunction(Paids(ps)) - SumFunction(take)
    BY <1>2, <1>5, TotalsSubtract
<1>9. SumFunction(Amounts(AfterDiscount(ps, take))) = SumFunction(Amounts(ps)) - SumFunction(take)
    BY <1>2, <1>6, TotalsSubtract
<1> QED
    BY <1>1, <1>3, <1>7, <1>8, <1>9, PartSums

(* Numbers no instalment of which asks for more than it owes add up to no  *)
(* more than the invoice owes.                                             *)
LEMMA WithinBalance ==
    ASSUME NEW i \in Invoice, NEW ps \in Parts(i), NEW take \in Shares(i),
           \A k \in DOMAIN ps : take[k] <= ps[k].amount - ps[k].paid
    PROVE  SumFunction(take) <= AmountOf(ps) - PaidOf(ps)
<1> DEFINE D == DOMAIN Fee[i]
           owed == [k \in D |-> Amounts(ps)[k] - Paids(ps)[k]]
<1>1. /\ IsFiniteSet(D) /\ take \in [D -> Int]
      /\ Amounts(ps) \in [D -> Int] /\ Paids(ps) \in [D -> Int]
    BY PartSums, ShareSums
<1>2. SumFunction(owed) = AmountOf(ps) - PaidOf(ps)
    BY <1>1, PartSums, TotalsSubtract
<1>3. owed \in [D -> Int] /\ \A k \in D : take[k] <= owed[k]
    BY <1>1 DEF Amounts, Paids, Parts
<1> HIDE DEF owed
<1>4. SumFunction(take) <= SumFunction(owed)
    BY <1>1, <1>3, TotalsCompare
<1> QED
    BY <1>2, <1>4

-----------------------------------------------------------------------------
(* BooksBalance in the form every step keeps: what an open transaction is  *)
(* about to write adds up too, and there are never more than finitely many *)
(* rows to add up.                                                         *)
Written == {r \in Request : discount[r] # <<>>}

PaidInto(i, k) == SumFunction([p \in PostedOn(i) |-> payment[p].take[k]])
CutFrom(i)     == SumFunction([r \in DiscountsOf(i) |-> SumFunction(discount[r])])

PaidByPayments == \A i \in Invoice : \A k \in DOMAIN parts[i] : parts[i][k].paid = PaidInto(i, k)
CutByDiscounts == \A i \in Invoice : Subtotal(i) - AmountOf(parts[i]) = CutFrom(i)
BookedInFull   == \A p \in Receipted : SumFunction(payment[p].take) = payment[p].amount

Books == /\ IsFiniteSet(Receipted) /\ IsFiniteSet(Written)
         /\ PaidByPayments /\ CutByDiscounts /\ BookedInFull

AddsUpInTx(w) ==
    /\ tx[w].step \in {"allocated", "numbered"} => SumFunction(tx[w].take) = tx[w].amount
    /\ tx[w].step = "discounted" =>
           /\ request[tx[w].request].what.invoice = tx[w].invoice
           /\ tx[w].amount > 0
           /\ AmountOf(tx[w].seen) = AmountOf(parts[tx[w].invoice]) - tx[w].amount
TxAddsUp == \A w \in Worker : AddsUpInTx(w)

MoneyInv == Inv /\ Eyes /\ TotalsSettled /\ Books /\ TxAddsUp

LEMMA SettledFields ==
    ASSUME NEW i, NEW seen
    PROVE  /\ SettledRow(i, seen).total = AmountOf(seen)
           /\ SettledRow(i, seen).paidTotal = PaidOf(seen)
           /\ SettledRow(i, seen).discountTotal = Subtotal(i) - AmountOf(seen)
BY DEF SettledRow

LEMMA BooksAreBalanced == ASSUME MoneyInv PROVE BooksBalance
<1>1. TotalsSettled
    BY DEF MoneyInv
<1>2. \A i \in Invoice : invoice[i].discountTotal = Subtotal(i) - AmountOf(parts[i])
    BY <1>1, SettledFields DEF TotalsSettled
<1> QED
    BY <1>1, <1>2
    DEF MoneyInv, Books, PaidByPayments, CutByDiscounts, PaidInto, CutFrom, BooksBalance

LEMMA MoneyInit == ASSUME Init PROVE Books /\ TxAddsUp
<1>1. Receipted = {} /\ Written = {}
    BY DEF Init, Receipted, Written
<1>2. \A i \in Invoice : PostedOn(i) = {} /\ DiscountsOf(i) = {}
    BY DEF Init, PostedOn, DiscountsOf
<1>3. ASSUME NEW f, DOMAIN f = {} PROVE SumFunction(f) = 0
    BY <1>3, SumOfNothing DEF SumFunction
<1>4. PaidByPayments
    <2>1. \A i \in Invoice : \A k : PaidInto(i, k) = 0
        BY <1>2, <1>3 DEF PaidInto
    <2> QED
        BY <2>1 DEF Init, Issued, PaidByPayments
<1>5. CutByDiscounts
    <2> SUFFICES ASSUME NEW i \in Invoice PROVE Subtotal(i) - AmountOf(parts[i]) = CutFrom(i)
        BY DEF CutByDiscounts
    <2>1. CutFrom(i) = 0
        BY <1>2, <1>3 DEF CutFrom
    <2>2. Amounts(Issued(i)) = Fee[i]
        BY FeeSums DEF Amounts, Issued
    <2>3. AmountOf(parts[i]) = Subtotal(i)
        BY <2>2, IssuedType, PartSums DEF Init, Subtotal
    <2> QED
        BY <2>1, <2>3, FeeSums
<1> QED
    BY <1>1, <1>4, <1>5, FS_EmptySet DEF Books, TxAddsUp, AddsUpInTx, BookedInFull, Init, Idle

(* A commit touches only the invoice its transaction has locked, and never *)
(* what a request is about.                                                *)
LEMMA CommitKeeps ==
    ASSUME Inv, NEW w \in Worker, Committing(w)
    PROVE  /\ tx'[w] = Idle /\ \A v \in Worker \ {w} : tx'[v] = tx[v]
           /\ \A i \in Invoice : invoiceLock[i] # w => parts'[i] = parts[i]
           /\ \A r \in Request : request[r] # NoRequest => request'[r].what = request[r].what
<1>1. Release(w)
    BY DEF Committing, CommitPayment, CommitRequest, CommitDiscount, CommitVoid, CommitRejection
<1>2. tx'[w] = Idle /\ \A v \in Worker \ {w} : tx'[v] = tx[v]
    BY <1>1, ReleaseType DEF Inv
<1>3. CASE CommitPayment(w)
    <2>1. PICK i \in Invoice : tx[w] \in PayingTx(i)
        BY <1>3, PayingStep DEF Inv, CommitPayment
    <2>2. tx[w].invoice = i /\ invoiceLock[i] = w
        BY <1>3, <2>1 DEF PayingTx, CommitPayment, Inv, WorkIsCurrent, IsCurrent, PayingIsCurrent
    <2> QED
        BY <1>2, <1>3, <2>2 DEF CommitPayment, Inv, TypeOK
<1>4. CASE CommitRequest(w)
    BY <1>2, <1>4 DEF CommitRequest, Inv, TypeOK
<1>5. CASE CommitDiscount(w) \/ CommitVoid(w)
    <2>1. /\ tx[w].step \in {"discounted", "reversed"}
          /\ Decided(w, "approved")
          /\ \A j \in Invoice : j # tx[w].invoice => parts'[j] = parts[j]
        BY <1>5 DEF CommitDiscount, CommitVoid, Inv, TypeOK
    <2>2. /\ tx[w].invoice \in Invoice /\ invoiceLock[tx[w].invoice] = w
          /\ tx[w].request \in Request /\ tx[w].by \in User
        BY <2>1, Approved
    <2> QED
        BY <1>2, <2>1, <2>2, DecidedType, DecidedFields
<1>6. CASE CommitRejection(w)
    <2>1. /\ tx[w].request \in Request /\ tx[w].by \in User
          /\ Decided(w, "rejected") /\ parts' = parts
        BY <1>6, Deciding DEF CommitRejection
    <2> QED
        BY <1>2, <2>1, DecidedType, DecidedFields
<1> QED
    BY <1>3, <1>4, <1>5, <1>6 DEF Committing

LEMMA AddsUpFrame ==
    ASSUME Inv, NEW v \in Worker, AddsUpInTx(v), tx'[v] = tx[v],
           \A i \in Invoice : invoiceLock[i] = v => parts'[i] = parts[i],
           \A r \in Request : request[r] # NoRequest => request'[r].what = request[r].what
    PROVE  AddsUpInTx(v)'
<1>1. CASE tx[v].step = "discounted"
    <2>1. /\ tx[v].invoice \in Invoice /\ invoiceLock[tx[v].invoice] = v
          /\ tx[v].request \in Request /\ request[tx[v].request] # NoRequest
        BY <1>1, Approved
    <2>2. /\ parts'[tx[v].invoice] = parts[tx[v].invoice]
          /\ request'[tx[v].request].what = request[tx[v].request].what
        BY <2>1
    <2> QED
        BY <1>1, <2>2 DEF AddsUpInTx
<1>2. CASE tx[v].step # "discounted"
    BY <1>2 DEF AddsUpInTx
<1> QED
    BY <1>1, <1>2

(* A payment is split, and a discount cut, in full.                        *)
LEMMA AddsUpOnApply ==
    ASSUME Inv, NEW w \in Worker, ApplyDiscount(w)
    PROVE  AddsUpInTx(w)'
<1> DEFINE r == tx[w].request
           i == request[r].what.invoice
           amount == AmountNow(r)
<1>1. /\ tx[w].step = "deciding" /\ request[r].what.type = "discount"
      /\ amount \in Nat \ {0} /\ UNCHANGED tables
    BY DEF ApplyDiscount, Approving, DiscountIsDue
<1>2. PICK cut \in DiscountCuts(parts[i], amount) :
          tx' = [tx EXCEPT ![w] =
             [step |-> "discounted", request |-> r, by |-> tx[w].by, invoice |-> i,
              amount |-> amount, seen |-> AfterDiscount(parts[i], cut)]]
    BY DEF ApplyDiscount
<1>3. r \in Request /\ request[r] # NoRequest
    BY <1>1, Deciding
<1>4. i \in Invoice /\ parts[i] \in Parts(i)
    BY <1>1, <1>3 DEF Inv, TypeOK, RequestRow, Discount, Void
<1>i. i = request[r].what.invoice
    OBVIOUS
<1> HIDE DEF i, amount
<1>5. cut \in Shares(i) /\ SumFunction(cut) = amount
    BY <1>1, <1>4, CutType DEF DiscountCuts
<1>6. AmountOf(AfterDiscount(parts[i], cut)) = AmountOf(parts[i]) - amount
    BY <1>4, <1>5, AfterSums
<1>7. /\ tx'[w].step = "discounted" /\ tx'[w].request = r /\ tx'[w].invoice = i
      /\ tx'[w].amount = amount /\ tx'[w].seen = AfterDiscount(parts[i], cut)
    BY <1>2 DEF Inv, TypeOK
<1>8. parts' = parts /\ request' = request
    BY <1>1 DEF tables
<1> QED
    BY <1>1, <1>6, <1>7, <1>8, <1>i DEF AddsUpInTx

LEMMA TxAddsUpNext == ASSUME Inv, TxAddsUp, [Next]_vars PROVE TxAddsUp'
<1>1. CASE UNCHANGED vars
    BY <1>1 DEF vars, TxAddsUp, AddsUpInTx
<1>2. ASSUME NEW w \in Worker, Committing(w) PROVE TxAddsUp'
    <2>1. AddsUpInTx(w)'
        BY <1>2, CommitKeeps DEF AddsUpInTx, Idle
    <2>2. ASSUME NEW v \in Worker \ {w} PROVE AddsUpInTx(v)'
        BY <1>2, CommitKeeps, AddsUpFrame DEF TxAddsUp
    <2> QED
        BY <2>1, <2>2 DEF TxAddsUp
<1>3. ASSUME NEW w \in Worker, UNCHANGED tables, AddsUpInTx(w)',
             \A v \in Worker \ {w} : tx'[v] = tx[v]
      PROVE  TxAddsUp'
    BY <1>3, AddsUpFrame DEF TxAddsUp, tables
<1>4. ASSUME NEW w \in Worker, Release(w), UNCHANGED tables PROVE TxAddsUp'
    BY <1>3, <1>4, ReleaseType DEF AddsUpInTx, Idle, Inv
<1>5. ASSUME NEW w \in Worker, NEW i \in Invoice, NEW a \in Amount, LockAndAllocate(w, i, a)
      PROVE  TxAddsUp'
    <2>1. PICK take \in PaymentSplits(parts[i], a) :
              tx' = [tx EXCEPT ![w] =
                        [step |-> "allocated", invoice |-> i, amount |-> a, take |-> take,
                         seen |-> AfterPayment(parts[i], take)]]
        BY <1>5 DEF LockAndAllocate
    <2>2. SumFunction(take) = a
        BY DEF PaymentSplits
    <2>3. AddsUpInTx(w)'
        BY <2>1, <2>2 DEF AddsUpInTx, Inv, TypeOK
    <2> QED
        BY <1>3, <1>5, <2>1, <2>3 DEF LockAndAllocate, Inv, TypeOK
<1>6. ASSUME NEW w \in Worker, TakeReceiptNumber(w) PROVE TxAddsUp'
    <2>1. SumFunction(tx[w].take) = tx[w].amount
        BY <1>6 DEF TxAddsUp, AddsUpInTx, TakeReceiptNumber
    <2>2. AddsUpInTx(w)'
        BY <1>6, <2>1 DEF AddsUpInTx, TakeReceiptNumber, Inv, TypeOK
    <2> QED
        BY <1>3, <1>6, <2>2 DEF TakeReceiptNumber, Inv, TypeOK
<1>7. ASSUME NEW w \in Worker, ApplyDiscount(w) PROVE TxAddsUp'
    BY <1>3, <1>7, AddsUpOnApply DEF ApplyDiscount, Inv, TypeOK
<1>8. ASSUME NEW w \in Worker, UNCHANGED tables, tx' = [tx EXCEPT ![w] = tx'[w]],
             tx'[w].step \in {"asking", "deciding", "reversed"}
      PROVE  TxAddsUp'
    <2>1. \A v \in Worker \ {w} : tx'[v] = tx[v]
        BY <1>8 DEF Inv, TypeOK
    <2> QED
        BY <1>3, <1>8, <2>1 DEF AddsUpInTx
<1>9. ASSUME NEW w \in Worker, Starting(w) PROVE TxAddsUp'
    <2>1. ASSUME NEW u, NEW what, ReadAndAsk(w, u, what) PROVE TxAddsUp'
        BY <1>8, <2>1 DEF ReadAndAsk, Inv, TypeOK
    <2>2. ASSUME NEW r, NEW u, NEW decision, LockRequest(w, r, u, decision) PROVE TxAddsUp'
        BY <1>8, <2>2 DEF LockRequest, Inv, TypeOK
    <2> QED
        BY <1>5, <1>9, <2>1, <2>2 DEF Starting, RequestDiscount, RequestVoid
<1>10. ASSUME NEW w \in Worker, VoidPayment(w) PROVE TxAddsUp'
    BY <1>8, <1>10 DEF VoidPayment, Inv, TypeOK
<1>11. ASSUME NEW w \in Worker, Working(w) \/ Abort(w) PROVE TxAddsUp'
    BY <1>4, <1>6, <1>7, <1>10, <1>11
    DEF Working, RefuseRequest, RefuseDiscount, RefuseVoid, Abort
<1> QED
    BY <1>1, <1>2, <1>9, <1>11 DEF Next

-----------------------------------------------------------------------------
(* A sum over payments or discounts that nothing touched stays what it is. *)
LEMMA PaidIntoStays ==
    ASSUME NEW j \in Invoice, NEW k, PostedOn(j)' = PostedOn(j),
           \A p \in PostedOn(j) : payment'[p].take = payment[p].take
    PROVE  PaidInto(j, k)' = PaidInto(j, k)
<1>1. [p \in PostedOn(j)' |-> payment'[p].take[k]] = [p \in PostedOn(j) |-> payment[p].take[k]]
    OBVIOUS
<1> QED
    BY <1>1 DEF PaidInto

LEMMA CutFromStays ==
    ASSUME NEW j \in Invoice, DiscountsOf(j)' = DiscountsOf(j),
           \A r \in DiscountsOf(j) : discount'[r] = discount[r]
    PROVE  CutFrom(j)' = CutFrom(j)
<1>1. [r \in DiscountsOf(j)' |-> SumFunction(discount'[r])]
          = [r \in DiscountsOf(j) |-> SumFunction(discount[r])]
    OBVIOUS
<1> QED
    BY <1>1 DEF CutFrom

(* The payments posted on an invoice are finitely many, each with a split  *)
(* over the invoice's instalments.                                         *)
LEMMA PostedPayments ==
    ASSUME Inv, IsFiniteSet(Receipted), NEW i \in Invoice
    PROVE  /\ IsFiniteSet(PostedOn(i))
           /\ \A p \in PostedOn(i) : payment[p].take \in Shares(i)
           /\ \A p \in PostedOn(i), k \in DOMAIN Fee[i] : payment[p].take[k] \in Int
<1>1. PostedOn(i) \subseteq Receipted
    BY DEF PostedOn, Receipted
<1>2. \A p \in PostedOn(i) : payment[p].take \in Shares(i)
    BY BookedPayment DEF PostedOn, Inv
<1> QED
    BY <1>1, <1>2, FS_Subset DEF Shares

(* What booking a payment does to the sums.                                *)
LEMMA BooksOnPayment ==
    ASSUME Inv, TxAddsUp, Books, NEW w \in Worker, CommitPayment(w)
    PROVE  Books'
<1>1. PICK i \in Invoice : tx[w] \in PayingTx(i)
    BY PayingStep DEF Inv, CommitPayment
<1> DEFINE take == tx[w].take
<1>2. tx[w].invoice = i /\ take \in Shares(i) /\ SumFunction(take) = tx[w].amount
    BY <1>1 DEF CommitPayment, PayingTx, TxAddsUp, AddsUpInTx
<1>3. PICK p \in Payment :
          /\ payment[p] = NoPayment
          /\ payment' = [payment EXCEPT ![p] =
                 [status |-> "posted", invoice |-> i, amount |-> tx[w].amount,
                  take |-> take, receipt |-> tx[w].receipt]]
    BY <1>2 DEF CommitPayment
<1>4. /\ payment'[p].status = "posted" /\ payment'[p].invoice = i
      /\ payment'[p].amount = tx[w].amount /\ payment'[p].take = take
      /\ \A q \in Payment \ {p} : payment'[q] = payment[q]
      /\ payment'[p] # NoPayment
    BY <1>3 DEF Inv, TypeOK, NoPayment
<1>5. /\ parts' = [parts EXCEPT ![i] = AfterPayment(parts[i], take)]
      /\ UNCHANGED <<request, discount>>
    BY <1>2 DEF CommitPayment
<1>6. /\ \A j \in Invoice : parts[j] \in Parts(j) /\ parts'[j] \in Parts(j)
      /\ parts'[i] = AfterPayment(parts[i], take)
      /\ \A j \in Invoice \ {i} : parts'[j] = parts[j]
    BY <1>2, <1>5, AfterTypes DEF Inv, TypeOK
<1> HIDE DEF take
<1>7. /\ PostedOn(i)' = PostedOn(i) \cup {p} /\ p \notin PostedOn(i)
      /\ \A j \in Invoice \ {i} : PostedOn(j)' = PostedOn(j)
      /\ Receipted' = Receipted \cup {p}
    BY <1>3, <1>4 DEF PostedOn, Receipted
<1>8. \A j \in Invoice : \A q \in PostedOn(j) : q # p /\ payment'[q] = payment[q]
    BY <1>3, <1>4 DEF PostedOn
<1>9. ASSUME NEW k \in DOMAIN Fee[i] PROVE PaidInto(i, k)' = take[k] + PaidInto(i, k)
    <2> DEFINE S == PostedOn(i)
               f == [q \in S \cup {p} |-> payment'[q].take[k]]
    <2>1. IsFiniteSet(S) /\ \A q \in S : payment[q].take[k] \in Int
        BY PostedPayments DEF Books
    <2>2. f[p] = take[k] /\ take[k] \in Int
        BY <1>2, <1>4 DEF Shares
    <2>3. \A q \in S : f[q] = payment[q].take[k]
        BY <1>8
    <2>4. p \notin S /\ DOMAIN f = S \cup {p} /\ \A q \in S \cup {p} : f[q] \in Int
        BY <1>7, <2>1, <2>2, <2>3
    <2>5. PaidInto(i, k)' = SumFunction(f)
        BY <1>7 DEF PaidInto
    <2>6. [q \in S |-> f[q]] = [q \in S |-> payment[q].take[k]]
        BY <2>3
    <2>7. SumFunction([q \in S |-> f[q]]) = PaidInto(i, k)
        BY <2>6 DEF PaidInto
    <2> HIDE DEF f, S
    <2>8. SumFunction(f) = f[p] + SumFunction([q \in S |-> f[q]])
        BY <2>1, <2>4, TotalOfOneMore
    <2> QED
        BY <2>2, <2>5, <2>7, <2>8
<1>10. PaidByPayments'
    <2> SUFFICES ASSUME NEW j \in Invoice, NEW k \in DOMAIN parts'[j]
                 PROVE  parts'[j][k].paid = PaidInto(j, k)'
        BY DEF PaidByPayments
    <2>1. k \in DOMAIN parts[j] /\ k \in DOMAIN Fee[j] /\ parts[j][k].paid = PaidInto(j, k)
        BY <1>6 DEF Parts, Books, PaidByPayments
    <2>2. CASE j = i
        <3>1. parts[i][k].paid \in Int /\ take[k] \in Int
            BY <1>2, <1>6, <2>1, <2>2 DEF Parts, Shares
        <3>2. parts'[i][k].paid = parts[i][k].paid + take[k]
            BY <1>6, <2>1, <2>2 DEF AfterPayment, Parts
        <3> QED
            BY <1>9, <2>1, <2>2, <3>1, <3>2
    <2>3. CASE j # i
        BY <1>6, <1>7, <1>8, <2>1, <2>3, PaidIntoStays
    <2> QED
        BY <2>2, <2>3
<1>11. CutByDiscounts'
    <2>1. \A j \in Invoice : AmountOf(parts'[j]) = AmountOf(parts[j])
        BY <1>2, <1>6, AfterSums
    <2>2. \A j \in Invoice : CutFrom(j)' = CutFrom(j)
        BY <1>5, CutFromStays DEF DiscountsOf
    <2> QED
        BY <2>1, <2>2 DEF Books, CutByDiscounts, Subtotal
<1>12. BookedInFull'
    BY <1>2, <1>4, <1>7 DEF Books, BookedInFull, Receipted
<1>13. IsFiniteSet(Receipted') /\ Written' = Written
    BY <1>5, <1>7, FS_AddElement DEF Books, Written
<1> QED
    BY <1>10, <1>11, <1>12, <1>13 DEF Books

LEMMA BooksOnVoid ==
    ASSUME Inv, Eyes, Books, NEW w \in Worker, CommitVoid(w)
    PROVE  Books'
<1> DEFINE p == tx[w].payment
           take == payment[p].take
<1>1. PICK i \in Invoice : i = tx[w].invoice /\ tx[w].request \in Request /\ tx[w].by \in User
    BY Approved DEF CommitVoid
<1>2. /\ p \in Payment /\ payment[p].status = "posted" /\ payment[p].invoice = i
      /\ payment[p] # NoPayment
      /\ payment'[p] = [payment[p] EXCEPT !.status = "void"] /\ payment'[p] # NoPayment
      /\ \A q \in Payment \ {p} : payment'[q] = payment[q]
    BY <1>1, PaymentVoided DEF CommitVoid, Inv, WorkIsCurrent, IsCurrent, VoidIsCurrent
<1>3. payment[p] \in PaymentOf(i) /\ take \in Shares(i)
    BY <1>2, BookedPayment DEF Inv
<1>4. /\ payment'[p].status = "void" /\ payment'[p].take = take
      /\ payment'[p].amount = payment[p].amount
    BY <1>2, <1>3 DEF PaymentOf
<1>5. /\ parts' = [parts EXCEPT ![i] = AfterVoid(parts[i], take)]
      /\ UNCHANGED discount /\ Decided(w, "approved")
    BY <1>1 DEF CommitVoid
<1>6. /\ \A j \in Invoice : parts[j] \in Parts(j) /\ parts'[j] \in Parts(j)
      /\ parts'[i] = AfterVoid(parts[i], take)
      /\ \A j \in Invoice \ {i} : parts'[j] = parts[j]
    BY <1>3, <1>5, AfterTypes DEF Inv, TypeOK
<1> HIDE DEF take, p
<1>7. /\ PostedOn(i) = PostedOn(i)' \cup {p} /\ p \notin PostedOn(i)'
      /\ \A j \in Invoice \ {i} : PostedOn(j)' = PostedOn(j)
      /\ Receipted' = Receipted
    BY <1>2, <1>4 DEF PostedOn, Receipted
<1>8. /\ \A q \in PostedOn(i)' : payment'[q] = payment[q]
      /\ \A j \in Invoice \ {i} : \A q \in PostedOn(j) : payment'[q] = payment[q]
    BY <1>2, <1>7 DEF PostedOn
<1>9. ASSUME NEW k \in DOMAIN Fee[i]
      PROVE  PaidInto(i, k) = take[k] + PaidInto(i, k)' /\ PaidInto(i, k)' \in Int
    <2> DEFINE S == PostedOn(i)'
               f == [q \in PostedOn(i) |-> payment[q].take[k]]
               g == [q \in S |-> f[q]]
    <2>1. /\ IsFiniteSet(PostedOn(i)) /\ S \subseteq PostedOn(i)
          /\ \A q \in PostedOn(i) : payment[q].take[k] \in Int
        BY <1>7, PostedPayments DEF Books
    <2>2. IsFiniteSet(S)
        BY <2>1, FS_Subset
    <2>3. f[p] = take[k]
        BY <1>7 DEF take
    <2>4. p \notin S /\ DOMAIN f = S \cup {p} /\ \A q \in S \cup {p} : f[q] \in Int
        BY <1>7, <2>1
    <2>5. g = [q \in S |-> payment'[q].take[k]]
        BY <1>8, <2>1
    <2>6. PaidInto(i, k)' = SumFunction(g)
        BY <2>5 DEF PaidInto
    <2>7. PaidInto(i, k) = SumFunction(f)
        BY DEF PaidInto
    <2>8. g \in [S -> Int]
        BY <2>4
    <2> HIDE DEF f, S
    <2>9. SumFunction(f) = f[p] + SumFunction(g)
        BY <2>2, <2>4, TotalOfOneMore
    <2>10. SumFunction(g) \in Int
        <3> HIDE DEF g
        <3> QED
            BY <2>2, <2>8, TotalType
    <2> QED
        BY <2>3, <2>6, <2>7, <2>9, <2>10
<1>10. PaidByPayments'
    <2> SUFFICES ASSUME NEW j \in Invoice, NEW k \in DOMAIN parts'[j]
                 PROVE  parts'[j][k].paid = PaidInto(j, k)'
        BY DEF PaidByPayments
    <2>1. k \in DOMAIN parts[j] /\ k \in DOMAIN Fee[j] /\ parts[j][k].paid = PaidInto(j, k)
        BY <1>6 DEF Parts, Books, PaidByPayments
    <2>2. CASE j = i
        <3>1. parts[i][k].paid \in Int /\ take[k] \in Int
            BY <1>3, <1>6, <2>1, <2>2 DEF Parts, Shares
        <3>2. parts'[i][k].paid = parts[i][k].paid - take[k]
            BY <1>6, <2>1, <2>2 DEF AfterVoid, Parts
        <3> QED
            BY <1>9, <2>1, <2>2, <3>1, <3>2
    <2>3. CASE j # i
        BY <1>6, <1>7, <1>8, <2>1, <2>3, PaidIntoStays
    <2> QED
        BY <2>2, <2>3
<1>11. CutByDiscounts'
    <2>1. \A j \in Invoice : AmountOf(parts'[j]) = AmountOf(parts[j])
        BY <1>3, <1>6, AfterSums
    <2>2. \A r \in Request : request'[r].what = request[r].what
        BY <1>1, <1>5, DecidedType, DecidedFields
    <2>3. \A j \in Invoice : CutFrom(j)' = CutFrom(j)
        BY <1>5, <2>2, CutFromStays DEF DiscountsOf
    <2> QED
        BY <2>1, <2>3 DEF Books, CutByDiscounts, Subtotal
<1>12. BookedInFull'
    <2>1. SumFunction(payment'[p].take) = payment'[p].amount
        BY <1>2, <1>4 DEF Books, BookedInFull, Receipted, take
    <2> QED
        BY <1>2, <1>7, <2>1 DEF Books, BookedInFull, Receipted
<1>13. Receipted' = Receipted /\ Written' = Written
    BY <1>5, <1>7 DEF Written
<1> QED
    BY <1>10, <1>11, <1>12, <1>13 DEF Books

(* The discounts written for an invoice are finitely many whole numbers.   *)
LEMMA WrittenDiscounts ==
    ASSUME Inv, IsFiniteSet(Written), NEW i \in Invoice
    PROVE  /\ IsFiniteSet(DiscountsOf(i))
           /\ Eyes => \A r \in DiscountsOf(i) : SumFunction(discount[r]) \in Int
<1>1. DiscountsOf(i) \subseteq Written
    BY DEF DiscountsOf, Written
<1>2. ASSUME Eyes, NEW r \in DiscountsOf(i) PROVE SumFunction(discount[r]) \in Int
    <2>1. discount[r] \in Seq(Nat)
        BY DEF DiscountsOf, Inv, TypeOK
    <2>2. discount[r] \in [1..Len(discount[r]) -> Int] /\ Len(discount[r]) \in Nat
        BY <2>1
    <2>3. IsFiniteSet(1..Len(discount[r]))
        BY <2>2, FS_Interval
    <2> QED
        BY <2>2, <2>3, TotalType
<1> QED
    BY <1>1, <1>2, FS_Subset

LEMMA BooksOnDiscount ==
    ASSUME Inv, Eyes, TxAddsUp, Books, NEW w \in Worker, CommitDiscount(w)
    PROVE  Books'
<1> DEFINE r == tx[w].request
           amount == tx[w].amount
           seen == tx[w].seen
<1>1. PICK i \in Invoice :
          /\ i = tx[w].invoice /\ r \in Request /\ tx[w].by \in User
          /\ seen \in Parts(i) /\ tx[w] \in ApprovingTx(i) /\ request[r] # NoRequest
    BY Approved DEF CommitDiscount
<1>2. /\ amount \in Nat /\ request[r].what.invoice = i
      /\ AmountOf(seen) = AmountOf(parts[i]) - amount
    BY <1>1 DEF CommitDiscount, ApprovingTx, TxAddsUp, AddsUpInTx
<1>3. /\ \A k \in DOMAIN parts[i] : parts[i][k].paid = seen[k].paid
      /\ request[r].status = "pending"
    BY <1>1 DEF CommitDiscount, Inv, WorkIsCurrent, IsCurrent, DiscountIsCurrent, DecidingIsCurrent
<1>4. /\ parts' = [parts EXCEPT ![i] = NewAmounts(parts[i], seen)]
      /\ discount' = [discount EXCEPT ![r] = Append(@, amount)]
      /\ Decided(w, "approved") /\ UNCHANGED payment
    BY <1>1 DEF CommitDiscount
<1>5. /\ \A j \in Invoice : parts[j] \in Parts(j)
      /\ parts'[i] = seen /\ \A j \in Invoice \ {i} : parts'[j] = parts[j]
    BY <1>1, <1>3, <1>4, DiscountLeavesSeen DEF Inv, TypeOK
<1>6. \A q \in Request : request'[q].what = request[q].what
    BY <1>1, <1>4, DecidedType, DecidedFields
<1> HIDE DEF r, amount, seen
<1>7. discount[r] = <<>> /\ discount'[r] = <<amount>>
    <2>1. ~IsApproved(r, "discount")
        BY <1>3 DEF IsApproved
    <2>2. discount[r] \in Seq(Nat) /\ Len(discount[r]) = 0
        BY <1>1, <2>1 DEF Eyes, WrittenByOne, Inv, TypeOK
    <2>3. discount[r] = <<>>
        BY <2>2
    <2>4. discount'[r] = Append(discount[r], amount)
        BY <1>1, <1>4 DEF Inv, TypeOK
    <2> QED
        BY <1>2, <2>3, <2>4
<1>8. \A q \in Request \ {r} : discount'[q] = discount[q]
    BY <1>1, <1>4 DEF Inv, TypeOK
<1>9. /\ DiscountsOf(i)' = DiscountsOf(i) \cup {r} /\ r \notin DiscountsOf(i)
      /\ \A j \in Invoice \ {i} : DiscountsOf(j)' = DiscountsOf(j)
      /\ \A j \in Invoice : r \notin DiscountsOf(j)
      /\ Written' = Written \cup {r}
    <2>1. r \in Request /\ discount'[r] # <<>>
        BY <1>1, <1>7
    <2> QED
        BY <1>2, <1>6, <1>7, <1>8, <2>1 DEF DiscountsOf, Written
<1>10. \A j \in Invoice : \A q \in DiscountsOf(j) : discount'[q] = discount[q]
    BY <1>8, <1>9 DEF DiscountsOf
<1>11. CutFrom(i)' = amount + CutFrom(i) /\ CutFrom(i) \in Int
    <2> DEFINE S == DiscountsOf(i)
               f == [q \in S \cup {r} |-> SumFunction(discount'[q])]
               g == [q \in S |-> f[q]]
    <2>1. IsFiniteSet(S) /\ \A q \in S : SumFunction(discount[q]) \in Int
        BY WrittenDiscounts DEF Books
    <2>2. f[r] = amount
        <3>1. f[r] = SumFunction(<<amount>>)
            BY <1>7
        <3> QED
            BY <1>2, <3>1, TotalOfOne
    <2>3. \A q \in S : f[q] = SumFunction(discount[q])
        BY <1>10
    <2>4. r \notin S /\ DOMAIN f = S \cup {r} /\ \A q \in S \cup {r} : f[q] \in Int
        BY <1>2, <1>9, <2>1, <2>2, <2>3
    <2>5. g = [q \in S |-> SumFunction(discount[q])]
        BY <2>3
    <2>6. CutFrom(i)' = SumFunction(f)
        BY <1>9 DEF CutFrom
    <2>7. CutFrom(i) = SumFunction(g)
        BY <2>5 DEF CutFrom
    <2>8. g \in [S -> Int]
        BY <2>4
    <2> HIDE DEF f, S
    <2>9. SumFunction(f) = f[r] + SumFunction(g)
        BY <2>1, <2>4, TotalOfOneMore
    <2>10. SumFunction(g) \in Int
        <3> HIDE DEF g
        <3> QED
            BY <2>1, <2>8, TotalType
    <2> QED
        BY <2>2, <2>6, <2>7, <2>9, <2>10
<1>12. CutByDiscounts'
    <2> SUFFICES ASSUME NEW j \in Invoice PROVE Subtotal(j) - AmountOf(parts'[j]) = CutFrom(j)'
        BY DEF CutByDiscounts, Subtotal
    <2>1. Subtotal(j) - AmountOf(parts[j]) = CutFrom(j)
        BY DEF Books, CutByDiscounts
    <2>2. CASE j = i
        <3>1. Subtotal(i) \in Int /\ AmountOf(parts[i]) \in Int
            BY <1>5, FeeSums, PartSums
        <3> QED
            BY <1>2, <1>5, <1>11, <2>1, <2>2, <3>1
    <2>3. CASE j # i
        BY <1>5, <1>9, <1>10, <2>1, <2>3, CutFromStays
    <2> QED
        BY <2>2, <2>3
<1>13. PaidByPayments'
    <2> SUFFICES ASSUME NEW j \in Invoice, NEW k \in DOMAIN parts'[j]
                 PROVE  parts'[j][k].paid = PaidInto(j, k)'
        BY DEF PaidByPayments
    <2>1. k \in DOMAIN parts[j] /\ parts'[j][k].paid = parts[j][k].paid
        BY <1>1, <1>3, <1>5 DEF Parts
    <2>2. PaidInto(j, k)' = PaidInto(j, k)
        BY <1>4, PaidIntoStays DEF PostedOn
    <2> QED
        BY <2>1, <2>2 DEF Books, PaidByPayments
<1>14. BookedInFull' /\ Receipted' = Receipted /\ IsFiniteSet(Written')
    BY <1>4, <1>9, FS_AddElement DEF Books, BookedInFull, Receipted
<1> QED
    BY <1>12, <1>13, <1>14 DEF Books

(* Asking and rejecting write no money: what changes is a request under    *)
(* which no discount has been written.                                     *)
LEMMA BooksOnOthers ==
    ASSUME Inv, Eyes, Books, NEW r \in Request, discount[r] = <<>>,
           \A q \in Request \ {r} : request'[q] = request[q],
           UNCHANGED <<parts, payment, discount>>
    PROVE  Books'
<1>1. ASSUME NEW j \in Invoice PROVE DiscountsOf(j)' = DiscountsOf(j)
    <2>1. r \notin DiscountsOf(j) /\ r \notin DiscountsOf(j)'
        BY DEF DiscountsOf
    <2>2. \A q \in Request \ {r} : q \in DiscountsOf(j)' <=> q \in DiscountsOf(j)
        BY DEF DiscountsOf
    <2>3. DiscountsOf(j) \subseteq Request /\ DiscountsOf(j)' \subseteq Request
        BY DEF DiscountsOf
    <2>4. \A q : q \in DiscountsOf(j)' <=> q \in DiscountsOf(j)
        BY <2>1, <2>2, <2>3
    <2> QED
        BY <2>4
<1>2. \A j \in Invoice : CutFrom(j)' = CutFrom(j)
    BY <1>1, CutFromStays
<1>3. ASSUME NEW j \in Invoice, NEW k PROVE PaidInto(j, k)' = PaidInto(j, k)
    BY PaidIntoStays DEF PostedOn
<1>4. PaidByPayments'
    BY <1>3 DEF Books, PaidByPayments
<1>5. CutByDiscounts'
    BY <1>2 DEF Books, CutByDiscounts, Subtotal
<1> QED
    BY <1>4, <1>5 DEF Books, BookedInFull, Receipted, Written

LEMMA BooksNext == ASSUME Inv, Eyes, TxAddsUp, Books, [Next]_vars PROVE Books'
<1>1. CASE UNCHANGED tables
    <2>1. \A j \in Invoice : CutFrom(j)' = CutFrom(j)
        BY <1>1, CutFromStays DEF tables, DiscountsOf
    <2>2. ASSUME NEW j \in Invoice, NEW k PROVE PaidInto(j, k)' = PaidInto(j, k)
        BY <1>1, PaidIntoStays DEF tables, PostedOn
    <2>3. PaidByPayments'
        BY <1>1, <2>2 DEF tables, Books, PaidByPayments
    <2>4. CutByDiscounts'
        BY <1>1, <2>1 DEF tables, Books, CutByDiscounts, Subtotal
    <2> QED
        BY <1>1, <2>3, <2>4 DEF tables, Books, BookedInFull, Receipted, Written
<1>2. ASSUME NEW r \in Request, ~IsApproved(r, "discount") PROVE discount[r] = <<>>
    BY <1>2 DEF Eyes, WrittenByOne, Inv, TypeOK
<1>3. ASSUME NEW w \in Worker, CommitRequest(w) PROVE Books'
    <2>1. PICK r \in Request : /\ request[r] = NoRequest
                               /\ \A q \in Request \ {r} : request'[q] = request[q]
        BY <1>3 DEF CommitRequest, Inv, TypeOK
    <2>2. discount[r] = <<>>
        BY <1>2, <2>1 DEF IsApproved
    <2> QED
        BY <1>3, <2>1, <2>2, BooksOnOthers DEF CommitRequest
<1>4. ASSUME NEW w \in Worker, CommitRejection(w) PROVE Books'
    <2>1. PICK r \in Request : r = tx[w].request /\ tx[w].by \in User /\ DecidingIsCurrent(w)
        BY <1>4, Deciding DEF CommitRejection
    <2>2. Decided(w, "rejected") /\ UNCHANGED <<parts, payment, discount>>
        BY <1>4 DEF CommitRejection
    <2>3. \A q \in Request \ {r} : request'[q] = request[q]
        BY <2>1, <2>2, DecidedType
    <2>4. discount[r] = <<>>
        BY <1>2, <2>1 DEF IsApproved, DecidingIsCurrent
    <2> QED
        BY <2>2, <2>3, <2>4, BooksOnOthers
<1> QED
    BY <1>1, <1>3, <1>4, OnlyCommitsShow, BooksOnPayment, BooksOnDiscount, BooksOnVoid
    DEF Committing

(* Always: the books balance, and every open transaction's sums are right. *)
THEOREM MoneyInvariance == Spec => []MoneyInv
<1>1. Init => Eyes
    BY DEF Init, Eyes, VoidedByOne, WrittenByOne, DecidedByOther, IsApproved, ApprovedVoids,
           NoPayment
<1>2. Init => TotalsSettled
    BY DEF Init, TotalsSettled
<1>3. Init => MoneyInv
    BY <1>1, <1>2, InitInv, MoneyInit DEF MoneyInv
<1>4. MoneyInv /\ [Next]_vars => MoneyInv'
    BY NextInv, EyesNext, TotalsNext, BooksNext, TxAddsUpNext DEF MoneyInv
<1> QED
    BY <1>3, <1>4, PTL DEF Spec

(* Whatever payments, voids and discounts run at once, for any number of   *)
(* invoices, instalments and clerks: the stored totals are those of the    *)
(* instalments, every instalment carries what the posted payments put on   *)
(* it, and what is off the fee is what the discounts say.                  *)
THEOREM BooksAlwaysBalance == Spec => []BooksBalance
<1> QED
    BY MoneyInvariance, BooksAreBalanced, PTL

-----------------------------------------------------------------------------
(* The ledger: what each commit does to the balances and to the entries.   *)
owes == [i \in Invoice |-> Balance(i)]
book == [p \in Payment |-> BookedAs(p)]

(* A balance is what the instalments ask for and have not been paid.       *)
LEMMA BalancesAreOwed ==
    ASSUME TotalsSettled, TotalsSettled'
    PROVE  \A i \in Invoice : /\ owes[i] = AmountOf(parts[i]) - PaidOf(parts[i])
                              /\ owes'[i] = AmountOf(parts'[i]) - PaidOf(parts'[i])
<1> SUFFICES ASSUME NEW i \in Invoice
             PROVE  /\ Balance(i) = AmountOf(parts[i]) - PaidOf(parts[i])
                    /\ Balance(i)' = AmountOf(parts'[i]) - PaidOf(parts'[i])
    BY DEF owes
<1>1. invoice[i] = SettledRow(i, parts[i]) /\ invoice'[i] = SettledRow(i, parts'[i])
    BY DEF TotalsSettled, SettledRow
<1> QED
    BY <1>1, SettledFields DEF Balance

LEMMA ReceivesOnPayment ==
    ASSUME MoneyInv, MoneyInv', NEW w \in Worker, CommitPayment(w)
    PROVE  Book!LedgerNext
<1> USE DEF MoneyInv
<1>1. PICK i \in Invoice : tx[w] \in PayingTx(i)
    BY PayingStep DEF Inv, CommitPayment
<1> DEFINE take == tx[w].take
           a == tx[w].amount
<1>2. /\ tx[w].invoice = i /\ take \in Shares(i) /\ SumFunction(take) = a
      /\ a \in Nat \ {0} /\ tx[w].receipt = counter + 1
      /\ \A k \in DOMAIN parts[i] : take[k] <= parts[i][k].amount - parts[i][k].paid
    BY <1>1, AmountsArePositive
    DEF CommitPayment, PayingTx, TxAddsUp, AddsUpInTx, Inv, WorkIsCurrent, IsCurrent, PayingIsCurrent
<1>3. PICK p \in Payment :
          /\ payment[p] = NoPayment
          /\ payment' = [payment EXCEPT ![p] =
                 [status |-> "posted", invoice |-> i, amount |-> a,
                  take |-> take, receipt |-> counter + 1]]
    BY <1>2 DEF CommitPayment
<1>4. /\ payment'[p] = [status |-> "posted", invoice |-> i, amount |-> a,
                        take |-> take, receipt |-> counter + 1]
      /\ \A q \in Payment \ {p} : payment'[q] = payment[q]
      /\ counter' = counter + 1
    BY <1>2, <1>3 DEF Inv, TypeOK, CommitPayment
<1>5. /\ \A j \in Invoice : parts[j] \in Parts(j)
      /\ parts'[i] = AfterPayment(parts[i], take)
      /\ \A j \in Invoice \ {i} : parts'[j] = parts[j]
    BY <1>2 DEF Inv, TypeOK, CommitPayment
<1> HIDE DEF take, a
<1>6. \A j \in Invoice : /\ owes[j] = AmountOf(parts[j]) - PaidOf(parts[j])
                         /\ owes'[j] = AmountOf(parts'[j]) - PaidOf(parts'[j])
    BY BalancesAreOwed
<1>7. a \in 1..owes[i]
    <2>1. AmountOf(parts[i]) \in Int /\ PaidOf(parts[i]) \in Int
        BY <1>5, PartSums
    <2>2. a <= AmountOf(parts[i]) - PaidOf(parts[i])
        BY <1>2, <1>5, WithinBalance
    <2> QED
        BY <1>2, <1>6, <2>1, <2>2
<1>8. owes' = [owes EXCEPT ![i] = @ - a]
    <2>1. owes'[i] = owes[i] - a
        <3>1. AmountOf(parts[i]) \in Int /\ PaidOf(parts[i]) \in Int
            BY <1>5, PartSums
        <3>2. /\ AmountOf(parts'[i]) = AmountOf(parts[i])
              /\ PaidOf(parts'[i]) = PaidOf(parts[i]) + a
            BY <1>2, <1>5, AfterSums
        <3> QED
            BY <1>2, <1>6, <3>1, <3>2
    <2>2. \A j \in Invoice \ {i} : owes'[j] = owes[j]
        BY <1>5, <1>6
    <2> QED
        BY <2>1, <2>2 DEF owes
<1>9. /\ book[p] = Book!Unused
      /\ book' = [book EXCEPT ![p] = [status |-> "posted", invoice |-> i, amount |-> a,
                                      receipt |-> counter']]
    <2>1. book[p] = Book!Unused
        BY <1>3 DEF book, BookedAs, Book!Unused
    <2>2. BookedAs(p)' = [status |-> "posted", invoice |-> i, amount |-> a, receipt |-> counter']
        BY <1>4 DEF BookedAs, NoPayment
    <2>3. \A q \in Payment \ {p} : BookedAs(q)' = BookedAs(q)
        BY <1>4 DEF BookedAs
    <2> QED
        BY <2>1, <2>2, <2>3 DEF book
<1>10. Book!Receive(i, p, a)
    BY <1>4, <1>7, <1>8, <1>9 DEF Book!Receive, owes, book
<1>11. Book!LedgerNext
    BY <1>7, <1>10 DEF Book!LedgerNext, owes
<1> QED
    BY <1>11

LEMMA WaivesOnDiscount ==
    ASSUME MoneyInv, MoneyInv', NEW w \in Worker, CommitDiscount(w)
    PROVE  Book!LedgerNext
<1> USE DEF MoneyInv
<1> DEFINE amount == tx[w].amount
           seen == tx[w].seen
<1>1. PICK i \in Invoice : i = tx[w].invoice /\ tx[w] \in ApprovingTx(i) /\ seen \in Parts(i)
    BY Approved DEF CommitDiscount
<1>2. /\ amount \in Nat \ {0} /\ AmountOf(seen) = AmountOf(parts[i]) - amount
      /\ \A k \in DOMAIN parts[i] : /\ parts[i][k].paid = seen[k].paid
                                    /\ parts[i][k].paid <= seen[k].amount
    BY <1>1 DEF CommitDiscount, ApprovingTx, TxAddsUp, AddsUpInTx, Inv, WorkIsCurrent, IsCurrent,
                DiscountIsCurrent
<1>3. /\ parts[i] \in Parts(i)
      /\ parts'[i] = seen /\ \A j \in Invoice \ {i} : parts'[j] = parts[j]
    <2>1. parts[i] \in Parts(i) /\ DOMAIN parts = Invoice
        BY DEF Inv, TypeOK
    <2>2. parts' = [parts EXCEPT ![i] = NewAmounts(parts[i], seen)]
        BY <1>1 DEF CommitDiscount
    <2>3. NewAmounts(parts[i], seen) = seen
        BY <1>1, <1>2, <2>1, DiscountLeavesSeen
    <2> QED
        BY <2>1, <2>2, <2>3
<1>4. UNCHANGED <<payment, counter>>
    BY DEF CommitDiscount
<1> HIDE DEF amount, seen
<1>5. \A j \in Invoice : /\ owes[j] = AmountOf(parts[j]) - PaidOf(parts[j])
                         /\ owes'[j] = AmountOf(parts'[j]) - PaidOf(parts'[j])
    BY BalancesAreOwed
<1>6. Paids(seen) = Paids(parts[i])
    BY <1>1, <1>2, <1>3 DEF Paids, Parts
<1>7. /\ AmountOf(parts[i]) \in Int /\ PaidOf(parts[i]) \in Int
      /\ PaidOf(seen) = PaidOf(parts[i]) /\ AmountOf(seen) \in Int
    BY <1>1, <1>3, <1>6, PartSums
<1>8. PaidOf(seen) <= AmountOf(seen)
    <2>1. /\ \A k \in DOMAIN Fee[i] : Paids(seen)[k] <= Amounts(seen)[k]
          /\ Paids(seen) \in [DOMAIN Fee[i] -> Int] /\ Amounts(seen) \in [DOMAIN Fee[i] -> Int]
          /\ IsFiniteSet(DOMAIN Fee[i])
        BY <1>1, <1>2, <1>3, PartSums DEF Paids, Amounts, Parts
    <2>2. SumFunction(Paids(seen)) <= SumFunction(Amounts(seen))
        BY <2>1, TotalsCompare
    <2> QED
        BY <1>1, <2>2, PartSums
<1>9. amount \in 1..owes[i]
    BY <1>2, <1>5, <1>7, <1>8
<1>10. owes' = [owes EXCEPT ![i] = @ - amount]
    <2>1. owes'[i] = owes[i] - amount
        BY <1>2, <1>3, <1>5, <1>7
    <2>2. \A j \in Invoice \ {i} : owes'[j] = owes[j]
        BY <1>3, <1>5
    <2> QED
        BY <2>1, <2>2 DEF owes
<1>11. book' = book
    BY <1>4 DEF book, BookedAs
<1>12. Book!Waive(i, amount)
    BY <1>4, <1>9, <1>10, <1>11 DEF Book!Waive, owes, book
<1> QED
    BY <1>9, <1>12 DEF Book!LedgerNext, owes

LEMMA ReversesOnVoid ==
    ASSUME MoneyInv, MoneyInv', NEW w \in Worker, CommitVoid(w)
    PROVE  Book!LedgerNext
<1> USE DEF MoneyInv
<1>p. PICK p \in Payment : p = tx[w].payment
    BY PaymentVoided
<1> DEFINE take == payment[p].take
           a == payment[p].amount
<1>1. PICK i \in Invoice : i = tx[w].invoice
    BY Approved DEF CommitVoid
<1>2. /\ p \in Payment /\ payment[p].status = "posted" /\ payment[p].invoice = i
      /\ payment[p] # NoPayment
      /\ payment'[p] = [payment[p] EXCEPT !.status = "void"] /\ payment'[p] # NoPayment
      /\ \A q \in Payment \ {p} : payment'[q] = payment[q]
      /\ counter' = counter
    <2>1. payment[p].invoice = i
        BY <1>p, <1>1 DEF CommitVoid, Inv, WorkIsCurrent, IsCurrent, VoidIsCurrent
    <2> QED
        BY <1>p, <2>1, PaymentVoided
<1>3. payment[p] \in PaymentOf(i) /\ take \in Shares(i) /\ SumFunction(take) = a
    BY <1>2, BookedPayment DEF Inv, Books, BookedInFull, Receipted
<1>4. /\ payment'[p].status = "void" /\ payment'[p].invoice = i /\ payment'[p].amount = a
      /\ payment'[p].receipt = payment[p].receipt
    BY <1>2, <1>3 DEF PaymentOf
<1>5. /\ parts[i] \in Parts(i) /\ parts'[i] = AfterVoid(parts[i], take)
      /\ \A j \in Invoice \ {i} : parts'[j] = parts[j]
    BY <1>p, <1>1 DEF Inv, TypeOK, CommitVoid
<1> HIDE DEF take, a
<1>6. \A j \in Invoice : /\ owes[j] = AmountOf(parts[j]) - PaidOf(parts[j])
                         /\ owes'[j] = AmountOf(parts'[j]) - PaidOf(parts'[j])
    BY BalancesAreOwed
<1>7. owes' = [owes EXCEPT ![i] = @ + a]
    <2>1. owes'[i] = owes[i] + a
        <3>1. AmountOf(parts[i]) \in Int /\ PaidOf(parts[i]) \in Int /\ SumFunction(take) \in Int
            BY <1>3, <1>5, PartSums, ShareSums
        <3>2. /\ AmountOf(parts'[i]) = AmountOf(parts[i])
              /\ PaidOf(parts'[i]) = PaidOf(parts[i]) - a
            BY <1>3, <1>5, AfterSums
        <3> QED
            BY <1>3, <1>6, <3>1, <3>2
    <2>2. \A j \in Invoice \ {i} : owes'[j] = owes[j]
        BY <1>5, <1>6
    <2> QED
        BY <2>1, <2>2 DEF owes
<1>8. /\ book[p] = [status |-> "posted", invoice |-> i, amount |-> a, receipt |-> payment[p].receipt]
      /\ BookedAs(p)' = [status |-> "void", invoice |-> i, amount |-> a, receipt |-> payment[p].receipt]
    <2>1. book[p] = BookedAs(p)
        BY <1>2 DEF book
    <2>2. payment[p].amount = a
        BY DEF a
    <2>3. BookedAs(p) = [status |-> "posted", invoice |-> i, amount |-> a,
                         receipt |-> payment[p].receipt]
        BY <1>2, <2>2 DEF BookedAs
    <2>4. BookedAs(p)' = [status |-> "void", invoice |-> i, amount |-> a,
                          receipt |-> payment[p].receipt]
        BY <1>2, <1>4 DEF BookedAs
    <2> QED
        BY <2>1, <2>3, <2>4
<1>9. book' = [book EXCEPT ![p].status = "void"]
    <2>1. \A q \in Payment \ {p} : BookedAs(q)' = BookedAs(q)
        BY <1>2 DEF BookedAs
    <2>2. BookedAs(p)' = [book[p] EXCEPT !.status = "void"]
        BY <1>8
    <2>3. book' = [q \in Payment |-> IF q = p THEN [book[p] EXCEPT !.status = "void"] ELSE book[q]]
        BY <2>1, <2>2 DEF book
    <2>4. DOMAIN book = Payment
        BY DEF book
    <2> QED
        BY <2>3, <2>4
<1>10. /\ book[p].status = "posted"
       /\ owes' = [owes EXCEPT ![book[p].invoice] = @ + book[p].amount]
    BY <1>7, <1>8
<1>11. Book!Reverse(p)
    BY <1>2, <1>9, <1>10 DEF Book!Reverse, owes, book
<1> QED
    BY <1>2, <1>11 DEF Book!LedgerNext

(* Asking, rejecting and everything before a commit are stutters.          *)
LEMMA LedgerStep ==
    ASSUME MoneyInv, MoneyInv', [Next]_vars
    PROVE  [Book!LedgerNext]_(Book!ledgerVars)
<1>1. CASE UNCHANGED <<invoice, payment, counter>>
    BY <1>1 DEF Book!ledgerVars, Balance, BookedAs
<1> QED
    BY <1>1, OnlyCommitsShow, ReceivesOnPayment, WaivesOnDiscount, ReversesOnVoid
    DEF tables, Committing, CommitRequest, CommitRejection

LEMMA LedgerOpens == ASSUME Init PROVE Book!LedgerInit
<1>1. ASSUME NEW i \in Invoice PROVE Balance(i) = Subtotal(i)
    <2>1. Issued(i) \in Parts(i) /\ IsFiniteSet(DOMAIN Fee[i]) /\ Subtotal(i) \in Int
        BY IssuedType, FeeSums
    <2>2. Amounts(Issued(i)) = Fee[i] /\ Paids(Issued(i)) = [k \in DOMAIN Fee[i] |-> 0]
        BY FeeSums DEF Amounts, Paids, Issued
    <2>3. AmountOf(Issued(i)) = Subtotal(i) /\ PaidOf(Issued(i)) = 0
        BY <2>1, <2>2, PartSums, TotalOfZeros DEF Subtotal
    <2>4. invoice[i] = SettledRow(i, Issued(i))
        BY DEF Init
    <2> QED
        BY <2>1, <2>3, <2>4, SettledFields DEF Balance
<1>2. \A p \in Payment : BookedAs(p) = Book!Unused
    BY DEF Init, BookedAs, Book!Unused
<1> QED
    BY <1>1, <1>2 DEF Book!LedgerInit, Init

(* Seen through its committed tables billing is a ledger: no order of      *)
(* locks, reads, commits and aborts of any number of clerks shows a        *)
(* payment, a discount or a void as anything but one indivisible entry     *)
(* that moves the balance by its amount, and never below nothing.          *)
THEOREM BillingImplementsLedger == Spec => ImplementsLedger
<1>1. Init => Book!LedgerInit
    BY LedgerOpens
<1>2. MoneyInv /\ MoneyInv' /\ [Next]_vars => [Book!LedgerNext]_(Book!ledgerVars)
    BY LedgerStep
<1> QED
    BY <1>1, <1>2, MoneyInvariance, PTL DEF Spec, ImplementsLedger, Book!LedgerSpec

-----------------------------------------------------------------------------
(* The loops of the money arithmetic.                                       *)
(*                                                                          *)
(* allocatePayment visits the instalments from the first, applyDiscount     *)
(* from the last.  The order of the visits is a one-to-one function `at',   *)
(* and `back' its inverse; flow[k] is what is left after k visits.          *)
Visits(at, back, n) ==
    /\ n \in Nat /\ at \in [1..n -> 1..n] /\ back \in [1..n -> 1..n]
    /\ \A k \in 1..n : at[back[k]] = k /\ back[at[k]] = k

Flows(flow, asks, n, amount) ==
    /\ flow \in [0..n -> Int] /\ flow[0] = amount
    /\ \A k \in 1..n : flow[k] = flow[k - 1] - Smaller(flow[k - 1], asks[k])

(* A visit takes what is asked, or all that is left. *)
Takes(k, flow, asks, amount) ==
    /\ flow[k] \in Nat /\ flow[k - 1] \in Nat /\ flow[k - 1] <= amount
    /\ flow[k - 1] - flow[k] \in 0..amount /\ flow[k - 1] - flow[k] <= asks[k]
    /\ flow[k - 1] - flow[k] = asks[k] \/ flow[k] = 0

TakenFrom(take, at, flow, n) ==
    take \in [1..n -> Int] /\ \A k \in 1..n : take[at[k]] = flow[k - 1] - flow[k]

LEMMA FlowExists ==
    ASSUME NEW n \in Nat, NEW asks \in [1..n -> Nat], NEW amount \in Nat
    PROVE  \E flow : Flows(flow, asks, n, amount)
<1> DEFINE After(k, left) == left - Smaller(left, asks[k])
           Right(h, m) ==
               /\ h \in [0..n -> Int]
               /\ \A k \in 0..n : k <= m =>
                      h[k] = IF k = 0 THEN amount ELSE After(k, h[k - 1])
           N == {m \in Nat : ~ \E h : Right(h, m)}
<1>1. \A k \in 1..n : \A left \in Int : After(k, left) \in Int
    BY DEF Smaller
<1> HIDE DEF After
<1>2. \E h : Right(h, 0)
    <2> DEFINE h == [k \in 0..n |-> amount]
    <2>1. Right(h, 0)
        OBVIOUS
    <2> QED
        BY <2>1
<1>3. ASSUME NEW m \in Nat, NEW h, Right(h, m)
      PROVE  \E g : Right(g, m + 1)
    <2> DEFINE g == [k \in 0..n |-> IF k = m + 1 THEN After(k, h[m]) ELSE h[k]]
    <2>1. g \in [0..n -> Int]
        <3>1. h \in [0..n -> Int]
            BY <1>3
        <3>2. ASSUME NEW k \in 0..n, k = m + 1 PROVE After(k, h[m]) \in Int
            <4>1. k \in 1..n /\ m \in 0..n
                BY <3>2
            <4> QED
                BY <1>1, <3>1, <4>1
        <3>3. \A k \in 0..n : (IF k = m + 1 THEN After(k, h[m]) ELSE h[k]) \in Int
            BY <3>1, <3>2
        <3> QED
            BY <3>3
    <2>2. ASSUME NEW k \in 0..n, k <= m + 1
          PROVE  g[k] = IF k = 0 THEN amount ELSE After(k, g[k - 1])
        <3>1. \A j \in 0..n : g[j] = IF j = m + 1 THEN After(j, h[m]) ELSE h[j]
            OBVIOUS
        <3> HIDE DEF g
        <3>2. CASE k = m + 1
            <4>1. m \in 0..n /\ m # m + 1 /\ k - 1 = m /\ k # 0
                BY <3>2
            <4>2. g[m] = h[m] /\ g[k] = After(k, h[m])
                BY <3>1, <3>2, <4>1
            <4> QED
                BY <4>1, <4>2
        <3>3. CASE k = 0
            <4>1. g[k] = h[k] /\ h[k] = amount
                BY <1>3, <3>1, <3>3
            <4> QED
                BY <3>3, <4>1
        <3>4. CASE k # 0 /\ k # m + 1
            <4>1. k <= m /\ k - 1 \in 0..n /\ k - 1 # m + 1
                BY <2>2, <3>4
            <4>2. g[k] = h[k] /\ g[k - 1] = h[k - 1]
                BY <3>1, <3>4, <4>1
            <4>3. h[k] = After(k, h[k - 1])
                BY <1>3, <3>4, <4>1
            <4> QED
                BY <3>4, <4>2, <4>3
        <3> QED
            BY <3>2, <3>3, <3>4
    <2> HIDE DEF g
    <2> QED
        BY <2>1, <2>2
<1>4. \E h : Right(h, n)
    <2> SUFFICES ASSUME ~ \E h : Right(h, n) PROVE FALSE
        OBVIOUS
    <2> HIDE DEF Right
    <2>1. N # {} /\ N \in SUBSET Nat
        OBVIOUS
    <2>2. PICK m \in N : \A k \in N : m <= k
        <3> HIDE DEF N
        <3> QED
            BY <2>1, LeastNat
    <2>3. m # 0
        BY <1>2
    <2>4. m - 1 \in Nat /\ m - 1 \notin N /\ (m - 1) + 1 = m
        BY <2>2, <2>3
    <2> QED
        BY <1>3, <2>4
<1>5. PICK h : Right(h, n)
    BY <1>4
<1>6. h[0] = amount /\ \A k \in 1..n : h[k] = After(k, h[k - 1])
    BY <1>5
<1> QED
    BY <1>5, <1>6 DEF Flows, After

(* What is left shrinks, and not below nothing. *)
LEMMA FlowFalls ==
    ASSUME NEW n \in Nat, NEW asks \in [1..n -> Nat], NEW amount \in Nat,
           NEW flow, Flows(flow, asks, n, amount)
    PROVE  \A k \in 0..n : flow[k] \in Nat /\ \A j \in 0..k : flow[k] <= flow[j]
<1> DEFINE Falls(k) == flow[k] \in Nat /\ \A j \in 0..k : flow[k] <= flow[j]
           N == {k \in 0..n : ~ Falls(k)}
<1> SUFFICES ASSUME N # {} PROVE FALSE
    OBVIOUS
<1>1. PICK m \in N : \A k \in N : m <= k
    <2>1. N \in SUBSET Nat
        OBVIOUS
    <2> HIDE DEF N
    <2> QED
        BY <2>1, LeastNat
<1>2. flow \in [0..n -> Int] /\ flow[0] = amount
    BY DEF Flows
<1>3. m # 0
    BY <1>1, <1>2
<1>4. m \in 1..n /\ m - 1 \in 0..n /\ m - 1 \notin N
    BY <1>1, <1>3
<1>5. flow[m - 1] \in Nat /\ \A j \in 0..(m - 1) : flow[m - 1] <= flow[j]
    BY <1>4
<1>6. flow[m] \in Nat /\ flow[m] <= flow[m - 1]
    BY <1>4, <1>5 DEF Flows, Smaller
<1>7. ASSUME NEW j \in 0..m PROVE flow[m] <= flow[j]
    <2>1. j = m \/ (j \in 0..(m - 1) /\ j \in 0..n)
        BY <1>4
    <2> QED
        BY <1>2, <1>5, <1>6, <2>1
<1> QED
    BY <1>1, <1>6, <1>7

LEMMA VisitsTake ==
    ASSUME NEW n \in Nat, NEW asks \in [1..n -> Nat], NEW amount \in Nat,
           NEW flow, Flows(flow, asks, n, amount)
    PROVE  \A k \in 1..n : Takes(k, flow, asks, amount)
<1> SUFFICES ASSUME NEW k \in 1..n PROVE Takes(k, flow, asks, amount)
    OBVIOUS
<1>1. k - 1 \in 0..n /\ k \in 0..n /\ 0 \in 0..(k - 1) /\ flow[0] = amount /\ k - 1 \in 0..k
    BY DEF Flows
<1>2. flow[k] \in Nat /\ flow[k - 1] \in Nat /\ flow[k - 1] <= amount /\ flow[k] <= flow[k - 1]
    BY <1>1, FlowFalls
<1>3. flow[k] = flow[k - 1] - Smaller(flow[k - 1], asks[k])
    BY DEF Flows
<1> QED
    BY <1>2, <1>3 DEF Smaller, Takes

(* What the visits take adds up to what is gone. *)
LEMMA FlowAdds ==
    ASSUME NEW n, NEW at, NEW back, Visits(at, back, n), NEW asks \in [1..n -> Nat],
           NEW amount \in Nat, NEW flow, Flows(flow, asks, n, amount),
           NEW take, TakenFrom(take, at, flow, n)
    PROVE  SumFunction(take) = amount - flow[n]
<1> DEFINE Visited(k) == {at[j] : j \in 1..k}
           Taken(k) == SumFunctionOnSet(take, Visited(k))
           N == {k \in 0..n : Taken(k) # amount - flow[k]}
<1>1. /\ n \in Nat /\ flow \in [0..n -> Int] /\ flow[0] = amount
      /\ \A k \in 1..n : at[k] \in 1..n /\ back[k] \in 1..n /\ at[back[k]] = k /\ back[at[k]] = k
      /\ take \in [1..n -> Int] /\ \A k \in 1..n : take[at[k]] = flow[k - 1] - flow[k]
    BY DEF Visits, Flows, TakenFrom
<1>2. IsFiniteSet(1..n)
    BY <1>1, FS_Interval
<1>3. ASSUME NEW k \in 0..n PROVE Counts(take, Visited(k))
    <2>1. ASSUME NEW j \in 1..k PROVE at[j] \in 1..n
        <3>1. j \in 1..n
            BY <1>1
        <3> QED
            BY <1>1, <3>1
    <2>2. Visited(k) \subseteq 1..n
        BY <2>1
    <2> HIDE DEF Visited
    <2>3. IsFiniteSet(Visited(k)) /\ \A x \in Visited(k) : take[x] \in Int
        BY <1>1, <1>2, <2>2, FS_Subset
    <2> QED
        BY <2>3 DEF Counts
<1>4. Taken(0) = 0
    <2>1. Visited(0) = {}
        OBVIOUS
    <2> HIDE DEF Visited
    <2> QED
        BY <2>1, SumOfNothing
<1>5. ASSUME NEW m \in 1..n
      PROVE  Taken(m) = take[at[m]] + Taken(m - 1)
    <2>1. m \in 0..n /\ m \in 1..m /\ m \in Int /\ n \in Int
        BY <1>1
    <2>2. \A j \in 1..m : j \in 1..n /\ (j \in 1..(m - 1) <=> j # m)
        BY <1>1
    <2>3. \A j \in 1..(m - 1) : j \in 1..m
        BY <1>1
    <2>4. ASSUME NEW j \in 1..m, at[j] = at[m] PROVE j = m
        <3>1. back[at[j]] = j /\ back[at[m]] = m
            BY <1>1, <2>2
        <3> QED
            BY <2>4, <3>1
    <2>5. Visited(m - 1) = Visited(m) \ {at[m]} /\ at[m] \in Visited(m)
        <3> DEFINE J == 1..m
                   I == 1..(m - 1)
        <3>1. /\ m \in J /\ \A j \in J : (j \in I <=> j # m) /\ (at[j] = at[m] => j = m)
              /\ I \subseteq J
            BY <2>1, <2>2, <2>3, <2>4
        <3> HIDE DEF I, J
        <3>2. {at[j] : j \in I} = {at[j] : j \in J} \ {at[m]} /\ at[m] \in {at[j] : j \in J}
            BY <3>1
        <3> QED
            BY <3>2 DEF I, J
    <2>6. Counts(take, Visited(m))
        BY <1>3, <2>1
    <2> HIDE DEF Visited
    <2>7. SumFunctionOnSet(take, Visited(m))
             = take[at[m]] + SumFunctionOnSet(take, Visited(m) \ {at[m]})
        BY <2>5, <2>6, SumStep
    <2>8. Taken(m) = SumFunctionOnSet(take, Visited(m))
        OBVIOUS
    <2>9. Taken(m - 1) = SumFunctionOnSet(take, Visited(m) \ {at[m]})
        BY <2>5
    <2> QED
        BY <2>7, <2>8, <2>9
<1>6. Taken(n) = SumFunction(take)
    <2>1. Visited(n) = 1..n
        <3> DEFINE J == 1..n
        <3>1. \A i \in J : back[i] \in J /\ at[back[i]] = i /\ at[i] \in J
            BY <1>1
        <3> HIDE DEF J
        <3>2. {at[j] : j \in J} = J
            BY <3>1
        <3> QED
            BY <3>2 DEF J
    <2>2. DOMAIN take = 1..n
        BY <1>1
    <2> HIDE DEF Visited
    <2> QED
        BY <2>1, <2>2 DEF SumFunction
<1> HIDE DEF Taken
<1>7. N = {}
    <2> SUFFICES ASSUME N # {} PROVE FALSE
        OBVIOUS
    <2>1. PICK m \in N : \A k \in N : m <= k
        <3>1. N \in SUBSET Nat
            BY <1>1
        <3> HIDE DEF N
        <3> QED
            BY <3>1, LeastNat
    <2>2. m # 0
        BY <1>1, <1>4, <2>1
    <2>3. m \in 1..n /\ m - 1 \in 0..n /\ m - 1 \notin N /\ m \in 0..n
        <3>1. m \in 0..n /\ m \in 1..n
            BY <1>1, <2>1, <2>2
        <3>2. m - 1 \in 0..n /\ ~ (m <= m - 1)
            BY <1>1, <3>1
        <3> HIDE DEF N
        <3> QED
            BY <2>1, <3>1, <3>2
    <2>4. Taken(m - 1) = amount - flow[m - 1]
        BY <2>3
    <2>5. take[at[m]] = flow[m - 1] - flow[m] /\ flow[m - 1] \in Int /\ flow[m] \in Int
        BY <1>1, <2>3
    <2>6. Taken(m) = amount - flow[m]
        BY <1>5, <2>3, <2>4, <2>5
    <2> QED
        BY <2>1, <2>6
<1>8. Taken(n) = amount - flow[n]
    <2>1. n \in 0..n
        BY <1>1
    <2>2. n \notin N
        BY <1>7
    <2> QED
        BY <2>1, <2>2
<1> QED
    BY <1>6, <1>8

LEMMA TotalsDiffer ==
    ASSUME NEW S, IsFiniteSet(S), NEW f \in [S -> Int], NEW g \in [S -> Int],
           \A x \in S : f[x] <= g[x], NEW y \in S, f[y] < g[y]
    PROVE  SumFunction(f) < SumFunction(g)
<1>1. Counts(f, S) /\ Counts(g, S)
    BY DEF Counts
<1>2. /\ SumFunctionOnSet(f, S) = f[y] + SumFunctionOnSet(f, S \ {y})
      /\ SumFunctionOnSet(f, S \ {y}) \in Int /\ Counts(f, S \ {y})
    BY <1>1, SumStep
<1>3. /\ SumFunctionOnSet(g, S) = g[y] + SumFunctionOnSet(g, S \ {y})
      /\ SumFunctionOnSet(g, S \ {y}) \in Int /\ Counts(g, S \ {y})
    BY <1>1, SumStep
<1>4. SumFunctionOnSet(f, S \ {y}) <= SumFunctionOnSet(g, S \ {y})
    BY <1>2, <1>3, SumsCompare
<1> QED
    BY <1>2, <1>3, <1>4 DEF SumFunction

(* The splits that take nothing from a visit before all earlier ones are    *)
(* satisfied: there is the loop's and no other, or none if too much is      *)
(* offered.                                                                 *)
InTurn(at, n, owed, amount) ==
    {t \in [1..n -> 0..amount] :
        /\ \A i \in 1..n : t[i] <= owed[i]
        /\ \A j, k \in 1..n : j < k /\ t[at[k]] > 0 => t[at[j]] = owed[at[j]]
        /\ SumFunction(t) = amount}

AsksInTurn(owed, at, n) == [k \in 1..n |-> owed[at[k]]]
Took(flow, back, n)     == [i \in 1..n |-> flow[back[i] - 1] - flow[back[i]]]

LEMMA LoopIsInTurn ==
    ASSUME NEW n, NEW at, NEW back, Visits(at, back, n), NEW owed \in [1..n -> Nat],
           NEW amount \in Nat, NEW flow, Flows(flow, AsksInTurn(owed, at, n), n, amount)
    PROVE  /\ InTurn(at, n, owed, amount) = (IF flow[n] = 0 THEN {Took(flow, back, n)} ELSE {})
           /\ flow[n] = 0 <=> amount <= SumFunction(owed)
<1> DEFINE asks == AsksInTurn(owed, at, n)
           take == Took(flow, back, n)
<1>1. /\ n \in Nat /\ flow \in [0..n -> Int] /\ flow[0] = amount
      /\ \A k \in 1..n : at[k] \in 1..n /\ back[k] \in 1..n /\ at[back[k]] = k /\ back[at[k]] = k
    BY DEF Visits, Flows
<1>2. asks \in [1..n -> Nat] /\ \A k \in 1..n : asks[k] = owed[at[k]]
    BY <1>1 DEF AsksInTurn
<1>3. \A k \in 1..n : take[at[k]] = flow[k - 1] - flow[k]
    BY <1>1 DEF Took
<1>4. IsFiniteSet(1..n)
    BY <1>1, FS_Interval
<1> HIDE DEF asks
<1>5. ASSUME NEW k \in 1..n
      PROVE  /\ flow[k] \in Nat /\ flow[k - 1] \in Nat
             /\ take[at[k]] \in 0..amount /\ take[at[k]] <= owed[at[k]]
             /\ take[at[k]] = owed[at[k]] \/ flow[k] = 0
    <2> HIDE DEF take
    <2>1. Flows(flow, asks, n, amount) /\ n \in Nat /\ asks \in [1..n -> Nat]
        BY <1>1, <1>2 DEF asks
    <2>2. Takes(k, flow, asks, amount)
        BY <2>1, VisitsTake
    <2> QED
        BY <1>2, <1>3, <2>2 DEF Takes
<1>6. take \in [1..n -> 0..amount] /\ \A i \in 1..n : take[i] <= owed[i]
    <2>1. \A i \in 1..n : take[i] \in 0..amount /\ take[i] <= owed[i]
        BY <1>1, <1>5
    <2>2. take = [i \in 1..n |-> take[i]]
        BY DEF Took
    <2> HIDE DEF take
    <2> QED
        BY <2>1, <2>2
<1>7. SumFunction(take) = amount - flow[n]
    <2>1. Flows(flow, asks, n, amount)
        BY DEF asks
    <2>2. asks \in [1..n -> Nat]
        BY <1>2
    <2> HIDE DEF take
    <2>3. TakenFrom(take, at, flow, n)
        <3>1. take \in [1..n -> Int]
            BY <1>6
        <3> QED
            BY <1>3, <3>1 DEF TakenFrom
    <2> QED
        BY <2>1, <2>2, <2>3, FlowAdds
<1> HIDE DEF take
<1>8. \A j \in 0..n : \A k \in 0..j : flow[j] \in Nat /\ flow[k] \in Nat /\ flow[j] <= flow[k]
    <2>1. Flows(flow, asks, n, amount)
        BY DEF asks
    <2>2. \A j \in 0..n : flow[j] \in Nat /\ \A k \in 0..j : flow[j] <= flow[k]
        BY <1>1, <1>2, <2>1, FlowFalls
    <2>3. \A j \in 0..n : \A k \in 0..j : k \in 0..n
        BY <1>1
    <2> QED
        BY <2>2, <2>3
<1>9. flow[n] \in Nat /\ n \in 0..n
    BY <1>1, <1>8
<1>10. ASSUME NEW j \in 1..n, NEW k \in 1..n, j < k, take[at[k]] > 0
       PROVE  take[at[j]] = owed[at[j]]
    <2>1. flow[k - 1] > 0
        BY <1>3, <1>5, <1>10
    <2>2. flow[k - 1] <= flow[j]
        <3>1. k - 1 \in 0..n /\ j \in 0..(k - 1)
            BY <1>1, <1>10
        <3> QED
            BY <1>8, <3>1
    <2> QED
        BY <1>5, <2>1, <2>2
<1>11. ASSUME flow[n] # 0 PROVE \A i \in 1..n : take[i] = owed[i]
    <2> SUFFICES ASSUME NEW i \in 1..n PROVE take[i] = owed[i]
        OBVIOUS
    <2>1. back[i] \in 1..n /\ at[back[i]] = i /\ back[i] \in 0..n
        BY <1>1
    <2>2. flow[n] <= flow[back[i]] /\ flow[back[i]] \in Nat
        BY <1>8, <1>9, <2>1
    <2>3. flow[back[i]] # 0
        BY <1>9, <1>11, <2>2
    <2> QED
        BY <1>5, <2>1, <2>3
<1>12. SumFunction(take) <= SumFunction(owed) /\ SumFunction(owed) \in Int
    <2>1. take \in [1..n -> Int] /\ owed \in [1..n -> Int] /\ \A i \in 1..n : take[i] <= owed[i]
        BY <1>6
    <2> QED
        BY <1>4, <2>1, TotalsCompare, TotalType
<1>13. flow[n] # 0 => SumFunction(owed) = amount - flow[n]
    <2>1. ASSUME flow[n] # 0 PROVE take = owed
        <3>1. take = [i \in 1..n |-> take[i]] /\ owed = [i \in 1..n |-> owed[i]]
            BY <1>6
        <3> QED
            BY <1>11, <2>1, <3>1
    <2> QED
        BY <1>7, <2>1
<1>14. flow[n] = 0 <=> amount <= SumFunction(owed)
    BY <1>7, <1>9, <1>12, <1>13
<1>15. ASSUME flow[n] = 0 PROVE take \in InTurn(at, n, owed, amount)
    BY <1>6, <1>7, <1>10, <1>15 DEF InTurn
<1>16. ASSUME NEW t \in InTurn(at, n, owed, amount) PROVE flow[n] = 0 /\ t = take
    <2>1. /\ t \in [1..n -> 0..amount] /\ t \in [1..n -> Int] /\ take \in [1..n -> Int]
          /\ \A i \in 1..n : t[i] <= owed[i] /\ t[i] >= 0
          /\ \A j, k \in 1..n : j < k /\ t[at[k]] > 0 => t[at[j]] = owed[at[j]]
          /\ SumFunction(t) = amount
        <3>1. \A i \in 0..amount : i \in Int /\ i >= 0
            OBVIOUS
        <3> QED
            BY <1>6, <3>1 DEF InTurn
    <2>2. flow[n] = 0
        <3>1. owed \in [1..n -> Int]
            OBVIOUS
        <3>2. amount <= SumFunction(owed)
            BY <1>4, <2>1, <3>1, TotalsCompare
        <3> QED
            BY <1>14, <3>2
    <2>3. SumFunction(take) = SumFunction(t)
        BY <1>7, <2>1, <2>2
    <2> DEFINE N == {k \in 1..n : t[at[k]] # take[at[k]]}
    <2>4. N = {}
        <3> SUFFICES ASSUME N # {} PROVE FALSE
            OBVIOUS
        <3>1. PICK m \in N : \A k \in N : m <= k
            <4>1. N \in SUBSET Nat
                BY <1>1
            <4> HIDE DEF N
            <4> QED
                BY <4>1, LeastNat
        <3>2. /\ m \in 1..n /\ at[m] \in 1..n /\ t[at[m]] # take[at[m]]
              /\ \A k \in 1..n : k < m => t[at[k]] = take[at[k]]
            BY <1>1, <3>1
        <3>3. /\ \A i \in 1..n : t[i] \in Int /\ take[i] \in Int /\ take[i] >= 0 /\ owed[i] \in Nat
            BY <1>6, <2>1
        <3> HIDE DEF N
        <3>4. CASE t[at[m]] < take[at[m]]
            <4>1. t[at[m]] # owed[at[m]]
                BY <1>6, <3>2, <3>3, <3>4
            <4>2. \A i \in 1..n : t[i] <= take[i]
                <5> SUFFICES ASSUME NEW i \in 1..n PROVE t[i] <= take[i]
                    OBVIOUS
                <5>1. back[i] \in 1..n /\ at[back[i]] = i
                    BY <1>1
                <5>2. back[i] < m => t[i] = take[i]
                    BY <3>2, <5>1
                <5>3. back[i] > m => t[i] <= 0
                    <6>1. m < back[i] /\ t[at[back[i]]] > 0 => t[at[m]] = owed[at[m]]
                        BY <2>1, <3>2, <5>1
                    <6>2. back[i] \in Int /\ m \in Int /\ t[i] \in Int
                        BY <1>1, <3>2, <3>3, <5>1
                    <6> QED
                        BY <4>1, <5>1, <6>1, <6>2
                <5>4. back[i] = m => t[i] < take[i]
                    BY <3>4, <5>1
                <5>5. back[i] < m \/ back[i] = m \/ back[i] > m
                    BY <1>1, <3>2, <5>1
                <5> QED
                    BY <3>3, <5>2, <5>3, <5>4, <5>5
            <4>3. SumFunction(t) < SumFunction(take)
                BY <1>4, <2>1, <3>2, <3>4, <4>2, TotalsDiffer
            <4>4. SumFunction(t) \in Int
                BY <1>4, <2>1, TotalType
            <4> QED
                BY <2>3, <4>3, <4>4
        <3>5. CASE take[at[m]] < t[at[m]]
            <4>1. take[at[m]] # owed[at[m]]
                BY <2>1, <3>2, <3>3, <3>5
            <4>2. \A i \in 1..n : take[i] <= t[i]
                <5> SUFFICES ASSUME NEW i \in 1..n PROVE take[i] <= t[i]
                    OBVIOUS
                <5>1. back[i] \in 1..n /\ at[back[i]] = i
                    BY <1>1
                <5>2. back[i] < m => t[i] = take[i]
                    BY <3>2, <5>1
                <5>3. back[i] > m => take[i] <= 0
                    <6>1. m < back[i] /\ take[at[back[i]]] > 0 => take[at[m]] = owed[at[m]]
                        BY <1>10, <3>2, <5>1
                    <6>2. back[i] \in Int /\ m \in Int /\ take[i] \in Int
                        BY <1>1, <3>2, <3>3, <5>1
                    <6> QED
                        BY <4>1, <5>1, <6>1, <6>2
                <5>4. back[i] = m => take[i] < t[i]
                    BY <3>5, <5>1
                <5>5. back[i] < m \/ back[i] = m \/ back[i] > m
                    BY <1>1, <3>2, <5>1
                <5> QED
                    BY <2>1, <3>3, <5>2, <5>3, <5>4, <5>5
            <4>3. SumFunction(take) < SumFunction(t)
                BY <1>4, <2>1, <3>2, <3>5, <4>2, TotalsDiffer
            <4>4. SumFunction(t) \in Int
                BY <1>4, <2>1, TotalType
            <4> QED
                BY <2>3, <4>3, <4>4
        <3> QED
            BY <3>2, <3>3, <3>4, <3>5
    <2>5. \A i \in 1..n : t[i] = take[i]
        <3>1. \A k \in 1..n : t[at[k]] = take[at[k]]
            BY <2>4
        <3> QED
            BY <1>1, <3>1
    <2>6. t = [i \in 1..n |-> t[i]] /\ take = [i \in 1..n |-> take[i]]
        BY <2>1
    <2> QED
        BY <2>2, <2>5, <2>6
<1>17. InTurn(at, n, owed, amount) = (IF flow[n] = 0 THEN {take} ELSE {})
    BY <1>15, <1>16
<1> QED
    BY <1>14, <1>17 DEF take

(* A loop that goes over the visits is such a flow, and there is one. *)
Loops(h, asks, n, amount) ==
    h = [k \in 0..n |-> IF k = 0 THEN amount ELSE h[k - 1] - Smaller(h[k - 1], asks[k])]

LEMMA LoopFlows ==
    ASSUME NEW n \in Nat, NEW asks \in [1..n -> Nat], NEW amount \in Nat,
           NEW h, Loops(h, asks, n, amount)
    PROVE  Flows(h, asks, n, amount)
<1> DEFINE N == {k \in 0..n : h[k] \notin Int}
<1>1. /\ h = [k \in 0..n |-> h[k]] /\ h[0] = amount
      /\ \A k \in 1..n : h[k] = h[k - 1] - Smaller(h[k - 1], asks[k])
    <2> DEFINE e == [k \in 0..n |-> IF k = 0 THEN amount ELSE h[k - 1] - Smaller(h[k - 1], asks[k])]
    <2>1. h = e
        BY DEF Loops
    <2>2. e = [k \in 0..n |-> e[k]] /\ e[0] = amount
        OBVIOUS
    <2>3. \A k \in 1..n : e[k] = h[k - 1] - Smaller(h[k - 1], asks[k])
        OBVIOUS
    <2> HIDE DEF e
    <2> QED
        BY <2>1, <2>2, <2>3
<1>2. N = {}
    <2> SUFFICES ASSUME N # {} PROVE FALSE
        OBVIOUS
    <2>1. PICK m \in N : \A k \in N : m <= k
        <3>1. N \in SUBSET Nat
            OBVIOUS
        <3> HIDE DEF N
        <3> QED
            BY <3>1, LeastNat
    <2>2. m \in 1..n /\ h[m] \notin Int
        BY <1>1, <2>1
    <2>3. m - 1 \in 0..n /\ ~ (m <= m - 1)
        BY <2>2
    <2>4. h[m - 1] \in Int /\ asks[m] \in Int
        BY <2>1, <2>2, <2>3
    <2> QED
        <3>1. h[m] = h[m - 1] - Smaller(h[m - 1], asks[m])
            BY <1>1, <2>2
        <3> QED
            BY <2>2, <2>4, <3>1 DEF Smaller
<1>3. h \in [0..n -> Int]
    BY <1>1, <1>2
<1> QED
    BY <1>1, <1>3 DEF Flows

LEMMA LoopExists ==
    ASSUME NEW n \in Nat, NEW asks \in [1..n -> Nat], NEW amount \in Nat
    PROVE  \E h : Loops(h, asks, n, amount)
<1>1. PICK flow : Flows(flow, asks, n, amount)
    BY FlowExists
<1> DEFINE e == [k \in 0..n |-> IF k = 0 THEN amount ELSE flow[k - 1] - Smaller(flow[k - 1], asks[k])]
<1>2. flow = [k \in 0..n |-> flow[k]]
    BY <1>1 DEF Flows
<1>3. \A k \in 0..n : flow[k] = e[k]
    BY <1>1 DEF Flows
<1>4. e = [k \in 0..n |-> e[k]]
    OBVIOUS
<1>5. flow = e
    <2> HIDE DEF e
    <2> QED
        BY <1>2, <1>3, <1>4
<1> QED
    BY <1>5 DEF Loops

(* The instalments of an invoice: whole amounts, none paid beyond its own. *)
Bills == {ps \in Seq([amount : Nat, paid : Nat]) : \A k \in DOMAIN ps : ps[k].paid <= ps[k].amount}

LEMMA BillOwes ==
    ASSUME NEW ps \in Bills
    PROVE  /\ Len(ps) \in Nat /\ DOMAIN ps = 1..Len(ps) /\ IsFiniteSet(1..Len(ps))
           /\ ps \in [1..Len(ps) -> [amount : Nat, paid : Nat]]
           /\ Owed(ps) \in [1..Len(ps) -> Nat]
           /\ \A k \in 1..Len(ps) : Owed(ps)[k] = ps[k].amount - ps[k].paid
           /\ AmountOf(ps) \in Int /\ PaidOf(ps) \in Int
           /\ SumFunction(Owed(ps)) = AmountOf(ps) - PaidOf(ps)
<1> DEFINE n == Len(ps)
           amounts == [k \in 1..n |-> ps[k].amount]
           paids == [k \in 1..n |-> ps[k].paid]
<1>1. /\ n \in Nat /\ DOMAIN ps = 1..n /\ ps \in [1..n -> [amount : Nat, paid : Nat]]
      /\ \A k \in 1..n : ps[k].paid <= ps[k].amount
    <2> DEFINE R == [amount : Nat, paid : Nat]
    <2>1. ps \in Seq(R) /\ \A k \in DOMAIN ps : ps[k].paid <= ps[k].amount
        BY DEF Bills
    <2> HIDE DEF R
    <2>2. n \in Nat /\ DOMAIN ps = 1..n /\ ps \in [1..n -> R]
        BY <2>1
    <2> QED
        BY <2>1, <2>2 DEF R
<1>2. IsFiniteSet(1..n)
    BY <1>1, FS_Interval
<1> HIDE DEF n
<1>3. \A k \in 1..n : ps[k].amount \in Nat /\ ps[k].paid \in Nat /\ ps[k].amount - ps[k].paid \in Nat
    BY <1>1
<1>4. Owed(ps) = [k \in 1..n |-> ps[k].amount - ps[k].paid]
    BY <1>1 DEF Owed
<1>5. amounts \in [1..n -> Int] /\ paids \in [1..n -> Int]
    BY <1>3
<1>6. Owed(ps) = [k \in 1..n |-> amounts[k] - paids[k]]
    BY <1>4
<1>7. AmountOf(ps) = SumFunction(amounts) /\ PaidOf(ps) = SumFunction(paids)
    BY <1>1 DEF AmountOf, PaidOf
<1> HIDE DEF amounts, paids
<1>8. SumFunction(amounts) \in Int /\ SumFunction(paids) \in Int
    BY <1>2, <1>5, TotalType
<1>9. SumFunction(Owed(ps)) = SumFunction(amounts) - SumFunction(paids)
    <2> DEFINE S == 1..n
    <2>1. IsFiniteSet(S) /\ amounts \in [S -> Int] /\ paids \in [S -> Int]
        BY <1>2, <1>5
    <2>2. Owed(ps) = [k \in S |-> amounts[k] - paids[k]]
        BY <1>6
    <2> HIDE DEF S
    <2>3. SumFunction([k \in S |-> amounts[k] - paids[k]]) = SumFunction(amounts) - SumFunction(paids)
        BY <2>1, TotalsSubtract
    <2> QED
        BY <2>2, <2>3
<1> QED
    BY <1>1, <1>2, <1>3, <1>4, <1>7, <1>8, <1>9 DEF n

(* What allocatePayment does with any amount and any instalments: it takes  *)
(* the only oldest-first split there is, and leaves a remainder exactly if  *)
(* more is offered than is owed, when there is no such split.               *)
THEOREM PaymentLoop ==
    ASSUME NEW ps \in Bills, NEW amount \in Nat
    PROVE  LET split == AllocatePayment(ps, amount)
           IN  /\ PaymentSplits(ps, amount) = (IF split.remainder = 0 THEN {split.take} ELSE {})
               /\ split.remainder = 0 <=> amount <= AmountOf(ps) - PaidOf(ps)
<1> DEFINE n == Len(ps)
           owed == Owed(ps)
           at == [k \in 1..n |-> k]
           asks == AsksInTurn(owed, at, n)
           flow == CHOOSE h : Loops(h, owed, n, amount)
           took == Took(flow, at, n)
           split == AllocatePayment(ps, amount)
<1>1. /\ n \in Nat /\ DOMAIN ps = 1..n /\ owed \in [1..n -> Nat]
      /\ SumFunction(owed) = AmountOf(ps) - PaidOf(ps)
    BY BillOwes
<1>2. split = [take |-> [k \in DOMAIN ps |-> flow[k - 1] - flow[k]], remainder |-> flow[n]]
    BY DEF AllocatePayment, Loops
<1>3. PaymentSplits(ps, amount) = InTurn(at, n, owed, amount)
    <2> HIDE DEF n, owed
    <2>1. \A k \in 1..n : at[k] = k
        OBVIOUS
    <2> HIDE DEF at
    <2>2. \A t : (\A j, k \in 1..n : j < k /\ t[at[k]] > 0 => t[at[j]] = owed[at[j]])
                 <=> (\A j, k \in 1..n : j < k /\ t[k] > 0 => t[j] = owed[j])
        BY <2>1
    <2>3. PaymentSplits(ps, amount) =
            {t \in [1..n -> 0..amount] :
                /\ \A i \in 1..n : t[i] <= owed[i]
                /\ \A j, k \in 1..n : j < k /\ t[k] > 0 => t[j] = owed[j]
                /\ SumFunction(t) = amount}
        BY <1>1 DEF PaymentSplits, owed
    <2> QED
        BY <2>2, <2>3 DEF InTurn
<1> HIDE DEF split, n, owed
<1>4. Visits(at, at, n)
    BY <1>1 DEF Visits
<1>5. asks = owed
    BY <1>1 DEF AsksInTurn
<1>6. split.take = took /\ split.remainder = flow[n]
    BY <1>1, <1>2 DEF Took
<1>7. Loops(flow, owed, n, amount)
    <2>1. \E h : Loops(h, owed, n, amount)
        BY <1>1, LoopExists
    <2> QED
        BY <2>1
<1> HIDE DEF flow
<1>8. Flows(flow, asks, n, amount)
    BY <1>1, <1>5, <1>7, LoopFlows
<1> HIDE DEF at
<1>9. /\ InTurn(at, n, owed, amount) = (IF flow[n] = 0 THEN {took} ELSE {})
      /\ flow[n] = 0 <=> amount <= SumFunction(owed)
    BY <1>1, <1>4, <1>8, LoopIsInTurn
<1> QED
    BY <1>1, <1>3, <1>6, <1>9 DEF split

(* The loop of applyDiscount, written from the last instalment down, is the *)
(* same loop over the instalments in reverse.                               *)
LoopsDown(h, owed, n, amount) ==
    h = [k \in 1..(n + 1) |-> IF k = n + 1 THEN amount
                              ELSE h[k + 1] - Smaller(h[k + 1], owed[k])]

Reversed(n) == [k \in 1..n |-> n + 1 - k]

LEMMA ReversedVisits ==
    ASSUME NEW n \in Nat PROVE Visits(Reversed(n), Reversed(n), n)
<1>1. \A k \in 1..n : n + 1 - k \in 1..n /\ n + 1 - (n + 1 - k) = k
    OBVIOUS
<1> QED
    BY <1>1 DEF Visits, Reversed

LEMMA DownIsLoop ==
    ASSUME NEW n \in Nat, NEW owed \in [1..n -> Nat], NEW amount \in Nat, NEW h,
           LoopsDown(h, owed, n, amount)
    PROVE  Loops([j \in 0..n |-> h[n + 1 - j]], AsksInTurn(owed, Reversed(n), n), n, amount)
<1> DEFINE asks == AsksInTurn(owed, Reversed(n), n)
           g == [j \in 0..n |-> h[n + 1 - j]]
           e == [j \in 0..n |-> IF j = 0 THEN amount ELSE g[j - 1] - Smaller(g[j - 1], asks[j])]
<1>1. /\ h[n + 1] = amount
      /\ \A k \in 1..n : h[k] = h[k + 1] - Smaller(h[k + 1], owed[k])
    <2> DEFINE f == [k \in 1..(n + 1) |-> IF k = n + 1 THEN amount
                                          ELSE h[k + 1] - Smaller(h[k + 1], owed[k])]
    <2>1. h = f
        BY DEF LoopsDown
    <2>2. f[n + 1] = amount /\ \A k \in 1..n : f[k] = h[k + 1] - Smaller(h[k + 1], owed[k])
        OBVIOUS
    <2> HIDE DEF f
    <2> QED
        BY <2>1, <2>2
<1>2. \A j \in 1..n : asks[j] = owed[n + 1 - j]
    BY DEF AsksInTurn, Reversed
<1>3. ASSUME NEW j \in 0..n PROVE g[j] = e[j]
    <2>1. CASE j = 0
        BY <1>1, <2>1
    <2>2. CASE j # 0
        <3>1. /\ j \in 1..n /\ j - 1 \in 0..n /\ n + 1 - j \in 1..n
              /\ n + 1 - (j - 1) = (n + 1 - j) + 1
            BY <2>2
        <3>2. g[j] = h[n + 1 - j] /\ g[j - 1] = h[(n + 1 - j) + 1]
            BY <3>1
        <3>3. h[n + 1 - j] = h[(n + 1 - j) + 1] - Smaller(h[(n + 1 - j) + 1], owed[n + 1 - j])
            BY <1>1, <3>1
        <3>4. e[j] = g[j - 1] - Smaller(g[j - 1], asks[j])
            BY <2>2
        <3> HIDE DEF g, e, asks
        <3> QED
            BY <1>2, <3>1, <3>2, <3>3, <3>4
    <2> QED
        BY <2>1, <2>2
<1>4. g = e
    <2>1. g = [j \in 0..n |-> g[j]] /\ e = [j \in 0..n |-> e[j]]
        OBVIOUS
    <2> HIDE DEF g, e
    <2> QED
        BY <1>3, <2>1
<1> QED
    BY <1>4 DEF Loops

LEMMA DownExists ==
    ASSUME NEW n \in Nat, NEW owed \in [1..n -> Nat], NEW amount \in Nat
    PROVE  \E h : LoopsDown(h, owed, n, amount)
<1> DEFINE asks == AsksInTurn(owed, Reversed(n), n)
<1>1. asks \in [1..n -> Nat] /\ \A j \in 1..n : asks[j] = owed[n + 1 - j]
    <2>1. \A j \in 1..n : n + 1 - j \in 1..n
        OBVIOUS
    <2> QED
        BY <2>1 DEF AsksInTurn, Reversed
<1> HIDE DEF asks
<1>2. PICK flow : Flows(flow, asks, n, amount)
    BY <1>1, FlowExists
<1> DEFINE h == [k \in 1..(n + 1) |-> flow[n + 1 - k]]
           e == [k \in 1..(n + 1) |-> IF k = n + 1 THEN amount
                                      ELSE h[k + 1] - Smaller(h[k + 1], owed[k])]
<1>3. ASSUME NEW k \in 1..(n + 1) PROVE h[k] = e[k]
    <2>1. CASE k = n + 1
        <3>1. n + 1 - k = 0
            BY <2>1
        <3> QED
            BY <1>2, <2>1, <3>1 DEF Flows
    <2>2. CASE k # n + 1
        <3>1. /\ k + 1 \in 1..(n + 1) /\ n + 1 - k \in 1..n /\ n + 1 - (k + 1) = (n + 1 - k) - 1
              /\ n + 1 - (n + 1 - k) = k
            BY <2>2
        <3>2. h[k] = flow[n + 1 - k] /\ h[k + 1] = flow[(n + 1 - k) - 1]
            BY <3>1
        <3>3. flow[n + 1 - k] = flow[(n + 1 - k) - 1] - Smaller(flow[(n + 1 - k) - 1], asks[n + 1 - k])
            BY <1>2, <3>1 DEF Flows
        <3>4. asks[n + 1 - k] = owed[k]
            BY <1>1, <3>1
        <3>5. e[k] = h[k + 1] - Smaller(h[k + 1], owed[k])
            BY <2>2
        <3> HIDE DEF h, e
        <3> QED
            BY <3>2, <3>3, <3>4, <3>5
    <2> QED
        BY <2>1, <2>2
<1>4. h = e
    <2>1. h = [k \in 1..(n + 1) |-> h[k]] /\ e = [k \in 1..(n + 1) |-> e[k]]
        OBVIOUS
    <2> HIDE DEF h, e
    <2> QED
        BY <1>3, <2>1
<1> QED
    BY <1>4 DEF LoopsDown

(* What applyDiscount does: the only latest-first cut there is, and nothing *)
(* is left over exactly if the invoice's balance covers it.                 *)
THEOREM DiscountLoop ==
    ASSUME NEW ps \in Bills, NEW amount \in Nat
    PROVE  LET down == CutDiscount(ps, amount)
           IN  /\ DiscountCuts(ps, amount) = (IF down.rest = 0 THEN {down.cut} ELSE {})
               /\ down.rest = 0 <=> amount <= AmountOf(ps) - PaidOf(ps)
<1> DEFINE n == Len(ps)
           owed == Owed(ps)
           at == Reversed(n)
           left == CHOOSE h : LoopsDown(h, owed, n, amount)
           flow == [j \in 0..n |-> left[n + 1 - j]]
           took == Took(flow, at, n)
           down == CutDiscount(ps, amount)
<1>1. /\ n \in Nat /\ DOMAIN ps = 1..n /\ owed \in [1..n -> Nat]
      /\ SumFunction(owed) = AmountOf(ps) - PaidOf(ps)
    BY BillOwes
<1>2. down = [cut |-> [k \in DOMAIN ps |-> left[k + 1] - left[k]], rest |-> left[1]]
    BY DEF CutDiscount, LoopsDown
<1>3. DiscountCuts(ps, amount) = InTurn(at, n, owed, amount)
    <2> HIDE DEF n, owed
    <2>1. \A k \in 1..n : at[k] \in 1..n /\ at[k] = n + 1 - k /\ at[at[k]] = k
        BY <1>1 DEF Reversed
    <2>2. \A j, k \in 1..n : j < k <=> at[k] < at[j]
        BY <1>1, <2>1
    <2> HIDE DEF at
    <2>3. \A t : (\A j, k \in 1..n : j < k /\ t[at[k]] > 0 => t[at[j]] = owed[at[j]])
                 <=> (\A j, k \in 1..n : j < k /\ t[j] > 0 => t[k] = owed[k])
        <3> SUFFICES ASSUME NEW t
                     PROVE  (\A j, k \in 1..n : j < k /\ t[at[k]] > 0 => t[at[j]] = owed[at[j]])
                            <=> (\A j, k \in 1..n : j < k /\ t[j] > 0 => t[k] = owed[k])
            OBVIOUS
        <3>1. ASSUME \A j, k \in 1..n : j < k /\ t[at[k]] > 0 => t[at[j]] = owed[at[j]],
                     NEW j \in 1..n, NEW k \in 1..n, j < k, t[j] > 0
              PROVE  t[k] = owed[k]
            <4>1. at[j] \in 1..n /\ at[k] \in 1..n /\ at[k] < at[j] /\ at[at[j]] = j /\ at[at[k]] = k
                BY <2>1, <2>2, <3>1
            <4> QED
                BY <3>1, <4>1
        <3>2. ASSUME \A j, k \in 1..n : j < k /\ t[j] > 0 => t[k] = owed[k],
                     NEW j \in 1..n, NEW k \in 1..n, j < k, t[at[k]] > 0
              PROVE  t[at[j]] = owed[at[j]]
            <4>1. at[j] \in 1..n /\ at[k] \in 1..n /\ at[k] < at[j]
                BY <2>1, <2>2, <3>2
            <4> QED
                BY <3>2, <4>1
        <3> QED
            BY <3>1, <3>2
    <2>4. DiscountCuts(ps, amount) =
            {t \in [1..n -> 0..amount] :
                /\ \A i \in 1..n : t[i] <= owed[i]
                /\ \A j, k \in 1..n : j < k /\ t[j] > 0 => t[k] = owed[k]
                /\ SumFunction(t) = amount}
        BY <1>1 DEF DiscountCuts, owed
    <2> QED
        BY <2>3, <2>4 DEF InTurn
<1> HIDE DEF down, n, owed
<1>4. Visits(at, at, n)
    BY <1>1, ReversedVisits
<1>5. LoopsDown(left, owed, n, amount)
    <2>1. \E h : LoopsDown(h, owed, n, amount)
        BY <1>1, DownExists
    <2> QED
        BY <2>1
<1> HIDE DEF left
<1>6. down.cut = took /\ down.rest = flow[n]
    <2>1. flow[n] = left[1]
        BY <1>1
    <2>2. ASSUME NEW i \in 1..n PROVE flow[at[i] - 1] - flow[at[i]] = left[i + 1] - left[i]
        <3>1. /\ at[i] = n + 1 - i /\ at[i] - 1 \in 0..n /\ at[i] \in 0..n
              /\ n + 1 - (at[i] - 1) = i + 1 /\ n + 1 - at[i] = i
            BY <1>1 DEF Reversed
        <3> HIDE DEF at
        <3>2. flow[at[i] - 1] = left[n + 1 - (at[i] - 1)] /\ flow[at[i]] = left[n + 1 - at[i]]
            BY <3>1
        <3> HIDE DEF flow
        <3> QED
            BY <3>1, <3>2
    <2> HIDE DEF flow, at
    <2>3. took = [i \in 1..n |-> left[i + 1] - left[i]]
        BY <2>2 DEF Took
    <2> HIDE DEF took
    <2> QED
        BY <1>1, <1>2, <2>1, <2>3
<1>7. Loops(flow, AsksInTurn(owed, at, n), n, amount)
    BY <1>1, <1>5, DownIsLoop
<1> HIDE DEF flow
<1>8. Flows(flow, AsksInTurn(owed, at, n), n, amount)
    <2>1. AsksInTurn(owed, at, n) \in [1..n -> Nat]
        BY <1>1, <1>4 DEF Visits, AsksInTurn
    <2> HIDE DEF at
    <2> QED
        BY <1>1, <1>7, <2>1, LoopFlows
<1> HIDE DEF at
<1>9. /\ InTurn(at, n, owed, amount) = (IF flow[n] = 0 THEN {took} ELSE {})
      /\ flow[n] = 0 <=> amount <= SumFunction(owed)
    BY <1>1, <1>4, <1>8, LoopIsInTurn
<1> QED
    BY <1>1, <1>3, <1>6, <1>9 DEF down

(* A multiple of every term is a multiple of the sum. *)
LEMMA TotalsScale ==
    ASSUME NEW S, IsFiniteSet(S), NEW c \in Int, NEW f \in [S -> Int]
    PROVE  SumFunction([x \in S |-> c * f[x]]) = c * SumFunction(f)
<1> DEFINE h == [x \in S |-> c * f[x]]
           Scales(T) == SumFunctionOnSet(h, T) = c * SumFunctionOnSet(f, T)
           C == {T \in SUBSET S : ~ Scales(T)}
<1>1. \A x \in S : f[x] \in Int /\ h[x] \in Int /\ h[x] = c * f[x]
    OBVIOUS
<1>2. DOMAIN h = S
    OBVIOUS
<1> HIDE DEF h
<1>3. ASSUME C # {} PROVE FALSE
    <2>1. PICK T \in C : \A U \in C : Cardinality(T) <= Cardinality(U)
        BY <1>3, SmallestSubset
    <2>2. T \in SUBSET S /\ ~ Scales(T)
        OBVIOUS
    <2>3. T # {}
        <3>1. Scales({})
            BY SumOfNothing
        <3> HIDE DEF Scales
        <3> QED
            BY <2>2, <3>1
    <2>4. PICK x \in T : TRUE
        BY <2>3
    <2>5. Counts(f, T) /\ Counts(h, T)
        BY <1>1, <2>2, FS_Subset DEF Counts
    <2>6. Scales(T \ {x})
        <3> HIDE DEF C, Scales
        <3>1. /\ T \ {x} \in SUBSET S
              /\ Cardinality(T) \in Nat /\ Cardinality(T \ {x}) = Cardinality(T) - 1
            BY <2>2, OneLess
        <3>2. ~ (Cardinality(T) <= Cardinality(T \ {x}))
            BY <3>1
        <3>3. T \ {x} \notin C
            BY <2>1, <3>2
        <3> QED
            BY <3>1, <3>3 DEF C
    <2>7. /\ SumFunctionOnSet(f, T) = f[x] + SumFunctionOnSet(f, T \ {x})
          /\ SumFunctionOnSet(f, T \ {x}) \in Int
        BY <2>5, SumStep
    <2>8. SumFunctionOnSet(h, T) = h[x] + SumFunctionOnSet(h, T \ {x})
        BY <2>5, SumStep
    <2>9. x \in S /\ f[x] \in Int /\ h[x] = c * f[x]
        BY <1>1, <2>2
    <2>10. \A a, b \in Int : c * (a + b) = c * a + c * b
        OBVIOUS
    <2>11. Scales(T)
        <3>1. c * (f[x] + SumFunctionOnSet(f, T \ {x})) = c * f[x] + c * SumFunctionOnSet(f, T \ {x})
            BY <2>7, <2>9, <2>10
        <3> QED
            BY <2>6, <2>7, <2>8, <2>9, <3>1
    <2> QED
        BY <2>2, <2>11
<1>4. Scales(S)
    BY <1>3
<1>5. SumFunction(h) = c * SumFunction(f)
    BY <1>2, <1>4 DEF SumFunction
<1> QED
    BY <1>5 DEF h

(* What buildInstallments makes of a total and a plan's shares in basis     *)
(* points: whole parts that add up to the total, however the shares round.  *)
THEOREM PartsOfTotal ==
    ASSUME NEW total \in Nat, NEW shares \in Seq(Nat), SumFunction(shares) = 10000
    PROVE  /\ BuildInstallments(total, shares) \in Bills
           /\ AmountOf(BuildInstallments(total, shares)) = total
           /\ \A k \in DOMAIN shares : BuildInstallments(total, shares)[k].paid = 0
           /\ PaidOf(BuildInstallments(total, shares)) = 0
<1> DEFINE n == Len(shares)
           floors == [k \in DOMAIN shares |-> (total * shares[k]) \div 10000]
           over == total - SumFunction(floors)
           split == SplitByBasisPoints(total, shares)
           parts0 == BuildInstallments(total, shares)
<1>1. n \in Nat /\ DOMAIN shares = 1..n /\ \A k \in 1..n : shares[k] \in Nat
    OBVIOUS
<1> HIDE DEF n
<1>2. IsFiniteSet(1..n)
    BY <1>1, FS_Interval
<1>3. n # 0
    <2> SUFFICES ASSUME n = 0 PROVE FALSE
        OBVIOUS
    <2>1. DOMAIN shares = {}
        BY <1>1
    <2>2. SumFunction(shares) = 0
        BY <2>1, SumOfNothing DEF SumFunction
    <2> QED
        BY <2>2
<1>4. ASSUME NEW k \in 1..n
      PROVE  /\ total * shares[k] \in Nat /\ floors[k] \in Nat
             /\ 10000 * floors[k] <= total * shares[k]
    <2>1. shares[k] \in Nat /\ floors[k] = (total * shares[k]) \div 10000
        BY <1>1
    <2>2. \A a, b \in Nat : a * b \in Nat
        OBVIOUS
    <2>3. total * shares[k] \in Nat
        BY <2>1, <2>2
    <2>4. \A m \in Nat : m \div 10000 \in Nat /\ 10000 * (m \div 10000) <= m
        OBVIOUS
    <2> HIDE DEF floors
    <2> QED
        BY <2>1, <2>3, <2>4
<1>5. floors = [k \in 1..n |-> floors[k]] /\ shares \in [1..n -> Int]
    BY <1>1
<1>6. floors \in [1..n -> Int]
    <2> HIDE DEF floors
    <2> QED
        BY <1>4, <1>5
<1>7. SumFunction(floors) \in Int
    <2> DEFINE S == 1..n
    <2>1. IsFiniteSet(S) /\ floors \in [S -> Int]
        BY <1>2, <1>6
    <2> HIDE DEF S, floors
    <2> QED
        BY <2>1, TotalType
<1>8. split = [k \in 1..n |-> IF k = n THEN floors[k] + over ELSE floors[k]]
    <2>1. split = [floors EXCEPT ![n] = floors[n] + over]
        BY DEF SplitByBasisPoints, n
    <2>2. over \in Int /\ n \in 1..n
        BY <1>1, <1>3, <1>7
    <2> DEFINE S == 1..n
               more == floors[n] + over
    <2>3. floors \in [S -> Int] /\ n \in S /\ more \in Int
        <3> HIDE DEF floors, over
        <3> QED
            BY <1>6, <2>2
    <2>4. split = [floors EXCEPT ![n] = more]
        BY <2>1
    <2> HIDE DEF floors, split, S, more
    <2>5. split \in [S -> Int]
        BY <2>3, <2>4
    <2>6. \A k \in S : split[k] = IF k = n THEN more ELSE floors[k]
        BY <2>3, <2>4
    <2>7. \A k \in S : split[k] = IF k = n THEN floors[k] + over ELSE floors[k]
        BY <2>6 DEF more
    <2>8. split = [k \in S |-> IF k = n THEN floors[k] + over ELSE floors[k]]
        <3>1. split = [k \in S |-> split[k]]
            BY <2>5
        <3> HIDE DEF over
        <3> QED
            BY <2>7, <3>1
    <2> QED
        BY <2>8 DEF S
<1>9. parts0 = [k \in 1..n |-> [amount |-> split[k], paid |-> 0]]
    BY <1>1 DEF BuildInstallments
<1> HIDE DEF floors, split, parts0
<1>10. SumFunction(floors) <= total
    <2> DEFINE S == 1..n
               up == [k \in S |-> 10000 * floors[k]]
               whole == [k \in S |-> total * shares[k]]
    <2>1. IsFiniteSet(S) /\ floors \in [S -> Int] /\ shares \in [S -> Int]
        BY <1>2, <1>5, <1>6
    <2>2. \A k \in S : up[k] \in Int /\ whole[k] \in Int /\ up[k] <= whole[k]
        BY <1>4, <1>6
    <2> HIDE DEF S
    <2>3. SumFunction(up) = 10000 * SumFunction(floors)
        <3>1. \A c \in Int : SumFunction([k \in S |-> c * floors[k]]) = c * SumFunction(floors)
            BY <2>1, TotalsScale
        <3>2. 10000 \in Int
            OBVIOUS
        <3> QED
            BY <3>1, <3>2
    <2>4. SumFunction(whole) = total * SumFunction(shares)
        <3> DEFINE points == shares
        <3>1. IsFiniteSet(S) /\ points \in [S -> Int] /\ total \in Int
            BY <2>1
        <3> HIDE DEF points
        <3>2. \A c \in Int : SumFunction([k \in S |-> c * points[k]]) = c * SumFunction(points)
            BY <3>1, TotalsScale
        <3>3. SumFunction([k \in S |-> total * points[k]]) = total * SumFunction(points)
            BY <3>1, <3>2
        <3> QED
            BY <3>3 DEF points
    <2>5. up \in [S -> Int] /\ whole \in [S -> Int]
        <3>1. up = [k \in S |-> up[k]] /\ whole = [k \in S |-> whole[k]]
            OBVIOUS
        <3> HIDE DEF up, whole
        <3> QED
            BY <2>2, <3>1
    <2> HIDE DEF up, whole
    <2>6. SumFunction(up) <= SumFunction(whole)
        <3>1. \A k \in S : up[k] <= whole[k]
            BY <2>2
        <3>2. IsFiniteSet(S)
            BY <2>1
        <3> QED
            BY <2>5, <3>1, <3>2, TotalsCompare
    <2>7. SumFunction(whole) = 10000 * total
        BY <2>4
    <2> QED
        BY <1>7, <2>3, <2>6, <2>7
<1>11. over \in Nat
    BY <1>7, <1>10
<1>12. SumFunction(split) = total
    <2> DEFINE S == 1..n
    <2>1. /\ n \in S /\ Counts(split, S) /\ Counts(floors, S) /\ DOMAIN split = S
          /\ DOMAIN floors = S /\ split[n] = floors[n] + over /\ floors[n] \in Int
          /\ \A k \in S \ {n} : split[k] = floors[k]
        <3>1. n \in S /\ \A k \in S : floors[k] \in Int
            BY <1>1, <1>3, <1>6
        <3> HIDE DEF over
        <3>2. \A k \in S : split[k] \in Int
            BY <1>8, <1>11, <3>1
        <3> QED
            BY <1>2, <1>5, <1>8, <3>1, <3>2 DEF Counts
    <2> HIDE DEF S
    <2>2. SumFunctionOnSet(split, S) = split[n] + SumFunctionOnSet(split, S \ {n})
        BY <2>1, SumStep
    <2>3. /\ SumFunctionOnSet(floors, S) = floors[n] + SumFunctionOnSet(floors, S \ {n})
          /\ SumFunctionOnSet(floors, S \ {n}) \in Int
        BY <2>1, SumStep
    <2>4. SumFunctionOnSet(split, S \ {n}) = SumFunctionOnSet(floors, S \ {n})
        BY <2>1, SumSame
    <2>5. SumFunction(floors) = SumFunctionOnSet(floors, S) /\ SumFunction(split) = SumFunctionOnSet(split, S)
        BY <2>1 DEF SumFunction
    <2> QED
        BY <1>7, <2>1, <2>2, <2>3, <2>4, <2>5
<1> HIDE DEF over
<1>13. \A k \in 1..n : split[k] \in Nat
    BY <1>4, <1>8, <1>11
<1>14. parts0 \in Bills
    <2> DEFINE R == [amount : Nat, paid : Nat]
    <2>1. \A k \in 1..n : /\ parts0[k] \in R /\ parts0[k].amount = split[k] /\ parts0[k].paid = 0
                          /\ parts0[k].paid <= parts0[k].amount
        BY <1>9, <1>13
    <2>2. parts0 = [k \in 1..n |-> parts0[k]] /\ DOMAIN parts0 = 1..n
        BY <1>9
    <2> HIDE DEF R
    <2>3. parts0 \in Seq(R)
        BY <1>1, <2>1, <2>2
    <2> QED
        BY <2>1, <2>2, <2>3 DEF R, Bills
<1>15. DOMAIN parts0 = 1..n /\ \A k \in 1..n : parts0[k].amount = split[k] /\ parts0[k].paid = 0
    BY <1>9
<1>16. AmountOf(parts0) = total
    <2>1. split = [k \in 1..n |-> split[k]]
        BY <1>8
    <2>2. [k \in DOMAIN parts0 |-> parts0[k].amount] = split
        BY <1>15, <2>1
    <2> QED
        BY <1>12, <2>2 DEF AmountOf
<1>17. PaidOf(parts0) = 0
    <2> DEFINE S == 1..n
               zeros == [k \in S |-> 0]
    <2>1. [k \in DOMAIN parts0 |-> parts0[k].paid] = zeros /\ IsFiniteSet(S)
        BY <1>2, <1>15
    <2> HIDE DEF S
    <2>2. SumFunction(zeros) = 0
        BY <2>1, TotalOfZeros
    <2> HIDE DEF zeros
    <2> QED
        BY <2>1, <2>2 DEF PaidOf
<1> QED
    BY <1>1, <1>14, <1>15, <1>16, <1>17 DEF parts0

-----------------------------------------------------------------------------
(* One invoice that is paid and discounted over and over (MoneyFlowRun), for *)
(* any totals, plans and discounts.                                          *)
CONSTANTS Totals, Plans, MaxPayment, Discounts
VARIABLES bill, subtotal, received, waived

One == INSTANCE MoneyFlowRun WITH parts <- bill

(* Amounts are whole, and a plan's shares are the whole of the total. *)
Priced ==
    /\ Totals \subseteq Nat /\ MaxPayment \in Nat
    /\ \A plan \in Plans : plan \in Seq(Nat) /\ SumFunction(plan) = 10000
    /\ Discounts \subseteq {"fixed", "percent"} \X Nat

(* The arithmetic of the instance is this module's. *)
LEMMA SameArithmetic ==
    /\ \A f : One!SumFunction(f) = SumFunction(f)
    /\ \A ps : One!AmountOf(ps) = AmountOf(ps) /\ One!PaidOf(ps) = PaidOf(ps)
    /\ \A total, shares : One!BuildInstallments(total, shares) = BuildInstallments(total, shares)
    /\ \A ps, a : /\ One!AllocatePayment(ps, a) = AllocatePayment(ps, a)
                  /\ One!CutDiscount(ps, a) = CutDiscount(ps, a)
                  /\ One!PaymentSplits(ps, a) = PaymentSplits(ps, a)
                  /\ One!DiscountCuts(ps, a) = DiscountCuts(ps, a)
<1>1. \A f : One!SumFunction(f) = SumFunction(f)
    BY DEF One!SumFunction, SumFunction, One!SumFunctionOnSet, SumFunctionOnSet,
           One!FoldFunctionOnSet, FoldFunctionOnSet, One!MapThenFoldSet, MapThenFoldSet
<1>2. \A ps : One!AmountOf(ps) = AmountOf(ps) /\ One!PaidOf(ps) = PaidOf(ps)
    BY <1>1 DEF One!AmountOf, AmountOf, One!PaidOf, PaidOf
<1>3. ASSUME NEW total, NEW shares
      PROVE  One!BuildInstallments(total, shares) = BuildInstallments(total, shares)
    <2>1. One!SplitByBasisPoints(total, shares) = SplitByBasisPoints(total, shares)
        <3> DEFINE floors == [k \in DOMAIN shares |-> (total * shares[k]) \div 10000]
        <3>1. One!SumFunction(floors) = SumFunction(floors)
            BY <1>1
        <3>2. One!SplitByBasisPoints(total, shares)
                 = [floors EXCEPT ![Len(shares)] = @ + (total - One!SumFunction(floors))]
            BY DEF One!SplitByBasisPoints
        <3>3. SplitByBasisPoints(total, shares)
                 = [floors EXCEPT ![Len(shares)] = @ + (total - SumFunction(floors))]
            BY DEF SplitByBasisPoints
        <3> HIDE DEF floors
        <3> QED
            BY <3>1, <3>2, <3>3
    <2> QED
        BY <2>1 DEF One!BuildInstallments, BuildInstallments
<1>4. ASSUME NEW ps, NEW a
      PROVE  /\ One!AllocatePayment(ps, a) = AllocatePayment(ps, a)
             /\ One!CutDiscount(ps, a) = CutDiscount(ps, a)
    BY DEF One!AllocatePayment, AllocatePayment, One!CutDiscount, CutDiscount, One!Owed, Owed,
           One!Smaller, Smaller
<1>5. ASSUME NEW ps, NEW a
      PROVE  /\ One!PaymentSplits(ps, a) = PaymentSplits(ps, a)
             /\ One!DiscountCuts(ps, a) = DiscountCuts(ps, a)
    <2>1. One!Owed(ps) = Owed(ps)
        BY DEF One!Owed, Owed
    <2> QED
        BY <1>1, <2>1 DEF One!PaymentSplits, PaymentSplits, One!DiscountCuts, DiscountCuts
<1> QED
    BY <1>1, <1>2, <1>3, <1>4, <1>5

FrontFirst(ps) ==
    \A j, k \in DOMAIN ps : j < k /\ ps[k].paid > 0 => ps[j].paid = ps[j].amount

BillInv ==
    /\ bill \in Bills /\ FrontFirst(bill)
    /\ subtotal \in Int /\ received \in Int /\ waived \in Int
    /\ AmountOf(bill) = subtotal - waived /\ PaidOf(bill) = received

(* Such an invariant is all that the properties ask for. *)
LEMMA BillIsExact ==
    ASSUME Priced, BillInv PROVE One!MoneyIsExact
<1>1. \A k \in DOMAIN bill : 0 <= bill[k].paid /\ bill[k].paid <= bill[k].amount
    <2> DEFINE n == Len(bill)
    <2>1. /\ bill \in [1..n -> [amount : Nat, paid : Nat]] /\ DOMAIN bill = 1..n
          /\ \A k \in DOMAIN bill : bill[k].paid <= bill[k].amount
        BY BillOwes DEF BillInv, Bills
    <2> HIDE DEF n
    <2>2. \A k \in 1..n : bill[k].paid \in Nat
        BY <2>1
    <2> QED
        BY <2>1, <2>2
<1>2. One!NothingLostToRounding
    BY <1>1, SameArithmetic DEF BillInv, One!NothingLostToRounding
<1>3. One!PaidFromTheFront
    BY DEF BillInv, FrontFirst, One!PaidFromTheFront
<1>4. \A amount \in 1..MaxPayment : amount \in Nat
    BY DEF Priced
<1>5. ASSUME NEW amount \in Nat
      PROVE  /\ One!PaymentSplits(bill, amount)
                   = (IF One!AllocatePayment(bill, amount).remainder = 0
                      THEN {One!AllocatePayment(bill, amount).take} ELSE {})
             /\ One!DiscountCuts(bill, amount)
                   = (IF One!CutDiscount(bill, amount).rest = 0
                      THEN {One!CutDiscount(bill, amount).cut} ELSE {})
             /\ One!CutDiscount(bill, amount).rest = 0
                   <=> amount <= One!AmountOf(bill) - One!PaidOf(bill)
    <2>1. bill \in Bills
        BY DEF BillInv
    <2>2. PaymentSplits(bill, amount)
             = (IF AllocatePayment(bill, amount).remainder = 0
                THEN {AllocatePayment(bill, amount).take} ELSE {})
        BY <2>1, PaymentLoop
    <2>3. /\ DiscountCuts(bill, amount)
                = (IF CutDiscount(bill, amount).rest = 0 THEN {CutDiscount(bill, amount).cut} ELSE {})
          /\ CutDiscount(bill, amount).rest = 0 <=> amount <= AmountOf(bill) - PaidOf(bill)
        BY <2>1, DiscountLoop
    <2> QED
        BY <2>2, <2>3, SameArithmetic
<1>6. One!LoopKeepsPaymentPromise
    BY <1>4, <1>5 DEF One!LoopKeepsPaymentPromise
<1>7. One!LoopKeepsDiscountPromise
    BY <1>4, <1>5 DEF One!LoopKeepsDiscountPromise
<1> QED
    BY <1>2, <1>3, <1>6, <1>7 DEF One!MoneyIsExact

LEMMA BillOpens == ASSUME Priced, One!Init PROVE BillInv
<1>1. PICK total \in Totals, plan \in Plans :
          /\ bill = BuildInstallments(total, plan)
          /\ subtotal = total /\ received = 0 /\ waived = 0
    BY SameArithmetic DEF One!Init
<1>2. total \in Nat /\ plan \in Seq(Nat) /\ SumFunction(plan) = 10000
    BY DEF Priced
<1>3. /\ bill \in Bills /\ AmountOf(bill) = total /\ PaidOf(bill) = 0
      /\ \A k \in DOMAIN plan : bill[k].paid = 0
    BY <1>1, <1>2, PartsOfTotal
<1>4. DOMAIN bill = DOMAIN plan
    BY <1>1 DEF BuildInstallments
<1>5. FrontFirst(bill)
    BY <1>3, <1>4 DEF FrontFirst
<1> QED
    BY <1>1, <1>2, <1>3, <1>5 DEF BillInv

(* What is taken from the instalments, as a payment or as a discount, moves *)
(* one total by what was taken and leaves the other alone.                  *)
LEMMA TakenAddsUp ==
    ASSUME NEW ps \in Bills, NEW take \in [DOMAIN ps -> Nat],
           \A k \in DOMAIN ps : take[k] <= Owed(ps)[k]
    PROVE  LET paid == [k \in DOMAIN ps |-> [ps[k] EXCEPT !.paid = @ + take[k]]]
               less == [k \in DOMAIN ps |-> [ps[k] EXCEPT !.amount = @ - take[k]]]
           IN  /\ paid \in Bills /\ less \in Bills
               /\ \A k \in DOMAIN ps : /\ paid[k].amount = ps[k].amount
                                       /\ paid[k].paid = ps[k].paid + take[k]
                                       /\ less[k].amount = ps[k].amount - take[k]
                                       /\ less[k].paid = ps[k].paid
               /\ AmountOf(paid) = AmountOf(ps) /\ PaidOf(paid) = PaidOf(ps) + SumFunction(take)
               /\ AmountOf(less) = AmountOf(ps) - SumFunction(take) /\ PaidOf(less) = PaidOf(ps)
<1> DEFINE R == [amount : Nat, paid : Nat]
           S == DOMAIN ps
           amounts == [k \in S |-> ps[k].amount]
           paids == [k \in S |-> ps[k].paid]
           paid == [k \in DOMAIN ps |-> [ps[k] EXCEPT !.paid = @ + take[k]]]
           less == [k \in DOMAIN ps |-> [ps[k] EXCEPT !.amount = @ - take[k]]]
<1>1. /\ Len(ps) \in Nat /\ S = 1..Len(ps) /\ IsFiniteSet(S) /\ ps \in [S -> R]
      /\ \A k \in S : take[k] <= ps[k].amount - ps[k].paid
    BY BillOwes
<1> HIDE DEF S
<1>2. \A k \in S : ps[k] \in R /\ ps[k].amount \in Nat /\ ps[k].paid \in Nat /\ take[k] \in Nat
    BY <1>1 DEF S
<1>3. ASSUME NEW k \in S
      PROVE  /\ paid[k] \in R /\ paid[k].amount = ps[k].amount /\ paid[k].paid = ps[k].paid + take[k]
             /\ less[k] \in R /\ less[k].amount = ps[k].amount - take[k] /\ less[k].paid = ps[k].paid
             /\ paid[k].paid <= paid[k].amount /\ less[k].paid <= less[k].amount
    <2>1. /\ paid[k] = [ps[k] EXCEPT !.paid = ps[k].paid + take[k]]
          /\ less[k] = [ps[k] EXCEPT !.amount = ps[k].amount - take[k]]
        BY DEF S
    <2> HIDE DEF paid, less
    <2>2. /\ ps[k].amount \in Nat /\ ps[k].paid \in Nat /\ take[k] \in Nat /\ ps[k] \in R
          /\ ps[k].paid + take[k] \in Nat /\ ps[k].amount - take[k] \in Nat
          /\ ps[k].paid + take[k] <= ps[k].amount /\ ps[k].paid <= ps[k].amount - take[k]
        BY <1>1, <1>2
    <2> QED
        BY <2>1, <2>2
<1>4. /\ paid = [k \in S |-> paid[k]] /\ less = [k \in S |-> less[k]]
      /\ DOMAIN paid = S /\ DOMAIN less = S
    BY DEF S
<1> HIDE DEF paid, less
<1>5. paid \in Bills /\ less \in Bills
    <2> HIDE DEF R
    <2>1. paid \in Seq(R) /\ less \in Seq(R)
        BY <1>1, <1>3, <1>4
    <2> QED
        BY <1>3, <1>4, <2>1 DEF R, Bills
<1>6. /\ amounts \in [S -> Int] /\ paids \in [S -> Int] /\ take \in [S -> Int]
      /\ AmountOf(ps) = SumFunction(amounts) /\ PaidOf(ps) = SumFunction(paids)
    <2>1. amounts \in [S -> Int] /\ paids \in [S -> Int]
        BY <1>2
    <2>2. take \in [S -> Int]
        BY DEF S
    <2> QED
        BY <2>1, <2>2 DEF AmountOf, PaidOf, S
<1>7. \A k \in S : amounts[k] = ps[k].amount /\ paids[k] = ps[k].paid
    OBVIOUS
<1>8. amounts = [k \in S |-> amounts[k]] /\ paids = [k \in S |-> paids[k]]
    OBVIOUS
<1> HIDE DEF amounts, paids
<1>9. AmountOf(paid) = SumFunction(amounts) /\ PaidOf(less) = SumFunction(paids)
    <2>1. [k \in S |-> paid[k].amount] = amounts
        BY <1>3, <1>7, <1>8
    <2>2. [k \in S |-> less[k].paid] = paids
        BY <1>3, <1>7, <1>8
    <2> QED
        BY <1>4, <2>1, <2>2 DEF AmountOf, PaidOf
<1>10. PaidOf(paid) = SumFunction(paids) + SumFunction(take)
    <2>1. [k \in S |-> paid[k].paid] = [k \in S |-> paids[k] + take[k]]
        BY <1>3, <1>7
    <2>2. SumFunction([k \in S |-> paids[k] + take[k]]) = SumFunction(paids) + SumFunction(take)
        <3> DEFINE gone == take
        <3>1. IsFiniteSet(S) /\ paids \in [S -> Int] /\ gone \in [S -> Int]
            BY <1>1, <1>6
        <3> HIDE DEF gone
        <3>2. SumFunction([k \in S |-> paids[k] + gone[k]]) = SumFunction(paids) + SumFunction(gone)
            BY <3>1, TotalsAdd
        <3> QED
            BY <3>2 DEF gone
    <2> QED
        BY <1>4, <2>1, <2>2 DEF PaidOf
<1>11. AmountOf(less) = SumFunction(amounts) - SumFunction(take)
    <2>1. [k \in S |-> less[k].amount] = [k \in S |-> amounts[k] - take[k]]
        BY <1>3, <1>7
    <2>2. SumFunction([k \in S |-> amounts[k] - take[k]]) = SumFunction(amounts) - SumFunction(take)
        <3> DEFINE gone == take
        <3>1. IsFiniteSet(S) /\ amounts \in [S -> Int] /\ gone \in [S -> Int]
            BY <1>1, <1>6
        <3> HIDE DEF gone
        <3>2. SumFunction([k \in S |-> amounts[k] - gone[k]]) = SumFunction(amounts) - SumFunction(gone)
            BY <3>1, TotalsSubtract
        <3> QED
            BY <3>2 DEF gone
    <2> QED
        BY <1>4, <2>1, <2>2 DEF AmountOf
<1> QED
    BY <1>3, <1>5, <1>6, <1>9, <1>10, <1>11 DEF S, paid, less

(* A payment keeps the invariant: the loop finishes the oldest first. *)
LEMMA BillPaid ==
    ASSUME BillInv, NEW amount \in Nat, One!Pay(amount) PROVE BillInv'
<1> DEFINE take == AllocatePayment(bill, amount).take
<1>1. bill \in Bills /\ FrontFirst(bill)
    BY DEF BillInv
<1>2. /\ AllocatePayment(bill, amount).remainder = 0
      /\ bill' = [k \in DOMAIN bill |-> [bill[k] EXCEPT !.paid = @ + take[k]]]
      /\ received' = received + amount /\ subtotal' = subtotal /\ waived' = waived
    BY SameArithmetic DEF One!Pay
<1>3. take \in PaymentSplits(bill, amount)
    BY <1>1, <1>2, PaymentLoop
<1> HIDE DEF take
<1>4. /\ take \in [DOMAIN bill -> 0..amount] /\ SumFunction(take) = amount
      /\ \A k \in DOMAIN bill : take[k] <= Owed(bill)[k]
      /\ \A j, k \in DOMAIN bill : j < k /\ take[k] > 0 => take[j] = Owed(bill)[j]
    BY <1>3 DEF PaymentSplits
<1>5. take \in [DOMAIN bill -> Nat]
    <2>1. \A i \in 0..amount : i \in Nat
        OBVIOUS
    <2> QED
        BY <1>4, <2>1
<1>6. /\ bill' \in Bills /\ AmountOf(bill') = AmountOf(bill) /\ PaidOf(bill') = PaidOf(bill) + amount
      /\ \A k \in DOMAIN bill : bill'[k].amount = bill[k].amount /\ bill'[k].paid = bill[k].paid + take[k]
    BY <1>1, <1>2, <1>4, <1>5, TakenAddsUp
<1>7. DOMAIN bill' = DOMAIN bill
    BY <1>2
<1>8. \A k \in DOMAIN bill : /\ Owed(bill)[k] = bill[k].amount - bill[k].paid /\ take[k] \in Nat
                             /\ bill[k].amount \in Nat /\ bill[k].paid \in Nat
    <2> DEFINE n == Len(bill)
    <2>1. /\ DOMAIN bill = 1..n /\ bill \in [1..n -> [amount : Nat, paid : Nat]]
          /\ \A k \in 1..n : Owed(bill)[k] = bill[k].amount - bill[k].paid
        BY <1>1, BillOwes
    <2> HIDE DEF n
    <2> QED
        BY <1>5, <2>1
<1>9. FrontFirst(bill')
    <2> SUFFICES ASSUME NEW j \in DOMAIN bill, NEW k \in DOMAIN bill, j < k, bill'[k].paid > 0
                 PROVE  bill'[j].paid = bill'[j].amount
        BY <1>7 DEF FrontFirst
    <2>1. take[k] > 0 \/ bill[k].paid > 0
        BY <1>6, <1>8
    <2>2. CASE take[k] > 0
        BY <1>4, <1>6, <1>8, <2>2
    <2>3. CASE bill[k].paid > 0
        <3>1. bill[j].paid = bill[j].amount
            BY <1>1, <2>3 DEF FrontFirst
        <3>2. take[j] <= Owed(bill)[j]
            BY <1>4
        <3> QED
            BY <1>6, <1>8, <3>1, <3>2
    <2> QED
        BY <2>1, <2>2, <2>3
<1>10. AmountOf(bill)' = AmountOf(bill') /\ PaidOf(bill)' = PaidOf(bill')
       /\ FrontFirst(bill)' = FrontFirst(bill')
    BY DEF AmountOf, PaidOf, FrontFirst
<1> QED
    BY <1>2, <1>6, <1>9, <1>10 DEF BillInv, Bills

(* So does a discount: it cuts nothing from a paid instalment. *)
LEMMA BillDiscounted ==
    ASSUME BillInv, NEW kind, NEW value \in Nat, One!Discount(kind, value) PROVE BillInv'
<1> DEFINE amount == One!DiscountAmount(kind, value, AmountOf(bill))
           cut == CutDiscount(bill, amount).cut
<1>1. bill \in Bills /\ FrontFirst(bill) /\ AmountOf(bill) \in Int /\ PaidOf(bill) \in Int
    BY BillOwes DEF BillInv
<1>2. /\ amount >= 1 /\ amount <= AmountOf(bill) - PaidOf(bill)
      /\ bill' = [k \in DOMAIN bill |-> [bill[k] EXCEPT !.amount = @ - cut[k]]]
      /\ waived' = waived + amount /\ subtotal' = subtotal /\ received' = received
    BY SameArithmetic DEF One!Discount
<1>3. amount \in Int
    <2> DEFINE total == AmountOf(bill)
    <2>1. \A m \in Int : m \div 10000 \in Int
        OBVIOUS
    <2>2. total \in Int
        BY <1>1
    <2> HIDE DEF total
    <2>3. total * value \in Int
        BY <2>2
    <2>4. One!DiscountAmount(kind, value, total) \in Int
        BY <2>1, <2>3 DEF One!DiscountAmount
    <2> QED
        BY <2>4 DEF total
<1> HIDE DEF amount
<1>4. amount \in Nat
    BY <1>2, <1>3
<1>5. cut \in DiscountCuts(bill, amount)
    BY <1>1, <1>2, <1>4, DiscountLoop
<1> HIDE DEF cut
<1>6. /\ cut \in [DOMAIN bill -> 0..amount] /\ SumFunction(cut) = amount
      /\ \A k \in DOMAIN bill : cut[k] <= Owed(bill)[k]
    BY <1>5 DEF DiscountCuts
<1>7. cut \in [DOMAIN bill -> Nat]
    <2>1. \A i \in 0..amount : i \in Nat
        OBVIOUS
    <2> QED
        BY <1>6, <2>1
<1>8. /\ bill' \in Bills /\ AmountOf(bill') = AmountOf(bill) - amount /\ PaidOf(bill') = PaidOf(bill)
      /\ \A k \in DOMAIN bill : bill'[k].amount = bill[k].amount - cut[k] /\ bill'[k].paid = bill[k].paid
    BY <1>1, <1>2, <1>6, <1>7, TakenAddsUp
<1>9. DOMAIN bill' = DOMAIN bill
    BY <1>2
<1>10. \A k \in DOMAIN bill : /\ Owed(bill)[k] = bill[k].amount - bill[k].paid /\ cut[k] \in Nat
                              /\ bill[k].amount \in Nat /\ bill[k].paid \in Nat
    <2> DEFINE n == Len(bill)
    <2>1. /\ DOMAIN bill = 1..n /\ bill \in [1..n -> [amount : Nat, paid : Nat]]
          /\ \A k \in 1..n : Owed(bill)[k] = bill[k].amount - bill[k].paid
        BY <1>1, BillOwes
    <2> HIDE DEF n
    <2> QED
        BY <1>7, <2>1
<1>11. FrontFirst(bill')
    <2> SUFFICES ASSUME NEW j \in DOMAIN bill, NEW k \in DOMAIN bill, j < k, bill'[k].paid > 0
                 PROVE  bill'[j].paid = bill'[j].amount
        BY <1>9 DEF FrontFirst
    <2>1. bill[j].paid = bill[j].amount
        BY <1>1, <1>8 DEF FrontFirst
    <2>2. cut[j] <= Owed(bill)[j]
        BY <1>6
    <2> QED
        BY <1>8, <1>10, <2>1, <2>2
<1>12. AmountOf(bill)' = AmountOf(bill') /\ PaidOf(bill)' = PaidOf(bill')
       /\ FrontFirst(bill)' = FrontFirst(bill')
    BY DEF AmountOf, PaidOf, FrontFirst
<1> QED
    BY <1>1, <1>2, <1>3, <1>8, <1>11, <1>12 DEF BillInv, Bills

LEMMA BillStep ==
    ASSUME Priced, BillInv, [One!Next]_(One!vars) PROVE BillInv'
<1>1. CASE UNCHANGED One!vars
    BY <1>1 DEF One!vars, BillInv, Bills, FrontFirst, AmountOf, PaidOf
<1>2. CASE One!Next
    <2>1. ASSUME NEW amount \in 1..MaxPayment, One!Pay(amount) PROVE BillInv'
        <3>1. amount \in Nat
            BY DEF Priced
        <3> QED
            BY <2>1, <3>1, BillPaid
    <2>2. ASSUME NEW d \in Discounts, One!Discount(d[1], d[2]) PROVE BillInv'
        <3>1. d[2] \in Nat
            BY DEF Priced
        <3> QED
            BY <2>2, <3>1, BillDiscounted
    <2> QED
        BY <1>2, <2>1, <2>2 DEF One!Next
<1> QED
    BY <1>1, <1>2

(* The arithmetic of money-flow.ts, for every total, every plan of any      *)
(* length and every sequence of payments and discounts: no santim is lost   *)
(* to rounding, instalments are finished from the front, and both loops     *)
(* find the one split that their contract allows, or refuse.                *)
THEOREM MoneyStaysExact == ASSUME Priced PROVE One!Spec => []One!MoneyIsExact
<1>1. One!Init => BillInv
    BY BillOpens
<1>2. BillInv /\ [One!Next]_(One!vars) => BillInv'
    BY BillStep
<1>3. BillInv => One!MoneyIsExact
    BY BillIsExact
<1> QED
    BY <1>1, <1>2, <1>3, PTL DEF One!Spec

=============================================================================
