-------------------------- MODULE Invoices_proofs --------------------------
(***************************************************************************)
(* The inductive invariant and the sums of Invoices for any total, payments,   *)
(* keys and requests: that the invoice agrees with its payments and with what a *)
(* late failure overwrote, that nothing else takes a payment out of PAID, and  *)
(* that refunds are covered.                                                  *)
(***************************************************************************)
EXTENDS Invoices, SumTheorems, TLAPS

USE InvoiceAssumption

LEMMA InitHolds == InvoiceInit => InvoiceIInv
BY DEF InvoiceInit, InvoiceIInv, InvoiceTypeOK, InvoiceStatuses, PaymentStatuses, NoRow, Idle,
       PaidRows

\* What is said about a request.
JobSound(r) ==
  /\ job[r].at \in {"verify", "capture", "fail"} => payment[job[r].payment].gateway
  /\ job[r].at = "capture" => job[r].payment \in charged

\* A request that goes on and leaves the rows alone.
LEMMA GoKeeps ==
  ASSUME InvoiceIInv, NEW r \in Requests, NEW step, Goes(r, step),
         UNCHANGED <<invoice, books, cash, wallet>>,
         \/ step = Idle \/ step = [at |-> "remove"]
         \/ step \in [at : {"start"}, amount : 1..Total]
         \/ step \in [at : {"verify", "capture", "fail"}, payment : Payments]
         \/ step \in [at : {"refund"}, refund : RefundRows],
         step.at \in {"verify", "capture", "fail"} => payment[step.payment].gateway,
         step.at = "capture" => step.payment \in charged
  PROVE  InvoiceIInv'
<1> USE DEF InvoiceIInv, books, Goes
<1>1. InvoiceTypeOK'
  BY DEF InvoiceTypeOK
<1>2. \A s \in Requests : JobSound(s)'
  BY DEF InvoiceTypeOK, JobSound
<1> QED
  BY <1>1, <1>2 DEF JobSound, PaidRows

\* The steps that only read.
LEMMA ReadingKeeps ==
  ASSUME InvoiceIInv, NEW r \in Requests,
         \/ StartRead(r) \/ Answer(r) \/ RemoveCheck(r)
         \/ \E p \in Payments : ReturnOK(r, p)
         \/ \E refund \in RefundRows : RefundLook(r, refund)
  PROVE  InvoiceIInv'
<1>1. CASE StartRead(r)
  <2>1. Room \in 1..Total
    BY <1>1 DEF StartRead, Room, InvoiceIInv, InvoiceTypeOK
  <2> QED
    BY <1>1, <2>1, GoKeeps DEF StartRead
<1>2. CASE Answer(r)
  <2> DEFINE step == [job[r] EXCEPT !.at = IF job[r].payment \in charged THEN "capture" ELSE "fail"]
  <2>1. job[r] \in [at : {"verify", "capture", "fail"}, payment : Payments] /\ payment[job[r].payment].gateway
    BY <1>2 DEF Answer, InvoiceIInv, InvoiceTypeOK, Idle
  <2>2. /\ step \in [at : {"verify", "capture", "fail"}, payment : Payments]
        /\ step.payment = job[r].payment /\ (step.at = "capture" => step.payment \in charged)
    BY <2>1
  <2>3. Goes(r, step) /\ UNCHANGED <<invoice, books, cash, wallet>>
    BY <1>2 DEF Answer
  <2> HIDE DEF step
  <2> QED
    BY <2>1, <2>2, <2>3, GoKeeps
<1>3. CASE RemoveCheck(r)
  BY <1>3, GoKeeps DEF RemoveCheck
<1>4. ASSUME NEW p \in Payments, ReturnOK(r, p) PROVE InvoiceIInv'
  BY <1>4, GoKeeps DEF ReturnOK
<1>5. ASSUME NEW refund \in RefundRows, RefundLook(r, refund) PROVE InvoiceIInv'
  BY <1>5, GoKeeps DEF RefundLook
<1> QED
  BY <1>1, <1>2, <1>3, <1>4, <1>5

\* A step that changes the row of one payment to a row of its kind.
LEMMA RowKeeps ==
  ASSUME InvoiceIInv, NEW p \in Payments,
         NEW row \in [status : PaymentStatuses, amount : 0..Total, gateway : BOOLEAN],
         payment' = [payment EXCEPT ![p] = row],
         InvoiceTypeOK', UNCHANGED <<refunds, charged>>,
         overwritten' = 0 => overwritten = 0, invoice.removed => invoice'.removed,
         payment[p].status = "PAID" /\ row.status # "PAID" => overwritten' > 0 \/ invoice'.removed,
         payment[p].status # "NONE" => row.status # "NONE",
         payment[p].gateway => row.gateway,
         row.gateway => row.status # "NONE" /\ row.amount > 0,
         row.status \in {"PENDING", "FAILED", "CANCELLED"} => row.gateway,
         row.status = "PAID" /\ row.gateway => p \in charged,
         cash' <= invoice'.paid, wallet' > 0 => invoice'.paid = Total,
         \A r \in Requests : job'[r] = job[r] \/ job'[r] = Idle
  PROVE  InvoiceIInv'
<1>1. \A q \in Payments : payment'[q] = IF q = p THEN row ELSE payment[q]
  BY DEF InvoiceIInv, InvoiceTypeOK
<1>2. /\ \A f \in refunds' : payment'[f.payment].status # "NONE"
      /\ overwritten' = 0 /\ ~invoice'.removed => \A f \in refunds' : payment'[f.payment].status = "PAID"
  <2>1. ASSUME NEW f \in refunds
        PROVE  /\ payment'[f.payment].status # "NONE"
               /\ overwritten' = 0 /\ ~invoice'.removed => payment'[f.payment].status = "PAID"
    <3>1. /\ f.payment \in Payments /\ payment[f.payment].status # "NONE"
          /\ overwritten = 0 /\ ~invoice.removed => payment[f.payment].status = "PAID"
      BY DEF InvoiceIInv, InvoiceTypeOK, RefundRows
    <3> QED
      BY <1>1, <3>1
  <2> QED
    BY <2>1
<1>3. ASSUME NEW r \in Requests PROVE JobSound(r)'
  <2>1. CASE job'[r] = Idle
    BY <2>1 DEF JobSound, Idle
  <2>2. CASE job'[r] = job[r]
    <3>1. job[r].at \in {"verify", "capture", "fail"} => job[r].payment \in Payments
      BY DEF InvoiceIInv, InvoiceTypeOK, Idle
    <3> QED
      BY <1>1, <2>2, <3>1 DEF InvoiceIInv, JobSound
  <2> QED
    BY <2>1, <2>2
<1>4. /\ \A q \in charged : payment'[q].gateway
      /\ \A q \in Payments : payment'[q].gateway => payment'[q].status # "NONE" /\ payment'[q].amount > 0
      /\ \A q \in Payments : payment'[q].status \in {"PENDING", "FAILED", "CANCELLED"} => payment'[q].gateway
      /\ \A q \in Payments : payment'[q].status = "PAID" /\ payment'[q].gateway => q \in charged
  BY <1>1 DEF InvoiceIInv, InvoiceTypeOK, PaidRows
<1> QED
  BY <1>2, <1>3, <1>4 DEF InvoiceIInv, JobSound, PaidRows

LEMMA OpenSessionKeeps ==
  ASSUME InvoiceIInv, NEW r \in Requests, NEW p \in Payments, OpenSession(r, p)
  PROVE  InvoiceIInv'
<1> DEFINE row == [status |-> "PENDING", amount |-> job[r].amount, gateway |-> TRUE]
<1>1. job[r].amount \in 1..Total
  BY DEF OpenSession, InvoiceIInv, InvoiceTypeOK, Idle
<1>2. /\ row \in [status : PaymentStatuses, amount : 0..Total, gateway : BOOLEAN]
      /\ row.status = "PENDING" /\ row.gateway /\ row.amount > 0
  BY <1>1 DEF PaymentStatuses
<1>3. /\ payment' = [payment EXCEPT ![p] = row] /\ payment[p].status = "NONE"
      /\ job' = [job EXCEPT ![r] = Idle]
      /\ UNCHANGED <<invoice, refunds, charged, overwritten, cash, wallet>>
  BY DEF OpenSession, Goes
<1> HIDE DEF row
<1>4. InvoiceTypeOK'
  BY <1>2, <1>3 DEF InvoiceIInv, InvoiceTypeOK
<1>5. \A s \in Requests : job'[s] = job[s] \/ job'[s] = Idle
  BY <1>3 DEF InvoiceIInv, InvoiceTypeOK
<1> QED
  BY <1>2, <1>3, <1>4, <1>5, RowKeeps DEF InvoiceIInv

\* The row of a session gets another status of an open row.
LEMMA StatusKeeps ==
  ASSUME InvoiceIInv, NEW p \in Payments, payment[p].gateway,
         NEW status \in {"FAILED", "CANCELLED"},
         payment' = [payment EXCEPT ![p].status = status],
         UNCHANGED <<invoice, refunds, charged, cash, wallet>>,
         overwritten' = IF payment[p].status = "PAID" /\ ~invoice.removed
                        THEN overwritten + payment[p].amount ELSE overwritten,
         \/ UNCHANGED job
         \/ \E r \in Requests : job' = [job EXCEPT ![r] = Idle]
  PROVE  InvoiceIInv'
<1> DEFINE row == [payment[p] EXCEPT !.status = status]
<1>1. payment[p] \in [status : PaymentStatuses, amount : 0..Total, gateway : BOOLEAN] /\ payment[p].amount > 0
  BY DEF InvoiceIInv, InvoiceTypeOK
<1>2. /\ row \in [status : PaymentStatuses, amount : 0..Total, gateway : BOOLEAN]
      /\ row.status \in {"FAILED", "CANCELLED"} /\ row.gateway /\ row.amount > 0
  BY <1>1 DEF PaymentStatuses
<1>3. payment' = [payment EXCEPT ![p] = row]
  OBVIOUS
<1> HIDE DEF row
<1>4. \A s \in Requests : job'[s] = job[s] \/ job'[s] = Idle
  BY DEF InvoiceIInv, InvoiceTypeOK
<1>5. payment' \in [Payments -> [status : PaymentStatuses, amount : 0..Total, gateway : BOOLEAN]]
  BY <1>2, <1>3 DEF InvoiceIInv, InvoiceTypeOK
<1>6. /\ overwritten' \in Nat /\ (overwritten' = 0 => overwritten = 0)
      /\ payment[p].status = "PAID" => overwritten' > 0 \/ invoice'.removed
  BY <1>1 DEF InvoiceIInv, InvoiceTypeOK
<1>7. InvoiceTypeOK'
  BY <1>4, <1>5, <1>6 DEF InvoiceIInv, InvoiceTypeOK
<1>8. cash' <= invoice'.paid /\ (wallet' > 0 => invoice'.paid = Total)
  BY DEF InvoiceIInv
<1>9. p \in charged \/ row.status # "PAID"
  BY <1>2
<1> QED
  BY <1>2, <1>3, <1>4, <1>6, <1>7, <1>8, <1>9, RowKeeps

\* A booking that fits into the room.
LEMMA BookingFits ==
  ASSUME InvoiceIInv, NEW amount \in 0..Total, amount <= Room, Book(amount)
  PROVE  /\ invoice' \in [status : InvoiceStatuses, paid : 0..Total, removed : BOOLEAN]
         /\ invoice'.paid = invoice.paid + amount /\ invoice'.removed = invoice.removed
<1>1. /\ invoice \in [status : InvoiceStatuses, paid : 0..Total, removed : BOOLEAN]
      /\ invoice.paid + amount \in 0..Total
  BY DEF InvoiceIInv, InvoiceTypeOK, Room
<1>2. PaidStatus(invoice.paid + amount) \in InvoiceStatuses
  BY DEF PaidStatus, InvoiceStatuses
<1> QED
  BY <1>1, <1>2 DEF Book

LEMMA PaidGrows ==
  ASSUME InvoiceIInv, invoice'.paid >= invoice.paid, UNCHANGED <<cash, wallet>>,
         invoice' \in [status : InvoiceStatuses, paid : 0..Total, removed : BOOLEAN]
  PROVE  cash' <= invoice'.paid /\ (wallet' > 0 => invoice'.paid = Total)
<1>1. /\ invoice.paid \in 0..Total /\ cash \in 0..Total /\ cash <= invoice.paid
      /\ wallet > 0 => invoice.paid = Total
  BY DEF InvoiceIInv, InvoiceTypeOK
<1>2. invoice'.paid \in 0..Total
  OBVIOUS
<1> QED
  BY <1>1, <1>2

LEMMA CaptureKeeps ==
  ASSUME InvoiceIInv, NEW r \in Requests, Capture(r)
  PROVE  InvoiceIInv'
<1>0. PICK p \in Payments : p = job[r].payment
  BY DEF Capture, InvoiceIInv, InvoiceTypeOK, Idle
<1>1. payment[p].gateway /\ p \in charged
  BY <1>0 DEF Capture, InvoiceIInv
<1>2. /\ Goes(r, Idle) /\ UNCHANGED <<refunds, charged, overwritten, cash, wallet>>
  BY DEF Capture
<1>3. CASE CanCapture(payment[p].status) /\ (invoice.removed \/ payment[p].amount <= Room)
  <2> DEFINE row == [payment[p] EXCEPT !.status = "PAID"]
  <2>1. payment[p] \in [status : PaymentStatuses, amount : 0..Total, gateway : BOOLEAN] /\ payment[p].amount > 0
    BY <1>1 DEF InvoiceIInv, InvoiceTypeOK
  <2>2. /\ row \in [status : PaymentStatuses, amount : 0..Total, gateway : BOOLEAN]
        /\ row.status = "PAID" /\ row.gateway /\ row.amount > 0
    BY <1>1, <2>1 DEF PaymentStatuses
  <2>3. payment' = [payment EXCEPT ![p] = row]
    BY <1>0, <1>3 DEF Capture
  <2>4. \/ UNCHANGED invoice
        \/ /\ payment[p].amount <= Room
           /\ Book(payment[p].amount)
    BY <1>0, <1>3 DEF Capture
  <2> HIDE DEF row
  <2>5. /\ invoice' \in [status : InvoiceStatuses, paid : 0..Total, removed : BOOLEAN]
        /\ invoice'.paid >= invoice.paid /\ invoice'.removed = invoice.removed
    <3>1. CASE UNCHANGED invoice
      BY <3>1 DEF InvoiceIInv, InvoiceTypeOK
    <3>2. CASE payment[p].amount <= Room /\ Book(payment[p].amount)
      BY <2>1, <3>2, BookingFits DEF InvoiceIInv, InvoiceTypeOK
    <3> QED
      BY <2>4, <3>1, <3>2
  <2>6. InvoiceTypeOK' /\ \A s \in Requests : job'[s] = job[s] \/ job'[s] = Idle
    BY <1>2, <2>2, <2>3, <2>5 DEF InvoiceIInv, InvoiceTypeOK, Goes
  <2>7. cash' <= invoice'.paid /\ (wallet' > 0 => invoice'.paid = Total)
    BY <1>2, <2>5, PaidGrows
  <2> QED
    BY <1>1, <1>2, <2>2, <2>3, <2>5, <2>6, <2>7, RowKeeps
<1>4. CASE ~(CanCapture(payment[p].status) /\ (invoice.removed \/ payment[p].amount <= Room))
  <2>1. UNCHANGED <<invoice, books, cash, wallet>>
    BY <1>0, <1>2, <1>4 DEF Capture, books
  <2> QED
    BY <1>2, <2>1, GoKeeps DEF Idle
<1> QED
  BY <1>3, <1>4

LEMMA RecordManualKeeps ==
  ASSUME InvoiceIInv, NEW p \in Payments, NEW amount \in 1..Total, RecordManual(p, amount)
  PROVE  InvoiceIInv'
<1> DEFINE row == [status |-> "PAID", amount |-> amount, gateway |-> FALSE]
<1>1. /\ row \in [status : PaymentStatuses, amount : 0..Total, gateway : BOOLEAN]
      /\ row.status = "PAID" /\ ~row.gateway /\ row.amount = amount
  BY DEF PaymentStatuses
<1>2. /\ payment' = [payment EXCEPT ![p] = row] /\ payment[p].status = "NONE"
      /\ UNCHANGED <<refunds, charged, overwritten, cash, wallet, job>>
  BY DEF RecordManual
<1>3. ~payment[p].gateway
  BY <1>2 DEF InvoiceIInv
<1> HIDE DEF row
<1>4. /\ invoice' \in [status : InvoiceStatuses, paid : 0..Total, removed : BOOLEAN]
      /\ invoice'.paid >= invoice.paid /\ invoice'.removed = invoice.removed
  BY BookingFits DEF RecordManual, InvoiceIInv, InvoiceTypeOK
<1>5. InvoiceTypeOK'
  BY <1>1, <1>2, <1>4 DEF InvoiceIInv, InvoiceTypeOK
<1>6. cash' <= invoice'.paid /\ (wallet' > 0 => invoice'.paid = Total)
  BY <1>2, <1>4, PaidGrows
<1> QED
  BY <1>1, <1>2, <1>3, <1>4, <1>5, <1>6, RowKeeps

LEMMA InvoiceOnlyKeeps ==
  ASSUME InvoiceIInv, UNCHANGED books, InvoiceTypeOK', invoice.removed => invoice'.removed,
         cash' <= invoice'.paid, wallet' > 0 => invoice'.paid = Total,
         \A s \in Requests : job'[s] = job[s] \/ job'[s] = Idle
  PROVE  InvoiceIInv'
<1>1. \A s \in Requests : JobSound(s)'
  BY DEF InvoiceIInv, JobSound, books, Idle
<1> QED
  BY <1>1 DEF InvoiceIInv, JobSound, PaidRows, books

LEMMA AdministratorKeeps ==
  ASSUME InvoiceIInv,
         \/ \E amount \in 1..Total : RecordPayment(amount)
         \/ Send \/ AdminRemoves \/ \E r \in Requests : Remove(r)
  PROVE  InvoiceIInv'
<1>1. ASSUME NEW amount \in 1..Total, RecordPayment(amount) PROVE InvoiceIInv'
  <2>1. /\ invoice' \in [status : InvoiceStatuses, paid : 0..Total, removed : BOOLEAN]
        /\ invoice'.paid = invoice.paid + amount /\ invoice'.removed = invoice.removed
        /\ cash' = cash + amount /\ UNCHANGED <<books, job>>
        /\ wallet' = IF amount = Room THEN wallet + amount ELSE wallet
    BY <1>1, BookingFits DEF RecordPayment, InvoiceIInv, InvoiceTypeOK
  <2>2. cash' \in 0..Total /\ cash' <= invoice'.paid
    BY <2>1 DEF InvoiceIInv, InvoiceTypeOK
  <2>3. wallet' \in 0..Total /\ (wallet' > 0 => invoice'.paid = Total)
    BY <1>1, <2>1 DEF InvoiceIInv, InvoiceTypeOK, Room, RecordPayment
  <2>4. InvoiceTypeOK'
    BY <2>1, <2>2, <2>3 DEF InvoiceIInv, InvoiceTypeOK, books
  <2> QED
    BY <2>1, <2>2, <2>3, <2>4, InvoiceOnlyKeeps
<1>2. CASE Send \/ AdminRemoves
  <2>1. /\ InvoiceTypeOK' /\ UNCHANGED <<books, job>> /\ cash' <= invoice'.paid
        /\ invoice.removed => invoice'.removed
        /\ (wallet' > 0 => invoice'.paid = Total)
    BY <1>2 DEF Send, AdminRemoves, InvoiceStatuses, InvoiceIInv, InvoiceTypeOK, books
  <2> QED
    BY <2>1, InvoiceOnlyKeeps
<1>3. ASSUME NEW r \in Requests, Remove(r) PROVE InvoiceIInv'
  <2>1. /\ InvoiceTypeOK' /\ UNCHANGED books /\ cash' <= invoice'.paid
        /\ invoice.removed => invoice'.removed
        /\ (wallet' > 0 => invoice'.paid = Total)
        /\ \A s \in Requests : job'[s] = job[s] \/ job'[s] = Idle
    BY <1>3 DEF Remove, Goes, InvoiceIInv, InvoiceTypeOK, books
  <2> QED
    BY <2>1, InvoiceOnlyKeeps
<1> QED
  BY <1>1, <1>2, <1>3

LEMMA ChargeKeeps ==
  ASSUME InvoiceIInv, NEW p \in Payments, PayAtGateway(p)
  PROVE  InvoiceIInv'
<1>1. InvoiceTypeOK'
  BY DEF PayAtGateway, InvoiceIInv, InvoiceTypeOK
<1>2. \A s \in Requests : JobSound(s)'
  BY DEF PayAtGateway, InvoiceIInv, JobSound
<1> QED
  BY <1>1, <1>2 DEF PayAtGateway, InvoiceIInv, JobSound, PaidRows

LEMMA RefundKeeps ==
  ASSUME InvoiceIInv, NEW r \in Requests, RefundWrite(r)
  PROVE  InvoiceIInv'
<1>0. PICK new \in RefundRows : new = job[r].refund
  BY DEF RefundWrite, InvoiceIInv, InvoiceTypeOK, Idle
<1>1. /\ Goes(r, Idle) /\ UNCHANGED <<invoice, payment, charged, overwritten, cash, wallet>>
  BY DEF RefundWrite
<1>2. \/ refunds' = refunds
      \/ /\ refunds' = refunds \cup {new} /\ payment[new.payment].status = "PAID"
         /\ ~\E f \in refunds : f.payment = new.payment /\ f.key = new.key
  BY <1>0 DEF RefundWrite
<1>3. InvoiceTypeOK'
  BY <1>1, <1>2 DEF InvoiceIInv, InvoiceTypeOK, Goes
<1>4. /\ \A f \in refunds' : payment'[f.payment].status # "NONE"
      /\ overwritten' = 0 /\ ~invoice'.removed => \A f \in refunds' : payment'[f.payment].status = "PAID"
  BY <1>1, <1>2 DEF InvoiceIInv
<1>5. \A f, g \in refunds' : f.payment = g.payment /\ f.key = g.key => f = g
  BY <1>2 DEF InvoiceIInv
<1>6. \A s \in Requests : JobSound(s)'
  BY <1>1 DEF InvoiceIInv, InvoiceTypeOK, JobSound, Goes, Idle
<1> QED
  BY <1>1, <1>3, <1>4, <1>5, <1>6 DEF InvoiceIInv, JobSound, PaidRows

LEMMA StepKeeps == InvoiceIInv /\ [InvoiceNext]_vars => InvoiceIInv'
<1> SUFFICES ASSUME InvoiceIInv, [InvoiceNext]_vars PROVE InvoiceIInv'
  OBVIOUS
<1>1. ASSUME NEW r \in Requests,
             \/ StartRead(r) \/ Answer(r) \/ RemoveCheck(r)
             \/ \E p \in Payments : ReturnOK(r, p)
             \/ \E refund \in RefundRows : RefundLook(r, refund)
      PROVE  InvoiceIInv'
  BY <1>1, ReadingKeeps
<1>2. ASSUME NEW r \in Requests, NEW p \in Payments, OpenSession(r, p) PROVE InvoiceIInv'
  BY <1>2, OpenSessionKeeps
<1>3. ASSUME NEW r \in Requests, RecordFailure(r) PROVE InvoiceIInv'
  <2>0. PICK p \in Payments : p = job[r].payment
    BY <1>3 DEF RecordFailure, InvoiceIInv, InvoiceTypeOK, Idle
  <2>1. /\ payment[p].gateway
        /\ overwritten' = IF payment[p].status = "PAID" /\ ~invoice.removed
                           THEN overwritten + payment[p].amount ELSE overwritten
        /\ payment' = [payment EXCEPT ![p].status = "FAILED"]
        /\ job' = [job EXCEPT ![r] = Idle]
        /\ UNCHANGED <<invoice, refunds, charged, cash, wallet>>
    BY <1>3, <2>0 DEF RecordFailure, Goes, InvoiceIInv
  <2> QED
    BY <2>1, StatusKeeps
<1>4. ASSUME NEW p \in Payments, ReturnRefused(p) PROVE InvoiceIInv'
  BY <1>4, StatusKeeps DEF ReturnRefused, CanSoftCancel
<1>5. ASSUME NEW r \in Requests, Capture(r) PROVE InvoiceIInv'
  BY <1>5, CaptureKeeps
<1>6. ASSUME NEW p \in Payments, NEW amount \in 1..Total, RecordManual(p, amount) PROVE InvoiceIInv'
  BY <1>6, RecordManualKeeps
<1>7. CASE \/ \E amount \in 1..Total : RecordPayment(amount)
           \/ Send \/ AdminRemoves \/ \E r \in Requests : Remove(r)
  BY <1>7, AdministratorKeeps
<1>8. ASSUME NEW p \in Payments, PayAtGateway(p) PROVE InvoiceIInv'
  BY <1>8, ChargeKeeps
<1>9. ASSUME NEW r \in Requests, RefundWrite(r) PROVE InvoiceIInv'
  BY <1>9, RefundKeeps
<1>10. CASE UNCHANGED vars
  BY <1>10 DEF vars, books, InvoiceIInv, InvoiceTypeOK, PaidRows
<1> QED
  BY <1>1, <1>2, <1>3, <1>4, <1>5, <1>6, <1>7, <1>8, <1>9, <1>10 DEF InvoiceNext

(* Rows, sessions, refunds and requests fit together whatever callbacks,       *)
(* administrators and refunds meet (payment.service.ts, invoice.service.ts).   *)
THEOREM InvoiceInvariant == InvoiceSpec => []InvoiceIInv
<1>1. InvoiceInit => InvoiceIInv
  BY InitHolds
<1>2. InvoiceIInv /\ [InvoiceNext]_vars => InvoiceIInv'
  BY StepKeeps
<1> QED
  BY <1>1, <1>2, PTL DEF InvoiceSpec

(* A captured payment leaves PAID only when a verification that failed is      *)
(* recorded after the capture (payment.service.ts:994), never by a soft        *)
(* cancellation, another callback, a refund or an administrator.              *)
THEOREM OnlyLateFailuresHold == InvoiceSpec => OnlyLateFailures
<1> DEFINE Late == \A p \in Payments :
                     payment[p].status = "PAID" /\ payment'[p].status # "PAID" =>
                       /\ payment[p].gateway /\ payment'[p].status = "FAILED"
                       /\ \E r \in Requests : job[r] = [at |-> "fail", payment |-> p]
<1>1. ASSUME InvoiceIInv, InvoiceNext, NEW p \in Payments,
             payment[p].status = "PAID", payment'[p].status # "PAID"
      PROVE  /\ payment[p].gateway /\ payment'[p].status = "FAILED"
             /\ \E r \in Requests : job[r] = [at |-> "fail", payment |-> p]
  <2>1. payment \in [Payments -> [status : PaymentStatuses, amount : 0..Total, gateway : BOOLEAN]]
    BY <1>1 DEF InvoiceIInv, InvoiceTypeOK
  <2>2. ASSUME NEW r \in Requests, RecordFailure(r)
        PROVE  /\ payment[p].gateway /\ payment'[p].status = "FAILED"
               /\ \E s \in Requests : job[s] = [at |-> "fail", payment |-> p]
    <3>1. job[r] \in [at : {"fail"}, payment : Payments] /\ payment[job[r].payment].gateway
      BY <1>1, <2>2 DEF RecordFailure, InvoiceIInv, InvoiceTypeOK, Idle
    <3>2. job[r].payment = p
      BY <1>1, <2>1, <2>2 DEF RecordFailure
    <3>3. job[r] = [at |-> "fail", payment |-> p] /\ payment'[p].status = "FAILED"
      BY <2>1, <2>2, <3>1, <3>2 DEF RecordFailure
    <3> QED
      BY <3>1, <3>2, <3>3
  <2>3. ASSUME NEW r \in Requests, NEW q \in Payments, OpenSession(r, q) PROVE FALSE
    BY <1>1, <2>1, <2>3 DEF OpenSession
  <2>4. ASSUME NEW q \in Payments, ReturnRefused(q) PROVE FALSE
    BY <1>1, <2>1, <2>4 DEF ReturnRefused, CanSoftCancel
  <2>5. ASSUME NEW r \in Requests, Capture(r) PROVE FALSE
    BY <1>1, <2>1, <2>5 DEF Capture
  <2>6. ASSUME NEW q \in Payments, NEW amount \in 1..Total, RecordManual(q, amount) PROVE FALSE
    BY <1>1, <2>1, <2>6 DEF RecordManual
  <2> QED
    BY <1>1, <2>2, <2>3, <2>4, <2>5, <2>6
       DEF InvoiceNext, books, StartRead, Answer, RemoveCheck, ReturnOK, RefundLook, PayAtGateway,
           RefundWrite, Remove, AdminRemoves, Send, RecordPayment
<1>2. InvoiceIInv /\ [InvoiceNext]_vars => [Late]_vars
  BY <1>1
<1> QED
  BY <1>2, InvoiceInvariant, PTL DEF InvoiceSpec, OnlyLateFailures

(* The sums.                                                                 *)

LEMMA AmountsAreNatural ==
  ASSUME InvoiceTypeOK
  PROVE  /\ \A p \in Payments : Amounts[p] = payment[p].amount /\ Amounts[p] \in Nat
         /\ PaidSum \in Nat /\ IsFiniteSet(PaidRows)
<1>1. \A p \in Payments : Amounts[p] = payment[p].amount /\ Amounts[p] \in Nat
  BY DEF InvoiceTypeOK, Amounts
<1>2. IsFiniteSet(PaidRows) /\ \A p \in PaidRows : Amounts[p] \in Nat
  BY <1>1, FS_Subset DEF PaidRows
<1>3. PaidSum \in Nat
  BY <1>2, SumNat DEF PaidSum
<1> QED
  BY <1>1, <1>2, <1>3

LEMMA PaidSumNext ==
  ASSUME InvoiceTypeOK'
  PROVE  PaidSum' \in Nat
<1>1. IsFiniteSet(PaidRows') /\ \A p \in PaidRows' : Amounts'[p] \in Nat
  BY FS_Subset DEF InvoiceTypeOK, PaidRows, Amounts
<1> QED
  BY <1>1, SumNat DEF PaidSum

LEMMA PaidSumSame ==
  ASSUME InvoiceTypeOK, InvoiceTypeOK', PaidRows' = PaidRows,
         \A p \in PaidRows : payment'[p].amount = payment[p].amount
  PROVE  PaidSum' = PaidSum
<1>1. IsFiniteSet(PaidRows) /\ \A p \in PaidRows : Amounts[p] \in Int
  BY AmountsAreNatural DEF PaidRows
<1>2. \A p \in PaidRows : Amounts[p] \in Int /\ Amounts'[p] = Amounts[p]
  BY <1>1 DEF PaidRows, Amounts
<1>3. SumFunctionOnSet(Amounts, PaidRows) = SumFunctionOnSet(Amounts', PaidRows)
  BY ONLY <1>1, <1>2, SumSame
<1> QED
  BY <1>3 DEF PaidSum

LEMMA PaidSumGrows ==
  ASSUME InvoiceTypeOK, InvoiceTypeOK', NEW p \in Payments, p \notin PaidRows,
         PaidRows' = PaidRows \cup {p},
         \A q \in PaidRows : payment'[q].amount = payment[q].amount
  PROVE  PaidSum' = PaidSum + payment'[p].amount
<1>1. IsFiniteSet(PaidRows) /\ \A q \in PaidRows : Amounts[q] \in Int
  BY AmountsAreNatural DEF PaidRows
<1>2. \A q \in PaidRows : Amounts[q] \in Int /\ Amounts'[q] = Amounts[q]
  BY <1>1 DEF PaidRows, Amounts
<1>3. SumFunctionOnSet(Amounts, PaidRows) = SumFunctionOnSet(Amounts', PaidRows)
  BY ONLY <1>1, <1>2, SumSame
<1>4. \A q \in PaidRows \cup {p} : Amounts'[q] \in Int
  <2>1. payment'[p].amount \in Int
    BY DEF InvoiceTypeOK
  <2> QED
    BY <1>2, <2>1 DEF Amounts
<1>5. SumFunctionOnSet(Amounts', PaidRows \cup {p}) = SumFunctionOnSet(Amounts', PaidRows) + Amounts'[p]
  BY <1>1, <1>4, SumAdd
<1> QED
  BY <1>3, <1>5 DEF PaidSum, Amounts

LEMMA PaidSumShrinks ==
  ASSUME InvoiceTypeOK, InvoiceTypeOK', NEW p \in PaidRows,
         PaidRows' = PaidRows \ {p},
         \A q \in PaidRows : payment'[q].amount = payment[q].amount
  PROVE  PaidSum = PaidSum' + payment[p].amount
<1> DEFINE Left == PaidRows \ {p}
<1>1. IsFiniteSet(PaidRows) /\ \A q \in PaidRows : Amounts[q] \in Int
  BY AmountsAreNatural DEF PaidRows
<1>2. IsFiniteSet(Left) /\ p \notin Left /\ PaidRows = Left \cup {p}
  BY <1>1, FS_Subset
<1>3. \A q \in Left : Amounts[q] \in Int /\ Amounts'[q] = Amounts[q]
  BY <1>1 DEF PaidRows, Amounts
<1>4. SumFunctionOnSet(Amounts, Left) = SumFunctionOnSet(Amounts', Left)
  BY ONLY <1>2, <1>3, SumSame
<1>5. \A q \in Left \cup {p} : Amounts[q] \in Int
  BY <1>1
<1>6. SumFunctionOnSet(Amounts, Left \cup {p}) = SumFunctionOnSet(Amounts, Left) + Amounts[p]
  BY <1>2, <1>5, SumAdd
<1>7. Amounts[p] = payment[p].amount
  BY DEF PaidRows, Amounts
<1> QED
  BY <1>2, <1>4, <1>6, <1>7 DEF PaidSum

\* A step that changes one row, and does not pay it.
LEMMA RowKeepsPaidSum ==
  ASSUME InvoiceTypeOK, InvoiceTypeOK', NEW p \in Payments, payment[p].status # "PAID",
         NEW row, row.status # "PAID", payment' = [payment EXCEPT ![p] = row]
  PROVE  PaidSum' = PaidSum
<1>1. \A q \in Payments : payment'[q] = IF q = p THEN row ELSE payment[q]
  BY DEF InvoiceTypeOK
<1>2. PaidRows' = PaidRows /\ \A q \in PaidRows : payment'[q].amount = payment[q].amount
  BY <1>1 DEF PaidRows
<1> QED
  BY <1>2, PaidSumSame

\* A step that pays it.
LEMMA RowIsPaid ==
  ASSUME InvoiceTypeOK, InvoiceTypeOK', NEW p \in Payments, payment[p].status # "PAID",
         NEW row, row.status = "PAID", payment' = [payment EXCEPT ![p] = row]
  PROVE  PaidSum' = PaidSum + row.amount
<1>1. \A q \in Payments : payment'[q] = IF q = p THEN row ELSE payment[q]
  BY DEF InvoiceTypeOK
<1>2. /\ PaidRows' = PaidRows \cup {p} /\ p \notin PaidRows
      /\ \A q \in PaidRows : payment'[q].amount = payment[q].amount
  BY <1>1 DEF PaidRows
<1> QED
  BY <1>1, <1>2, PaidSumGrows

\* A step that takes it out of PAID.
LEMMA RowIsUnpaid ==
  ASSUME InvoiceTypeOK, InvoiceTypeOK', NEW p \in Payments, payment[p].status = "PAID",
         NEW row, row.status # "PAID", row.amount = payment[p].amount,
         payment' = [payment EXCEPT ![p] = row]
  PROVE  PaidSum = PaidSum' + payment[p].amount
<1>1. \A q \in Payments : payment'[q] = IF q = p THEN row ELSE payment[q]
  BY DEF InvoiceTypeOK
<1>2. /\ p \in PaidRows /\ PaidRows' = PaidRows \ {p}
      /\ \A q \in PaidRows : payment'[q].amount = payment[q].amount
  BY <1>1 DEF PaidRows
<1> QED
  BY <1>2, PaidSumShrinks

SumsAgree == ~invoice.removed => invoice.paid = cash + PaidSum + overwritten

LEMMA SumsStillAgree ==
  ASSUME InvoiceIInv, InvoiceIInv', SumsAgree, [InvoiceNext]_vars
  PROVE  SumsAgree'
<1>0. /\ InvoiceTypeOK /\ InvoiceTypeOK' /\ PaidSum \in Nat /\ cash \in Nat
      /\ overwritten \in Nat
      /\ invoice \in [status : InvoiceStatuses, paid : 0..Total, removed : BOOLEAN]
  BY AmountsAreNatural DEF InvoiceIInv, InvoiceTypeOK
<1>1. CASE UNCHANGED <<invoice, payment, overwritten, cash>>
  BY <1>1 DEF SumsAgree, PaidSum, PaidRows, Amounts
<1>2. ASSUME NEW r \in Requests, NEW p \in Payments, OpenSession(r, p)
      PROVE  SumsAgree'
  <2>1. PaidSum' = PaidSum
    BY <1>0, <1>2, RowKeepsPaidSum DEF OpenSession
  <2> QED
    BY <1>2, <2>1 DEF OpenSession, SumsAgree
<1>3. ASSUME NEW p \in Payments, payment[p].status # "PAID", NEW status \in {"FAILED", "CANCELLED"},
             payment' = [payment EXCEPT ![p].status = status], UNCHANGED <<invoice, overwritten, cash>>
      PROVE  SumsAgree'
  <2>1. PICK row : row = [payment[p] EXCEPT !.status = status]
    OBVIOUS
  <2>2. row.status # "PAID" /\ payment' = [payment EXCEPT ![p] = row]
    BY <1>0, <1>3, <2>1 DEF InvoiceTypeOK
  <2>3. PaidSum' = PaidSum
    BY <1>0, <1>3, <2>2, RowKeepsPaidSum
  <2> QED
    BY <1>3, <2>3 DEF SumsAgree
<1>4. ASSUME NEW r \in Requests, RecordFailure(r) PROVE SumsAgree'
  <2>1. PICK p \in Payments : p = job[r].payment
    BY <1>4 DEF RecordFailure, InvoiceIInv, InvoiceTypeOK, Idle
  <2>2. CASE payment[p].status # "PAID"
    BY <1>3, <1>4, <2>1, <2>2 DEF RecordFailure
  <2>3. CASE payment[p].status = "PAID"
    <3>1. PICK row : row = [payment[p] EXCEPT !.status = "FAILED"]
      OBVIOUS
    <3>2. /\ row.status # "PAID" /\ row.amount = payment[p].amount
          /\ payment' = [payment EXCEPT ![p] = row]
      BY <1>0, <1>4, <2>1, <3>1 DEF RecordFailure, InvoiceTypeOK
    <3>3. PaidSum = PaidSum' + payment[p].amount
      BY <1>0, <2>3, <3>2, RowIsUnpaid
    <3>4. /\ UNCHANGED <<invoice, cash>>
          /\ ~invoice.removed => overwritten' = overwritten + payment[p].amount
      BY <1>4, <2>1, <2>3 DEF RecordFailure
    <3>5. payment[p].amount \in Nat /\ PaidSum' \in Nat
      BY <1>0, PaidSumNext DEF InvoiceTypeOK
    <3> QED
      BY <1>0, <3>3, <3>4, <3>5 DEF SumsAgree
  <2> QED
    BY <2>2, <2>3
<1>5. ASSUME NEW p \in Payments, ReturnRefused(p) PROVE SumsAgree'
  BY <1>3, <1>5 DEF ReturnRefused, CanSoftCancel
<1>6. ASSUME NEW p \in Payments, NEW row, payment[p].status # "PAID", row.status = "PAID",
             row.amount \in Nat, payment' = [payment EXCEPT ![p] = row],
             UNCHANGED <<overwritten, cash>>, invoice.removed \/ Book(row.amount),
             invoice.removed => UNCHANGED invoice
      PROVE  SumsAgree'
  <2>1. PaidSum' = PaidSum + row.amount
    BY <1>0, <1>6, RowIsPaid
  <2>2. CASE invoice.removed
    BY <1>6, <2>2 DEF SumsAgree
  <2>3. CASE ~invoice.removed
    <3>1. invoice'.paid = invoice.paid + row.amount
      BY <1>0, <1>6, <2>3 DEF Book
    <3>2. invoice.paid = cash + PaidSum + overwritten
      BY <2>3 DEF SumsAgree
    <3> QED
      BY <1>0, <1>6, <2>1, <3>1, <3>2 DEF SumsAgree
  <2> QED
    BY <2>2, <2>3
<1>7. ASSUME NEW r \in Requests, Capture(r) PROVE SumsAgree'
  <2>1. PICK p \in Payments : p = job[r].payment
    BY <1>7 DEF Capture, InvoiceIInv, InvoiceTypeOK, Idle
  <2>2. CASE CanCapture(payment[p].status) /\ (invoice.removed \/ payment[p].amount <= Room)
    <3>1. PICK row : row = [payment[p] EXCEPT !.status = "PAID"]
      OBVIOUS
    <3>2. /\ row.status = "PAID" /\ row.amount = payment[p].amount /\ row.amount \in Nat
          /\ payment' = [payment EXCEPT ![p] = row]
      BY <1>0, <1>7, <2>1, <2>2, <3>1 DEF Capture, InvoiceTypeOK
    <3>3. /\ payment[p].status # "PAID" /\ UNCHANGED <<overwritten, cash>>
          /\ invoice.removed \/ Book(row.amount)
          /\ invoice.removed => UNCHANGED invoice
      BY <1>7, <2>1, <2>2, <3>2 DEF Capture, CanCapture
    <3> QED
      BY <1>6, <3>2, <3>3
  <2>3. CASE ~(CanCapture(payment[p].status) /\ (invoice.removed \/ payment[p].amount <= Room))
    BY <1>1, <1>7, <2>1, <2>3 DEF Capture
  <2> QED
    BY <2>2, <2>3
<1>8. ASSUME NEW p \in Payments, NEW amount \in 1..Total, RecordManual(p, amount) PROVE SumsAgree'
  <2>1. PICK row : row = [status |-> "PAID", amount |-> amount, gateway |-> FALSE]
    OBVIOUS
  <2>2. /\ row.status = "PAID" /\ row.amount = amount /\ amount \in Nat
        /\ payment' = [payment EXCEPT ![p] = row] /\ payment[p].status # "PAID"
        /\ UNCHANGED <<overwritten, cash>> /\ ~invoice.removed /\ Book(amount)
    BY <1>8, <2>1 DEF RecordManual
  <2> QED
    BY <1>6, <2>2
<1>9. ASSUME NEW amount \in 1..Total, RecordPayment(amount) PROVE SumsAgree'
  <2>1. invoice'.paid = invoice.paid + amount /\ cash' = cash + amount /\ UNCHANGED <<payment, overwritten>>
    BY <1>0, <1>9 DEF RecordPayment, Book, books
  <2>2. PaidSum' = PaidSum /\ invoice.paid = cash + PaidSum + overwritten
    BY <1>9, <2>1 DEF RecordPayment, SumsAgree, PaidSum, PaidRows, Amounts
  <2> QED
    BY <1>0, <2>1, <2>2 DEF SumsAgree
<1>10. CASE Send \/ AdminRemoves \/ \E r \in Requests : Remove(r)
  <2>1. /\ UNCHANGED <<payment, overwritten, cash>>
        /\ invoice'.removed \/ (invoice'.paid = invoice.paid /\ invoice'.removed = invoice.removed)
    BY <1>0, <1>10 DEF Send, AdminRemoves, Remove, books
  <2>2. PaidSum' = PaidSum
    BY <2>1 DEF PaidSum, PaidRows, Amounts
  <2> QED
    BY <2>1, <2>2 DEF SumsAgree
<1> QED
  BY <1>1, <1>2, <1>4, <1>5, <1>7, <1>8, <1>9, <1>10 DEF InvoiceNext, vars, books,
     StartRead, Answer, RemoveCheck, ReturnOK, RefundLook, PayAtGateway, RefundWrite

(* A session is opened for the whole room, which only shrinks: whoever books it *)
(* fills the invoice.                                                         *)
SessionsFill ==
  /\ \A r \in Requests : job[r].at = "start" => job[r].amount >= Room
  /\ \A p \in Payments : payment[p].gateway => payment[p].amount >= Room
  /\ \A p \in PaidRows : payment[p].gateway => invoice.removed \/ Room = 0
  /\ overwritten > 0 => invoice.removed \/ Room = 0

LEMMA SessionsStillFill ==
  ASSUME InvoiceIInv, InvoiceIInv', SessionsFill, [InvoiceNext]_vars
  PROVE  SessionsFill'
<1>0. /\ invoice \in [status : InvoiceStatuses, paid : 0..Total, removed : BOOLEAN]
      /\ payment \in [Payments -> [status : PaymentStatuses, amount : 0..Total, gateway : BOOLEAN]]
      /\ DOMAIN job = Requests
  BY DEF InvoiceIInv, InvoiceTypeOK
<1>1. Room \in Nat /\ Room' \in Nat
  BY DEF InvoiceIInv, InvoiceTypeOK, Room
\* What steps leave of it: rooms shrink, sessions keep their amounts.
<1>2. ASSUME Room' <= Room, invoice.removed => invoice'.removed,
             \A r \in Requests : job'[r].at = "start" => job'[r].amount >= Room',
             \A p \in Payments : payment'[p].gateway => payment'[p].amount >= Room',
             \A p \in PaidRows' : payment'[p].gateway =>
               (p \in PaidRows /\ payment[p].gateway) \/ Room' = 0 \/ invoice'.removed,
             overwritten' > 0 => overwritten > 0 \/ Room' = 0 \/ invoice'.removed
      PROVE  SessionsFill'
  BY <1>1, <1>2 DEF SessionsFill
<1>3. ASSUME UNCHANGED <<payment, overwritten>>, Room' <= Room, invoice.removed => invoice'.removed,
             \A r \in Requests : job'[r] = job[r] \/ job'[r].at # "start"
      PROVE  SessionsFill'
  <2>1. \A r \in Requests : job'[r].at = "start" => job'[r].amount >= Room'
    <3>1. \A r \in Requests : job[r].at = "start" => job[r].amount \in Nat
      BY DEF InvoiceIInv, InvoiceTypeOK, Idle
    <3> QED
      BY <1>1, <1>3, <3>1 DEF SessionsFill
  <2>2. \A p \in Payments : payment'[p].gateway => payment'[p].amount >= Room'
    BY <1>0, <1>1, <1>3 DEF SessionsFill
  <2> QED
    BY <1>2, <1>3, <2>1, <2>2 DEF PaidRows
<1>4. CASE UNCHANGED <<invoice, payment, overwritten, job>>
  BY <1>1, <1>3, <1>4 DEF Room
<1>5. ASSUME NEW r \in Requests, StartRead(r) PROVE SessionsFill'
  <2>1. /\ UNCHANGED <<invoice, payment, overwritten>> /\ Room' = Room
        /\ \A s \in Requests : job'[s] = IF s = r THEN [at |-> "start", amount |-> Room] ELSE job[s]
    BY <1>0, <1>5 DEF StartRead, Goes, books, Room
  <2>2. \A s \in Requests : job'[s].at = "start" => job'[s].amount >= Room'
    BY <1>1, <2>1 DEF SessionsFill
  <2> QED
    BY <1>1, <1>2, <2>1, <2>2 DEF SessionsFill, PaidRows
<1>6. ASSUME NEW r \in Requests, NEW p \in Payments, OpenSession(r, p) PROVE SessionsFill'
  <2>1. /\ UNCHANGED <<invoice, overwritten>> /\ Room' = Room
        /\ \A s \in Requests : job'[s] = job[s] \/ job'[s].at # "start"
        /\ \A q \in Payments : payment'[q] = IF q = p THEN [status |-> "PENDING", amount |-> job[r].amount, gateway |-> TRUE]
                                               ELSE payment[q]
        /\ job[r].at = "start"
    BY <1>0, <1>6 DEF OpenSession, Goes, Idle, Room
  <2>2. \A q \in Payments : payment'[q].gateway => payment'[q].amount >= Room'
    BY <1>1, <2>1 DEF SessionsFill
  <2>3. \A q \in PaidRows' : q \in PaidRows /\ payment'[q] = payment[q]
    BY <2>1 DEF PaidRows
  <2> QED
    BY <1>1, <1>2, <2>1, <2>2, <2>3 DEF SessionsFill
<1>7. ASSUME NEW p \in Payments, NEW status \in {"FAILED", "CANCELLED"},
             payment' = [payment EXCEPT ![p].status = status], UNCHANGED invoice,
             \A s \in Requests : job'[s] = job[s] \/ job'[s].at # "start",
             \/ UNCHANGED overwritten
             \/ payment[p].gateway /\ payment[p].status = "PAID"
      PROVE  SessionsFill'
  <2>1. /\ Room' = Room
        /\ \A q \in Payments : payment'[q].gateway = payment[q].gateway /\ payment'[q].amount = payment[q].amount
        /\ PaidRows' \subseteq PaidRows
    BY <1>0, <1>7 DEF Room, PaidRows
  <2>2. overwritten' > 0 => overwritten > 0 \/ Room' = 0 \/ invoice'.removed
    BY <1>7, <2>1 DEF SessionsFill, PaidRows
  <2>3. \A s \in Requests : job'[s].at = "start" => job'[s].amount >= Room'
    BY <1>7, <2>1 DEF SessionsFill
  <2>4. \A q \in Payments : payment'[q].gateway => payment'[q].amount >= Room'
    BY <2>1 DEF SessionsFill
  <2>5. \A q \in PaidRows' : q \in PaidRows /\ q \in Payments /\ payment'[q].gateway = payment[q].gateway
    BY <2>1 DEF PaidRows
  <2> QED
    BY <1>1, <1>2, <1>7, <2>1, <2>2, <2>3, <2>4, <2>5
<1>8. ASSUME NEW r \in Requests, RecordFailure(r) PROVE SessionsFill'
  <2>1. PICK p \in Payments : p = job[r].payment
    BY <1>8 DEF RecordFailure, InvoiceIInv, InvoiceTypeOK, Idle
  <2>2. /\ payment[p].gateway /\ payment' = [payment EXCEPT ![p].status = "FAILED"]
        /\ UNCHANGED invoice
        /\ UNCHANGED overwritten \/ payment[p].status = "PAID"
    BY <1>8, <2>1 DEF RecordFailure, InvoiceIInv
  <2>3. \A s \in Requests : job'[s] = job[s] \/ job'[s].at # "start"
    BY <1>0, <1>8 DEF RecordFailure, Goes, Idle
  <2> QED
    BY <1>7, <2>2, <2>3
<1>9. ASSUME NEW p \in Payments, ReturnRefused(p) PROVE SessionsFill'
  BY <1>7, <1>9 DEF ReturnRefused
\* A row is paid: one of a session takes all the room there is.
<1>10. ASSUME NEW p \in Payments, NEW row, row.status = "PAID", row.amount \in Nat,
              payment' = [payment EXCEPT ![p] = row],
              \/ UNCHANGED invoice /\ invoice.removed
              \/ row.amount <= Room /\ Book(row.amount),
              row.gateway => row.amount >= Room, UNCHANGED overwritten,
              \A s \in Requests : job'[s] = job[s] \/ job'[s].at # "start"
       PROVE  SessionsFill'
  <2>1. /\ Room' <= Room /\ (invoice.removed => invoice'.removed)
        /\ row.gateway => Room' = 0 \/ invoice'.removed
    <3>1. CASE UNCHANGED invoice /\ invoice.removed
      BY <1>1, <3>1 DEF Room
    <3>2. CASE row.amount <= Room /\ Book(row.amount)
      <4>1. invoice'.paid = invoice.paid + row.amount /\ invoice'.removed = invoice.removed
        BY <1>0, <3>2 DEF Book
      <4>2. Room' = Room - row.amount
        BY <1>0, <1>10, <4>1 DEF Room, InvoiceIInv, InvoiceTypeOK
      <4> QED
        BY <1>1, <1>10, <3>2, <4>1, <4>2
    <3> QED
      BY <1>10, <3>1, <3>2
  <2>2. \A q \in Payments : payment'[q] = IF q = p THEN row ELSE payment[q]
    BY <1>0, <1>10
  <2>3. \A s \in Requests : job'[s].at = "start" => job'[s].amount >= Room'
    <3>1. \A s \in Requests : job[s].at = "start" => job[s].amount \in Nat
      BY DEF InvoiceIInv, InvoiceTypeOK, Idle
    <3> QED
      BY <1>1, <1>10, <2>1, <3>1 DEF SessionsFill
  <2>4. \A q \in Payments : payment'[q].gateway => payment'[q].amount >= Room'
    BY <1>0, <1>1, <1>10, <2>1, <2>2 DEF SessionsFill
  <2>5. \A q \in PaidRows' : payment'[q].gateway =>
          (q \in PaidRows /\ payment[q].gateway) \/ Room' = 0 \/ invoice'.removed
    BY <2>1, <2>2 DEF PaidRows
  <2> QED
    BY <1>2, <1>10, <2>1, <2>3, <2>4, <2>5
<1>11. ASSUME NEW r \in Requests, Capture(r) PROVE SessionsFill'
  <2>1. PICK p \in Payments : p = job[r].payment
    BY <1>11 DEF Capture, InvoiceIInv, InvoiceTypeOK, Idle
  <2>2. \A s \in Requests : job'[s] = job[s] \/ job'[s].at # "start"
    BY <1>0, <1>11 DEF Capture, Goes, Idle
  <2>3. CASE CanCapture(payment[p].status) /\ (invoice.removed \/ payment[p].amount <= Room)
    <3>1. PICK row : row = [payment[p] EXCEPT !.status = "PAID"]
      OBVIOUS
    <3>2. /\ row.status = "PAID" /\ row.amount = payment[p].amount /\ row.amount \in Nat
          /\ row.gateway = payment[p].gateway
          /\ payment' = [payment EXCEPT ![p] = row]
      BY <1>0, <1>11, <2>1, <2>3, <3>1 DEF Capture
    <3>3. /\ \/ UNCHANGED invoice /\ invoice.removed
             \/ row.amount <= Room /\ Book(row.amount)
          /\ UNCHANGED overwritten
      BY <1>11, <2>1, <2>3, <3>2 DEF Capture
    <3>4. row.gateway => row.amount >= Room
      BY <3>2 DEF SessionsFill
    <3> QED
      BY <1>10, <2>2, <3>2, <3>3, <3>4
  <2>4. CASE ~(CanCapture(payment[p].status) /\ (invoice.removed \/ payment[p].amount <= Room))
    <3>1. UNCHANGED <<invoice, payment, overwritten>>
      BY <1>11, <2>1, <2>4 DEF Capture
    <3> QED
      BY <1>1, <1>3, <2>2, <3>1 DEF Room
  <2> QED
    BY <2>3, <2>4
<1>12. ASSUME NEW p \in Payments, NEW amount \in 1..Total, RecordManual(p, amount) PROVE SessionsFill'
  <2>1. PICK row : row = [status |-> "PAID", amount |-> amount, gateway |-> FALSE]
    OBVIOUS
  <2>2. /\ row.status = "PAID" /\ row.amount = amount /\ row.amount \in Nat /\ ~row.gateway
        /\ payment' = [payment EXCEPT ![p] = row] /\ amount <= Room /\ Book(amount)
        /\ UNCHANGED <<overwritten, job>>
    BY <1>12, <2>1 DEF RecordManual
  <2> QED
    BY <1>10, <2>2
<1>13. ASSUME NEW amount \in 1..Total, RecordPayment(amount) PROVE SessionsFill'
  <2>1. /\ UNCHANGED <<payment, overwritten, job>>
        /\ Room' <= Room /\ invoice'.removed = invoice.removed
    BY <1>0, <1>1, <1>13 DEF RecordPayment, Book, Room, books
  <2> QED
    BY <1>3, <2>1
<1>14. CASE Send \/ AdminRemoves
  <2>1. /\ UNCHANGED <<payment, overwritten, job>>
        /\ Room' = Room /\ (invoice.removed => invoice'.removed)
    BY <1>0, <1>14 DEF Send, AdminRemoves, Room, books
  <2> QED
    BY <1>1, <1>3, <2>1
<1>15. ASSUME NEW r \in Requests, NEW step, Goes(r, step), step.at # "start",
              UNCHANGED <<payment, overwritten>>, Room' = Room, invoice.removed => invoice'.removed
       PROVE  SessionsFill'
  <2>1. \A s \in Requests : job'[s] = job[s] \/ job'[s].at # "start"
    BY <1>0, <1>15 DEF Goes
  <2> QED
    BY <1>1, <1>3, <1>15, <2>1
<1>16. ASSUME NEW r \in Requests, RemoveCheck(r) \/ Remove(r) \/ RefundWrite(r) PROVE SessionsFill'
  BY <1>0, <1>15, <1>16 DEF RemoveCheck, Remove, RefundWrite, books, Room, Idle
<1>17. ASSUME NEW r \in Requests, Answer(r) PROVE SessionsFill'
  <2>1. PICK step : step = [job[r] EXCEPT !.at = IF job[r].payment \in charged THEN "capture" ELSE "fail"]
    OBVIOUS
  <2>2. step.at # "start" /\ Goes(r, step) /\ UNCHANGED <<payment, overwritten, invoice>>
    BY <1>17, <2>1 DEF Answer, books, InvoiceIInv, InvoiceTypeOK, Idle
  <2> QED
    BY <1>15, <2>2 DEF Room
<1>18. ASSUME NEW r \in Requests, NEW p \in Payments, ReturnOK(r, p) PROVE SessionsFill'
  BY <1>15, <1>18 DEF ReturnOK, books, Room
<1>19. ASSUME NEW r \in Requests, NEW refund \in RefundRows, RefundLook(r, refund) PROVE SessionsFill'
  BY <1>15, <1>19 DEF RefundLook, books, Room
<1> QED
  BY <1>4, <1>5, <1>6, <1>8, <1>9, <1>11, <1>12, <1>13, <1>14, <1>16, <1>17, <1>18, <1>19
     DEF InvoiceNext, vars, books, PayAtGateway

(* The invoice shows as paid what its payments and the amounts entered by       *)
(* administrators add up to, and beside them only what it booked for rows that  *)
(* a late failure then overwrote; those filled it, so none is booked again.    *)
THEOREM BooksAgreeHolds == InvoiceSpec => []BooksAgree
<1>1. InvoiceInit => SumsAgree /\ SessionsFill
  <2> SUFFICES ASSUME InvoiceInit PROVE SumsAgree /\ SessionsFill
    OBVIOUS
  <2>1. PaidRows = {} /\ \A p \in Payments : ~payment[p].gateway
    BY DEF InvoiceInit, NoRow, PaidRows
  <2>2. SumsAgree
    BY <2>1, SumEmpty DEF InvoiceInit, SumsAgree, PaidSum
  <2>3. SessionsFill
    BY <2>1 DEF InvoiceInit, SessionsFill, Idle
  <2> QED
    BY <2>2, <2>3
<1>2. InvoiceIInv /\ InvoiceIInv' /\ SumsAgree /\ SessionsFill /\ [InvoiceNext]_vars
        => SumsAgree' /\ SessionsFill'
  BY SumsStillAgree, SessionsStillFill
<1>3. InvoiceIInv /\ SumsAgree /\ SessionsFill => BooksAgree
  BY DEF SumsAgree, SessionsFill, BooksAgree, InvoiceIInv, InvoiceTypeOK, Room
<1> QED
  BY <1>1, <1>2, <1>3, InvoiceInvariant, PTL DEF InvoiceSpec

RefundSums == IsFiniteSet(refunds) /\ RefundsCovered

LEMMA RefundsStayCovered ==
  ASSUME InvoiceIInv, InvoiceIInv', RefundSums, [InvoiceNext]_vars
  PROVE  RefundSums'
<1>0. /\ refunds \subseteq RefundRows /\ \A f \in RefundRows : RefundAmount[f] = f.amount /\ RefundAmount[f] \in Int
      /\ \A p \in Payments : payment[p].amount \in Nat /\ payment'[p].amount \in Nat
  BY DEF InvoiceIInv, InvoiceTypeOK, RefundRows, RefundAmount
<1>1. \A p \in Payments : payment[p].status # "NONE" => payment'[p].amount = payment[p].amount
  <2>1. ASSUME NEW r \in Requests, NEW q \in Payments, OpenSession(r, q)
        PROVE  \A p \in Payments : payment[p].status # "NONE" => payment'[p].amount = payment[p].amount
    BY <2>1 DEF OpenSession, InvoiceIInv, InvoiceTypeOK
  <2>2. ASSUME NEW q \in Payments, NEW amount \in 1..Total, RecordManual(q, amount)
        PROVE  \A p \in Payments : payment[p].status # "NONE" => payment'[p].amount = payment[p].amount
    BY <2>2 DEF RecordManual, InvoiceIInv, InvoiceTypeOK
  <2>3. ASSUME NEW q, NEW status, payment' = [payment EXCEPT ![q].status = status]
        PROVE  \A p \in Payments : payment'[p].amount = payment[p].amount
    BY <2>3 DEF InvoiceIInv, InvoiceTypeOK
  <2>4. CASE \E q, status : payment' = [payment EXCEPT ![q].status = status]
    BY <2>3, <2>4
  <2>5. CASE UNCHANGED payment
    BY <2>5
  <2>6. ASSUME NEW r \in Requests, Capture(r)
        PROVE  UNCHANGED payment \/ \E q, status : payment' = [payment EXCEPT ![q].status = status]
    BY <2>6 DEF Capture
  <2> QED
    BY <2>1, <2>2, <2>4, <2>5, <2>6 DEF InvoiceNext, vars, books, StartRead, Answer, RemoveCheck, ReturnOK,
       RefundLook, PayAtGateway, RefundWrite, Remove, AdminRemoves, Send, RecordPayment, RecordFailure, ReturnRefused
<1>2. ASSUME NEW p \in Payments, UNCHANGED refunds PROVE (Refunded(p) <= payment[p].amount)'
  <2>1. CASE payment[p].status = "NONE"
    <3>1. RefundsOf(p)' = {}
      BY <1>2, <2>1 DEF RefundsOf, InvoiceIInv
    <3> QED
      BY <1>0, <3>1, SumEmpty DEF Refunded
  <2>2. CASE payment[p].status # "NONE"
    BY <1>1, <1>2, <2>2 DEF RefundSums, RefundsCovered, Refunded, RefundsOf
  <2> QED
    BY <2>1, <2>2
<1>3. CASE UNCHANGED refunds
  BY <1>2, <1>3 DEF RefundSums, RefundsCovered
<1>4. ASSUME NEW r \in Requests, RefundWrite(r), ~UNCHANGED refunds PROVE RefundSums'
  <2>1. PICK new \in RefundRows : new = job[r].refund
    BY <1>4 DEF RefundWrite, InvoiceIInv, InvoiceTypeOK, Idle
  <2>2. /\ refunds' = refunds \cup {new} /\ FitsRest(new) /\ UNCHANGED payment
        /\ new \notin refunds
    BY <1>4, <2>1 DEF RefundWrite
  <2>3. IsFiniteSet(refunds')
    BY <2>2, FS_AddElement DEF RefundSums
  <2>4. ASSUME NEW p \in Payments PROVE (Refunded(p) <= payment[p].amount)'
    <3>1. CASE new.payment # p
      <4>1. RefundsOf(p)' = RefundsOf(p)
        BY <2>2, <3>1 DEF RefundsOf
      <4> QED
        BY <2>2, <4>1 DEF RefundSums, RefundsCovered, Refunded
    <3>2. CASE new.payment = p
      <4>1. RefundsOf(p)' = RefundsOf(p) \cup {new} /\ new \notin RefundsOf(p)
        BY <2>2, <3>2 DEF RefundsOf
      <4>2. IsFiniteSet(RefundsOf(p))
        BY FS_Subset DEF RefundsOf, RefundSums
      <4>3. \A f \in RefundsOf(p) \cup {new} : RefundAmount[f] \in Int
        BY <1>0 DEF RefundsOf
      <4>4. SumFunctionOnSet(RefundAmount, RefundsOf(p) \cup {new})
              = SumFunctionOnSet(RefundAmount, RefundsOf(p)) + RefundAmount[new]
        BY <4>1, <4>2, <4>3, SumAdd
      <4> QED
        BY <1>0, <2>2, <3>2, <4>1, <4>4 DEF Refunded, FitsRest
    <3> QED
      BY <3>1, <3>2
  <2> QED
    BY <2>3, <2>4 DEF RefundSums, RefundsCovered
<1>5. UNCHANGED refunds \/ \E r \in Requests : RefundWrite(r)
  BY DEF InvoiceNext, vars, books, StartRead, Answer, RemoveCheck, ReturnOK, Capture, OpenSession,
     RefundLook, PayAtGateway, Remove, AdminRemoves, Send, RecordPayment, RecordFailure, ReturnRefused, RecordManual
<1> QED
  BY <1>3, <1>4, <1>5

(* Refunds never exceed the payment they give back, with different keys at     *)
(* once and whatever callback is recorded late.                               *)
THEOREM RefundsCoveredHolds == InvoiceSpec => []RefundsCovered
<1>1. InvoiceInit => RefundSums
  <2> SUFFICES ASSUME InvoiceInit PROVE RefundSums
    OBVIOUS
  <2>1. \A p \in Payments : Refunded(p) = 0 /\ payment[p].amount = 0
    <3>1. \A p \in Payments : RefundsOf(p) = {}
      BY DEF InvoiceInit, RefundsOf
    <3> QED
      BY <3>1, SumEmpty DEF InvoiceInit, NoRow, Refunded
  <2> QED
    BY <2>1, FS_EmptySet DEF InvoiceInit, RefundSums, RefundsCovered
<1>2. InvoiceIInv /\ InvoiceIInv' /\ RefundSums /\ [InvoiceNext]_vars => RefundSums'
  BY RefundsStayCovered
<1>3. RefundSums => RefundsCovered
  BY DEF RefundSums
<1> QED
  BY <1>1, <1>2, <1>3, InvoiceInvariant, PTL DEF InvoiceSpec
=============================================================================
