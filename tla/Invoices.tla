------------------------------ MODULE Invoices ------------------------------
(***************************************************************************)
(* One invoice: the payments customers start for it at a gateway, their      *)
(* verification, the payments an administrator enters in two places          *)
(* (payment.service.ts recordManual, invoice.service.ts recordPayment), its   *)
(* sending and removal, and the refunds of its payments.                     *)
(*                                                                         *)
(* Unlike an order, an invoice gets a new payment row for every start, so    *)
(* several sessions can be paid.  A transaction that locks what it decides on *)
(* is one step; what is read before that is kept in job[r].                  *)
(***************************************************************************)
EXTENDS Integers, FiniteSets, FiniteSetsExt

CONSTANTS
  Total,        \* total of the invoice
  Payments,     \* payment rows
  Keys,         \* idempotency keys of refunds
  Requests

ASSUME InvoiceAssumption ==
  Total \in Nat \ {0} /\ IsFiniteSet(Payments)

VARIABLES
  invoice,      \* status, paidAmount, and whether it was removed
  payment,      \* the rows of table payments
  refunds,      \* the rows of table refunds
  charged,      \* sessions the customer paid at the gateway
  overwritten,  \* booked amounts whose row a late failure took out of PAID (history)
  cash,         \* sum of the payments entered by recordPayment
  wallet,       \* what they added to the balance of the customer
  job           \* what each request is doing

books == <<payment, refunds, charged, overwritten>>
vars  == <<invoice, books, cash, wallet, job>>

Idle            == [at |-> "idle"]
NoRow           == [status |-> "NONE", amount |-> 0, gateway |-> FALSE]
InvoiceStatuses == {"DRAFT", "SENT", "PARTIALLY_PAID", "PAID"}
PaymentStatuses == {"NONE", "PENDING", "PAID", "FAILED", "CANCELLED"}
RefundRows      == [payment : Payments, key : Keys, amount : 1..Total]

InvoiceTypeOK ==
  /\ invoice \in [status : InvoiceStatuses, paid : 0..Total, removed : BOOLEAN]
  /\ payment \in [Payments -> [status : PaymentStatuses, amount : 0..Total, gateway : BOOLEAN]]
  /\ refunds \subseteq RefundRows
  /\ charged \subseteq Payments
  /\ overwritten \in Nat
  /\ cash \in 0..Total
  /\ wallet \in 0..Total
  /\ DOMAIN job = Requests
  /\ \A r \in Requests :
       \/ job[r] = Idle \/ job[r] = [at |-> "remove"]
       \/ job[r] \in [at : {"start"}, amount : 1..Total]
       \/ job[r] \in [at : {"verify", "capture", "fail"}, payment : Payments]
       \/ job[r] \in [at : {"refund"}, refund : RefundRows]

InvoiceInit ==
  /\ invoice = [status |-> "DRAFT", paid |-> 0, removed |-> FALSE]
  /\ payment = [p \in Payments |-> NoRow]
  /\ refunds = {} /\ charged = {} /\ overwritten = 0 /\ cash = 0 /\ wallet = 0
  /\ job = [r \in Requests |-> Idle]

Goes(r, step) == job' = [job EXCEPT ![r] = step]
Room          == Total - invoice.paid
PaidStatus(n) == IF n >= Total THEN "PAID" ELSE "PARTIALLY_PAID"
BookLast(amount) ==  \* mutant: forgets what was paid before
  invoice' = [invoice EXCEPT !.paid = amount, !.status = PaidStatus(amount)]
Book(amount)  == invoice' = [invoice EXCEPT !.paid = @ + amount, !.status = PaidStatus(invoice.paid + amount)]

----------------------------------------------------------------------------
(* start: the remaining amount is read without a lock, the row and its session *)
(* follow.  A start that fails leaves a row nobody can pay.                    *)

StartRead(r) ==
  /\ job[r].at = "idle" /\ ~invoice.removed /\ Room > 0
  /\ Goes(r, [at |-> "start", amount |-> Room])
  /\ UNCHANGED <<invoice, books, cash, wallet>>

OpenSession(r, p) ==
  /\ job[r].at = "start" /\ payment[p].status = "NONE"
  /\ payment' = [payment EXCEPT ![p] = [status |-> "PENDING", amount |-> job[r].amount, gateway |-> TRUE]]
  /\ Goes(r, Idle)
  /\ UNCHANGED <<invoice, refunds, charged, overwritten, cash, wallet>>

PayAtGateway(p) ==
  /\ payment[p].gateway /\ p \notin charged
  /\ charged' = charged \cup {p}
  /\ UNCHANGED <<invoice, payment, refunds, overwritten, cash, wallet, job>>

----------------------------------------------------------------------------
(* verify.                                                                   *)

\* The browser returns with OK, paid or not, or with a refusal that cancels softly.
ReturnOK(r, p) ==
  /\ job[r].at = "idle" /\ payment[p].gateway /\ payment[p].status # "PAID"
  /\ Goes(r, [at |-> "verify", payment |-> p])
  /\ UNCHANGED <<invoice, books, cash, wallet>>

CancelsAnything(status) == status # "NONE"  \* mutant: forgets to look at the locked row
CanSoftCancel(status) == status \in {"PENDING", "FAILED"}

ReturnRefused(p) ==
  /\ payment[p].gateway /\ CanSoftCancel(payment[p].status)
  /\ payment' = [payment EXCEPT ![p].status = "CANCELLED"]
  /\ UNCHANGED <<invoice, refunds, charged, overwritten, cash, wallet, job>>

Answer(r) ==
  /\ job[r].at = "verify"
  /\ Goes(r, [job[r] EXCEPT !.at = IF job[r].payment \in charged THEN "capture" ELSE "fail"])
  /\ UNCHANGED <<invoice, books, cash, wallet>>

\* The row is updated by id, whatever its status is by now; the invoice is not looked at.
RecordFailure(r) ==
  /\ job[r].at = "fail"
  /\ LET p == job[r].payment IN
     /\ payment' = [payment EXCEPT ![p].status = "FAILED"]
     /\ overwritten' = IF payment[p].status = "PAID" /\ ~invoice.removed
                       THEN overwritten + payment[p].amount ELSE overwritten
  /\ Goes(r, Idle)
  /\ UNCHANGED <<invoice, refunds, charged, cash, wallet>>

CapturesOpen(status)  == status \in {"PENDING", "FAILED"}  \* mutant: a soft cancel is final
CanCapture(status)    == status \in {"PENDING", "FAILED", "CANCELLED"}

\* Payment row and invoice in one transaction, which fails as a whole without room;
\* the row of a removed invoice is not found.
Capture(r) ==
  /\ job[r].at = "capture"
  /\ LET p == job[r].payment  amount == payment[p].amount IN
     IF CanCapture(payment[p].status) /\ (invoice.removed \/ amount <= Room)
     THEN /\ payment' = [payment EXCEPT ![p].status = "PAID"]
          /\ IF invoice.removed THEN UNCHANGED invoice ELSE Book(amount)
     ELSE UNCHANGED <<invoice, payment>>
  /\ Goes(r, Idle)
  /\ UNCHANGED <<refunds, charged, overwritten, cash, wallet>>

----------------------------------------------------------------------------
(* Administrators.                                                           *)

RecordManual(p, amount) ==
  /\ payment[p].status = "NONE"
  /\ ~invoice.removed /\ amount <= Room
  /\ Book(amount)
  /\ payment' = [payment EXCEPT ![p] = [status |-> "PAID", amount |-> amount, gateway |-> FALSE]]
  /\ UNCHANGED <<refunds, charged, overwritten, cash, wallet, job>>

\* The payment that completes the invoice is added to the balance of the customer.
RecordPayment(amount) ==
  /\ ~invoice.removed /\ amount <= Room
  /\ Book(amount)
  /\ cash' = cash + amount
  /\ wallet' = IF amount = Room THEN wallet + amount ELSE wallet
  /\ UNCHANGED <<books, job>>

Send ==
  /\ invoice' = [invoice EXCEPT !.status = "SENT"]
  /\ UNCHANGED <<books, cash, wallet, job>>

\* A customer may remove an unpaid invoice: checked on a copy, deleted later.
RemoveCheck(r) ==
  /\ job[r].at = "idle" /\ ~invoice.removed
  /\ invoice.paid = 0 /\ invoice.status \in {"DRAFT", "SENT"}
  /\ Goes(r, [at |-> "remove"])
  /\ UNCHANGED <<invoice, books, cash, wallet>>

Remove(r) ==
  /\ job[r].at = "remove"
  /\ invoice' = [invoice EXCEPT !.removed = TRUE]
  /\ Goes(r, Idle)
  /\ UNCHANGED <<books, cash, wallet>>

AdminRemoves ==
  /\ ~invoice.removed
  /\ invoice' = [invoice EXCEPT !.removed = TRUE]
  /\ UNCHANGED <<books, cash, wallet, job>>

----------------------------------------------------------------------------
(* requestRefund: the key is looked up before the payment is locked.          *)

RefundAmount == [f \in RefundRows |-> f.amount]
RefundsOf(p) == {f \in refunds : f.payment = p}
Refunded(p)  == SumFunctionOnSet(RefundAmount, RefundsOf(p))

RefundLook(r, refund) ==
  /\ job[r].at = "idle"
  /\ ~\E f \in refunds : f.payment = refund.payment /\ f.key = refund.key
  /\ Goes(r, [at |-> "refund", refund |-> refund])
  /\ UNCHANGED <<invoice, books, cash, wallet>>

FitsPayment(refund) == refund.amount <= payment[refund.payment].amount  \* mutant: without the earlier ones
FitsRest(refund) == Refunded(refund.payment) + refund.amount <= payment[refund.payment].amount

\* The unique index refuses a second row of a key.
RefundWrite(r) ==
  /\ job[r].at = "refund"
  /\ LET new == job[r].refund IN
     refunds' = IF /\ payment[new.payment].status = "PAID" /\ FitsRest(new)
                   /\ ~\E f \in refunds : f.payment = new.payment /\ f.key = new.key
                THEN refunds \cup {new}
                ELSE refunds
  /\ Goes(r, Idle)
  /\ UNCHANGED <<invoice, payment, charged, overwritten, cash, wallet>>

----------------------------------------------------------------------------
InvoiceNext ==
  \/ \E r \in Requests :
       \/ StartRead(r) \/ Answer(r) \/ RecordFailure(r) \/ Capture(r)
       \/ RemoveCheck(r) \/ Remove(r) \/ RefundWrite(r)
       \/ \E p \in Payments : OpenSession(r, p) \/ ReturnOK(r, p)
       \/ \E refund \in RefundRows : RefundLook(r, refund)
  \/ \E p \in Payments :
       \/ PayAtGateway(p) \/ ReturnRefused(p)
       \/ \E amount \in 1..Total : RecordManual(p, amount)
  \/ \E amount \in 1..Total : RecordPayment(amount)
  \/ Send \/ AdminRemoves

InvoiceSpec == InvoiceInit /\ [][InvoiceNext]_vars

\* A handler that was started is served to its end.
FairInvoiceSpec ==
  InvoiceSpec /\ \A r \in Requests : WF_vars(Answer(r) \/ RecordFailure(r) \/ Capture(r))

----------------------------------------------------------------------------
(* Properties.                                                              *)

PaidRows == {p \in Payments : payment[p].status = "PAID"}
Amounts  == [p \in Payments |-> payment[p].amount]
PaidSum  == SumFunctionOnSet(Amounts, PaidRows)

(* The invoice shows as paid what its payments and the amounts entered by      *)
(* administrators add up to, and beside them only amounts it booked for rows   *)
(* that a late failure then overwrote (payment.service.ts:994).  Such a row     *)
(* filled the invoice, so that no repeated callback books it again; nothing     *)
(* else that is repeated or overlaps books twice or not at all (capture,       *)
(* recordManual and recordPayment each lock the invoice).                     *)
BooksAgree ==
  ~invoice.removed =>
    /\ invoice.paid = cash + PaidSum + overwritten
    /\ overwritten > 0 => invoice.paid = Total

(* Refunds of a payment never exceed it, although requests with different keys *)
(* run at once.                                                               *)
RefundsCovered ==
  \A p \in Payments : Refunded(p) <= payment[p].amount

(* What takes a captured payment out of PAID is only a verification that       *)
(* failed and is recorded after another one captured (994); no soft            *)
(* cancellation, other callback, refund or removal does, and a payment entered *)
(* by an administrator stays.                                                *)
OnlyLateFailures ==
  [][\A p \in Payments :
       payment[p].status = "PAID" /\ payment'[p].status # "PAID" =>
         /\ payment[p].gateway /\ payment'[p].status = "FAILED"
         /\ \E r \in Requests : job[r] = [at |-> "fail", payment |-> p]]_vars

(* The inductive invariant behind them, with what the rows of a session, an     *)
(* open one and a manual one look like; what was refunded is recorded as paid,  *)
(* unless a late failure overwrote a row.                                     *)
InvoiceIInv ==
  /\ InvoiceTypeOK
  /\ \A f \in refunds : payment[f.payment].status # "NONE"
  /\ overwritten = 0 /\ ~invoice.removed => \A f \in refunds : payment[f.payment].status = "PAID"
  /\ \A f, g \in refunds : f.payment = g.payment /\ f.key = g.key => f = g
  /\ \A p \in charged : payment[p].gateway
  /\ \A p \in Payments : payment[p].gateway => payment[p].status # "NONE" /\ payment[p].amount > 0
  /\ \A p \in Payments : payment[p].status \in {"PENDING", "FAILED", "CANCELLED"} => payment[p].gateway
  /\ \A p \in PaidRows : payment[p].gateway => p \in charged
  /\ cash <= invoice.paid
  /\ wallet > 0 => invoice.paid = Total
  /\ \A r \in Requests :
       /\ job[r].at \in {"verify", "capture", "fail"} => payment[job[r].payment].gateway
       /\ job[r].at = "capture" => job[r].payment \in charged

(* A callback that brings a paid session gets it booked, also after a soft     *)
(* cancellation, unless other money took the room.                            *)
ReturnedGetsBooked ==
  \A p \in Payments :
    (\E r \in Requests : job[r].at = "verify" /\ job[r].payment = p) /\ p \in charged
      ~> payment[p].status = "PAID" \/ payment[p].amount > Room
=============================================================================
