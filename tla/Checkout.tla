------------------------------ MODULE Checkout ------------------------------
(***************************************************************************)
(* The payment service (payment.service.ts) beside the order service: the  *)
(* customer's requests that open a gateway session, the gateway, the        *)
(* callback that verifies and captures, and manual payments.  Every        *)
(* transaction, every statement outside one and every call to the gateway  *)
(* is a step; the requests of OrderEffects run in between.                 *)
(*                                                                         *)
(* A payment row has at most one session: attempts are numbered            *)
(* attemptCount + 1, a row with an authority is reused, and a row without  *)
(* one still has attemptCount 0, so the only attempt number is 1.          *)
(***************************************************************************)
EXTENDS OrderEffects

CONSTANTS
  Clients,      \* requests of customers that are served at the same time
  Gateways,     \* providers a customer may choose
  AddressSent,  \* whether starts carry a shipping address to store first
  Reliable,     \* the gateway answers, and says OK only to those who paid
  ClientsCrash, \* whether the process may die while it serves a customer
  ManualAllowed \* whether administrators record manual payments

ASSUME CheckoutAssumption ==
  /\ AddressSent \in BOOLEAN /\ Reliable \in BOOLEAN
  /\ ClientsCrash \in BOOLEAN /\ ManualAllowed \in BOOLEAN
  /\ "MANUAL" \notin Gateways
  /\ Orders # {}
  /\ 0 \notin Payments
  \* The gateway side of OrderEffects is on: this module is its detail.
  /\ GatewayActive
  \* Purge detaches payment rows from their order, which is not modelled here.
  /\ \A t \in Tasks : t.op # "purge"

VARIABLES
  client,     \* program point and local values of each customer request
  attempts,   \* rows of payment_attempts: the payments that have attempt 1
  gatewayOf,  \* gateway column of each payment row
  psp,        \* the gateway's side of the session of each payment
  sessions,   \* sessions ever opened for each payment (history)
  ledger      \* CAPTURE and MANUAL_PAYMENT rows of each payment

pspVars == <<psp, sessions>>
payVars == <<client, attempts, gatewayOf, psp, sessions, ledger>>
vars    == <<orderVars, payVars>>

\* Ledger rows are counted up to MaxBooked, enough to see a payment booked twice.
MaxBooked == 2

PspStates == {"none", "opened", "given", "paid"}

\* Places where a request waits between two steps.
Places == {"idle", "address", "look", "pending", "insert", "switch", "attempt", "open",
           "save", "fail", "cancel", "verify", "reject", "capture", "reapply"}

\* A request before the payment row is known: its payment is NoId.
NoId == 0
NoClient == [at |-> "idle", order |-> CHOOSE o \in Orders : TRUE,
             gateway |-> "MANUAL", id |-> NoId, authority |-> FALSE, row |-> NoRow]

CheckoutTypeOK ==
  /\ OrderTypeOK
  /\ client \in [Clients -> [at : Places, order : Orders,
                             gateway : Gateways \cup {"MANUAL"},
                             id : Payments \cup {NoId}, authority : BOOLEAN,
                             row : Row]]
  /\ attempts \subseteq Payments
  /\ gatewayOf \in [Payments -> Gateways \cup {"MANUAL"}]
  /\ psp \in [Payments -> PspStates]
  /\ sessions \in [Payments -> Nat]
  /\ ledger \in [Payments -> 0..MaxBooked]

CheckoutInit ==
  /\ OrderInit
  /\ client = [c \in Clients |-> NoClient]
  /\ attempts = {}
  /\ gatewayOf = [p \in Payments |-> "MANUAL"]
  /\ psp = [p \in Payments |-> "none"]
  /\ sessions = [p \in Payments |-> 0]
  /\ ledger = [p \in Payments |-> 0]

----------------------------------------------------------------------------
(* Helpers.                                                                 *)

At(c, place)   == client[c].at = place
Move(c, place) == client' = [client EXCEPT ![c].at = place]
Leave(c)       == client' = [client EXCEPT ![c] = NoClient]

RowsIn(o, status) == {p \in PaymentsOf(o) : payment[p].status = status}
IsLatest(p, rows) == p \in rows /\ \A q \in rows : q <= p

\* Ids grow in the order rows are created, as createdAt does.
FreshId(p) == /\ payment[p].status = "NONE"
              /\ \A q \in PaymentsOf(OrderOf[p]) :
                    payment[q].status = "NONE" => p <= q

\* The ledger row of a booking.
Book(p) == ledger' = [ledger EXCEPT ![p] = IF @ < MaxBooked THEN @ + 1 ELSE @]

NewPayment == [status |-> "PENDING", authority |-> FALSE]

\* pg_advisory_xact_lock on the order: held while a start is between its reads
\* and its write.
NeverLocked(o) == FALSE  \* mutant: starts are not serialized
StartLocked(o) == \E c \in Clients : client[c].at \in {"pending", "insert", "switch"}
                                  /\ client[c].order = o

----------------------------------------------------------------------------
(* start                                                                    *)

Start(c) ==
  /\ At(c, "idle")
  /\ \E o \in Orders, g \in Gateways :
       /\ IsOrderPayable(order[o].status)
       /\ client' = [client EXCEPT ![c] =
            [at |-> IF AddressSent THEN "address" ELSE "look",
             order |-> o, gateway |-> g, id |-> NoId, authority |-> FALSE,
             row |-> order[o]]]
  /\ UNCHANGED <<orderVars, attempts, gatewayOf, pspVars, ledger>>

(* The whole order row read at the beginning is saved with the new address;  *)
(* its items were not loaded and stay.                                       *)
SaveAddress(c) ==
  LET o == client[c].order IN
  /\ At(c, "address")
  /\ order' = [order EXCEPT ![o] = [client[c].row EXCEPT !.qty = order[o].qty]]
  /\ Move(c, "look")
  /\ UNCHANGED <<stock, money, payment, creating, commits, captured, reqVars,
                 attempts, gatewayOf, pspVars, ledger>>

LookForPaid(c) ==
  LET o == client[c].order IN
  /\ At(c, "look")
  /\ ~StartLocked(o)
  /\ \/ /\ RowsIn(o, "PAID") = {}
        /\ Move(c, "pending")
     \/ \E p \in Payments :
          /\ IsLatest(p, RowsIn(o, "PAID"))
          /\ client' = [client EXCEPT ![c].at = "reapply", ![c].id = p]
  /\ UNCHANGED <<orderVars, attempts, gatewayOf, pspVars, ledger>>

InsertPayment(c, p, table) ==
  /\ OrderOf[p] = client[c].order
  /\ FreshId(p)
  /\ payment' = [table EXCEPT ![p] = NewPayment]
  /\ gatewayOf' = [gatewayOf EXCEPT ![p] = client[c].gateway]
  /\ client' = [client EXCEPT ![c].at = "attempt", ![c].id = p]
  /\ UNCHANGED <<order, stock, money, creating, commits, captured, reqVars,
                 attempts, pspVars, ledger>>

(* The latest PENDING row of the order decides.                             *)
LookForPending(c) ==
  LET rows    == RowsIn(client[c].order, "PENDING")
      other(p) == gatewayOf[p] # client[c].gateway
  IN
  /\ At(c, "pending")
  /\ \/ rows = {} /\ Move(c, "insert")
     \/ \E last \in Payments :
          /\ IsLatest(last, rows)
          /\ \/ /\ other(last)
                /\ client' = [client EXCEPT ![c].at = "switch", ![c].id = last,
                                            ![c].authority = payment[last].authority]
             \/ ~other(last) /\ payment[last].authority /\ Leave(c)
             \/ /\ ~other(last) /\ ~payment[last].authority
                /\ client' = [client EXCEPT ![c].at = "attempt", ![c].id = last]
  /\ UNCHANGED <<orderVars, attempts, gatewayOf, pspVars, ledger>>

InsertFirst(c) ==
  /\ At(c, "insert")
  /\ \E p \in Payments : InsertPayment(c, p, payment)

(* Another gateway: the row just read is saved as CANCELLED, whatever        *)
(* happened to it since, and a new one is inserted in the same transaction.  *)
SwitchGateway(c) ==
  /\ At(c, "switch")
  /\ \E p \in Payments :
       InsertPayment(c, p, [payment EXCEPT ![client[c].id] =
                   [status |-> "CANCELLED", authority |-> client[c].authority]])

AttemptsUnlimited(p) == TRUE  \* mutant: no unique index on attempts
MayAttempt(p) == p \notin attempts

(* The unique index on (paymentId, attemptNo) refuses a second attempt 1.   *)
InsertAttempt(c) ==
  LET p == client[c].id IN
  /\ At(c, "attempt")
  /\ \/ MayAttempt(p) /\ attempts' = attempts \cup {p} /\ Move(c, "open")
     \/ ~MayAttempt(p) /\ Leave(c) /\ UNCHANGED attempts
  /\ UNCHANGED <<orderVars, gatewayOf, pspVars, ledger>>

(* adapter.createPayment: the provider opens a session, or refuses.  The     *)
(* HTTP retries inside the adapter belong to this step: of the sessions they *)
(* may open, the service learns the authority of the last one only.         *)
OpenSession(c) ==
  LET p == client[c].id IN
  /\ At(c, "open")
  /\ \/ /\ psp' = [psp EXCEPT ![p] = "opened"]
        /\ sessions' = [sessions EXCEPT ![p] = @ + 1]
        /\ Move(c, "save")
     \/ Move(c, "fail") /\ UNCHANGED pspVars
  /\ UNCHANGED <<orderVars, attempts, gatewayOf, ledger>>

SessionNotStored == NewPayment  \* mutant: forgets the authority
SessionRow       == [status |-> "PENDING", authority |-> TRUE]

(* The copy of the payment row made under the lock is saved with the new    *)
(* authority, and the customer is sent to the gateway.                      *)
SaveSession(c) ==
  LET p == client[c].id IN
  /\ At(c, "save")
  /\ payment' = [payment EXCEPT ![p] = SessionRow]
  /\ psp' = [psp EXCEPT ![p] = "given"]
  /\ Leave(c)
  /\ UNCHANGED <<order, stock, money, creating, commits, captured, reqVars,
                 attempts, gatewayOf, sessions, ledger>>

FailedUnmarked == NewPayment  \* mutant: the row stays PENDING
FailedRow      == [status |-> "FAILED", authority |-> FALSE]

FailStart(c) ==
  LET p == client[c].id IN
  /\ At(c, "fail")
  /\ payment' = [payment EXCEPT ![p] = FailedRow]
  /\ Leave(c)
  /\ UNCHANGED <<order, stock, money, creating, commits, captured, reqVars,
                 attempts, gatewayOf, pspVars, ledger>>

----------------------------------------------------------------------------
(* The gateway and verify                                                   *)

PayAtGateway(p) ==
  /\ psp[p] = "given"
  /\ psp' = [psp EXCEPT ![p] = "paid"]
  /\ UNCHANGED <<orderVars, client, attempts, gatewayOf, sessions, ledger>>

BookedWhenFinal(status) == status \in {"PAID", "CANCELLED"}  \* mutant: any final status
AlreadyBooked(status)   == status = "PAID"

(* The customer comes back, as often as the browser reloads the page.  A     *)
(* return without a status counts as OK.  The first read of the row decides  *)
(* which way verify goes.  Customers return by the link the gateway gave     *)
(* them: the code itself asks for no more than the id of the payment, so a   *)
(* refusal before the session is stored would cancel the row; left out.      *)
Return(c, p) ==
  LET goTo(place) == client' = [client EXCEPT ![c].at = place, ![c].id = p,
                                              ![c].order = OrderOf[p]]
      saysOk  == psp[p] = "paid" \/ ~Reliable
      preview == payment[p]
  IN
  /\ At(c, "idle")
  /\ psp[p] \in {"given", "paid"}
  /\ \/ AlreadyBooked(preview.status) /\ goTo("reapply")
     \/ preview.status \in {"PENDING", "FAILED"} /\ goTo("cancel")
     \/ preview.status # "PAID" /\ preview.authority /\ saysOk /\ goTo("verify")
  /\ UNCHANGED <<orderVars, attempts, gatewayOf, pspVars, ledger>>

CancellableUnlocked == {"PENDING", "FAILED", "PAID"}  \* mutant: no check under the lock
SoftCancellable     == {"PENDING", "FAILED"}

(* Status NOK: cancel softly, under the row lock.                           *)
CancelSoftly(c) ==
  LET p == client[c].id IN
  /\ At(c, "cancel")
  /\ payment' = IF payment[p].status \in SoftCancellable
                THEN [payment EXCEPT ![p].status = "CANCELLED"] ELSE payment
  /\ Leave(c)
  /\ UNCHANGED <<order, stock, money, creating, commits, captured, reqVars,
                 attempts, gatewayOf, pspVars, ledger>>

ConfirmsSession(p) == psp[p] \in {"given", "paid"}  \* mutant: an open session is enough
Confirms(p)        == psp[p] = "paid"

(* adapter.verifyReturn, outside any transaction.  A time-out is a failure.  *)
VerifyReturn(c) ==
  /\ At(c, "verify")
  /\ \/ Confirms(client[c].id) /\ Move(c, "capture")
     \/ ~(Confirms(client[c].id) /\ Reliable) /\ Move(c, "reject")
  /\ UNCHANGED <<orderVars, attempts, gatewayOf, pspVars, ledger>>

(* A failed verification is written without looking at the row.             *)
RejectPayment(c) ==
  /\ At(c, "reject")
  /\ payment' = [payment EXCEPT ![client[c].id].status = "FAILED"]
  /\ Leave(c)
  /\ UNCHANGED <<order, stock, money, creating, commits, captured, reqVars,
                 attempts, gatewayOf, pspVars, ledger>>

CanApply(o) == IgnoresCapture(order[o]) \/ CanSettle(order[o])

CapturableNotCancelled == {"PENDING", "FAILED"}  \* mutant: soft cancels are final
Capturable             == {"PENDING", "FAILED", "CANCELLED"}

(* PAID row, ledger row and settlement of the order, in one transaction.    *)
BookCapture(p) ==
  /\ payment' = [payment EXCEPT ![p].status = "PAID"]
  /\ captured' = captured \cup {p}
  /\ Book(p)
  /\ ApplyCapturedPayment(OrderOf[p])
  /\ UNCHANGED <<money, creating, reqVars>>

(* Under the lock of the row; too little stock undoes the transaction.      *)
CapturePayment(c) ==
  LET p == client[c].id IN
  /\ At(c, "capture")
  /\ \/ /\ payment[p].status = "PAID"
        /\ Move(c, "reapply")
        /\ UNCHANGED <<orderVars, ledger>>
     \/ payment[p].status \in Capturable /\ BookCapture(p) /\ Leave(c)
     \/ /\ payment[p].status # "PAID"
        /\ payment[p].status \notin Capturable \/ ~CanApply(OrderOf[p])
        /\ Leave(c)
        /\ UNCHANGED <<orderVars, ledger>>
  /\ UNCHANGED <<attempts, gatewayOf, pspVars>>

(* retryApplyCapturedPayment, also at the end of a start that found a PAID   *)
(* row: the order is treated as by a capture, errors are swallowed.          *)
RetryApply(c) ==
  LET o == client[c].order IN
  /\ At(c, "reapply")
  /\ \/ CanApply(o) /\ ApplyCapturedPayment(o)
     \/ ~CanApply(o) /\ UNCHANGED <<order, stock, commits>>
  /\ Leave(c)
  /\ UNCHANGED <<money, payment, creating, captured, reqVars,
                 attempts, gatewayOf, pspVars, ledger>>

(* recordManual: a PAID row, its ledger row and the order in one transaction. *)
RecordManual(p) ==
  /\ ManualAllowed
  /\ FreshId(p)
  /\ BookCapture(p)
  /\ UNCHANGED <<client, attempts, gatewayOf, pspVars>>

CrashClient(c) ==
  /\ ClientsCrash
  /\ ~At(c, "idle")
  /\ Leave(c)
  /\ UNCHANGED <<orderVars, attempts, gatewayOf, pspVars, ledger>>

Serve(c) ==
  \/ SaveAddress(c) \/ LookForPaid(c) \/ LookForPending(c) \/ InsertFirst(c)
  \/ SwitchGateway(c) \/ InsertAttempt(c) \/ OpenSession(c) \/ SaveSession(c) \/ FailStart(c)
  \/ CancelSoftly(c) \/ VerifyReturn(c) \/ RejectPayment(c) \/ CapturePayment(c)
  \/ RetryApply(c)

PaymentNext ==
  \/ \E c \in Clients : Start(c) \/ Serve(c) \/ CrashClient(c)
  \/ \E c \in Clients, p \in Payments : Return(c, p)
  \/ \E p \in Payments : PayAtGateway(p) \/ RecordManual(p)

CheckoutNext == PaymentNext \/ (AdminNext /\ UNCHANGED payVars)

CheckoutSpec == CheckoutInit /\ [][CheckoutNext]_vars

(* A handler that has started runs to its end, a customer's as well as an     *)
(* administrator's: the event loop and the database serve every statement.    *)
CheckoutFairness ==
  /\ \A c \in Clients : WF_vars(Serve(c))
  /\ \A r \in Requests : WF_vars(Step(r) /\ UNCHANGED payVars)

FairCheckoutSpec == CheckoutSpec /\ CheckoutFairness

----------------------------------------------------------------------------
(* Properties.                                                              *)

(* Whatever starts overlap, time out or crash, the service never obtains two *)
(* sessions for one payment row: the later save would overwrite the first    *)
(* authority, whose session could be paid without ever being verified.       *)
OneSessionPerPayment == \A p \in Payments : sessions[p] <= 1

(* Two starts of one order on one gateway never leave two PENDING rows, so   *)
(* the customer holds one session to pay ("Serialize starts per order").     *)
OnePendingPerOrder ==
  \A p, q \in Payments :
     payment[p].status = "PENDING" /\ payment[q].status = "PENDING"
       /\ OrderOf[p] = OrderOf[q] => p = q

(* Money is only booked that the gateway confirmed or an administrator       *)
(* entered by hand, whatever the callbacks say.                              *)
CapturedWasPaid ==
  \A p \in Payments : ledger[p] > 0 => psp[p] = "paid" \/ gatewayOf[p] = "MANUAL"

(* The ledger books a payment once, however many callbacks race.             *)
BookedOnce == \A p \in Payments : ledger[p] <= 1

(* PAID is final for a payment: with one gateway that answers, no refused or  *)
(* repeated callback and no other start takes it back.                       *)
PaidIsFinal ==
  [][\A p \in Payments : payment[p].status = "PAID" => payment'[p].status = "PAID"]_vars

(* A start that failed leaves room for another one: a row that still waits   *)
(* for its session has a request working on it, or no attempt yet.           *)
NoStuckStart ==
  \A p \in attempts :
     payment[p] = NewPayment =>
       \E c \in Clients : client[c].id = p /\ client[c].at \in {"open", "save", "fail"}

(* Who has paid at the gateway can have it verified: the row keeps the        *)
(* authority of the session, however callbacks cancelled it ("Soft-cancelled *)
(* locally must not permanently block a successful PSP verify.").  A gateway  *)
(* switch or a cancellation of the order beside the start can lose it.        *)
PaidCanBeVerified ==
  \A p \in Payments : psp[p] = "paid" => payment[p].authority

(* An online order only moves on towards the customer for money that was     *)
(* booked, whatever failed callbacks, stale saves and administrators do       *)
(* ("not submitted for ops review until a payment is captured").             *)
MoneyBooked(o) == \E p \in PaymentsOf(o) : ledger[p] > 0
Advanced == Statuses \ {"AWAITING_PAYMENT", "CANCELLED", "DELETED"}
Justified(o, row) == row.status \in Advanced /\ MethodOf[o] = "ONLINE" => MoneyBooked(o)

OnlineNeedsMoney == \A o \in Orders : Justified(o, order[o])

(* The inductive invariant of the payment rows.  A request that talks to the *)
(* gateway owns the only attempt of its payment; whoever captures has seen   *)
(* the money; a row that does not exist yet has no session and no booking.   *)
Choosing == {"idle", "address", "look", "pending", "insert"}
Talking  == {"open", "save", "fail"}

PlacesOK ==
  /\ \A c \in Clients : client[c].at \notin Choosing
                           => client[c].id \in PaymentsOf(client[c].order)
  /\ \A c \in Clients : At(c, "address") => AddressSent
AttemptsOwned ==
  \A c, d \in Clients :
     /\ client[c].at \in Talking => client[c].id \in attempts
     /\ client[c].at \in Talking /\ client[d].at \in Talking
          /\ client[c].id = client[d].id => c = d
SessionsKnown ==
  /\ \A p \in Payments \ attempts : psp[p] = "none"
  /\ \A p \in Payments : psp[p] = "none" <=> sessions[p] = 0
  /\ \A c \in Clients : /\ At(c, "open") => psp[client[c].id] = "none"
                        /\ At(c, "save") => psp[client[c].id] = "opened"
MoneySeen ==
  \A c \in Clients :
     /\ At(c, "capture") => psp[client[c].id] = "paid"
     /\ At(c, "reapply") => client[c].id \in captured
CapturesBooked ==
  \A p \in Payments :
     /\ payment[p].status = "PAID" => p \in captured
     /\ p \in captured <=> ledger[p] > 0
     /\ payment[p].status = "NONE" => ledger[p] = 0 /\ gatewayOf[p] = "MANUAL"

CheckoutIInv ==
  /\ CheckoutTypeOK
  /\ PlacesOK /\ AttemptsOwned /\ SessionsKnown /\ MoneySeen /\ CapturesBooked
  /\ OneSessionPerPayment /\ CapturedWasPaid

(* The inductive invariants behind the four properties of the payment rows    *)
(* above.  A row is written from a copy read earlier in three places: a start *)
(* saves its session, a switch of gateways cancels the last row, a reversal   *)
(* of the order cancels the PENDING ones.  With one gateway and no reversals   *)
(* (OneGateway, NoReversals) only the first remains, and a row whose session   *)
(* is being opened is still as it was inserted: callbacks need a session.     *)
OneGateway  == \A g, h \in Gateways : g = h
NoReversals == \A t \in Tasks : t.op # "void" /\ (t.op = "status" => t.to # "CANCELLED")

NoReversalPoints ==
  \A r \in Requests : /\ pc[r] \notin {"check", "void", "purge"} \cup ReversalPoints
                      /\ pc[r] = "status" => task[r].to # "CANCELLED"

RowsExist ==
  /\ \A p \in attempts : payment[p].status # "NONE"
  /\ \A c \in Clients : client[c].at \notin Choosing => payment[client[c].id].status # "NONE"

StuckIInv == CheckoutIInv /\ RowsExist /\ NoStuckStart

Locking    == {"pending", "insert", "switch"}
Selecting  == {"address", "look", "pending", "insert"}
Returning  == {"cancel", "verify", "reject", "capture"}

GatewaysKnown ==
  /\ \A c \in Clients : client[c].at \in Selecting => client[c].gateway \in Gateways
  /\ \A c \in Clients : At(c, "attempt") => gatewayOf[client[c].id] # "MANUAL"
  /\ \A p \in attempts : gatewayOf[p] # "MANUAL"
  /\ \A p \in Payments : gatewayOf[p] = "MANUAL" => payment[p].status \in {"NONE", "PAID"}
StartsLocked ==
  /\ \A c, d \in Clients : client[c].at \in Locking /\ client[d].at \in Locking
                             /\ client[c].order = client[d].order => c = d
  /\ \A c \in Clients : At(c, "insert") => RowsIn(client[c].order, "PENDING") = {}
  /\ \A c \in Clients : ~At(c, "switch")
RowsAsInserted ==
  /\ \A c \in Clients : client[c].at \in Talking => payment[client[c].id] = NewPayment
  /\ \A p \in Payments \ attempts : payment[p].status \notin {"NONE", "PAID"}
                                        => payment[p] = NewPayment
SessionsStored ==
  /\ \A p \in Payments : psp[p] \in {"given", "paid"} => payment[p].authority
  /\ \A c \in Clients : client[c].at \in Returning => psp[client[c].id] \in {"given", "paid"}
  /\ \A c \in Clients : At(c, "fail") => psp[client[c].id] = "none"

SoloIInv ==
  /\ CheckoutIInv
  /\ NoReversalPoints /\ RowsExist /\ GatewaysKnown
  /\ StartsLocked /\ RowsAsInserted /\ SessionsStored
  /\ OnePendingPerOrder

\* With a gateway that answers and does not lie, nobody rejects what was paid.
VerifiesPaid == \A c \in Clients : ~At(c, "reject") /\ (At(c, "verify") => psp[client[c].id] = "paid")
CapturedIsPaid == \A p \in captured : payment[p].status = "PAID"

FinalIInv == SoloIInv /\ VerifiesPaid /\ CapturedIsPaid /\ BookedOnce

(* With it, the inductive invariant behind OnlineNeedsMoney: rows that are    *)
(* held by requests are as justified as the rows of the table, and requests   *)
(* only write statuses that follow from the row they have seen.              *)
RowsHeldJustified ==
  /\ \A r \in Requests : Justified(task[r].order, snap[r])
  /\ \A c \in Clients : At(c, "address") => Justified(client[c].order, client[c].row)
MovesChecked ==
  \A r \in Requests :
     /\ pc[r] \in {"status", "track"} => snap[r].status # "GONE"
     /\ pc[r] = "status" => CanTransition(snap[r].status, task[r].to)
     /\ pc[r] = "track"  => CanTransition(snap[r].status, "SHIPPED")
FreeOnes == \A o \in creating : MethodOf[o] = "FREE"

MoneyIInv ==
  /\ CheckoutIInv
  /\ OnlineNeedsMoney /\ RowsHeldJustified /\ MovesChecked /\ FreeOnes

(* Liveness: a customer who paid and whose callback reached the gateway's     *)
(* verification gets the payment booked, unless the goods are sold out.       *)
PaidGetsBooked ==
  \A c \in Clients, p \in Payments :
     (At(c, "verify") /\ client[c].id = p /\ psp[p] = "paid")
        ~> (ledger[p] > 0 \/ ~CanApply(OrderOf[p]))
=============================================================================
