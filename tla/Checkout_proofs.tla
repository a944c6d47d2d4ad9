--------------------------- MODULE Checkout_proofs ---------------------------
(***************************************************************************)
(* Proofs about Checkout: every step of the payment service is a step of   *)
(* OrderEffects, the inductive invariant of the payment rows, and that no  *)
(* online order moves on without booked money.                             *)
(***************************************************************************)
EXTENDS Checkout, OrderEffects_proofs

----------------------------------------------------------------------------
(* The refinement: what a step does to the variables of OrderEffects.       *)

\* A write to payment rows that makes none of them PAID.
RowsRewritten ==
  /\ payment' \in [Payments -> PaymentRow]
  /\ \A p \in Payments : payment'[p] = payment[p]
                         \/ payment'[p].status \notin {"NONE", "PAID"}

LEMMA RowTypes ==
  /\ NewPayment \in PaymentRow /\ SessionRow \in PaymentRow /\ FailedRow \in PaymentRow
  /\ \A a \in BOOLEAN : [status |-> "CANCELLED", authority |-> a] \in PaymentRow
BY DEF NewPayment, SessionRow, FailedRow, PaymentRow, PaymentStatuses

LEMMA InsertRewrites ==
  ASSUME CheckoutTypeOK, NEW c \in Clients, NEW p \in Payments, NEW table,
         table \in [Payments -> PaymentRow],
         \A q \in Payments : table[q] = payment[q] \/ table[q].status \notin {"NONE", "PAID"},
         InsertPayment(c, p, table)
  PROVE  RowsRewritten
<1>1. payment' = [table EXCEPT ![p] = NewPayment]
  BY DEF InsertPayment
<1>2. NewPayment.status \notin {"NONE", "PAID"}
  BY DEF NewPayment
<1> QED
  BY <1>1, <1>2, RowTypes DEF RowsRewritten

LEMMA ClientActionsRewrite ==
  ASSUME CheckoutTypeOK, NEW c \in Clients,
         \/ InsertFirst(c) \/ SwitchGateway(c) \/ SaveSession(c) \/ FailStart(c)
         \/ CancelSoftly(c) \/ RejectPayment(c)
  PROVE  /\ RowsRewritten
         /\ UNCHANGED <<order, stock, money, creating, commits, captured, reqVars>>
<1>1. payment \in [Payments -> PaymentRow] /\ client[c].authority \in BOOLEAN
  BY DEF CheckoutTypeOK, OrderTypeOK, TablesOK
<1>2. UNCHANGED <<order, stock, money, creating, commits, captured, reqVars>>
  BY DEF InsertFirst, SwitchGateway, InsertPayment, SaveSession, FailStart,
         CancelSoftly, RejectPayment
<1>3. CASE InsertFirst(c)
  BY <1>1, <1>2, <1>3, InsertRewrites DEF InsertFirst
<1>4. CASE SwitchGateway(c)
  <2> DEFINE row   == [status |-> "CANCELLED", authority |-> client[c].authority]
             table == [payment EXCEPT ![client[c].id] = row]
  <2>1. row \in PaymentRow /\ row.status = "CANCELLED"
    BY <1>1, RowTypes
  <2>2. table \in [Payments -> PaymentRow]
        /\ \A q \in Payments : table[q] = payment[q] \/ table[q].status \notin {"NONE", "PAID"}
    BY <1>1, <2>1
  <2>3. PICK p \in Payments : InsertPayment(c, p, table)
    BY <1>4 DEF SwitchGateway
  <2> HIDE DEF table
  <2> QED
    BY <1>2, <2>2, <2>3, InsertRewrites
<1>5. CASE SaveSession(c) \/ FailStart(c)
  <2>1. SessionRow.status = "PENDING" /\ FailedRow.status = "FAILED"
    BY DEF SessionRow, FailedRow
  <2> QED
    BY <1>1, <1>2, <1>5, <2>1, RowTypes DEF SaveSession, FailStart, RowsRewritten
<1>6. CASE CancelSoftly(c) \/ RejectPayment(c)
  <2>1. \/ payment' = payment
        \/ payment' = [payment EXCEPT ![client[c].id].status = "CANCELLED"]
        \/ payment' = [payment EXCEPT ![client[c].id].status = "FAILED"]
    BY <1>6 DEF CancelSoftly, RejectPayment
  <2> QED
    BY <1>1, <1>2, <2>1 DEF RowsRewritten, PaymentRow, PaymentStatuses
<1> QED
  BY <1>3, <1>4, <1>5, <1>6

LEMMA BookRefines ==
  ASSUME CheckoutTypeOK, NEW p \in Payments, BookCapture(p), payment[p].status # "PAID"
  PROVE  Capture(p)
BY DEF BookCapture, Capture

\* Steps that leave every variable of OrderEffects alone.
Silent(c) ==
  \/ Start(c) \/ LookForPaid(c) \/ LookForPending(c) \/ InsertAttempt(c)
  \/ OpenSession(c) \/ VerifyReturn(c) \/ CrashClient(c)
  \/ \E p \in Payments : Return(c, p) \/ PayAtGateway(p)

LEMMA SilentIsSilent ==
  ASSUME NEW c \in Clients, Silent(c)
  PROVE  UNCHANGED orderVars
BY DEF Silent, Start, LookForPaid, LookForPending, InsertAttempt, OpenSession,
       VerifyReturn, CrashClient, Return, PayAtGateway

(* Every step but the save of an address is a step of OrderEffects, or       *)
(* leaves its variables unchanged.                                          *)
LEMMA StepRefines ==
  ASSUME CheckoutIInv, [CheckoutNext]_vars
  PROVE  [OrderNext]_orderVars \/ \E c \in Clients : SaveAddress(c)
<1>0. CheckoutTypeOK
  BY DEF CheckoutIInv
<1>1. ASSUME NEW c \in Clients,
             \/ InsertFirst(c) \/ SwitchGateway(c) \/ SaveSession(c) \/ FailStart(c)
             \/ CancelSoftly(c) \/ RejectPayment(c)
      PROVE  OrderNext
  <2>1. RowsRewritten
        /\ UNCHANGED <<order, stock, money, creating, commits, captured, reqVars>>
    BY <1>0, <1>1, ClientActionsRewrite
  <2>2. RewritePayments
    BY <2>1 DEF RewritePayments, RowsRewritten
  <2> QED
    BY <2>2, CheckoutAssumption DEF OrderNext, GatewayNext
<1>2. ASSUME NEW c \in Clients, CapturePayment(c) PROVE [OrderNext]_orderVars
  <2> DEFINE p == client[c].id
  <2>1. p \in Payments
    BY <1>2 DEF CheckoutIInv, PlacesOK, PaymentsOf, CapturePayment, At, Choosing
  <2>2. UNCHANGED orderVars \/ (payment[p].status \in Capturable /\ BookCapture(p))
    BY <1>2 DEF CapturePayment
  <2>3. ASSUME payment[p].status \in Capturable, BookCapture(p) PROVE OrderNext
    <3>1. Capture(p)
      BY <1>0, <2>1, <2>3, BookRefines DEF Capturable
    <3> QED
      BY <2>1, <3>1, CheckoutAssumption DEF OrderNext, GatewayNext
  <2> QED
    BY <2>2, <2>3
<1>3. ASSUME NEW c \in Clients, RetryApply(c) PROVE [OrderNext]_orderVars
  <2> DEFINE p == client[c].id
  <2>1. p \in Payments /\ p \in captured /\ OrderOf[p] = client[c].order
    BY <1>3 DEF CheckoutIInv, PlacesOK, PaymentsOf, MoneySeen, RetryApply, At, Choosing
  <2>2. UNCHANGED <<money, payment, creating, captured, reqVars>>
    BY <1>3 DEF RetryApply
  <2>3. CASE ApplyCapturedPayment(client[c].order)
    BY <2>1, <2>2, <2>3, CheckoutAssumption DEF OrderNext, GatewayNext, Reapply
  <2>4. CASE UNCHANGED <<order, stock, commits>>
    BY <2>2, <2>4 DEF orderVars, money, reqVars
  <2> QED
    BY <1>3, <2>3, <2>4 DEF RetryApply
<1>4. ASSUME NEW p \in Payments, RecordManual(p) PROVE OrderNext
  <2>1. payment[p].status # "PAID" /\ BookCapture(p)
    BY <1>4 DEF RecordManual, FreshId
  <2> QED
    BY <1>0, <2>1, BookRefines, CheckoutAssumption DEF OrderNext, GatewayNext
<1>5. ASSUME NEW c \in Clients, Silent(c) PROVE UNCHANGED orderVars
  BY <1>5, SilentIsSilent
<1>6. ASSUME NEW p \in Payments, PayAtGateway(p) PROVE UNCHANGED orderVars
  BY <1>6 DEF PayAtGateway
<1>7. CASE UNCHANGED vars
  BY <1>7 DEF vars
<1>8. CASE AdminNext
  BY <1>8 DEF OrderNext
<1>9. CASE PaymentNext
  BY <1>1, <1>2, <1>3, <1>4, <1>5, <1>6, <1>9 DEF PaymentNext, Serve, Silent
<1> QED
  BY <1>7, <1>8, <1>9 DEF CheckoutNext

----------------------------------------------------------------------------
(* Types of the payment service.                                            *)

LEMMA CheckoutInitType ==
  ASSUME CheckoutInit
  PROVE  CheckoutTypeOK
<1>1. OrderTypeOK
  BY InitTypeOK DEF CheckoutInit
<1>2. NoRow \in Row
  BY DEF NoRow, Row
<1>3. NoClient \in [at : Places, order : Orders, gateway : Gateways \cup {"MANUAL"},
                    id : Payments \cup {NoId}, authority : BOOLEAN, row : Row]
  BY <1>2, CheckoutAssumption DEF NoClient, Places
<1> QED
  BY <1>1, <1>3 DEF CheckoutInit, CheckoutTypeOK, PspStates, MaxBooked

\* The local values of a customer request.
ClientType == [at : Places, order : Orders, gateway : Gateways \cup {"MANUAL"},
               id : Payments \cup {NoId}, authority : BOOLEAN, row : Row]

LEMMA MoveType ==
  ASSUME CheckoutTypeOK, NEW c \in Clients, NEW place \in Places, Move(c, place)
  PROVE  client' \in [Clients -> ClientType]
BY DEF CheckoutTypeOK, Move, ClientType

LEMMA LeaveType ==
  ASSUME CheckoutTypeOK, NEW c \in Clients, Leave(c)
  PROVE  client' \in [Clients -> ClientType]
<1>1. NoRow \in Row
  BY DEF NoRow, Row
<1>2. NoClient \in ClientType
  BY <1>1, CheckoutAssumption DEF NoClient, Places, ClientType
<1> QED
  BY <1>2 DEF CheckoutTypeOK, Leave, ClientType

LEMMA SaveAddressType ==
  ASSUME OrderTypeOK, CheckoutTypeOK, NEW c \in Clients, SaveAddress(c)
  PROVE  OrderTypeOK'
<1> DEFINE o   == client[c].order
           row == [client[c].row EXCEPT !.qty = order[o].qty]
<1>1. o \in Orders /\ client[c].row \in Row /\ order[o].qty \in Nat
  BY DEF CheckoutTypeOK, OrderTypeOK, TablesOK, Row
<1>2. row \in Row
  BY <1>1 DEF Row
<1>3. order' \in [Orders -> Row]
  BY <1>1, <1>2 DEF SaveAddress, OrderTypeOK, TablesOK
<1>4. TablesOK'
  BY <1>3 DEF SaveAddress, OrderTypeOK, TablesOK, money
<1>5. RequestsOK'
  BY DEF SaveAddress, OrderTypeOK, RequestsOK, reqVars
<1> QED
  BY <1>4, <1>5 DEF OrderTypeOK

LEMMA ClientTypeNext ==
  ASSUME CheckoutTypeOK, PaymentNext
  PROVE  client' \in [Clients -> ClientType]
<1>0. /\ client \in [Clients -> ClientType]
      /\ order \in [Orders -> Row] /\ payment \in [Payments -> PaymentRow]
  BY DEF CheckoutTypeOK, ClientType, OrderTypeOK, TablesOK
<1>1. ASSUME NEW c \in Clients, Start(c) PROVE client' \in [Clients -> ClientType]
  <2>1. PICK o \in Orders, g \in Gateways : client' = [client EXCEPT ![c] =
            [at |-> IF AddressSent THEN "address" ELSE "look",
             order |-> o, gateway |-> g, id |-> NoId, authority |-> FALSE,
             row |-> order[o]]]
    BY <1>1 DEF Start
  <2> QED
    BY <1>0, <2>1 DEF ClientType, Places
<1>2. ASSUME NEW c \in Clients, LookForPaid(c) PROVE client' \in [Clients -> ClientType]
  <2>1. \/ Move(c, "pending")
        \/ \E p \in Payments :
             client' = [client EXCEPT ![c].at = "reapply", ![c].id = p]
    BY <1>2 DEF LookForPaid
  <2>2. "pending" \in Places
    BY DEF Places
  <2> QED
    BY <1>0, <2>1, <2>2, MoveType DEF ClientType, Places
<1>3. ASSUME NEW c \in Clients, LookForPending(c) PROVE client' \in [Clients -> ClientType]
  <2>1. \/ Move(c, "insert") \/ Leave(c)
        \/ \E last \in Payments :
             \/ client' = [client EXCEPT ![c].at = "switch", ![c].id = last,
                                         ![c].authority = payment[last].authority]
             \/ client' = [client EXCEPT ![c].at = "attempt", ![c].id = last]
    BY <1>3 DEF LookForPending
  <2>2. CASE Move(c, "insert") \/ Leave(c)
    BY <2>2, MoveType, LeaveType DEF Places
  <2>3. ASSUME NEW last \in Payments,
               \/ client' = [client EXCEPT ![c].at = "switch", ![c].id = last,
                                           ![c].authority = payment[last].authority]
               \/ client' = [client EXCEPT ![c].at = "attempt", ![c].id = last]
        PROVE  client' \in [Clients -> ClientType]
    <3>1. payment[last].authority \in BOOLEAN
      BY <1>0 DEF PaymentRow
    <3> QED
      BY <1>0, <2>3, <3>1 DEF ClientType, Places
  <2> QED
    BY <2>1, <2>2, <2>3
<1>4. ASSUME NEW c \in Clients, InsertFirst(c) \/ SwitchGateway(c)
      PROVE  client' \in [Clients -> ClientType]
  <2>1. PICK p \in Payments : client' = [client EXCEPT ![c].at = "attempt", ![c].id = p]
    BY <1>4 DEF InsertFirst, SwitchGateway, InsertPayment
  <2>2. [client[c] EXCEPT !.at = "attempt", !.id = p] \in ClientType
    BY <1>0 DEF ClientType, Places
  <2>3. client' = [client EXCEPT ![c] = [client[c] EXCEPT !.at = "attempt", !.id = p]]
    BY <2>1
  <2> QED
    BY <1>0, <2>2, <2>3
<1>5. ASSUME NEW c \in Clients, NEW p \in Payments, Return(c, p)
      PROVE  client' \in [Clients -> ClientType]
  <2>1. PICK place \in {"reapply", "cancel", "verify"} :
          client' = [client EXCEPT ![c].at = place, ![c].id = p, ![c].order = OrderOf[p]]
    BY <1>5 DEF Return
  <2>2. place \in Places /\ OrderOf[p] \in Orders
    BY OrderAssumption DEF Places
  <2> QED
    BY <1>0, <2>1, <2>2 DEF ClientType
<1>6. ASSUME NEW c \in Clients,
             \/ SaveAddress(c) \/ InsertAttempt(c) \/ OpenSession(c) \/ SaveSession(c)
             \/ FailStart(c) \/ CancelSoftly(c) \/ VerifyReturn(c) \/ RejectPayment(c)
             \/ CapturePayment(c) \/ RetryApply(c) \/ CrashClient(c)
      PROVE  client' \in [Clients -> ClientType]
  <2>1. Leave(c) \/ \E place \in {"look", "open", "save", "fail", "capture", "reject", "reapply"} :
                      Move(c, place)
    BY <1>6 DEF SaveAddress, InsertAttempt, OpenSession, SaveSession, FailStart,
       CancelSoftly, VerifyReturn, RejectPayment, CapturePayment, RetryApply, CrashClient
  <2>2. {"look", "open", "save", "fail", "capture", "reject", "reapply"} \subseteq Places
    BY DEF Places
  <2> QED
    BY <2>1, <2>2, MoveType, LeaveType
<1>7. ASSUME NEW p \in Payments, PayAtGateway(p) \/ RecordManual(p)
      PROVE  client' \in [Clients -> ClientType]
  BY <1>0, <1>7 DEF PayAtGateway, RecordManual
<1> QED
  BY <1>1, <1>2, <1>3, <1>4, <1>5, <1>6, <1>7 DEF PaymentNext, Serve

LEMMA TablesTypeNext ==
  ASSUME CheckoutTypeOK, PlacesOK, PaymentNext
  PROVE  /\ attempts' \subseteq Payments
         /\ gatewayOf' \in [Payments -> Gateways \cup {"MANUAL"}]
         /\ psp' \in [Payments -> PspStates]
         /\ sessions' \in [Payments -> Nat]
         /\ ledger' \in [Payments -> 0..MaxBooked]
<1>0. /\ attempts \subseteq Payments
      /\ gatewayOf \in [Payments -> Gateways \cup {"MANUAL"}]
      /\ psp \in [Payments -> PspStates]
      /\ sessions \in [Payments -> Nat]
      /\ ledger \in [Payments -> 0..MaxBooked]
  BY DEF CheckoutTypeOK
<1> DEFINE Typed == /\ attempts' \subseteq Payments
                    /\ gatewayOf' \in [Payments -> Gateways \cup {"MANUAL"}]
                    /\ psp' \in [Payments -> PspStates]
                    /\ sessions' \in [Payments -> Nat]
                    /\ ledger' \in [Payments -> 0..MaxBooked]
<1>1. ASSUME UNCHANGED <<attempts, gatewayOf, psp, sessions, ledger>> PROVE Typed
  BY <1>0, <1>1
<1>2. ASSUME NEW c \in Clients,
             \/ Start(c) \/ SaveAddress(c) \/ LookForPaid(c) \/ LookForPending(c)
             \/ FailStart(c) \/ CancelSoftly(c) \/ VerifyReturn(c)
             \/ RejectPayment(c) \/ RetryApply(c) \/ CrashClient(c)
             \/ \E p \in Payments : Return(c, p)
      PROVE  Typed
  BY <1>1, <1>2 DEF Start, SaveAddress, LookForPaid, LookForPending, FailStart,
     CancelSoftly, VerifyReturn, RejectPayment, RetryApply, CrashClient, Return, pspVars
<1>3. ASSUME NEW c \in Clients, InsertFirst(c) \/ SwitchGateway(c) PROVE Typed
  <2>1. client[c].gateway \in Gateways \cup {"MANUAL"}
    BY DEF CheckoutTypeOK
  <2>2. PICK p \in Payments : /\ gatewayOf' = [gatewayOf EXCEPT ![p] = client[c].gateway]
                              /\ UNCHANGED <<attempts, psp, sessions, ledger>>
    BY <1>3 DEF InsertFirst, SwitchGateway, InsertPayment, pspVars
  <2> QED
    BY <1>0, <2>1, <2>2
<1>4. ASSUME NEW c \in Clients, InsertAttempt(c) PROVE Typed
  <2>1. client[c].id \in Payments
    BY <1>4 DEF PlacesOK, PaymentsOf, InsertAttempt, At, Choosing
  <2> QED
    BY <1>0, <1>4, <2>1 DEF InsertAttempt, pspVars
<1>5. ASSUME NEW c \in Clients, OpenSession(c) PROVE Typed
  BY <1>0, <1>5 DEF OpenSession, pspVars, PspStates
<1>6. ASSUME NEW c \in Clients, SaveSession(c) PROVE Typed
  BY <1>0, <1>6 DEF SaveSession, PspStates
<1>7. ASSUME NEW p \in Payments, Book(p) PROVE ledger' \in [Payments -> 0..MaxBooked]
  <2>1. ledger[p] \in 0..2 /\ (ledger[p] < 2 => ledger[p] + 1 \in 0..2)
    BY <1>0 DEF MaxBooked
  <2> QED
    BY <1>0, <1>7, <2>1 DEF Book, MaxBooked
<1>8. ASSUME NEW c \in Clients, CapturePayment(c) PROVE Typed
  <2>1. UNCHANGED ledger \/ Book(client[c].id)
    BY <1>8 DEF CapturePayment, BookCapture
  <2>2. client[c].id \in Payments
    BY <1>8 DEF PlacesOK, PaymentsOf, CapturePayment, At, Choosing
  <2> QED
    BY <1>0, <1>7, <1>8, <2>1, <2>2 DEF CapturePayment, pspVars
<1>9. ASSUME NEW p \in Payments, PayAtGateway(p) \/ RecordManual(p) PROVE Typed
  BY <1>0, <1>7, <1>9 DEF PayAtGateway, RecordManual, BookCapture, pspVars, PspStates
<1> QED
  BY <1>2, <1>3, <1>4, <1>5, <1>6, <1>8, <1>9 DEF PaymentNext, Serve

LEMMA CheckoutTypeNext ==
  ASSUME CheckoutIInv, [CheckoutNext]_vars
  PROVE  CheckoutTypeOK'
<1>1. OrderTypeOK /\ CheckoutTypeOK /\ PlacesOK
  BY DEF CheckoutIInv, CheckoutTypeOK
<1>2. OrderTypeOK'
  BY <1>1, StepRefines, NextTypeOK, SaveAddressType
<1>3. CASE PaymentNext
  BY <1>1, <1>2, <1>3, ClientTypeNext, TablesTypeNext DEF CheckoutTypeOK, ClientType
<1>4. CASE UNCHANGED payVars
  BY <1>1, <1>2, <1>4 DEF CheckoutTypeOK, payVars
<1> QED
  BY <1>3, <1>4 DEF CheckoutNext, vars

----------------------------------------------------------------------------
(* The payment rows.  Most steps only move one request to a place that       *)
(* claims nothing about the gateway.                                         *)

Others(c) == \A d \in Clients : d # c => client'[d] = client[d]

Quiet(c) ==
  /\ UNCHANGED <<attempts, psp, sessions>>
  /\ captured \subseteq captured'
  /\ Others(c)
  /\ client'[c].at \notin Talking \cup {"capture"}
  /\ client'[c].at \notin Choosing => client'[c].id \in PaymentsOf(client'[c].order)
  /\ client'[c].at = "address" => AddressSent
  /\ client'[c].at = "reapply" => client'[c].id \in captured'

SessionsKept ==
  PlacesOK' /\ AttemptsOwned' /\ SessionsKnown' /\ MoneySeen' /\ OneSessionPerPayment'

LEMMA QuietKeeps ==
  ASSUME CheckoutIInv, NEW c \in Clients, Quiet(c)
  PROVE  SessionsKept
<1>1. "open" \in Talking /\ "save" \in Talking
  BY DEF Talking
<1>2. PlacesOK'
  BY DEF CheckoutIInv, PlacesOK, Quiet, Others, At
<1>3. AttemptsOwned'
  BY DEF CheckoutIInv, AttemptsOwned, Quiet, Others
<1>4. SessionsKnown'
  BY <1>1 DEF CheckoutIInv, SessionsKnown, Quiet, Others, At
<1>5. MoneySeen'
  BY DEF CheckoutIInv, MoneySeen, Quiet, Others, At
<1>6. OneSessionPerPayment'
  BY DEF CheckoutIInv, OneSessionPerPayment, Quiet
<1> QED
  BY <1>2, <1>3, <1>4, <1>5, <1>6 DEF SessionsKept

LEMMA LeaveQuiet ==
  ASSUME CheckoutTypeOK, NEW c \in Clients, Leave(c),
         UNCHANGED <<attempts, psp, sessions>>, captured \subseteq captured'
  PROVE  Quiet(c)
<1>1. client'[c] = NoClient /\ Others(c)
  BY DEF CheckoutTypeOK, Leave, Others
<1> QED
  BY <1>1 DEF Quiet, NoClient, Talking, Choosing

LEMMA MoveQuiet ==
  ASSUME CheckoutIInv, NEW c \in Clients, NEW place, Move(c, place),
         place \in {"look", "pending", "insert"}
           \/ (place = "reject" /\ client[c].id \in PaymentsOf(client[c].order)),
         UNCHANGED <<attempts, psp, sessions, captured>>
  PROVE  Quiet(c)
<1>1. client \in [Clients -> ClientType]
  BY DEF CheckoutIInv, CheckoutTypeOK, ClientType
<1>2. /\ client'[c].at = place /\ client'[c].id = client[c].id
      /\ client'[c].order = client[c].order /\ Others(c)
  BY <1>1 DEF Move, Others, ClientType
<1> QED
  BY <1>2 DEF Quiet, Talking, Choosing

\* A request whose gateway call or transaction is over, for the actions that
\* end in Leave or go back to reading.
LEMMA QuietActions ==
  ASSUME CheckoutIInv, NEW c \in Clients,
         \/ Start(c) \/ SaveAddress(c) \/ LookForPaid(c) \/ LookForPending(c)
         \/ InsertFirst(c) \/ SwitchGateway(c) \/ FailStart(c) \/ CancelSoftly(c)
         \/ RejectPayment(c) \/ CapturePayment(c) \/ RetryApply(c) \/ CrashClient(c)
         \/ \E p \in Payments : Return(c, p)
  PROVE  Quiet(c)
<1>0. /\ CheckoutTypeOK /\ client \in [Clients -> ClientType]
      /\ captured \subseteq Payments
  BY DEF CheckoutIInv, CheckoutTypeOK, ClientType, OrderTypeOK, TablesOK
<1>1. CASE Start(c)
  <2>1. PICK o \in Orders, g \in Gateways : client' = [client EXCEPT ![c] =
            [at |-> IF AddressSent THEN "address" ELSE "look",
             order |-> o, gateway |-> g, id |-> NoId, authority |-> FALSE,
             row |-> order[o]]]
    BY <1>1 DEF Start
  <2>2. Others(c) /\ client'[c].at = IF AddressSent THEN "address" ELSE "look"
    BY <1>0, <2>1 DEF Others
  <2> QED
    BY <1>1, <2>2 DEF Quiet, Start, orderVars, pspVars, Talking, Choosing
<1>2. CASE SaveAddress(c)
  BY <1>2, MoveQuiet DEF SaveAddress, pspVars
<1>3. CASE LookForPaid(c)
  <2>1. UNCHANGED <<attempts, psp, sessions, captured>>
    BY <1>3 DEF LookForPaid, orderVars, pspVars
  <2>2. CASE Move(c, "pending")
    BY <2>1, <2>2, MoveQuiet
  <2>3. ASSUME NEW p \in Payments,
               IsLatest(p, RowsIn(client[c].order, "PAID")),
               client' = [client EXCEPT ![c].at = "reapply", ![c].id = p]
        PROVE  Quiet(c)
    <3>1. OrderOf[p] = client[c].order /\ payment[p].status = "PAID"
      BY <2>3 DEF IsLatest, RowsIn, PaymentsOf
    <3>2. p \in captured
      BY <3>1 DEF CheckoutIInv, CapturesBooked
    <3>3. /\ Others(c) /\ client'[c].at = "reapply" /\ client'[c].id = p
          /\ client'[c].order = client[c].order
      BY <1>0, <2>3 DEF Others, ClientType
    <3> QED
      BY <2>1, <3>1, <3>2, <3>3 DEF Quiet, PaymentsOf, Talking
  <2> QED
    BY <1>3, <2>2, <2>3 DEF LookForPaid
<1>4. CASE LookForPending(c)
  <2>1. UNCHANGED <<attempts, psp, sessions, captured>>
    BY <1>4 DEF LookForPending, orderVars, pspVars
  <2>2. CASE Move(c, "insert") \/ Leave(c)
    BY <1>0, <2>1, <2>2, MoveQuiet, LeaveQuiet
  <2>3. ASSUME NEW last \in PaymentsOf(client[c].order), NEW place \in {"switch", "attempt"},
               \/ client' = [client EXCEPT ![c].at = place, ![c].id = last,
                                           ![c].authority = payment[last].authority]
               \/ client' = [client EXCEPT ![c].at = place, ![c].id = last]
        PROVE  Quiet(c)
    <3>1. /\ Others(c) /\ client'[c].at = place /\ client'[c].id = last
          /\ client'[c].order = client[c].order
      BY <1>0, <2>3 DEF Others, ClientType
    <3> QED
      BY <2>1, <2>3, <3>1 DEF Quiet, Talking, Choosing
  <2> QED
    BY <1>4, <2>2, <2>3 DEF LookForPending, IsLatest, RowsIn
<1>5. CASE InsertFirst(c) \/ SwitchGateway(c)
  <2>1. PICK p \in PaymentsOf(client[c].order) :
          client' = [client EXCEPT ![c].at = "attempt", ![c].id = p]
    BY <1>5 DEF InsertFirst, SwitchGateway, InsertPayment, PaymentsOf
  <2>2. UNCHANGED <<attempts, psp, sessions, captured>>
    BY <1>5 DEF InsertFirst, SwitchGateway, InsertPayment, pspVars
  <2>3. /\ Others(c) /\ client'[c].at = "attempt" /\ client'[c].id = p
        /\ client'[c].order = client[c].order
    BY <1>0, <2>1 DEF Others, ClientType
  <2> QED
    BY <2>2, <2>3 DEF Quiet, Talking
<1>6. CASE FailStart(c) \/ CancelSoftly(c) \/ RejectPayment(c) \/ RetryApply(c) \/ CrashClient(c)
  BY <1>0, <1>6, LeaveQuiet DEF FailStart, CancelSoftly, RejectPayment, RetryApply,
     CrashClient, orderVars, pspVars
<1>7. CASE CapturePayment(c)
  <2> DEFINE p == client[c].id
  <2>1. UNCHANGED <<attempts, psp, sessions>> /\ captured \subseteq captured'
    BY <1>7 DEF CapturePayment, BookCapture, orderVars, pspVars
  <2>2. CASE Leave(c)
    BY <1>0, <2>1, <2>2, LeaveQuiet
  <2>3. CASE payment[p].status = "PAID" /\ Move(c, "reapply")
    <3>1. p \in PaymentsOf(client[c].order)
      BY <1>7 DEF CheckoutIInv, PlacesOK, CapturePayment, At, Choosing
    <3>2. p \in captured
      BY <2>3, <3>1 DEF CheckoutIInv, CapturesBooked, PaymentsOf
    <3>3. /\ Others(c) /\ client'[c].at = "reapply" /\ client'[c].id = p
          /\ client'[c].order = client[c].order
      BY <1>0, <2>3 DEF Move, Others, ClientType
    <3> QED
      BY <2>1, <3>1, <3>2, <3>3 DEF Quiet, Talking
  <2> QED
    BY <1>7, <2>2, <2>3 DEF CapturePayment
<1>8. ASSUME NEW p \in Payments, Return(c, p) PROVE Quiet(c)
  <2>1. UNCHANGED <<attempts, psp, sessions, captured>>
    BY <1>8 DEF Return, orderVars, pspVars
  <2>2. PICK place \in {"reapply", "cancel", "verify"} :
          /\ client' = [client EXCEPT ![c].at = place, ![c].id = p, ![c].order = OrderOf[p]]
          /\ place = "reapply" => payment[p].status = "PAID"
    BY <1>8 DEF Return, AlreadyBooked
  <2>3. /\ Others(c) /\ client'[c].at = place /\ client'[c].id = p
        /\ client'[c].order = OrderOf[p]
    BY <1>0, <2>2 DEF Others, ClientType
  <2>4. place = "reapply" => p \in captured
    BY <2>2 DEF CheckoutIInv, CapturesBooked
  <2> QED
    BY <2>1, <2>2, <2>3, <2>4 DEF Quiet, PaymentsOf, Talking
<1> QED
  BY <1>1, <1>2, <1>3, <1>4, <1>5, <1>6, <1>7, <1>8

\* The steps of a request that talks to the gateway.
LEMMA TalkingKeeps ==
  ASSUME CheckoutIInv, NEW c \in Clients,
         InsertAttempt(c) \/ OpenSession(c) \/ SaveSession(c) \/ VerifyReturn(c)
  PROVE  SessionsKept
<1>0. /\ CheckoutTypeOK /\ client \in [Clients -> ClientType]
      /\ psp \in [Payments -> PspStates] /\ sessions \in [Payments -> Nat]
      /\ UNCHANGED captured
  BY DEF CheckoutIInv, CheckoutTypeOK, ClientType, InsertAttempt, OpenSession,
         SaveSession, VerifyReturn, orderVars
<1> DEFINE p == client[c].id
<1>1. /\ client[c].at \notin Choosing
      /\ p \in PaymentsOf(client[c].order) /\ p \in Payments
  BY DEF CheckoutIInv, PlacesOK, PaymentsOf, InsertAttempt, OpenSession, SaveSession,
         VerifyReturn, At, Choosing
<1>2. ASSUME NEW place, Move(c, place), place # "address"
      PROVE  /\ Others(c) /\ client'[c].at = place /\ client'[c].id = p
             /\ client'[c].order = client[c].order
             /\ PlacesOK'
  <2>1. /\ Others(c) /\ client'[c].at = place /\ client'[c].id = p
        /\ client'[c].order = client[c].order
    BY <1>0, <1>2 DEF Move, Others, ClientType
  <2> QED
    BY <1>1, <1>2, <2>1 DEF CheckoutIInv, PlacesOK, Others, At
<1>3. CASE InsertAttempt(c)
  <2>1. UNCHANGED <<psp, sessions>>
    BY <1>3 DEF InsertAttempt, pspVars
  <2>2. CASE ~MayAttempt(p)
    BY <1>0, <1>3, <2>1, <2>2, LeaveQuiet, QuietKeeps DEF InsertAttempt
  <2>3. CASE MayAttempt(p)
    <3>1. p \notin attempts /\ attempts' = attempts \cup {p} /\ Move(c, "open")
      BY <1>3, <2>3 DEF InsertAttempt, MayAttempt
    <3>2. /\ Others(c) /\ client'[c].at = "open" /\ client'[c].id = p /\ PlacesOK'
      BY <1>2, <3>1
    <3>3. psp[p] = "none"
      BY <1>1, <3>1 DEF CheckoutIInv, SessionsKnown
    <3>4. AttemptsOwned'
      BY <3>1, <3>2 DEF CheckoutIInv, AttemptsOwned, Others
    <3>5. SessionsKnown' /\ MoneySeen' /\ OneSessionPerPayment'
      BY <1>0, <2>1, <3>1, <3>2, <3>3 DEF CheckoutIInv, SessionsKnown, MoneySeen,
         OneSessionPerPayment, Others, At
    <3> QED
      BY <3>2, <3>4, <3>5 DEF SessionsKept
  <2> QED
    BY <2>2, <2>3
<1>4. CASE OpenSession(c)
  <2>1. /\ At(c, "open") /\ "open" \in Talking /\ UNCHANGED attempts
        /\ psp[p] = "none" /\ sessions[p] = 0 /\ p \in attempts
    BY <1>1, <1>4 DEF CheckoutIInv, SessionsKnown, AttemptsOwned, OpenSession, At, Talking
  <2>2. PICK place \in {"save", "fail"} : Move(c, place)
    BY <1>4 DEF OpenSession
  <2>3. Others(c) /\ client'[c].at = place /\ client'[c].id = p /\ PlacesOK'
    BY <1>2, <2>2
  <2>4. AttemptsOwned'
    BY <2>1, <2>3 DEF CheckoutIInv, AttemptsOwned, Others, Talking, At
  <2>5. \A d \in Clients : d # c /\ client[d].at \in {"open", "save"} => client[d].id # p
    BY <2>1 DEF CheckoutIInv, AttemptsOwned, Talking, At
  <2>6. CASE /\ psp' = [psp EXCEPT ![p] = "opened"]
             /\ sessions' = [sessions EXCEPT ![p] = @ + 1]
             /\ Move(c, "save")
    <3>1. /\ psp'[p] = "opened" /\ sessions'[p] = 1 /\ client'[c].at = "save"
          /\ \A q \in Payments : q # p => psp'[q] = psp[q] /\ sessions'[q] = sessions[q]
      BY <1>0, <1>1, <1>2, <2>1, <2>6
    <3>2. SessionsKnown'
      BY <2>1, <2>3, <2>5, <3>1 DEF CheckoutIInv, PlacesOK, PaymentsOf, SessionsKnown,
         Others, At, Choosing
    <3>3. \A d \in Clients : At(d, "capture") => client[d].id # p
      BY <2>1 DEF CheckoutIInv, MoneySeen
    <3>4. MoneySeen'
      BY <1>0, <2>3, <3>1, <3>3 DEF CheckoutIInv, PlacesOK, PaymentsOf, MoneySeen,
         Others, At, Choosing
    <3>5. OneSessionPerPayment'
      BY <3>1 DEF CheckoutIInv, OneSessionPerPayment
    <3> QED
      BY <2>3, <2>4, <3>2, <3>4, <3>5 DEF SessionsKept
  <2>7. CASE Move(c, "fail") /\ UNCHANGED pspVars
    <3>1. client'[c].at = "fail"
      BY <1>2, <2>7
    <3>2. SessionsKnown' /\ MoneySeen' /\ OneSessionPerPayment'
      BY <1>0, <2>1, <2>3, <2>7, <3>1 DEF CheckoutIInv, SessionsKnown, MoneySeen,
         OneSessionPerPayment, Others, At, pspVars
    <3> QED
      BY <2>3, <2>4, <3>2 DEF SessionsKept
  <2> QED
    BY <1>4, <2>6, <2>7 DEF OpenSession
<1>5. CASE SaveSession(c)
  <2>1. /\ At(c, "save") /\ "save" \in Talking /\ UNCHANGED <<attempts, sessions>>
        /\ psp[p] = "opened" /\ p \in attempts
        /\ psp' = [psp EXCEPT ![p] = "given"]
    BY <1>5 DEF CheckoutIInv, SessionsKnown, AttemptsOwned, SaveSession, At, Talking
  <2>2. client' = [client EXCEPT ![c] = NoClient]
    BY <1>5 DEF SaveSession, Leave
  <2>3. Others(c) /\ client'[c].at = "idle"
    BY <1>0, <2>2 DEF Others, NoClient
  <2>4. /\ psp'[p] = "given"
        /\ \A q \in Payments : q # p => psp'[q] = psp[q]
    BY <1>0, <1>1, <2>1
  <2>5. PlacesOK' /\ AttemptsOwned' /\ OneSessionPerPayment'
    BY <2>1, <2>3 DEF CheckoutIInv, PlacesOK, AttemptsOwned, OneSessionPerPayment,
       Others, At, Choosing, Talking
  <2>6. \A d \in Clients : d # c /\ client[d].at \in {"open", "save"} => client[d].id # p
    BY <2>1 DEF CheckoutIInv, AttemptsOwned, Talking, At
  <2>7. SessionsKnown'
    BY <2>1, <2>3, <2>4, <2>6 DEF CheckoutIInv, PlacesOK, PaymentsOf, SessionsKnown,
       Others, At, Choosing
  <2>8. \A d \in Clients : At(d, "capture") => client[d].id # p
    BY <2>1 DEF CheckoutIInv, MoneySeen
  <2>9. MoneySeen'
    BY <1>0, <2>3, <2>4, <2>8 DEF CheckoutIInv, PlacesOK, PaymentsOf, MoneySeen,
       Others, At, Choosing
  <2> QED
    BY <2>5, <2>7, <2>9 DEF SessionsKept
<1>6. CASE VerifyReturn(c)
  <2>1. UNCHANGED <<attempts, psp, sessions>>
    BY <1>6 DEF VerifyReturn, pspVars
  <2>2. CASE Move(c, "reject")
    BY <1>0, <1>1, <2>1, <2>2, MoveQuiet, QuietKeeps
  <2>3. CASE Confirms(p) /\ Move(c, "capture")
    <3>1. /\ Others(c) /\ client'[c].at = "capture" /\ client'[c].id = p /\ PlacesOK'
      BY <1>2, <2>3
    <3>2. psp[p] = "paid"
      BY <2>3 DEF Confirms
    <3>3. AttemptsOwned' /\ SessionsKnown' /\ MoneySeen' /\ OneSessionPerPayment'
      BY <1>0, <2>1, <3>1, <3>2 DEF CheckoutIInv, AttemptsOwned, SessionsKnown, MoneySeen,
         OneSessionPerPayment, Others, At, Talking
    <3> QED
      BY <3>1, <3>3 DEF SessionsKept
  <2> QED
    BY <1>6, <2>2, <2>3 DEF VerifyReturn
<1> QED
  BY <1>3, <1>4, <1>5, <1>6

\* What the administrators' steps do to payment rows: nothing, or cancel them.
LEMMA AdminRewrites ==
  ASSUME OrderTypeOK, AdminNext
  PROVE  /\ UNCHANGED captured
         /\ \A p \in Payments : payment'[p] = payment[p]
                                \/ payment'[p].status \notin {"NONE", "PAID"}
<1>0. payment \in [Payments -> PaymentRow]
  BY DEF OrderTypeOK, TablesOK
<1>1. ASSUME NEW r \in Requests,
             \/ Begin(r) \/ UpdateStatus(r) \/ CheckNoCapture(r) \/ ReverseRead(r)
             \/ ReverseStock(r) \/ ReverseWallet(r) \/ ReverseDiscount(r)
             \/ ReverseFind(r) \/ ReverseMark(r) \/ VoidOrder(r) \/ PurgeOrder(r)
             \/ AddTracking(r) \/ EditItems(r) \/ SaveOrder(r) \/ Crash(r)
      PROVE  UNCHANGED <<captured, payment>>
  BY <1>1 DEF Begin, UpdateStatus, CheckNoCapture, ReverseRead, ReverseStock,
     ReverseWallet, ReverseDiscount, ReverseFind, ReverseMark, VoidOrder, PurgeOrder,
     AddTracking, EditItems, SaveOrder, Crash
<1>2. ASSUME NEW o \in Orders, AutoConfirm(o) PROVE UNCHANGED <<captured, payment>>
  BY <1>2 DEF AutoConfirm
<1>3. ASSUME NEW r \in Requests, ReverseCancel(r)
      PROVE  /\ UNCHANGED captured
             /\ \A p \in Payments : payment'[p] = payment[p]
                                    \/ payment'[p].status \notin {"NONE", "PAID"}
  <2>1. UNCHANGED captured
    BY <1>3 DEF ReverseCancel
  <2>2. CASE UNCHANGED payment
    BY <2>1, <2>2
  <2>3. ASSUME NEW row, payment' = [payment EXCEPT ![row.id] =
                          [status |-> "CANCELLED", authority |-> row.authority]]
        PROVE  \A p \in Payments : payment'[p] = payment[p]
                                   \/ payment'[p].status \notin {"NONE", "PAID"}
    BY <1>0, <2>3
  <2> QED
    BY <1>3, <2>1, <2>2, <2>3 DEF ReverseCancel
<1> QED
  BY <1>1, <1>2, <1>3 DEF AdminNext, Step

LEMMA SessionsNext ==
  ASSUME CheckoutIInv, [CheckoutNext]_vars
  PROVE  SessionsKept
<1>0. CheckoutTypeOK /\ OrderTypeOK
  BY DEF CheckoutIInv, CheckoutTypeOK
<1>1. ASSUME UNCHANGED payVars, UNCHANGED captured PROVE SessionsKept
  BY <1>1 DEF payVars, SessionsKept, CheckoutIInv, PlacesOK, AttemptsOwned, SessionsKnown,
     MoneySeen, OneSessionPerPayment, At
<1>2. ASSUME NEW c \in Clients, Start(c) \/ Serve(c) \/ CrashClient(c) PROVE SessionsKept
  BY <1>2, QuietActions, QuietKeeps, TalkingKeeps DEF Serve
<1>3. ASSUME NEW c \in Clients, NEW p \in Payments, Return(c, p) PROVE SessionsKept
  BY <1>3, QuietActions, QuietKeeps
<1>4. ASSUME NEW p \in Payments, PayAtGateway(p) PROVE SessionsKept
  <2>1. /\ psp[p] = "given" /\ psp' = [psp EXCEPT ![p] = "paid"]
        /\ UNCHANGED <<client, attempts, sessions, captured>>
    BY <1>4 DEF PayAtGateway, orderVars
  <2>2. psp'[p] = "paid" /\ \A q \in Payments : q # p => psp'[q] = psp[q]
    BY <1>0, <2>1 DEF CheckoutTypeOK
  <2> QED
    BY <2>1, <2>2 DEF SessionsKept, CheckoutIInv, PlacesOK, PaymentsOf, AttemptsOwned,
       SessionsKnown, MoneySeen, OneSessionPerPayment, At, Choosing
<1>5. ASSUME NEW p \in Payments, RecordManual(p) PROVE SessionsKept
  <2>1. /\ UNCHANGED <<client, attempts, psp, sessions>>
        /\ captured \subseteq captured'
    BY <1>5 DEF RecordManual, BookCapture, pspVars
  <2> QED
    BY <2>1 DEF SessionsKept, CheckoutIInv, PlacesOK, AttemptsOwned, SessionsKnown,
       MoneySeen, OneSessionPerPayment, At
<1>6. CASE PaymentNext
  BY <1>2, <1>3, <1>4, <1>5, <1>6 DEF PaymentNext
<1>7. CASE AdminNext /\ UNCHANGED payVars
  BY <1>0, <1>1, <1>7, AdminRewrites
<1>8. CASE UNCHANGED vars
  BY <1>1, <1>8 DEF vars, orderVars
<1> QED
  BY <1>6, <1>7, <1>8 DEF CheckoutNext

----------------------------------------------------------------------------
(* The books of the payment service.                                        *)

BooksKept == CapturesBooked' /\ CapturedWasPaid'

LEMMA NoBooking ==
  ASSUME CheckoutIInv, UNCHANGED <<captured, ledger, gatewayOf>>,
         \A p \in Payments : payment'[p] = payment[p]
                             \/ payment'[p].status \notin {"NONE", "PAID"},
         \A p \in Payments : psp[p] = "paid" => psp'[p] = "paid"
  PROVE  BooksKept
BY DEF CheckoutIInv, CapturesBooked, CapturedWasPaid, BooksKept

LEMMA InsertBooks ==
  ASSUME CheckoutIInv, NEW c \in Clients, NEW p \in Payments, NEW table,
         InsertPayment(c, p, table), RowsRewritten, UNCHANGED captured
  PROVE  BooksKept
<1>1. gatewayOf \in [Payments -> Gateways \cup {"MANUAL"}]
  BY DEF CheckoutIInv, CheckoutTypeOK
<1>2. payment[p].status = "NONE" /\ gatewayOf' = [gatewayOf EXCEPT ![p] = client[c].gateway]
      /\ UNCHANGED <<ledger, psp>>
  BY DEF InsertPayment, FreshId, pspVars
<1>3. ledger[p] = 0 /\ \A q \in Payments : q # p => gatewayOf'[q] = gatewayOf[q]
  BY <1>1, <1>2 DEF CheckoutIInv, CapturesBooked
<1>4. payment'[p].status # "NONE"
  BY DEF InsertPayment, NewPayment, RowsRewritten
<1> QED
  BY <1>2, <1>3, <1>4 DEF CheckoutIInv, CapturesBooked, CapturedWasPaid, RowsRewritten, BooksKept

LEMMA CaptureBooks ==
  ASSUME CheckoutIInv, NEW p \in Payments, BookCapture(p), UNCHANGED <<psp, gatewayOf>>,
         psp[p] = "paid" \/ gatewayOf[p] = "MANUAL"
  PROVE  BooksKept
<1>1. payment \in [Payments -> PaymentRow] /\ ledger \in [Payments -> 0..2]
  BY DEF CheckoutIInv, CheckoutTypeOK, OrderTypeOK, TablesOK, MaxBooked
<1>2. /\ payment' = [payment EXCEPT ![p].status = "PAID"]
      /\ captured' = captured \cup {p}
      /\ ledger' = [ledger EXCEPT ![p] = IF @ < 2 THEN @ + 1 ELSE @]
  BY DEF BookCapture, Book, MaxBooked
<1>3. /\ payment'[p].status = "PAID" /\ ledger'[p] > 0
      /\ \A q \in Payments : q # p => payment'[q] = payment[q] /\ ledger'[q] = ledger[q]
  BY <1>1, <1>2 DEF PaymentRow
<1> QED
  BY <1>2, <1>3 DEF CheckoutIInv, CapturesBooked, CapturedWasPaid, BooksKept

LEMMA BooksNext ==
  ASSUME CheckoutIInv, [CheckoutNext]_vars
  PROVE  BooksKept
<1>0. CheckoutTypeOK /\ OrderTypeOK /\ psp \in [Payments -> PspStates]
  BY DEF CheckoutIInv, CheckoutTypeOK
<1>1. ASSUME NEW c \in Clients, Silent(c) \/ SaveAddress(c) \/ RetryApply(c) PROVE BooksKept
  <2>1. UNCHANGED <<payment, captured, ledger, gatewayOf>>
    BY <1>1, SilentIsSilent DEF Silent, SaveAddress, RetryApply, Start, LookForPaid,
       LookForPending, InsertAttempt, OpenSession, VerifyReturn, CrashClient, Return,
       PayAtGateway, orderVars
  <2>2. \A p \in Payments : psp[p] = "paid" => psp'[p] = "paid"
    <3>1. CASE OpenSession(c)
      <4>1. At(c, "open") => psp[client[c].id] = "none"
        BY DEF CheckoutIInv, SessionsKnown
      <4> QED
        BY <1>0, <3>1, <4>1 DEF OpenSession, pspVars
    <3>2. ASSUME NEW p \in Payments, PayAtGateway(p)
          PROVE  \A q \in Payments : psp[q] = "paid" => psp'[q] = "paid"
      BY <1>0, <3>2 DEF PayAtGateway
    <3>3. CASE ~OpenSession(c) /\ \A p \in Payments : ~PayAtGateway(p)
      BY <1>1, <3>3 DEF Silent, SaveAddress, RetryApply, Start, LookForPaid, LookForPending,
         InsertAttempt, VerifyReturn, CrashClient, Return, pspVars
    <3> QED
      BY <3>1, <3>2, <3>3
  <2> QED
    BY <2>1, <2>2, NoBooking
<1>2. ASSUME NEW c \in Clients,
             SaveSession(c) \/ FailStart(c) \/ CancelSoftly(c) \/ RejectPayment(c)
      PROVE  BooksKept
  <2>1. RowsRewritten /\ UNCHANGED captured
    BY <1>0, <1>2, ClientActionsRewrite
  <2>2. UNCHANGED <<ledger, gatewayOf>>
    BY <1>2 DEF SaveSession, FailStart, CancelSoftly, RejectPayment
  <2>3. \A p \in Payments : psp[p] = "paid" => psp'[p] = "paid"
    <3>1. At(c, "save") => psp[client[c].id] = "opened"
      BY DEF CheckoutIInv, SessionsKnown
    <3> QED
      BY <1>0, <1>2, <3>1 DEF SaveSession, FailStart, CancelSoftly, RejectPayment, pspVars
  <2> QED
    BY <2>1, <2>2, <2>3, NoBooking DEF RowsRewritten
<1>3. ASSUME NEW c \in Clients, InsertFirst(c) \/ SwitchGateway(c) PROVE BooksKept
  <2>1. RowsRewritten /\ UNCHANGED captured
    BY <1>0, <1>3, ClientActionsRewrite
  <2> QED
    BY <1>3, <2>1, InsertBooks DEF InsertFirst, SwitchGateway
<1>4. ASSUME NEW c \in Clients, CapturePayment(c) PROVE BooksKept
  <2> DEFINE p == client[c].id
  <2>1. p \in Payments /\ psp[p] = "paid" /\ UNCHANGED <<psp, gatewayOf>>
    BY <1>4 DEF CheckoutIInv, PlacesOK, PaymentsOf, MoneySeen, CapturePayment, At,
       Choosing, pspVars
  <2>2. CASE BookCapture(p)
    BY <2>1, <2>2, CaptureBooks
  <2>3. CASE UNCHANGED <<orderVars, ledger>>
    BY <2>1, <2>3, NoBooking DEF orderVars
  <2> QED
    BY <1>4, <2>2, <2>3 DEF CapturePayment
<1>5. ASSUME NEW p \in Payments, RecordManual(p) PROVE BooksKept
  <2>1. BookCapture(p) /\ payment[p].status = "NONE" /\ UNCHANGED <<psp, gatewayOf>>
    BY <1>5 DEF RecordManual, FreshId, pspVars
  <2>2. gatewayOf[p] = "MANUAL"
    BY <2>1 DEF CheckoutIInv, CapturesBooked
  <2> QED
    BY <2>1, <2>2, CaptureBooks
<1>6. ASSUME NEW p \in Payments, PayAtGateway(p) PROVE BooksKept
  <2>1. UNCHANGED <<payment, captured, ledger, gatewayOf>> /\ psp' = [psp EXCEPT ![p] = "paid"]
    BY <1>6 DEF PayAtGateway, orderVars
  <2> QED
    BY <1>0, <2>1, NoBooking
<1>7. CASE PaymentNext
  BY <1>1, <1>2, <1>3, <1>4, <1>5, <1>6, <1>7 DEF PaymentNext, Serve, Silent
<1>8. CASE AdminNext /\ UNCHANGED payVars
  BY <1>0, <1>8, AdminRewrites, NoBooking DEF payVars
<1>9. CASE UNCHANGED vars
  BY <1>9, NoBooking DEF vars, orderVars, payVars
<1> QED
  BY <1>7, <1>8, <1>9 DEF CheckoutNext

LEMMA CheckoutIInvInit ==
  ASSUME CheckoutInit
  PROVE  CheckoutIInv
<1>1. CheckoutTypeOK
  BY CheckoutInitType
<1>2. \A c \in Clients : client[c].at = "idle"
  BY DEF CheckoutInit, NoClient
<1>3. \A p \in Payments : payment[p].status = "NONE"
  BY DEF CheckoutInit, OrderInit, NoPayment
<1>4. PlacesOK /\ AttemptsOwned /\ SessionsKnown /\ MoneySeen
  BY <1>2 DEF CheckoutInit, PlacesOK, AttemptsOwned, SessionsKnown, MoneySeen, At,
     Choosing, Talking
<1>5. CapturesBooked /\ OneSessionPerPayment /\ CapturedWasPaid
  BY <1>3 DEF CheckoutInit, OrderInit, CapturesBooked, OneSessionPerPayment, CapturedWasPaid
<1> QED
  BY <1>1, <1>4, <1>5 DEF CheckoutIInv

LEMMA CheckoutIInvNext ==
  ASSUME CheckoutIInv, [CheckoutNext]_vars
  PROVE  CheckoutIInv'
BY CheckoutTypeNext, SessionsNext, BooksNext DEF CheckoutIInv, SessionsKept, BooksKept

(* The local values of every customer request, the attempts, the sessions and *)
(* the books of the payment service fit together in every reachable state.   *)
THEOREM CheckoutInvariant == CheckoutSpec => []CheckoutIInv
<1>1. CheckoutInit => CheckoutIInv
  BY CheckoutIInvInit
<1>2. CheckoutIInv /\ [CheckoutNext]_vars => CheckoutIInv'
  BY CheckoutIInvNext
<1> QED
  BY <1>1, <1>2, PTL DEF CheckoutSpec

(* start never obtains two gateway sessions for one payment row, whatever    *)
(* starts overlap, fail or die.                                              *)
THEOREM OneSessionHolds == CheckoutSpec => []OneSessionPerPayment
<1>1. CheckoutIInv => OneSessionPerPayment
  BY DEF CheckoutIInv
<1> QED
  BY <1>1, CheckoutInvariant, PTL

(* verify and recordManual only book money that the gateway confirmed or an  *)
(* administrator entered.                                                    *)
THEOREM CapturedWasPaidHolds == CheckoutSpec => []CapturedWasPaid
<1>1. CheckoutIInv => CapturedWasPaid
  BY DEF CheckoutIInv
<1> QED
  BY <1>1, CheckoutInvariant, PTL

(* The payment service implements what OrderEffects says of the gateway      *)
(* side, when starts carry no address: a start with an address also saves    *)
(* the order row.                                                            *)
THEOREM CheckoutRefines ==
  ASSUME ~AddressSent
  PROVE  CheckoutSpec => OrderSpec
<1>1. CheckoutInit => OrderInit
  BY DEF CheckoutInit
<1>2. CheckoutIInv /\ [CheckoutNext]_vars => [OrderNext]_orderVars
  <2>1. CheckoutIInv => \A c \in Clients : ~SaveAddress(c)
    BY DEF CheckoutIInv, PlacesOK, SaveAddress
  <2> QED
    BY <2>1, StepRefines
<1> QED
  BY <1>1, <1>2, CheckoutInvariant, PTL DEF CheckoutSpec, OrderSpec

(* Hence the goods of an order are deducted once in the composed system too. *)
THEOREM CheckoutCommitsOnce ==
  ASSUME ~AddressSent, NoWholeSaves
  PROVE  CheckoutSpec => []CommitOnce
BY CheckoutRefines, CommitOnceHolds, PTL

(* And so are the other promises of the orders' side: goods of settled        *)
(* orders, paid orders out of the unpaid list, and balanced books, whatever   *)
(* the payment service does with retries, callbacks and lost answers.        *)
THEOREM CheckoutSettledHasStock ==
  ASSUME ~AddressSent, NoWholeSaves
  PROVE  CheckoutSpec => []SettledHasStock
BY CheckoutRefines, SettledHasStockHolds, PTL

(* A captured payment takes its order out of AWAITING_PAYMENT, in the          *)
(* composed system as well.                                                  *)
THEOREM CheckoutCapturedLeavesAwaiting ==
  ASSUME ~AddressSent, NoWholeSaves, NoReask
  PROVE  CheckoutSpec => []CapturedLeavesAwaiting
BY CheckoutRefines, CapturedLeavesAwaitingHolds, PTL

(* Stock, wallet and discount uses balance between the administrators'        *)
(* requests while customers start, pay and return.                           *)
THEOREM CheckoutBooksHold ==
  ASSUME ~AddressSent, ServedAlone, MaxCrashes = 0
  PROVE  CheckoutSpec => []Books
BY CheckoutRefines, BooksHold, PTL

----------------------------------------------------------------------------
(* Online orders and their money.                                           *)

LEMMA AdvancedOnlyFromAdvanced ==
  ASSUME NEW from \in Statuses, NEW to \in Advanced, CanTransition(from, to)
  PROVE  from \in Advanced
BY DEF CanTransition, OrderTransitions, Advanced, Statuses

\* Bookings are never taken back, so what was justified stays justified.
LEMMA MoneyGrows ==
  ASSUME CheckoutIInv, [CheckoutNext]_vars
  PROVE  \A o : MoneyBooked(o) => MoneyBooked(o)'
<1>0. ledger \in [Payments -> 0..2]
  BY DEF CheckoutIInv, CheckoutTypeOK, MaxBooked
<1>1. UNCHANGED ledger \/ \E p : Book(p)
  BY DEF CheckoutNext, vars, payVars, PaymentNext, Serve, Start, SaveAddress, LookForPaid,
     LookForPending, InsertFirst, SwitchGateway, InsertPayment, InsertAttempt, OpenSession,
     SaveSession, FailStart, CancelSoftly, VerifyReturn, RejectPayment, CapturePayment,
     BookCapture, RetryApply, RecordManual, CrashClient, Return, PayAtGateway
<1>2. \A p \in Payments : ledger[p] > 0 => ledger'[p] > 0
  <2>1. ASSUME NEW p, Book(p) PROVE \A q \in Payments : ledger[q] > 0 => ledger'[q] > 0
    BY <1>0, <2>1 DEF Book, MaxBooked
  <2> QED
    BY <1>1, <2>1
<1> QED
  BY <1>2 DEF MoneyBooked, PaymentsOf

\* Every request but one that edits items stands still, moves on without a
\* claim, or ends.
LEMMA StepProgress ==
  ASSUME RequestsOK, NEW r \in Requests, Step(r) \/ Crash(r), ~EditItems(r)
  PROVE  Progress
<1>1. CASE UpdateStatus(r) \/ CheckNoCapture(r)
  BY <1>1, FinishProgress, GotoReversalProgress DEF UpdateStatus, CheckNoCapture
<1>2. CASE \/ ReverseRead(r) \/ ReverseStock(r) \/ ReverseWallet(r) \/ ReverseDiscount(r)
           \/ ReverseFind(r)
  <2>1. Finish(r) \/ \E point \in {"rev_stock", "rev_wallet", "rev_discount", "rev_find",
                                   "rev_cancel"} : Goto(r, point) /\ UNCHANGED <<task, snap>>
    BY <1>2 DEF ReverseRead, ReverseStock, ReverseWallet, ReverseDiscount, ReverseFind, locals
  <2> QED
    BY <2>1, FinishProgress, GotoProgress DEF ClaimPoints
<1>3. CASE ReverseCancel(r)
  <2>1. UNCHANGED <<task, snap>> /\ (Goto(r, "rev_mark") \/ UNCHANGED pc)
    BY <1>3 DEF ReverseCancel
  <2> QED
    BY <2>1, GotoProgress DEF Progress, ClaimPoints
<1>4. CASE ReverseMark(r)
  <2>1. AfterReversal(r) \notin ClaimPoints
    BY DEF AfterReversal, ClaimPoints
  <2> QED
    BY <1>4, <2>1, FinishProgress, GotoProgress DEF ReverseMark, locals
<1>5. CASE \/ VoidOrder(r) \/ PurgeOrder(r) \/ AddTracking(r) \/ SaveOrder(r) \/ Crash(r)
  BY <1>5, FinishProgress DEF VoidOrder, PurgeOrder, AddTracking, SaveOrder, Crash
<1> QED
  BY <1>1, <1>2, <1>3, <1>4, <1>5 DEF Step

\* What the requests hold, and what their next write will be.
RequestsJustified ==
  /\ \A r \in Requests : Justified(task[r].order, snap[r])
  /\ MovesChecked

LEMMA ProgressJustified ==
  ASSUME MoneyIInv, Progress, \A o : MoneyBooked(o) => MoneyBooked(o)'
  PROVE  RequestsJustified'
<1>1. NoRow.status \notin Advanced
  BY DEF NoRow, Advanced, Statuses
<1>2. ASSUME NEW r \in Requests PROVE Justified(task[r].order, snap[r])'
  <2>1. snap'[r] = NoRow \/ (snap'[r] = snap[r] /\ task'[r] = task[r])
    BY DEF Progress
  <2> QED
    BY <1>1, <2>1 DEF MoneyIInv, RowsHeldJustified, Justified
<1>3. MovesChecked'
  BY DEF MoneyIInv, MovesChecked, Progress, ClaimPoints
<1> QED
  BY <1>2, <1>3 DEF RequestsJustified

\* A write to one order row whose status is justified.
LEMMA JustifiedWrite ==
  ASSUME MoneyIInv, NEW o \in Orders, NEW row \in Row,
         \A q : MoneyBooked(q) => MoneyBooked(q)',
         \/ order' = [order EXCEPT ![o] = row]
         \/ order' = [order EXCEPT ![o] = [row EXCEPT !.committed = TRUE]],
         row.status \in Advanced /\ MethodOf[o] = "ONLINE" => MoneyBooked(o)'
  PROVE  OnlineNeedsMoney'
<1>1. order \in [Orders -> Row]
  BY DEF MoneyIInv, CheckoutIInv, CheckoutTypeOK, OrderTypeOK, TablesOK
<1>2. order'[o].status = row.status /\ \A q \in Orders : q # o => order'[q] = order[q]
  BY <1>1 DEF Row
<1> QED
  BY <1>2 DEF MoneyIInv, OnlineNeedsMoney, Justified

LEMMA NoWriteJustified ==
  ASSUME MoneyIInv, \A q : MoneyBooked(q) => MoneyBooked(q)', UNCHANGED order
  PROVE  OnlineNeedsMoney'
BY DEF MoneyIInv, OnlineNeedsMoney, Justified

\* What an administrator's step does to the orders.
LEMMA AdminOrdersJustified ==
  ASSUME MoneyIInv, AdminNext, \A q : MoneyBooked(q) => MoneyBooked(q)'
  PROVE  OnlineNeedsMoney'
<1>0. /\ OrderTypeOK /\ TablesOK /\ RequestsOK /\ MovesChecked
      /\ order \in [Orders -> Row] /\ snap \in [Requests -> Row]
  BY DEF MoneyIInv, CheckoutIInv, CheckoutTypeOK, OrderTypeOK, TablesOK, RequestsOK
<1>1. ASSUME NEW o \in Orders, NEW row \in Row, Settle(o, row),
             row.status \in Advanced /\ MethodOf[o] = "ONLINE" => MoneyBooked(o)'
      PROVE  OnlineNeedsMoney'
  <2>1. \/ order' = [order EXCEPT ![o] = row]
        \/ order' = [order EXCEPT ![o] = [row EXCEPT !.committed = TRUE]]
    BY <1>1 DEF Settle
  <2> QED
    BY <1>1, <2>1, JustifiedWrite
<1>2. ASSUME NEW r \in Requests, UpdateStatus(r) PROVE OnlineNeedsMoney'
  <2>1. PICK o \in Orders : o = task[r].order
    BY <1>0, <1>2, TaskType DEF UpdateStatus
  <2> DEFINE row == [order[o] EXCEPT !.status = task[r].to]
  <2>2. task[r].to \in Statuses
    BY <1>0, <1>2, TaskType DEF UpdateStatus
  <2>3. row \in Row /\ row.status = task[r].to
    BY <1>0, <2>1, <2>2 DEF Row
  <2>4. snap[r].status \in Statuses /\ CanTransition(snap[r].status, task[r].to)
    BY <1>0, <2>1, <1>2 DEF MovesChecked, UpdateStatus, Row
  <2>5. task[r].to \in Advanced => snap[r].status \in Advanced
    BY <2>1, <2>4, AdvancedOnlyFromAdvanced
  <2>6. row.status \in Advanced /\ MethodOf[o] = "ONLINE" => MoneyBooked(o)'
    BY <2>1, <2>3, <2>5 DEF MoneyIInv, RowsHeldJustified, Justified
  <2>7. UNCHANGED order \/ Settle(o, row) \/ order' = [order EXCEPT ![o] = row]
    BY <1>2, <2>1 DEF UpdateStatus
  <2> QED
    BY <1>1, <2>1, <2>2, <2>3, <2>6, <2>7, JustifiedWrite, NoWriteJustified
<1>3. ASSUME NEW r \in Requests, ReverseMark(r) PROVE OnlineNeedsMoney'
  <2>1. PICK o \in Orders : o = task[r].order
    BY <1>0, <1>3, TaskType DEF ReverseMark
  <2> DEFINE row == [order[o] EXCEPT !.reversed = TRUE]
  <2>2. row \in Row /\ row.status = order[o].status
    <3>1. order[o] \in Row
      BY <1>0
    <3> QED
      BY <3>1 DEF Row
  <2>3. UNCHANGED order \/ order' = [order EXCEPT ![o] = row]
    BY <1>0, <2>1, <1>3 DEF ReverseMark
  <2>4. row.status \in Advanced /\ MethodOf[o] = "ONLINE" => MoneyBooked(o)'
    BY <2>1, <2>2 DEF MoneyIInv, OnlineNeedsMoney, Justified
  <2> QED
    BY <2>1, <2>2, <2>3, <2>4, JustifiedWrite, NoWriteJustified
<1>4. ASSUME NEW r \in Requests, VoidOrder(r) PROVE OnlineNeedsMoney'
  <2>1. PICK o \in Orders : o = task[r].order
    BY <1>0, <1>4, TaskType DEF VoidOrder
  <2> DEFINE row == [order[o] EXCEPT !.status = "DELETED", !.voided = TRUE]
  <2>2. row \in Row /\ row.status \notin Advanced
    <3>1. order[o] \in Row
      BY <1>0
    <3> QED
      BY <3>1 DEF Row, Statuses, Advanced
  <2>3. UNCHANGED order \/ order' = [order EXCEPT ![o] = row]
    BY <1>0, <2>1, <1>4 DEF VoidOrder
  <2> QED
    BY <2>1, <2>2, <2>3, JustifiedWrite, NoWriteJustified
<1>5. ASSUME NEW r \in Requests, PurgeOrder(r) PROVE OnlineNeedsMoney'
  <2>1. PICK o \in Orders : o = task[r].order
    BY <1>0, <1>5, TaskType DEF PurgeOrder
  <2> DEFINE row == [order[o] EXCEPT !.status = "GONE"]
  <2>2. row \in Row /\ row.status \notin Advanced
    <3>1. order[o] \in Row
      BY <1>0
    <3> QED
      BY <3>1 DEF Row, Statuses, Advanced
  <2>3. order' = [order EXCEPT ![o] = row]
    BY <1>0, <2>1, <1>5 DEF PurgeOrder
  <2> QED
    BY <2>1, <2>2, <2>3, JustifiedWrite
<1>6. ASSUME NEW r \in Requests, AddTracking(r) PROVE OnlineNeedsMoney'
  <2>1. PICK o \in Orders : o = task[r].order
    BY <1>0, <1>6, TaskType DEF AddTracking
  <2> DEFINE row == [order[o] EXCEPT !.status = "SHIPPED"]
  <2>2. row \in Row /\ row.status = "SHIPPED" /\ "SHIPPED" \in Advanced
    <3>1. order[o] \in Row
      BY <1>0
    <3> QED
      BY <3>1 DEF Row, Statuses, Advanced
  <2>3. snap[r].status \in Statuses /\ CanTransition(snap[r].status, "SHIPPED")
    BY <1>0, <2>1, <1>6 DEF MovesChecked, AddTracking, Row
  <2>4. MethodOf[o] = "ONLINE" => MoneyBooked(o)'
    BY <2>1, <2>2, <2>3, AdvancedOnlyFromAdvanced DEF MoneyIInv, RowsHeldJustified, Justified
  <2>5. UNCHANGED order \/ order' = [order EXCEPT ![o] = row]
    BY <1>0, <2>1, <1>6 DEF AddTracking
  <2> QED
    BY <2>1, <2>2, <2>4, <2>5, JustifiedWrite, NoWriteJustified
<1>7. ASSUME NEW r \in Requests, EditItems(r) PROVE OnlineNeedsMoney'
  <2>1. PICK o \in Orders : o = task[r].order
    BY <1>0, <1>7, TaskType DEF EditItems
  <2> DEFINE row == [snap[r] EXCEPT !.qty = task[r].qty]
  <2>2. task[r].qty \in Nat
    BY <1>0, <1>7, TaskType DEF EditItems
  <2>3. row \in Row /\ row.status = snap[r].status
    BY <1>0, <2>1, <2>2 DEF Row
  <2>4. UNCHANGED order \/ order' = [order EXCEPT ![o] = row]
    BY <1>7, <2>1 DEF EditItems
  <2>5. row.status \in Advanced /\ MethodOf[o] = "ONLINE" => MoneyBooked(o)'
    BY <2>1, <2>3 DEF MoneyIInv, RowsHeldJustified, Justified
  <2> QED
    BY <2>1, <2>2, <2>3, <2>4, <2>5, JustifiedWrite, NoWriteJustified
<1>8. ASSUME NEW r \in Requests, SaveOrder(r) PROVE OnlineNeedsMoney'
  <2>1. PICK o \in Orders : o = task[r].order
    BY <1>0, <1>8, TaskType DEF SaveOrder
  <2>2. snap[r] \in Row
    BY <1>0
  <2>3. order' = [order EXCEPT ![o] = snap[r]]
    BY <1>8, <2>1 DEF SaveOrder
  <2>4. snap[r].status \in Advanced /\ MethodOf[o] = "ONLINE" => MoneyBooked(o)'
    BY <2>1 DEF MoneyIInv, RowsHeldJustified, Justified
  <2> QED
    BY <2>1, <2>2, <2>3, <2>4, JustifiedWrite
<1>9. ASSUME NEW o \in Orders, AutoConfirm(o) PROVE OnlineNeedsMoney'
  <2> DEFINE row == [order[o] EXCEPT !.status = "CONFIRMED"]
  <2>1. row \in Row
    BY <1>0 DEF Row, Statuses
  <2>2. UNCHANGED order \/ Settle(o, row)
    BY <1>9 DEF AutoConfirm
  <2>3. MethodOf[o] # "ONLINE"
    BY <1>9 DEF AutoConfirm, MoneyIInv, FreeOnes
  <2> QED
    BY <1>1, <2>1, <2>2, <2>3, NoWriteJustified
<1>10. ASSUME NEW r \in Requests,
              \/ Begin(r) \/ CheckNoCapture(r) \/ ReverseRead(r) \/ ReverseStock(r)
              \/ ReverseWallet(r) \/ ReverseDiscount(r) \/ ReverseFind(r)
              \/ ReverseCancel(r) \/ Crash(r)
       PROVE  OnlineNeedsMoney'
  BY <1>10, NoWriteJustified DEF Begin, CheckNoCapture, ReverseRead, ReverseStock,
     ReverseWallet, ReverseDiscount, ReverseFind, ReverseCancel, Crash
<1> QED
  BY <1>2, <1>3, <1>4, <1>5, <1>6, <1>7, <1>8, <1>9, <1>10 DEF AdminNext, Step

\* And to what the requests hold.
LEMMA AdminRequestsJustified ==
  ASSUME MoneyIInv, AdminNext, \A q : MoneyBooked(q) => MoneyBooked(q)'
  PROVE  RequestsJustified'
<1>0. OrderTypeOK /\ TablesOK /\ RequestsOK
  BY DEF MoneyIInv, CheckoutIInv, CheckoutTypeOK, OrderTypeOK
<1>1. ASSUME NEW r \in Requests, Begin(r) PROVE RequestsJustified'
  <2>1. PICK t \in Tasks : /\ Accepts(t, order[t.order])
                           /\ task' = [task EXCEPT ![r] = t]
                           /\ snap' = [snap EXCEPT ![r] = order[t.order]]
                           /\ Goto(r, FirstPoint(t, order[t.order]))
    BY <1>1 DEF Begin
  <2>2. t.order \in Orders /\ t.op \in Ops
    BY OrderAssumption DEF Task
  <2>3. \A q \in Requests : q # r => /\ pc'[q] = pc[q]
                                    /\ snap'[q] = snap[q]
                                    /\ task'[q] = task[q]
    BY <1>0, <2>1 DEF Goto, RequestsOK
  <2>4. /\ pc'[r] = FirstPoint(t, order[t.order])
        /\ snap'[r] = order[t.order]
        /\ task'[r] = t
    BY <1>0, <2>1 DEF Goto, RequestsOK
  <2>5. \A q \in Requests : Justified(task[q].order, snap[q])'
    BY <2>2, <2>3, <2>4 DEF MoneyIInv, RowsHeldJustified, OnlineNeedsMoney, Justified
  <2>6. /\ order[t.order].status # "GONE"
        /\ pc'[r] = "status" => CanTransition(order[t.order].status, t.to)
        /\ pc'[r] = "track"  => CanTransition(order[t.order].status, "SHIPPED")
    BY <2>1, <2>2, <2>4 DEF Accepts, FirstPoint, Ops
  <2>7. MovesChecked'
    BY <2>3, <2>4, <2>6 DEF MoneyIInv, MovesChecked
  <2> QED
    BY <2>5, <2>7 DEF RequestsJustified
<1>2. ASSUME NEW r \in Requests, EditItems(r) PROVE RequestsJustified'
  <2>1. CASE Finish(r)
    BY <1>0, <2>1, FinishProgress, ProgressJustified
  <2>2. CASE /\ snap' = [snap EXCEPT ![r] = [snap[r] EXCEPT !.qty = task[r].qty]]
             /\ Goto(r, "save") /\ UNCHANGED task
    <3>1. /\ snap'[r].status = snap[r].status /\ pc'[r] = "save" /\ task' = task
          /\ \A q \in Requests : q # r => pc'[q] = pc[q] /\ snap'[q] = snap[q]
      BY <1>0, <2>2 DEF Goto, RequestsOK, Row
    <3>2. \A q \in Requests : Justified(task[q].order, snap[q])'
      BY <3>1 DEF MoneyIInv, RowsHeldJustified, Justified
    <3>3. MovesChecked'
      BY <3>1 DEF MoneyIInv, MovesChecked
    <3> QED
      BY <3>2, <3>3 DEF RequestsJustified
  <2> QED
    BY <1>2, <2>1, <2>2 DEF EditItems
<1>3. ASSUME NEW r \in Requests, Step(r) \/ Crash(r), ~EditItems(r) PROVE RequestsJustified'
  BY <1>0, <1>3, StepProgress, ProgressJustified
<1>4. ASSUME NEW o \in Orders, AutoConfirm(o) PROVE RequestsJustified'
  <2>1. Progress
    BY <1>4 DEF AutoConfirm, reqVars, Progress
  <2> QED
    BY <2>1, ProgressJustified
<1> QED
  BY <1>1, <1>2, <1>3, <1>4 DEF AdminNext

\* A payment's step: the orders it moves on have booked money.
LEMMA PaymentOrdersJustified ==
  ASSUME MoneyIInv, PaymentNext, \A q : MoneyBooked(q) => MoneyBooked(q)'
  PROVE  OnlineNeedsMoney'
<1>0. /\ CheckoutIInv /\ CheckoutTypeOK /\ TablesOK
      /\ order \in [Orders -> Row] /\ ledger \in [Payments -> 0..2]
  BY DEF MoneyIInv, CheckoutIInv, CheckoutTypeOK, OrderTypeOK, TablesOK, MaxBooked
<1>1. ASSUME NEW o \in Orders, ApplyCapturedPayment(o), MoneyBooked(o)'
      PROVE  OnlineNeedsMoney'
  <2>1. CASE IgnoresCapture(order[o])
    BY <1>1, <2>1, NoWriteJustified DEF ApplyCapturedPayment
  <2>2. CASE ~IgnoresCapture(order[o])
    <3> DEFINE row == [order[o] EXCEPT !.status = StatusAfterCapture(@)]
    <3>1. order[o] \in Row
      BY <1>0
    <3>2. StatusAfterCapture(order[o].status) \in Statuses \cup {"GONE"}
      BY <3>1 DEF StatusAfterCapture, Row, Statuses
    <3>3. row \in Row
      BY <3>1, <3>2 DEF Row
    <3>4. \/ order' = [order EXCEPT ![o] = row]
          \/ order' = [order EXCEPT ![o] = [row EXCEPT !.committed = TRUE]]
      BY <1>1, <2>2 DEF ApplyCapturedPayment, Settle
    <3> QED
      BY <1>1, <3>3, <3>4, JustifiedWrite
  <2> QED
    BY <2>1, <2>2
<1>2. ASSUME NEW p \in Payments, BookCapture(p) PROVE OnlineNeedsMoney'
  <2>1. OrderOf[p] \in Orders
    BY OrderAssumption
  <2>2. ledger'[p] > 0
    BY <1>0, <1>2 DEF BookCapture, Book, MaxBooked
  <2>3. PICK o \in Orders : o = OrderOf[p]
    BY <2>1
  <2>4. MoneyBooked(o)' /\ ApplyCapturedPayment(o)
    BY <1>2, <2>2, <2>3 DEF MoneyBooked, PaymentsOf, BookCapture
  <2> QED
    BY <1>1, <2>4
<1>3. ASSUME NEW c \in Clients, RetryApply(c) PROVE OnlineNeedsMoney'
  <2> DEFINE p == client[c].id
  <2>1. p \in PaymentsOf(client[c].order) /\ p \in captured
    BY <1>0, <1>3 DEF CheckoutIInv, PlacesOK, MoneySeen, RetryApply, At, Choosing
  <2>2. PICK o \in Orders : o = client[c].order
    BY <2>1, OrderAssumption DEF PaymentsOf
  <2>3. MoneyBooked(o)
    BY <1>0, <2>1, <2>2 DEF CheckoutIInv, CapturesBooked, MoneyBooked, PaymentsOf
  <2>4. ApplyCapturedPayment(o) \/ UNCHANGED order
    BY <1>3, <2>2 DEF RetryApply
  <2> QED
    BY <1>1, <2>3, <2>4, NoWriteJustified
<1>4. ASSUME NEW c \in Clients, SaveAddress(c) PROVE OnlineNeedsMoney'
  <2>1. PICK o \in Orders : o = client[c].order
    BY <1>0 DEF CheckoutTypeOK
  <2> DEFINE row == [client[c].row EXCEPT !.qty = order[o].qty]
  <2>2. row \in Row /\ row.status = client[c].row.status
    <3>1. client[c].row \in Row /\ order[o] \in Row
      BY <1>0 DEF CheckoutTypeOK
    <3> QED
      BY <3>1 DEF Row
  <2>3. order' = [order EXCEPT ![o] = row]
    BY <1>4, <2>1 DEF SaveAddress
  <2>4. row.status \in Advanced /\ MethodOf[o] = "ONLINE" => MoneyBooked(o)'
    BY <1>4, <2>1, <2>2 DEF MoneyIInv, RowsHeldJustified, Justified, SaveAddress
  <2> QED
    BY <2>2, <2>3, <2>4, JustifiedWrite
<1>5. ASSUME NEW c \in Clients, CapturePayment(c) PROVE OnlineNeedsMoney'
  <2>1. client[c].id \in Payments
    BY <1>0, <1>5 DEF CheckoutIInv, PlacesOK, PaymentsOf, CapturePayment, At, Choosing
  <2>2. BookCapture(client[c].id) \/ UNCHANGED order
    BY <1>5 DEF CapturePayment, orderVars
  <2>3. CASE BookCapture(client[c].id)
    <3>1. PICK p \in Payments : p = client[c].id
      BY <2>1
    <3> QED
      BY <1>2, <2>3, <3>1
  <2> QED
    BY <2>2, <2>3, NoWriteJustified
<1>6. ASSUME NEW p \in Payments, RecordManual(p) PROVE OnlineNeedsMoney'
  BY <1>2, <1>6 DEF RecordManual
<1>7. ASSUME NEW c \in Clients,
             \/ InsertFirst(c) \/ SwitchGateway(c) \/ SaveSession(c) \/ FailStart(c)
             \/ CancelSoftly(c) \/ RejectPayment(c)
      PROVE  OnlineNeedsMoney'
  BY <1>0, <1>7, ClientActionsRewrite, NoWriteJustified
<1>8. ASSUME NEW c \in Clients, Silent(c) PROVE OnlineNeedsMoney'
  BY <1>8, SilentIsSilent, NoWriteJustified DEF orderVars
<1>9. ASSUME NEW p \in Payments, PayAtGateway(p) PROVE OnlineNeedsMoney'
  BY <1>9, NoWriteJustified DEF PayAtGateway, orderVars
<1> QED
  BY <1>3, <1>4, <1>5, <1>6, <1>7, <1>8, <1>9 DEF PaymentNext, Serve, Silent

\* Payments leave the administrators' requests alone.
LEMMA PaymentLeavesRequests ==
  ASSUME PaymentNext
  PROVE  UNCHANGED <<creating, pc, task, snap>>
BY DEF PaymentNext, Serve, Start, SaveAddress, LookForPaid, LookForPending, InsertFirst,
   SwitchGateway, InsertPayment, InsertAttempt, OpenSession, SaveSession, FailStart,
   CancelSoftly, VerifyReturn, RejectPayment, CapturePayment, BookCapture, RetryApply,
   RecordManual, CrashClient, Return, PayAtGateway, orderVars, reqVars

\* Only a start leaves a request with an order row it still has to save.
LEMMA AddressOnlyAfterStart ==
  ASSUME CheckoutTypeOK, PaymentNext, NEW d \in Clients, client'[d].at = "address"
  PROVE  client'[d] = client[d] \/ Start(d)
<1>0. client \in [Clients -> ClientType]
  BY DEF CheckoutTypeOK, ClientType
<1>1. ASSUME NEW c \in Clients, NEW place, Move(c, place), place # "address"
      PROVE  client'[d] = client[d]
  BY <1>0, <1>1 DEF Move, ClientType
<1>2. ASSUME NEW c \in Clients, Leave(c) PROVE client'[d] = client[d]
  BY <1>0, <1>2 DEF Leave, NoClient
<1>3. ASSUME NEW c \in Clients, NEW place \in {"reapply", "switch", "attempt", "cancel", "verify"},
             NEW p, NEW a,
             \/ client' = [client EXCEPT ![c].at = place, ![c].id = p]
             \/ client' = [client EXCEPT ![c].at = place, ![c].id = p, ![c].authority = a]
             \/ client' = [client EXCEPT ![c].at = place, ![c].id = p, ![c].order = a]
      PROVE  client'[d] = client[d]
  BY <1>0, <1>3 DEF ClientType
<1>4. ASSUME NEW c \in Clients, Serve(c) \/ CrashClient(c) PROVE client'[d] = client[d]
  <2>1. CASE LookForPaid(c)
    BY <1>1, <1>3, <2>1 DEF LookForPaid
  <2>2. CASE LookForPending(c)
    BY <1>1, <1>2, <1>3, <2>2 DEF LookForPending
  <2>3. CASE InsertFirst(c) \/ SwitchGateway(c)
    BY <1>3, <2>3 DEF InsertFirst, SwitchGateway, InsertPayment
  <2>4. CASE \/ SaveAddress(c) \/ InsertAttempt(c) \/ OpenSession(c) \/ SaveSession(c)
             \/ FailStart(c) \/ CancelSoftly(c) \/ VerifyReturn(c) \/ RejectPayment(c)
             \/ CapturePayment(c) \/ RetryApply(c) \/ CrashClient(c)
    BY <1>1, <1>2, <2>4 DEF SaveAddress, InsertAttempt, OpenSession, SaveSession, FailStart,
       CancelSoftly, VerifyReturn, RejectPayment, CapturePayment, RetryApply, CrashClient
  <2> QED
    BY <1>4, <2>1, <2>2, <2>3, <2>4 DEF Serve
<1>5. ASSUME NEW c \in Clients, Start(c), c # d PROVE client'[d] = client[d]
  BY <1>0, <1>5 DEF Start
<1>6. ASSUME NEW c \in Clients, NEW p \in Payments, Return(c, p) PROVE client'[d] = client[d]
  BY <1>3, <1>6 DEF Return
<1>7. ASSUME NEW p \in Payments, PayAtGateway(p) \/ RecordManual(p)
      PROVE  client'[d] = client[d]
  BY <1>7 DEF PayAtGateway, RecordManual
<1> QED
  BY <1>4, <1>5, <1>6, <1>7 DEF PaymentNext

LEMMA MoneyInit ==
  ASSUME CheckoutInit
  PROVE  MoneyIInv
<1>1. CheckoutIInv
  BY CheckoutIInvInit
<1>2. OnlineNeedsMoney
  BY DEF CheckoutInit, OrderInit, NewOrder, InitialCreateStatus, OnlineNeedsMoney,
     Justified, Advanced
<1>3. RowsHeldJustified /\ MovesChecked
  BY DEF CheckoutInit, OrderInit, NoRow, NoClient, RowsHeldJustified, MovesChecked,
     Justified, Advanced, Statuses, At
<1>4. FreeOnes
  BY DEF CheckoutInit, OrderInit, FreeOnes
<1> QED
  BY <1>1, <1>2, <1>3, <1>4 DEF MoneyIInv

LEMMA MoneyNext ==
  ASSUME MoneyIInv, [CheckoutNext]_vars
  PROVE  MoneyIInv'
<1>0. CheckoutIInv /\ CheckoutTypeOK
  BY DEF MoneyIInv, CheckoutIInv
<1>1. CheckoutIInv' /\ \A q : MoneyBooked(q) => MoneyBooked(q)'
  BY <1>0, CheckoutIInvNext, MoneyGrows
<1>2. ASSUME UNCHANGED <<pc, task, snap>> PROVE RequestsJustified'
  BY <1>1, <1>2, ProgressJustified DEF Progress
<1>3. ASSUME UNCHANGED client
      PROVE  \A c \in Clients : At(c, "address")' => Justified(client[c].order, client[c].row)'
  BY <1>1, <1>3 DEF MoneyIInv, RowsHeldJustified, Justified, At
<1>4. CASE PaymentNext
  <2>1. OnlineNeedsMoney' /\ UNCHANGED <<creating, pc, task, snap>>
    BY <1>1, <1>4, PaymentOrdersJustified, PaymentLeavesRequests
  <2>2. ASSUME NEW c \in Clients, At(c, "address")'
        PROVE  Justified(client[c].order, client[c].row)'
    <3>1. CASE client'[c] = client[c]
      BY <1>1, <2>2, <3>1 DEF MoneyIInv, RowsHeldJustified, Justified, At
    <3>2. CASE Start(c)
      <4>1. PICK o \in Orders : client'[c].order = o /\ client'[c].row = order[o]
        BY <1>0, <3>2 DEF CheckoutTypeOK, Start
      <4> QED
        BY <1>1, <4>1 DEF MoneyIInv, OnlineNeedsMoney, Justified
    <3> QED
      BY <1>0, <1>4, <2>2, <3>1, <3>2, AddressOnlyAfterStart DEF At
  <2> QED
    BY <1>1, <1>2, <2>1, <2>2 DEF MoneyIInv, RowsHeldJustified, RequestsJustified, FreeOnes
<1>5. CASE AdminNext /\ UNCHANGED payVars
  <2>1. OnlineNeedsMoney' /\ RequestsJustified'
    BY <1>1, <1>5, AdminOrdersJustified, AdminRequestsJustified
  <2>2. creating' \subseteq creating
    BY <1>5 DEF AdminNext, Step, Begin, UpdateStatus, CheckNoCapture, ReverseRead,
       ReverseStock, ReverseWallet, ReverseDiscount, ReverseFind, ReverseCancel,
       ReverseMark, VoidOrder, PurgeOrder, AddTracking, EditItems, SaveOrder, Crash,
       AutoConfirm
  <2> QED
    BY <1>1, <1>3, <1>5, <2>1, <2>2 DEF MoneyIInv, RowsHeldJustified, RequestsJustified,
       FreeOnes, payVars
<1>6. CASE UNCHANGED vars
  <2>1. UNCHANGED <<order, creating, pc, task, snap, client>>
    BY <1>6 DEF vars, orderVars, payVars
  <2> QED
    BY <1>1, <1>2, <1>3, <2>1, NoWriteJustified DEF MoneyIInv, RowsHeldJustified,
       RequestsJustified, FreeOnes
<1> QED
  BY <1>4, <1>5, <1>6 DEF CheckoutNext

(* What makes the money of online orders inductive, in every run of the      *)
(* composed system: whoever holds a copy of a row that moved on, or is about *)
(* to move one on, does so for money already in the ledger.                  *)
THEOREM MoneyInvariant == CheckoutSpec => []MoneyIInv
<1>1. CheckoutInit => MoneyIInv
  BY MoneyInit
<1>2. MoneyIInv /\ [CheckoutNext]_vars => MoneyIInv'
  BY MoneyNext
<1> QED
  BY <1>1, <1>2, PTL DEF CheckoutSpec

(* ONLINE orders "not submitted for ops review until a payment is captured":  *)
(* however callbacks, administrators, stale saves and crashes interleave, an  *)
(* online order is past AWAITING_PAYMENT only with money in the ledger.      *)
THEOREM OnlineNeedsMoneyHolds == CheckoutSpec => []OnlineNeedsMoney
<1>1. MoneyIInv => OnlineNeedsMoney
  BY DEF MoneyIInv
<1> QED
  BY <1>1, MoneyInvariant, PTL

----------------------------------------------------------------------------
(* The rows of the payments table: who writes them, from which copy.         *)

SameRows == UNCHANGED <<payment, attempts, gatewayOf, psp, captured, ledger>>

\* Where a step may take a request that writes nothing but its local values.
Reads(c) ==
  LET here == client[c]
      next == client'[c]
  IN
  \/ next = NoClient /\ (ClientsCrash \/ here.at \notin Talking)
  \/ here.at = "idle" /\ next.at \in {"address", "look"} /\ next.gateway \in Gateways
  \/ here.at = "address" /\ next.at = "look" /\ next.gateway = here.gateway
  \/ /\ here.at = "look" /\ next.at = "pending" /\ next.gateway = here.gateway
     /\ next.order = here.order /\ ~StartLocked(here.order)
  \/ /\ here.at = "pending" /\ next.at = "insert" /\ next.gateway = here.gateway
     /\ next.order = here.order /\ RowsIn(here.order, "PENDING") = {}
  \/ /\ here.at = "pending" /\ next.at \in {"switch", "attempt"} /\ next.order = here.order
     /\ next.id \in RowsIn(here.order, "PENDING")
     /\ next.at = "attempt" <=> gatewayOf[next.id] = here.gateway
  \/ /\ here.at \in {"idle", "look", "capture"} /\ next.at = "reapply"
     /\ next.id \in Payments /\ payment[next.id].status = "PAID"
  \/ /\ here.at = "idle" /\ next.at \in {"cancel", "verify"} /\ next.id \in Payments
     /\ psp[next.id] \in {"given", "paid"}
     /\ next.at = "verify" => psp[next.id] = "paid" \/ ~Reliable
  \/ here.at = "verify" /\ next.at = "capture" /\ next.id = here.id /\ psp[here.id] = "paid"
  \/ /\ here.at = "verify" /\ next.at = "reject" /\ next.id = here.id
     /\ ~(psp[here.id] = "paid" /\ Reliable)
  \/ here.at = "open" /\ next.at = "fail" /\ next.id = here.id

Reading(c) == SameRows /\ Others(c) /\ Reads(c)

LEMMA MoveLocals ==
  ASSUME CheckoutIInv, NEW c \in Clients, NEW place, Move(c, place)
  PROVE  /\ Others(c) /\ client'[c].at = place /\ client'[c].id = client[c].id
         /\ client'[c].order = client[c].order /\ client'[c].gateway = client[c].gateway
<1>1. client \in [Clients -> ClientType]
  BY DEF CheckoutIInv, CheckoutTypeOK, ClientType
<1> QED
  BY <1>1 DEF Move, Others, ClientType

LEMMA LeaveLocals ==
  ASSUME CheckoutIInv, NEW c \in Clients, Leave(c)
  PROVE  Others(c) /\ client'[c] = NoClient
BY DEF CheckoutIInv, CheckoutTypeOK, Leave, Others

LEMMA ReadingSteps ==
  ASSUME CheckoutIInv, NEW c \in Clients,
         \/ Start(c) \/ SaveAddress(c) \/ LookForPaid(c) \/ LookForPending(c)
         \/ VerifyReturn(c) \/ RetryApply(c) \/ CrashClient(c)
         \/ \E p \in Payments : Return(c, p)
         \/ InsertAttempt(c) /\ UNCHANGED attempts
         \/ OpenSession(c) /\ UNCHANGED pspVars
         \/ CapturePayment(c) /\ UNCHANGED <<orderVars, ledger>>
  PROVE  Reading(c) \/ (OpenSession(c) /\ Move(c, "save"))
<1>0. client \in [Clients -> ClientType]
  BY DEF CheckoutIInv, CheckoutTypeOK, ClientType
<1>1. CASE Start(c)
  <2>1. PICK o \in Orders, g \in Gateways : client' = [client EXCEPT ![c] =
            [at |-> IF AddressSent THEN "address" ELSE "look",
             order |-> o, gateway |-> g, id |-> NoId, authority |-> FALSE,
             row |-> order[o]]]
    BY <1>1 DEF Start
  <2>2. /\ Others(c) /\ client'[c].at \in {"address", "look"} /\ client'[c].gateway \in Gateways
        /\ client[c].at = "idle"
    BY <1>0, <1>1, <2>1 DEF Others, Start, At
  <2>3. SameRows
    BY <1>1 DEF Start, SameRows, orderVars, pspVars
  <2> QED
    BY <2>2, <2>3 DEF Reading, Reads
<1>2. CASE SaveAddress(c)
  <2>1. SameRows /\ client[c].at = "address" /\ Move(c, "look")
    BY <1>2 DEF SaveAddress, At, SameRows, pspVars
  <2> QED
    BY <2>1, MoveLocals DEF Reading, Reads
<1>3. CASE LookForPaid(c)
  <2>1. SameRows /\ client[c].at = "look" /\ ~StartLocked(client[c].order)
    BY <1>3 DEF LookForPaid, At, SameRows, orderVars, pspVars
  <2>2. CASE Move(c, "pending")
    BY <2>1, <2>2, MoveLocals DEF Reading, Reads
  <2>3. ASSUME NEW p \in Payments, IsLatest(p, RowsIn(client[c].order, "PAID")),
               client' = [client EXCEPT ![c].at = "reapply", ![c].id = p]
        PROVE  Reading(c)
    <3>1. payment[p].status = "PAID"
      BY <2>3 DEF IsLatest, RowsIn
    <3>2. Others(c) /\ client'[c].at = "reapply" /\ client'[c].id = p
      BY <1>0, <2>3 DEF Others, ClientType
    <3> QED
      BY <2>1, <3>1, <3>2 DEF Reading, Reads
  <2> QED
    BY <1>3, <2>2, <2>3 DEF LookForPaid
<1>4. CASE LookForPending(c)
  <2>1. SameRows /\ client[c].at = "pending"
    BY <1>4 DEF LookForPending, At, SameRows, orderVars, pspVars
  <2>2. CASE RowsIn(client[c].order, "PENDING") = {} /\ Move(c, "insert")
    BY <2>1, <2>2, MoveLocals DEF Reading, Reads
  <2>3. CASE Leave(c)
    BY <2>1, <2>3, LeaveLocals DEF Reading, Reads, Talking
  <2>4. ASSUME NEW last \in RowsIn(client[c].order, "PENDING"), NEW place \in {"switch", "attempt"},
               place = "attempt" <=> gatewayOf[last] = client[c].gateway,
               \/ client' = [client EXCEPT ![c].at = place, ![c].id = last,
                                           ![c].authority = payment[last].authority]
               \/ client' = [client EXCEPT ![c].at = place, ![c].id = last]
        PROVE  Reading(c)
    <3>1. /\ Others(c) /\ client'[c].at = place /\ client'[c].id = last
          /\ client'[c].order = client[c].order
      BY <1>0, <2>4 DEF Others, ClientType
    <3> QED
      BY <2>1, <2>4, <3>1 DEF Reading, Reads
  <2> QED
    BY <1>4, <2>2, <2>3, <2>4 DEF LookForPending, IsLatest
<1>5. CASE VerifyReturn(c)
  <2>1. SameRows /\ client[c].at = "verify"
    BY <1>5 DEF VerifyReturn, At, SameRows, orderVars, pspVars
  <2>2. CASE Confirms(client[c].id) /\ Move(c, "capture")
    BY <2>1, <2>2, MoveLocals DEF Reading, Reads, Confirms
  <2>3. CASE ~(Confirms(client[c].id) /\ Reliable) /\ Move(c, "reject")
    BY <2>1, <2>3, MoveLocals DEF Reading, Reads, Confirms
  <2> QED
    BY <1>5, <2>2, <2>3 DEF VerifyReturn
<1>6. CASE RetryApply(c) \/ CrashClient(c)
  <2>1. SameRows /\ Leave(c) /\ (ClientsCrash \/ client[c].at \notin Talking)
    BY <1>6 DEF RetryApply, CrashClient, At, SameRows, orderVars, pspVars, Talking
  <2> QED
    BY <2>1, LeaveLocals DEF Reading, Reads
<1>7. ASSUME NEW p \in Payments, Return(c, p) PROVE Reading(c)
  <2>1. SameRows /\ client[c].at = "idle" /\ psp[p] \in {"given", "paid"}
    BY <1>7 DEF Return, At, SameRows, orderVars, pspVars
  <2>2. PICK place \in {"reapply", "cancel", "verify"} :
          /\ client' = [client EXCEPT ![c].at = place, ![c].id = p, ![c].order = OrderOf[p]]
          /\ place = "reapply" => payment[p].status = "PAID"
          /\ place = "verify" => psp[p] = "paid" \/ ~Reliable
    BY <1>7 DEF Return, AlreadyBooked
  <2>3. Others(c) /\ client'[c].at = place /\ client'[c].id = p
    BY <1>0, <2>2 DEF Others, ClientType
  <2> QED
    BY <2>1, <2>2, <2>3 DEF Reading, Reads
<1>8. CASE InsertAttempt(c) /\ UNCHANGED attempts
  <2>1. SameRows /\ client[c].at = "attempt"
    BY <1>8 DEF InsertAttempt, At, SameRows, orderVars, pspVars
  <2>2. CASE Leave(c)
    BY <2>1, <2>2, LeaveLocals DEF Reading, Reads, Talking
  <2>3. CASE MayAttempt(client[c].id)
    BY <1>8, <2>2, <2>3 DEF InsertAttempt, MayAttempt
  <2> QED
    BY <1>8, <2>2, <2>3 DEF InsertAttempt
<1>9. CASE OpenSession(c) /\ UNCHANGED pspVars
  <2>1. SameRows /\ client[c].at = "open"
    BY <1>9 DEF OpenSession, At, SameRows, orderVars, pspVars
  <2>2. CASE Move(c, "fail")
    BY <2>1, <2>2, MoveLocals DEF Reading, Reads
  <2> QED
    BY <1>9, <2>2 DEF OpenSession
<1>10. CASE CapturePayment(c) /\ UNCHANGED <<orderVars, ledger>>
  <2>1. SameRows /\ client[c].at = "capture"
    BY <1>10 DEF CapturePayment, At, SameRows, orderVars, pspVars
  <2>2. CASE Leave(c)
    BY <2>1, <2>2, LeaveLocals DEF Reading, Reads, Talking
  <2>3. CASE payment[client[c].id].status = "PAID" /\ Move(c, "reapply")
    <3>1. client[c].id \in Payments
      BY <2>1 DEF CheckoutIInv, PlacesOK, PaymentsOf, Choosing
    <3> QED
      BY <2>1, <2>3, <3>1, MoveLocals DEF Reading, Reads
  <2> QED
    BY <1>10, <2>2, <2>3 DEF CapturePayment
<1> QED
  BY <1>1, <1>2, <1>3, <1>4, <1>5, <1>6, <1>7, <1>8, <1>9, <1>10

\* The write that ends a request, to the row of its payment.
Writes(c) ==
  LET p    == client[c].id
      at   == client[c].at
      kept == payment'[p].authority = payment[p].authority /\ psp'[p] = psp[p]
  IN
  \/ at = "save" /\ payment'[p] = SessionRow /\ psp'[p] = "given" /\ UNCHANGED captured
  \/ at = "fail" /\ payment'[p] = FailedRow /\ psp'[p] = psp[p] /\ UNCHANGED captured
  \/ at = "cancel" /\ payment'[p] = payment[p] /\ kept /\ UNCHANGED captured
  \/ /\ at = "cancel" /\ payment[p].status \in SoftCancellable
     /\ payment'[p].status = "CANCELLED" /\ kept /\ UNCHANGED captured
  \/ at = "reject" /\ payment'[p].status = "FAILED" /\ kept /\ UNCHANGED captured
  \/ /\ at = "capture" /\ payment[p].status \in Capturable
     /\ payment'[p].status = "PAID" /\ kept /\ captured' = captured \cup {p}

Closing(c) ==
  /\ client[c].id \in Payments /\ Others(c) /\ client'[c] = NoClient
  /\ UNCHANGED <<attempts, gatewayOf>>
  /\ \A q \in Payments \ {client[c].id} : payment'[q] = payment[q] /\ psp'[q] = psp[q]
  /\ Writes(c)

LEMMA ClosingSteps ==
  ASSUME CheckoutIInv, NEW c \in Clients,
         \/ SaveSession(c) \/ FailStart(c) \/ CancelSoftly(c) \/ RejectPayment(c)
         \/ CapturePayment(c) /\ ~UNCHANGED <<orderVars, ledger>>
  PROVE  Closing(c)
<1> DEFINE p == client[c].id
<1>0. /\ payment \in [Payments -> PaymentRow] /\ psp \in [Payments -> PspStates]
  BY DEF CheckoutIInv, CheckoutTypeOK, OrderTypeOK, TablesOK
<1>1. /\ p \in Payments /\ Leave(c) /\ UNCHANGED <<attempts, gatewayOf>>
  <2>1. client[c].at \notin Choosing
    BY DEF SaveSession, FailStart, CancelSoftly, RejectPayment, CapturePayment, At, Choosing
  <2> QED
    BY <2>1 DEF CheckoutIInv, PlacesOK, PaymentsOf, SaveSession, FailStart, CancelSoftly,
       RejectPayment, CapturePayment
<1>2. Others(c) /\ client'[c] = NoClient
  BY <1>1, LeaveLocals
<1>3. CASE SaveSession(c)
  <2>1. /\ payment' = [payment EXCEPT ![p] = SessionRow] /\ psp' = [psp EXCEPT ![p] = "given"]
        /\ UNCHANGED captured /\ client[c].at = "save"
    BY <1>3 DEF SaveSession, At
  <2> QED
    BY <1>0, <1>1, <1>2, <2>1 DEF Closing, Writes
<1>4. CASE FailStart(c)
  <2>1. /\ payment' = [payment EXCEPT ![p] = FailedRow] /\ psp' = psp
        /\ UNCHANGED captured /\ client[c].at = "fail"
    BY <1>4 DEF FailStart, At, pspVars
  <2> QED
    BY <1>0, <1>1, <1>2, <2>1 DEF Closing, Writes
<1>5. CASE CancelSoftly(c)
  <2>1. /\ payment' = IF payment[p].status \in SoftCancellable
                      THEN [payment EXCEPT ![p].status = "CANCELLED"] ELSE payment
        /\ psp' = psp /\ UNCHANGED captured /\ client[c].at = "cancel"
    BY <1>5 DEF CancelSoftly, At, pspVars
  <2> QED
    BY <1>0, <1>1, <1>2, <2>1 DEF Closing, Writes, PaymentRow
<1>6. CASE RejectPayment(c)
  <2>1. /\ payment' = [payment EXCEPT ![p].status = "FAILED"]
        /\ psp' = psp /\ UNCHANGED captured /\ client[c].at = "reject"
    BY <1>6 DEF RejectPayment, At, pspVars
  <2> QED
    BY <1>0, <1>1, <1>2, <2>1 DEF Closing, Writes, PaymentRow
<1>7. CASE CapturePayment(c) /\ ~UNCHANGED <<orderVars, ledger>>
  <2>1. /\ payment[p].status \in Capturable /\ BookCapture(p)
        /\ psp' = psp /\ client[c].at = "capture"
    BY <1>7 DEF CapturePayment, At, pspVars
  <2>2. payment' = [payment EXCEPT ![p].status = "PAID"] /\ captured' = captured \cup {p}
    BY <2>1 DEF BookCapture
  <2> QED
    BY <1>0, <1>1, <1>2, <2>1, <2>2 DEF Closing, Writes, PaymentRow
<1> QED
  BY <1>3, <1>4, <1>5, <1>6, <1>7

\* A start inserts a row and goes on with it.
Inserting(c) ==
  \E p \in PaymentsOf(client[c].order) :
    /\ payment[p].status = "NONE" /\ payment'[p] = NewPayment
    /\ gatewayOf'[p] = client[c].gateway
    /\ \A q \in Payments \ {p} : gatewayOf'[q] = gatewayOf[q]
    /\ UNCHANGED <<attempts, psp, captured>> /\ Others(c)
    /\ client'[c].at = "attempt" /\ client'[c].id = p
    /\ \/ client[c].at = "insert" /\ \A q \in Payments \ {p} : payment'[q] = payment[q]
       \/ /\ client[c].at = "switch"
          /\ \A q \in Payments \ {p} : payment'[q] = payment[q] \/ payment'[q].status = "CANCELLED"

LEMMA InsertingSteps ==
  ASSUME CheckoutIInv, NEW c \in Clients, InsertFirst(c) \/ SwitchGateway(c)
  PROVE  Inserting(c)
<1>0. /\ payment \in [Payments -> PaymentRow] /\ client \in [Clients -> ClientType]
      /\ gatewayOf \in [Payments -> Gateways \cup {"MANUAL"}]
  BY DEF CheckoutIInv, CheckoutTypeOK, OrderTypeOK, TablesOK, ClientType
<1>1. ASSUME NEW p \in Payments, NEW table \in [Payments -> PaymentRow], InsertPayment(c, p, table)
      PROVE  /\ p \in PaymentsOf(client[c].order)
             /\ payment[p].status = "NONE" /\ payment'[p] = NewPayment
             /\ gatewayOf'[p] = client[c].gateway
             /\ \A q \in Payments \ {p} : payment'[q] = table[q] /\ gatewayOf'[q] = gatewayOf[q]
             /\ UNCHANGED <<attempts, psp, captured>> /\ Others(c)
             /\ client'[c].at = "attempt" /\ client'[c].id = p
  BY <1>0, <1>1 DEF InsertPayment, FreshId, PaymentsOf, pspVars, Others, ClientType
<1>2. CASE InsertFirst(c)
  <2>1. PICK p \in Payments : InsertPayment(c, p, payment)
    BY <1>2 DEF InsertFirst
  <2> QED
    BY <1>0, <1>1, <1>2, <2>1 DEF Inserting, InsertFirst, At
<1>3. CASE SwitchGateway(c)
  <2> DEFINE row   == [status |-> "CANCELLED", authority |-> client[c].authority]
             table == [payment EXCEPT ![client[c].id] = row]
  <2>1. row \in PaymentRow /\ row.status = "CANCELLED"
    BY <1>0, RowTypes DEF ClientType
  <2>2. /\ table \in [Payments -> PaymentRow]
        /\ \A q \in Payments : table[q] = payment[q] \/ table[q].status = "CANCELLED"
    BY <1>0, <2>1
  <2>3. PICK p \in Payments : InsertPayment(c, p, table)
    BY <1>3 DEF SwitchGateway
  <2>4. client[c].at = "switch"
    BY <1>3 DEF SwitchGateway, At
  <2> HIDE DEF table
  <2>5. \A q \in Payments \ {p} : payment'[q] = payment[q] \/ payment'[q].status = "CANCELLED"
    BY <1>1, <2>2, <2>3
  <2> QED
    BY <1>1, <2>2, <2>3, <2>4, <2>5 DEF Inserting
<1> QED
  BY <1>2, <1>3

\* The attempt row and the session of a start.
Opening(c) ==
  LET p == client[c].id IN
  /\ p \in Payments /\ Others(c) /\ client'[c].id = p
  /\ UNCHANGED <<payment, gatewayOf, captured>>
  /\ \/ /\ client[c].at = "attempt" /\ client'[c].at = "open" /\ p \notin attempts
        /\ attempts' = attempts \cup {p} /\ UNCHANGED psp
     \/ /\ client[c].at = "open" /\ client'[c].at = "save" /\ UNCHANGED attempts
        /\ psp'[p] = "opened" /\ \A q \in Payments \ {p} : psp'[q] = psp[q]

LEMMA OpeningSteps ==
  ASSUME CheckoutIInv, NEW c \in Clients,
         \/ InsertAttempt(c) /\ ~UNCHANGED attempts
         \/ OpenSession(c) /\ ~UNCHANGED pspVars
  PROVE  Opening(c)
<1>1. client[c].id \in Payments /\ psp \in [Payments -> PspStates]
  BY DEF CheckoutIInv, CheckoutTypeOK, PlacesOK, PaymentsOf, InsertAttempt, OpenSession, At, Choosing
<1>2. CASE InsertAttempt(c) /\ ~UNCHANGED attempts
  <2>1. /\ client[c].at = "attempt" /\ client[c].id \notin attempts
        /\ attempts' = attempts \cup {client[c].id} /\ Move(c, "open")
        /\ UNCHANGED <<payment, gatewayOf, captured, psp>>
    BY <1>2 DEF InsertAttempt, MayAttempt, At, orderVars, pspVars
  <2> QED
    BY <1>1, <2>1, MoveLocals DEF Opening
<1>3. CASE OpenSession(c) /\ ~UNCHANGED pspVars
  <2>1. /\ client[c].at = "open" /\ psp' = [psp EXCEPT ![client[c].id] = "opened"]
        /\ Move(c, "save") /\ UNCHANGED <<payment, gatewayOf, captured, attempts>>
    BY <1>3 DEF OpenSession, At, orderVars
  <2> QED
    BY <1>1, <2>1, MoveLocals DEF Opening
<1> QED
  BY <1>2, <1>3

\* The steps of customers and of the gateway, by what they do to the rows.
LEMMA PaymentSteps ==
  ASSUME CheckoutIInv, PaymentNext
  PROVE  \/ \E c \in Clients : Reading(c) \/ Closing(c) \/ Inserting(c) \/ Opening(c)
         \/ \E p \in Payments : PayAtGateway(p) \/ RecordManual(p)
<1>1. ASSUME NEW c \in Clients, Start(c) \/ Serve(c) \/ CrashClient(c)
      PROVE  Reading(c) \/ Closing(c) \/ Inserting(c) \/ Opening(c)
  <2>1. CASE OpenSession(c)
    <3>1. CASE UNCHANGED pspVars
      <4>1. ~Move(c, "save") => Reading(c)
        BY <2>1, <3>1, ReadingSteps
      <4>2. Move(c, "save") /\ UNCHANGED pspVars => Opening(c)
        <5> SUFFICES ASSUME Move(c, "save"), UNCHANGED pspVars PROVE FALSE
          OBVIOUS
        <5>1. client'[c].at = "save"
          BY MoveLocals
        <5>2. CASE Move(c, "fail")
          BY <5>1, <5>2, MoveLocals
        <5>3. CASE psp' = [psp EXCEPT ![client[c].id] = "opened"]
          <6>1. psp \in [Payments -> PspStates] /\ client[c].id \in Payments /\ psp[client[c].id] = "none"
            BY <2>1 DEF CheckoutIInv, CheckoutTypeOK, PlacesOK, SessionsKnown, PaymentsOf, OpenSession, At, Choosing
          <6> QED
            BY <5>3, <6>1 DEF pspVars
        <5> QED
          BY <2>1, <5>2, <5>3 DEF OpenSession
      <4> QED
        BY <3>1, <4>1, <4>2
    <3>2. CASE ~UNCHANGED pspVars
      BY <2>1, <3>2, OpeningSteps
    <3> QED
      BY <3>1, <3>2
  <2>2. CASE InsertAttempt(c)
    BY <2>2, ReadingSteps, OpeningSteps DEF OpenSession, InsertAttempt, At
  <2>3. CASE CapturePayment(c)
    BY <2>3, ReadingSteps, ClosingSteps DEF OpenSession, CapturePayment, At
  <2>4. CASE \/ Start(c) \/ SaveAddress(c) \/ LookForPaid(c) \/ LookForPending(c)
             \/ VerifyReturn(c) \/ RetryApply(c) \/ CrashClient(c)
    <3>1. Reading(c) \/ OpenSession(c)
      BY <2>4, ReadingSteps
    <3> QED
      BY <2>1, <3>1
  <2>5. CASE SaveSession(c) \/ FailStart(c) \/ CancelSoftly(c) \/ RejectPayment(c)
    BY <2>5, ClosingSteps
  <2>6. CASE InsertFirst(c) \/ SwitchGateway(c)
    BY <2>6, InsertingSteps
  <2> QED
    BY <1>1, <2>1, <2>2, <2>3, <2>4, <2>5, <2>6 DEF Serve
<1>2. ASSUME NEW c \in Clients, NEW p \in Payments, Return(c, p)
      PROVE  Reading(c)
  <2>1. Reading(c) \/ OpenSession(c)
    BY <1>2, ReadingSteps
  <2> QED
    BY <1>2, <2>1 DEF Return, OpenSession, At
<1> QED
  BY <1>1, <1>2 DEF PaymentNext

\* Administrators cancel payment rows, in a reversal, and do nothing else to them.
LEMMA AdminLeavesRows ==
  ASSUME CheckoutIInv, (AdminNext /\ UNCHANGED payVars) \/ UNCHANGED vars
  PROVE  /\ UNCHANGED <<client, attempts, gatewayOf, psp, sessions, ledger, captured>>
         /\ \A p \in Payments : payment'[p] = payment[p] \/ payment'[p].status = "CANCELLED"
         /\ (\A r \in Requests : pc[r] # "rev_cancel") => UNCHANGED payment
<1>0. OrderTypeOK /\ payment \in [Payments -> PaymentRow]
  BY DEF CheckoutIInv, CheckoutTypeOK, OrderTypeOK, TablesOK
<1>1. UNCHANGED <<client, attempts, gatewayOf, psp, sessions, ledger, captured>>
  BY <1>0, AdminRewrites DEF payVars, pspVars, vars, orderVars
<1>2. UNCHANGED payment \/ \E r \in Requests : ReverseCancel(r)
  BY DEF AdminNext, Step, Begin, UpdateStatus, CheckNoCapture, ReverseRead,
     ReverseStock, ReverseWallet, ReverseDiscount, ReverseFind, ReverseMark, VoidOrder, PurgeOrder,
     AddTracking, EditItems, SaveOrder, Crash, AutoConfirm, vars, orderVars
<1>3. ASSUME NEW r \in Requests, ReverseCancel(r)
      PROVE  /\ pc[r] = "rev_cancel"
             /\ \A p \in Payments : payment'[p] = payment[p] \/ payment'[p].status = "CANCELLED"
  <2>1. pc[r] = "rev_cancel"
    BY <1>3 DEF ReverseCancel
  <2>2. \/ UNCHANGED payment
        \/ \E row : payment' = [payment EXCEPT ![row.id] =
                                  [status |-> "CANCELLED", authority |-> row.authority]]
    BY <1>3 DEF ReverseCancel
  <2>3. ASSUME NEW row, payment' = [payment EXCEPT ![row.id] =
                          [status |-> "CANCELLED", authority |-> row.authority]]
        PROVE  \A p \in Payments : payment'[p] = payment[p] \/ payment'[p].status = "CANCELLED"
    BY <1>0, <2>3
  <2>4. CASE UNCHANGED payment
    BY <2>1, <2>4
  <2> QED
    BY <2>1, <2>2, <2>3, <2>4
<1> QED
  BY <1>1, <1>2, <1>3

\* A row that exists keeps existing.
LEMMA RowsStay ==
  ASSUME CheckoutIInv, [CheckoutNext]_vars
  PROVE  \A p \in Payments : payment'[p] = payment[p] \/ payment'[p].status # "NONE"
<1>1. ASSUME NEW c \in Clients, Reading(c) \/ Closing(c) \/ Inserting(c) \/ Opening(c)
      PROVE  \A p \in Payments : payment'[p] = payment[p] \/ payment'[p].status # "NONE"
  BY <1>1 DEF Reading, SameRows, Closing, Writes, SessionRow, FailedRow, Inserting, NewPayment,
     PaymentsOf, Opening
<1>2. ASSUME NEW p \in Payments, PayAtGateway(p) \/ RecordManual(p)
      PROVE  \A q \in Payments : payment'[q] = payment[q] \/ payment'[q].status # "NONE"
  <2>1. payment \in [Payments -> PaymentRow]
    BY DEF CheckoutIInv, CheckoutTypeOK, OrderTypeOK, TablesOK
  <2> QED
    BY <1>2, <2>1 DEF PayAtGateway, orderVars, RecordManual, BookCapture, PaymentRow
<1>3. CASE PaymentNext
  BY <1>1, <1>2, <1>3, PaymentSteps
<1> QED
  BY <1>3, AdminLeavesRows DEF CheckoutNext

LEMMA RowsExistNext ==
  ASSUME CheckoutIInv, RowsExist, [CheckoutNext]_vars
  PROVE  RowsExist'
<1>0. /\ \A c \in Clients : client[c].at \notin Choosing => client[c].id \in Payments
      /\ attempts \subseteq Payments
  BY DEF CheckoutIInv, CheckoutTypeOK, PlacesOK, PaymentsOf
<1>1. \A p \in Payments : payment[p].status # "NONE" => payment'[p].status # "NONE"
  BY RowsStay
<1>2. ASSUME UNCHANGED <<client, attempts>> PROVE RowsExist'
  BY <1>0, <1>1, <1>2 DEF RowsExist
<1>3. ASSUME NEW c \in Clients, Others(c), attempts' \subseteq attempts \cup {client[c].id},
             attempts' = attempts \/ client[c].at \notin Choosing,
             client'[c].at \notin Choosing
               => client'[c].id \in Payments /\ payment'[client'[c].id].status # "NONE"
      PROVE  RowsExist'
  <2>1. \A p \in attempts' : payment'[p].status # "NONE"
    BY <1>0, <1>1, <1>3 DEF RowsExist
  <2>2. ASSUME NEW d \in Clients, client'[d].at \notin Choosing
        PROVE  payment'[client'[d].id].status # "NONE"
    BY <1>0, <1>1, <1>3, <2>2 DEF RowsExist, Others
  <2> QED
    BY <2>1, <2>2 DEF RowsExist
<1>4. ASSUME NEW c \in Clients, Reading(c) PROVE RowsExist'
  <2>1. UNCHANGED <<attempts, payment>> /\ Others(c) /\ Reads(c)
    BY <1>4 DEF Reading, SameRows
  <2>2. client'[c].at \notin Choosing
          => client'[c].id \in Payments /\ payment[client'[c].id].status # "NONE"
    <3>1. CASE client'[c] = NoClient
      BY <3>1 DEF NoClient, Choosing
    <3>2. CASE client'[c].id = client[c].id /\ client[c].at \in {"verify", "open"}
      <4>1. client[c].at \notin Choosing
        BY <3>2 DEF Choosing
      <4> QED
        BY <1>0, <3>2, <4>1 DEF RowsExist
    <3>3. CASE client'[c].id \in RowsIn(client[c].order, "PENDING")
      BY <3>3 DEF RowsIn, PaymentsOf
    <3>4. CASE client'[c].id \in Payments /\ payment[client'[c].id].status = "PAID"
      BY <3>4
    <3>5. CASE client'[c].id \in Payments /\ psp[client'[c].id] \in {"given", "paid"}
      BY <3>5 DEF CheckoutIInv, SessionsKnown, RowsExist
    <3>6. CASE client'[c].at \in {"address", "look", "pending", "insert"}
      BY <3>6 DEF Choosing
    <3> QED
      BY <2>1, <3>1, <3>2, <3>3, <3>4, <3>5, <3>6 DEF Reads
  <2> QED
    BY <1>3, <2>1, <2>2
<1>5. ASSUME NEW c \in Clients, Closing(c) PROVE RowsExist'
  BY <1>3, <1>5 DEF Closing, NoClient, Choosing
<1>6. ASSUME NEW c \in Clients, Inserting(c) PROVE RowsExist'
  BY <1>3, <1>6 DEF Inserting, PaymentsOf, NewPayment
<1>7. ASSUME NEW c \in Clients, Opening(c) PROVE RowsExist'
  <2>1. /\ client[c].at \notin Choosing /\ client'[c].id = client[c].id /\ Others(c)
        /\ attempts' = attempts \/ attempts' = attempts \cup {client[c].id}
    BY <1>7 DEF Opening, Choosing
  <2>2. client'[c].id \in Payments /\ payment'[client'[c].id].status # "NONE"
    BY <1>0, <1>1, <2>1 DEF RowsExist
  <2> QED
    BY <1>3, <2>1, <2>2
<1>8. ASSUME NEW p \in Payments, PayAtGateway(p) \/ RecordManual(p) PROVE RowsExist'
  BY <1>2, <1>8 DEF PayAtGateway, RecordManual
<1>9. CASE PaymentNext
  BY <1>4, <1>5, <1>6, <1>7, <1>8, <1>9, PaymentSteps
<1> QED
  BY <1>2, <1>9, AdminLeavesRows DEF CheckoutNext

LEMMA NoStuckNext ==
  ASSUME ~ClientsCrash, StuckIInv, [CheckoutNext]_vars
  PROVE  NoStuckStart'
<1>0. CheckoutIInv /\ RowsExist /\ NoStuckStart /\ attempts \subseteq Payments
  BY DEF StuckIInv, CheckoutIInv, CheckoutTypeOK
<1> DEFINE Served(p) == \E c \in Clients : client[c].id = p /\ client[c].at \in Talking
<1>1. \A p \in attempts : payment[p] = NewPayment => Served(p)
  BY <1>0 DEF NoStuckStart, Talking
<1>2. SUFFICES ASSUME NEW p \in attempts', payment'[p] = NewPayment PROVE Served(p)'
  BY DEF NoStuckStart, Talking
<1> HIDE DEF Served
<1>3. ASSUME NEW c \in Clients, Others(c), p \in attempts, payment[p] = NewPayment,
             client[c].at \in Talking => client'[c].at \in Talking /\ client'[c].id = client[c].id
      PROVE  Served(p)'
  <2>1. PICK d \in Clients : client[d].id = p /\ client[d].at \in Talking
    BY <1>1, <1>3 DEF Served
  <2>2. client'[d].id = p /\ client'[d].at \in Talking
    BY <1>3, <2>1 DEF Others
  <2> QED
    BY <2>2 DEF Served
<1>4. ASSUME NEW c \in Clients, Reading(c) PROVE Served(p)'
  <2>1. client[c].at \in Talking => client'[c].at \in Talking /\ client'[c].id = client[c].id
    BY <1>4 DEF Reading, Reads, Talking
  <2> QED
    BY <1>2, <1>3, <1>4, <2>1 DEF Reading, SameRows
<1>5. ASSUME NEW c \in Clients, Closing(c) PROVE Served(p)'
  <2>1. p \in attempts /\ p \in Payments
    BY <1>0, <1>2, <1>5 DEF Closing
  <2>2. CASE p # client[c].id
    <3>1. payment[p] = NewPayment
      BY <1>2, <1>5, <2>1, <2>2 DEF Closing
    <3>2. PICK d \in Clients : client[d].id = p /\ client[d].at \in Talking
      BY <1>1, <2>1, <3>1 DEF Served
    <3>3. client'[d] = client[d]
      BY <1>5, <2>2, <3>2 DEF Closing, Others
    <3> QED
      BY <3>2, <3>3 DEF Served
  <2>3. CASE p = client[c].id /\ client[c].at \in {"save", "fail"}
    BY <1>2, <1>5, <2>3 DEF Closing, Writes, SessionRow, FailedRow, NewPayment
  <2>4. CASE p = client[c].id /\ client[c].at \notin {"save", "fail"}
    <3>1. payment'[p].status = "PENDING" /\ client[c].at = "cancel" /\ payment'[p] = payment[p]
      BY <1>2, <1>5, <2>4 DEF Closing, Writes, NewPayment
    <3>2. Others(c) /\ client[c].at \notin Talking
      BY <1>5, <3>1 DEF Closing, Talking
    <3> QED
      BY <1>2, <1>3, <2>1, <3>1, <3>2
  <2> QED
    BY <2>2, <2>3, <2>4
<1>6. ASSUME NEW c \in Clients, Inserting(c) PROVE Served(p)'
  <2>1. PICK n \in PaymentsOf(client[c].order) :
          /\ payment[n].status = "NONE" /\ UNCHANGED attempts /\ Others(c)
          /\ client[c].at \in {"insert", "switch"}
          /\ \A q \in Payments \ {n} : payment'[q] = payment[q] \/ payment'[q].status = "CANCELLED"
    BY <1>6 DEF Inserting
  <2>2. p # n /\ p \in attempts /\ p \in Payments
    BY <1>0, <1>2, <2>1 DEF RowsExist
  <2>3. payment[p] = NewPayment
    BY <1>2, <2>1, <2>2 DEF NewPayment
  <2> QED
    BY <1>3, <2>1, <2>2, <2>3 DEF Talking
<1>7. ASSUME NEW c \in Clients, Opening(c) PROVE Served(p)'
  <2>1. client'[c].at \in Talking /\ client'[c].id = client[c].id /\ Others(c) /\ UNCHANGED payment
    BY <1>7 DEF Opening, Talking
  <2>2. CASE p = client[c].id
    BY <2>1, <2>2 DEF Served
  <2>3. CASE p # client[c].id
    BY <1>2, <1>3, <1>7, <2>1, <2>3 DEF Opening
  <2> QED
    BY <2>2, <2>3
<1>8. ASSUME UNCHANGED <<client, attempts>>,
             \A q \in Payments : payment'[q] = payment[q] \/ payment'[q] # NewPayment
      PROVE  Served(p)'
  <2>1. p \in attempts /\ payment[p] = NewPayment
    BY <1>0, <1>2, <1>8
  <2> QED
    BY <1>1, <1>8, <2>1 DEF Served
<1>9. ASSUME NEW q \in Payments, PayAtGateway(q) \/ RecordManual(q) PROVE Served(p)'
  <2>1. payment \in [Payments -> PaymentRow]
    BY <1>0 DEF CheckoutIInv, CheckoutTypeOK, OrderTypeOK, TablesOK
  <2>2. UNCHANGED <<client, attempts>>
    BY <1>9 DEF PayAtGateway, RecordManual
  <2>3. \A s \in Payments : payment'[s] = payment[s] \/ payment'[s].status = "PAID"
    BY <1>9, <2>1 DEF PayAtGateway, orderVars, RecordManual, BookCapture, PaymentRow
  <2> QED
    BY <1>8, <2>2, <2>3 DEF NewPayment
<1>10. CASE (AdminNext /\ UNCHANGED payVars) \/ UNCHANGED vars
  <2>1. /\ UNCHANGED <<client, attempts>>
        /\ \A q \in Payments : payment'[q] = payment[q] \/ payment'[q].status = "CANCELLED"
    BY <1>0, <1>10, AdminLeavesRows
  <2> QED
    BY <1>8, <2>1 DEF NewPayment
<1>11. CASE PaymentNext
  BY <1>0, <1>4, <1>5, <1>6, <1>7, <1>9, <1>11, PaymentSteps
<1> QED
  BY <1>10, <1>11 DEF CheckoutNext

LEMMA RowsExistInit ==
  ASSUME CheckoutInit
  PROVE  RowsExist /\ attempts = {} /\ \A c \in Clients : client[c].at = "idle"
BY DEF CheckoutInit, OrderInit, RowsExist, NoClient, Choosing

(* A start that failed leaves room for another one, as long as the process    *)
(* lives: a row whose session is still to come has a request working on it,   *)
(* or no attempt yet.                                                        *)
THEOREM NoStuckStartHolds ==
  ASSUME ~ClientsCrash
  PROVE  CheckoutSpec => []NoStuckStart
<1>1. CheckoutInit => StuckIInv
  BY CheckoutIInvInit, RowsExistInit DEF StuckIInv, NoStuckStart
<1>2. StuckIInv /\ [CheckoutNext]_vars => StuckIInv'
  BY CheckoutIInvNext, RowsExistNext, NoStuckNext DEF StuckIInv
<1>3. StuckIInv => NoStuckStart
  BY DEF StuckIInv
<1> QED
  BY <1>1, <1>2, <1>3, PTL DEF CheckoutSpec

----------------------------------------------------------------------------
(* One gateway and no reversals: what SoloIInv says of one request, and of    *)
(* the rows.                                                                 *)

Fits(c) ==
  LET p == client[c].id IN
  /\ client[c].at \in Selecting => client[c].gateway \in Gateways
  /\ client[c].at = "attempt" => gatewayOf[p] # "MANUAL"
  /\ client[c].at = "insert" => RowsIn(client[c].order, "PENDING") = {}
  /\ client[c].at # "switch"
  /\ client[c].at \in Talking => payment[p] = NewPayment
  /\ client[c].at \in Returning => psp[p] \in {"given", "paid"}
  /\ client[c].at = "fail" => psp[p] = "none"

RowFits(p) ==
  /\ p \in attempts => gatewayOf[p] # "MANUAL"
  /\ gatewayOf[p] = "MANUAL" => payment[p].status \in {"NONE", "PAID"}
  /\ p \notin attempts /\ payment[p].status \notin {"NONE", "PAID"} => payment[p] = NewPayment
  /\ psp[p] \in {"given", "paid"} => payment[p].authority

LockAlone ==
  \A c, d \in Clients : client[c].at \in Locking /\ client[d].at \in Locking
                          /\ client[c].order = client[d].order => c = d

SoloKept == (\A c \in Clients : Fits(c)) /\ (\A p \in Payments : RowFits(p)) /\ LockAlone
              /\ OnePendingPerOrder

LEMMA SoloParts ==
  ASSUME CheckoutTypeOK
  PROVE  SoloKept <=> GatewaysKnown /\ StartsLocked /\ RowsAsInserted /\ SessionsStored
                        /\ OnePendingPerOrder
<1>1. attempts \subseteq Payments
  BY DEF CheckoutTypeOK
<1>2. ASSUME SoloKept
      PROVE  GatewaysKnown /\ StartsLocked /\ RowsAsInserted /\ SessionsStored /\ OnePendingPerOrder
  <2>1. GatewaysKnown
    BY <1>1, <1>2 DEF SoloKept, Fits, RowFits, GatewaysKnown, At
  <2>2. StartsLocked
    BY <1>2 DEF SoloKept, Fits, LockAlone, StartsLocked, At
  <2>3. RowsAsInserted /\ SessionsStored
    BY <1>2 DEF SoloKept, Fits, RowFits, RowsAsInserted, SessionsStored, At
  <2> QED
    BY <1>2, <2>1, <2>2, <2>3 DEF SoloKept
<1>3. ASSUME GatewaysKnown, StartsLocked, RowsAsInserted, SessionsStored, OnePendingPerOrder
      PROVE  SoloKept
  <2>1. \A c \in Clients : Fits(c)
    BY <1>3 DEF Fits, GatewaysKnown, StartsLocked, RowsAsInserted, SessionsStored, At
  <2>2. \A p \in Payments : RowFits(p)
    BY <1>3 DEF RowFits, GatewaysKnown, RowsAsInserted, SessionsStored
  <2> QED
    BY <1>3, <2>1, <2>2 DEF SoloKept, LockAlone, StartsLocked
<1> QED
  BY <1>2, <1>3

\* A request that holds no row.
LEMMA IdleFits ==
  ASSUME NEW c \in Clients, client'[c] = NoClient
  PROVE  Fits(c)' /\ client'[c].at \notin Locking
BY DEF Fits, NoClient, Selecting, Talking, Returning, Locking

LEMMA LockAloneNext ==
  ASSUME LockAlone, NEW c \in Clients, Others(c),
         client'[c].at \in Locking =>
           \/ client[c].at \in Locking /\ client'[c].order = client[c].order
           \/ ~StartLocked(client[c].order) /\ client'[c].order = client[c].order
  PROVE  LockAlone'
BY DEF LockAlone, Others, StartLocked, Locking

\* A new PENDING row appears only beside none.
LEMMA PendingNext ==
  ASSUME OnePendingPerOrder,
         \A p \in Payments : payment'[p].status = "PENDING" => payment[p].status = "PENDING"
  PROVE  OnePendingPerOrder'
BY DEF OnePendingPerOrder

LEMMA ReadingSolo ==
  ASSUME OneGateway, SoloIInv, NEW c \in Clients, Reading(c)
  PROVE  SoloKept'
<1>0. SoloKept /\ CheckoutIInv
  BY SoloParts DEF SoloIInv, CheckoutIInv
<1>1. UNCHANGED <<payment, attempts, gatewayOf, psp>> /\ Others(c) /\ Reads(c)
  BY DEF Reading, SameRows
<1>2. \A p \in Payments : RowFits(p)'
  BY <1>0, <1>1 DEF SoloKept, RowFits
<1>3. OnePendingPerOrder'
  BY <1>0, <1>1 DEF SoloKept, OnePendingPerOrder
<1>4. ASSUME NEW d \in Clients, d # c PROVE Fits(d)'
  BY <1>0, <1>1, <1>4 DEF SoloKept, Fits, Others, RowsIn, PaymentsOf
<1>5. LockAlone'
  <2>1. client'[c].at \in Locking =>
           \/ client[c].at \in Locking /\ client'[c].order = client[c].order
           \/ ~StartLocked(client[c].order) /\ client'[c].order = client[c].order
    BY <1>1 DEF Reads, Locking, NoClient
  <2> QED
    BY <1>0, <1>1, <2>1, LockAloneNext DEF SoloKept
<1>6. Fits(c)'
  <2>1. Fits(c)
    BY <1>0 DEF SoloKept
  <2>2. CASE client'[c] = NoClient
    BY <2>2, IdleFits
  <2>3. CASE client'[c].at \in {"address", "look", "pending", "insert"} /\ client'[c] # NoClient
    <3>1. client'[c].gateway \in Gateways
      BY <1>1, <2>1, <2>3 DEF Reads, Fits, Selecting
    <3>2. client'[c].at = "insert" => RowsIn(client[c].order, "PENDING")' = {}
      BY <1>1, <2>3 DEF Reads, RowsIn, PaymentsOf
    <3> QED
      BY <2>3, <3>1, <3>2 DEF Fits, Selecting, Talking, Returning
  <2>4. CASE client[c].at = "pending" /\ client'[c].at \in {"switch", "attempt"}
    <3>1. /\ client'[c].id \in Payments /\ payment[client'[c].id].status = "PENDING"
          /\ client'[c].at = "attempt" <=> gatewayOf[client'[c].id] = client[c].gateway
      BY <1>1, <2>4 DEF Reads, RowsIn, PaymentsOf, NoClient
    <3>2. gatewayOf[client'[c].id] # "MANUAL" /\ client[c].gateway \in Gateways
      BY <1>0, <2>1, <2>4, <3>1 DEF SoloKept, Fits, RowFits, Selecting
    <3>3. gatewayOf[client'[c].id] = client[c].gateway
      BY <1>0, <3>1, <3>2 DEF CheckoutIInv, CheckoutTypeOK, OneGateway
    <3> QED
      BY <1>1, <2>4, <3>1, <3>2, <3>3 DEF Fits, Selecting, Talking, Returning
  <2>5. CASE client'[c].at = "reapply"
    BY <2>5 DEF Fits, Selecting, Talking, Returning
  <2>6. CASE client'[c].at \in {"cancel", "verify", "reject", "capture"}
    <3>1. psp[client'[c].id] \in {"given", "paid"}
      BY <1>1, <2>1, <2>6 DEF Reads, Fits, Returning, NoClient
    <3> QED
      BY <1>1, <2>6, <3>1 DEF Fits, Selecting, Talking
  <2>7. CASE client[c].at = "open" /\ client'[c].at = "fail" /\ client'[c].id = client[c].id
    <3>1. psp[client[c].id] = "none" /\ payment[client[c].id] = NewPayment
      BY <1>0, <2>1, <2>7 DEF CheckoutIInv, SessionsKnown, At, Fits, Talking
    <3> QED
      BY <1>1, <2>7, <3>1 DEF Fits, Selecting, Returning
  <2> QED
    BY <1>1, <2>2, <2>3, <2>4, <2>5, <2>6, <2>7 DEF Reads
<1> QED
  BY <1>2, <1>3, <1>4, <1>5, <1>6 DEF SoloKept

\* The last write of a request: no request that talks to the gateway, and no
\* other one that returned from it, shares its row with it.
LEMMA ClosingSolo ==
  ASSUME SoloIInv, NEW c \in Clients, Closing(c)
  PROVE  SoloKept'
<1>p. PICK p \in Payments : p = client[c].id
  BY DEF Closing
<1>0. /\ p = client[c].id /\ SoloKept /\ CheckoutIInv /\ Fits(c)
      /\ p \in Payments /\ Others(c) /\ client'[c] = NoClient /\ UNCHANGED <<attempts, gatewayOf>>
      /\ \A q \in Payments \ {p} : payment'[q] = payment[q] /\ psp'[q] = psp[q]
      /\ Writes(c)
  BY <1>p, SoloParts DEF SoloIInv, CheckoutIInv, SoloKept, Closing
<1>1. p \in attempts /\ gatewayOf[p] # "MANUAL"
  <2>1. client[c].at \in Talking \cup Returning
    BY <1>0 DEF Writes, Talking, Returning
  <2>2. CASE client[c].at \in Talking
    BY <1>0, <2>2 DEF CheckoutIInv, AttemptsOwned, SoloKept, RowFits
  <2>3. CASE client[c].at \in Returning
    BY <1>0, <2>3 DEF Fits, CheckoutIInv, SessionsKnown, SoloKept, RowFits
  <2> QED
    BY <2>1, <2>2, <2>3
<1>2. /\ payment'[p].status # "NONE"
      /\ payment'[p].status = "PENDING" => payment[p].status = "PENDING"
      /\ psp'[p] \in {"given", "paid"} => payment'[p].authority
      /\ psp[p] \in {"given", "paid"} => psp'[p] \in {"given", "paid"}
  <2>1. RowFits(p)
    BY <1>0 DEF SoloKept
  <2>2. CASE client[c].at \in {"save", "fail"}
    <3>1. /\ payment[p] = NewPayment /\ (client[c].at = "save" => psp[p] = "opened")
          /\ (client[c].at = "fail" => psp[p] = "none")
      BY <1>0, <2>2 DEF Fits, Talking, CheckoutIInv, SessionsKnown, At
    <3>2. CASE client[c].at = "save"
      <4>1. payment'[p] = SessionRow
        BY <1>0, <3>2 DEF Writes
      <4> QED
        BY <3>1, <3>2, <4>1 DEF SessionRow, NewPayment
    <3>3. CASE client[c].at = "fail"
      <4>1. payment'[p] = FailedRow /\ psp'[p] = psp[p]
        BY <1>0, <3>3 DEF Writes
      <4> QED
        BY <3>1, <3>3, <4>1 DEF FailedRow, NewPayment
    <3> QED
      BY <2>2, <3>2, <3>3
  <2>3. CASE client[c].at \in {"cancel", "reject", "capture"}
    <3>1. payment[p].status # "NONE"
      <4>1. client[c].at \notin Choosing
        BY <2>3 DEF Choosing
      <4> QED
        BY <1>0, <4>1 DEF SoloIInv, RowsExist
    <3> QED
      BY <1>0, <2>1, <2>3, <3>1 DEF Writes, RowFits
  <2> QED
    BY <1>0, <2>2, <2>3 DEF Writes
<1>3. \A q \in Payments : RowFits(q)'
  <2>1. RowFits(p)'
    BY <1>0, <1>1, <1>2 DEF RowFits
  <2>2. ASSUME NEW q \in Payments, q # p PROVE RowFits(q)'
    BY <1>0, <2>2 DEF SoloKept, RowFits
  <2> QED
    BY <2>1, <2>2
<1>4. ASSUME NEW d \in Clients, d # c PROVE Fits(d)'
  <2>1. client'[d] = client[d] /\ Fits(d)
    BY <1>0, <1>4 DEF Others, SoloKept
  <2>2. RowsIn(client[d].order, "PENDING")' \subseteq RowsIn(client[d].order, "PENDING")
    BY <1>0, <1>2, <2>1 DEF RowsIn, PaymentsOf
  <2>3. client[d].at \in Talking => client[d].id # p
    <3> SUFFICES ASSUME client[d].at \in Talking, client[d].id = p PROVE FALSE
      OBVIOUS
    <3>1. CASE client[c].at \in Talking
      BY <1>0, <1>4, <3>1 DEF CheckoutIInv, AttemptsOwned
    <3>2. CASE client[c].at \in Returning
      <4>1. psp[p] \in {"given", "paid"}
        BY <1>0, <3>2 DEF Fits
      <4> QED
        BY <1>0, <2>1, <4>1 DEF CheckoutIInv, SessionsKnown, Fits, Talking, At
    <3> QED
      BY <1>0, <3>1, <3>2 DEF Writes, Talking, Returning
  <2>4. client[d].at \notin Choosing => client[d].id \in Payments
    BY <1>0 DEF CheckoutIInv, PlacesOK, PaymentsOf
  <2>5. CASE client[d].at \in Talking
    <3>1. client[d].id \in Payments \ {p}
      BY <2>3, <2>4, <2>5 DEF Talking, Choosing
    <3>2. payment'[client[d].id] = payment[client[d].id] /\ psp'[client[d].id] = psp[client[d].id]
      BY <1>0, <3>1
    <3> QED
      BY <2>1, <2>5, <3>2 DEF Fits, Talking, Returning, Selecting
  <2>6. CASE client[d].at \in Returning
    <3>1. client[d].id \in Payments
      BY <2>4, <2>6 DEF Returning, Choosing
    <3>2. psp'[client[d].id] \in {"given", "paid"}
      BY <1>0, <1>2, <2>1, <2>6, <3>1 DEF Fits
    <3> QED
      BY <2>1, <2>6, <3>2 DEF Fits, Talking, Returning, Selecting
  <2>7. CASE client[d].at \notin Talking \cup Returning
    <3>1. client[d].at = "insert" => RowsIn(client[d].order, "PENDING")' = {}
      BY <2>1, <2>2 DEF Fits
    <3> QED
      BY <1>0, <2>1, <2>7, <3>1 DEF Fits, Talking
  <2> QED
    BY <2>5, <2>6, <2>7
<1>5. Fits(c)'
  BY <1>0, IdleFits
<1>6. LockAlone'
  BY <1>0, LockAloneNext DEF SoloKept, NoClient, Locking
<1>7. OnePendingPerOrder'
  BY <1>0, <1>2, PendingNext DEF SoloKept
<1> QED
  BY <1>3, <1>4, <1>5, <1>6, <1>7 DEF SoloKept

LEMMA InsertingSolo ==
  ASSUME SoloIInv, NEW c \in Clients, Inserting(c)
  PROVE  SoloKept'
<1>0. SoloKept /\ CheckoutIInv /\ Fits(c)
  BY SoloParts DEF SoloIInv, CheckoutIInv, SoloKept
<1>1. PICK p \in PaymentsOf(client[c].order) :
        /\ payment[p].status = "NONE" /\ payment'[p] = NewPayment
        /\ gatewayOf'[p] = client[c].gateway
        /\ \A q \in Payments \ {p} : gatewayOf'[q] = gatewayOf[q]
        /\ UNCHANGED <<attempts, psp>> /\ Others(c)
        /\ client'[c].at = "attempt" /\ client'[c].id = p
        /\ client[c].at = "insert" /\ \A q \in Payments \ {p} : payment'[q] = payment[q]
  BY <1>0 DEF Inserting, Fits
<1>2. p \in Payments /\ OrderOf[p] = client[c].order
  BY DEF PaymentsOf
<1>3. /\ gatewayOf'[p] # "MANUAL" /\ p \notin attempts /\ psp[p] = "none"
      /\ \A d \in Clients : client[d].at \notin Choosing => client[d].id \in Payments \ {p}
  <2>1. client[c].gateway \in Gateways
    BY <1>0, <1>1 DEF Fits, Selecting
  <2>2. p \notin attempts /\ \A d \in Clients : client[d].at \notin Choosing => client[d].id # p
    BY <1>1 DEF SoloIInv, RowsExist
  <2>3. psp[p] = "none" /\ \A d \in Clients : client[d].at \notin Choosing => client[d].id \in Payments
    BY <1>0, <1>2, <2>2 DEF CheckoutIInv, SessionsKnown, PlacesOK, PaymentsOf
  <2> QED
    BY <1>1, <2>1, <2>2, <2>3, CheckoutAssumption
<1>4. \A q \in Payments : RowFits(q)'
  <2>1. RowFits(p)'
    BY <1>1, <1>3 DEF RowFits
  <2>2. ASSUME NEW q \in Payments, q # p PROVE RowFits(q)'
    BY <1>0, <1>1, <2>2 DEF SoloKept, RowFits
  <2> QED
    BY <2>1, <2>2
<1>5. ASSUME NEW d \in Clients, d # c PROVE Fits(d)'
  <2>1. client'[d] = client[d] /\ Fits(d)
    BY <1>0, <1>1, <1>5 DEF Others, SoloKept
  <2>2. client[d].at = "insert" => RowsIn(client[d].order, "PENDING")' = {}
    <3> SUFFICES ASSUME client[d].at = "insert" PROVE RowsIn(client[d].order, "PENDING")' = {}
      OBVIOUS
    <3>1. client[d].order # client[c].order
      BY <1>0, <1>1, <1>5 DEF SoloKept, LockAlone, Locking
    <3>2. RowsIn(client[d].order, "PENDING") = {}
      BY <2>1 DEF Fits
    <3> QED
      BY <1>1, <1>2, <2>1, <3>1, <3>2 DEF RowsIn, PaymentsOf
  <2>3. CASE client[d].at \in Choosing
    BY <2>1, <2>2, <2>3 DEF Fits, Choosing, Selecting, Talking, Returning
  <2>4. CASE client[d].at \notin Choosing
    <3>1. client[d].id \in Payments \ {p}
      BY <1>3, <2>4
    <3>2. /\ payment'[client[d].id] = payment[client[d].id]
          /\ gatewayOf'[client[d].id] = gatewayOf[client[d].id] /\ psp' = psp
      BY <1>1, <3>1
    <3> QED
      BY <2>1, <2>2, <3>2 DEF Fits, Selecting
  <2> QED
    BY <2>3, <2>4
<1>6. Fits(c)'
  BY <1>1, <1>3 DEF Fits, Selecting, Talking, Returning
<1>7. LockAlone'
  BY <1>0, <1>1, LockAloneNext DEF SoloKept, Locking
<1>8. OnePendingPerOrder'
  <2>1. \A q \in Payments \ {p} : OrderOf[q] = OrderOf[p] => payment'[q].status # "PENDING"
    BY <1>0, <1>1, <1>2 DEF Fits, RowsIn, PaymentsOf
  <2>2. ASSUME NEW q \in Payments, NEW s \in Payments, payment'[q].status = "PENDING",
               payment'[s].status = "PENDING", OrderOf[q] = OrderOf[s]
        PROVE  q = s
    BY <1>0, <1>1, <2>1, <2>2 DEF SoloKept, OnePendingPerOrder
  <2> QED
    BY <2>2 DEF OnePendingPerOrder
<1> QED
  BY <1>4, <1>5, <1>6, <1>7, <1>8 DEF SoloKept

LEMMA OpeningSolo ==
  ASSUME SoloIInv, NEW c \in Clients, Opening(c)
  PROVE  SoloKept'
<1>0. SoloKept /\ CheckoutIInv /\ Fits(c)
  BY SoloParts DEF SoloIInv, CheckoutIInv, SoloKept
<1>p. PICK p \in Payments : p = client[c].id
  BY DEF Opening
<1>1. /\ p = client[c].id /\ Others(c) /\ client'[c].id = p /\ UNCHANGED <<payment, gatewayOf, captured>>
      /\ \/ /\ client[c].at = "attempt" /\ client'[c].at = "open" /\ p \notin attempts
            /\ attempts' = attempts \cup {p} /\ UNCHANGED psp
         \/ /\ client[c].at = "open" /\ client'[c].at = "save" /\ UNCHANGED attempts
            /\ psp'[p] = "opened" /\ \A q \in Payments \ {p} : psp'[q] = psp[q]
  BY <1>p DEF Opening
<1>2. LockAlone'
  BY <1>0, <1>1, LockAloneNext DEF SoloKept, Locking
<1>3. OnePendingPerOrder'
  BY <1>0, <1>1, PendingNext DEF SoloKept
<1>4. CASE client[c].at = "attempt"
  <2>1. gatewayOf[p] # "MANUAL" /\ p \notin attempts /\ attempts' = attempts \cup {p} /\ UNCHANGED psp
    BY <1>0, <1>1, <1>4 DEF Fits
  <2>2. payment[p] = NewPayment
    <3>1. payment[p].status # "NONE"
      <4>1. client[c].at \notin Choosing
        BY <1>4 DEF Choosing
      <4> QED
        BY <1>1, <4>1 DEF SoloIInv, RowsExist
    <3>2. payment[p].status # "PAID"
      BY <1>0, <2>1 DEF CheckoutIInv, CapturesBooked, CapturedWasPaid, SessionsKnown
    <3> QED
      BY <1>0, <2>1, <3>1, <3>2 DEF SoloKept, RowFits
  <2>3. \A q \in Payments : RowFits(q)'
    BY <1>0, <1>1, <2>1 DEF SoloKept, RowFits
  <2>4. Fits(c)'
    BY <1>1, <1>4, <2>2 DEF Fits, Selecting, Talking, Returning
  <2>5. ASSUME NEW d \in Clients, d # c PROVE Fits(d)'
    BY <1>0, <1>1, <2>1, <2>5 DEF SoloKept, Fits, Others, RowsIn, PaymentsOf
  <2> QED
    BY <1>2, <1>3, <2>3, <2>4, <2>5 DEF SoloKept
<1>5. CASE client[c].at = "open"
  <2>1. /\ psp'[p] = "opened" /\ UNCHANGED attempts /\ client'[c].at = "save"
        /\ \A q \in Payments \ {p} : psp'[q] = psp[q]
    BY <1>1, <1>5
  <2>2. psp[p] = "none" /\ payment[p] = NewPayment
    BY <1>0, <1>1, <1>5 DEF CheckoutIInv, SessionsKnown, At, Fits, Talking
  <2>3. \A q \in Payments : RowFits(q)'
    BY <1>0, <1>1, <2>1 DEF SoloKept, RowFits
  <2>4. Fits(c)'
    BY <1>1, <2>1, <2>2 DEF Fits, Selecting, Talking, Returning
  <2>5. ASSUME NEW d \in Clients, d # c PROVE Fits(d)'
    <3>1. client'[d] = client[d] /\ Fits(d)
      BY <1>0, <1>1, <2>5 DEF Others, SoloKept
    <3>2. client[d].at \in Returning \cup {"fail"} => psp'[client[d].id] = psp[client[d].id]
      <4> SUFFICES ASSUME client[d].at \in Returning \cup {"fail"}
                   PROVE  psp'[client[d].id] = psp[client[d].id]
        OBVIOUS
      <4>1. client[d].id # p
        BY <1>0, <1>1, <1>5, <2>2, <2>5, <3>1 DEF Fits, CheckoutIInv, AttemptsOwned, Talking
      <4>2. client[d].id \in Payments
        BY <1>0 DEF CheckoutIInv, PlacesOK, PaymentsOf, Returning, Choosing
      <4> QED
        BY <2>1, <4>1, <4>2
    <3>3. RowsIn(client[d].order, "PENDING")' = RowsIn(client[d].order, "PENDING")
      BY <1>1, <3>1 DEF RowsIn, PaymentsOf
    <3> QED
      BY <1>1, <3>1, <3>2, <3>3 DEF Fits
  <2> QED
    BY <1>2, <1>3, <2>3, <2>4, <2>5 DEF SoloKept
<1> QED
  BY <1>1, <1>4, <1>5

LEMMA PayingSolo ==
  ASSUME SoloIInv, NEW p \in Payments, PayAtGateway(p)
  PROVE  SoloKept'
<1>0. SoloKept /\ CheckoutIInv
  BY SoloParts DEF SoloIInv, CheckoutIInv
<1>1. /\ UNCHANGED <<payment, client, attempts, gatewayOf>>
      /\ psp[p] = "given" /\ psp'[p] = "paid" /\ \A q \in Payments \ {p} : psp'[q] = psp[q]
  BY <1>0 DEF PayAtGateway, orderVars, CheckoutIInv, CheckoutTypeOK
<1>2. \A q \in Payments : RowFits(q)'
  BY <1>0, <1>1 DEF SoloKept, RowFits
<1>3. ASSUME NEW d \in Clients PROVE Fits(d)'
  <2>1. Fits(d) /\ (client[d].at \notin Choosing => client[d].id \in Payments)
    BY <1>0 DEF SoloKept, CheckoutIInv, PlacesOK, PaymentsOf
  <2>2. CASE client[d].at \in Returning \cup {"fail"}
    <3>1. client[d].id \in Payments
      BY <2>1, <2>2 DEF Returning, Choosing
    <3> QED
      BY <1>1, <2>1, <2>2, <3>1 DEF Fits, Returning, Selecting
  <2>3. CASE client[d].at \notin Returning \cup {"fail"}
    <3>1. RowsIn(client[d].order, "PENDING")' = RowsIn(client[d].order, "PENDING")
      BY <1>1 DEF RowsIn, PaymentsOf
    <3> QED
      BY <1>1, <2>1, <2>3, <3>1 DEF Fits
  <2> QED
    BY <2>2, <2>3
<1>4. LockAlone' /\ OnePendingPerOrder'
  BY <1>0, <1>1 DEF SoloKept, LockAlone, OnePendingPerOrder
<1> QED
  BY <1>2, <1>3, <1>4 DEF SoloKept

LEMMA ManualSolo ==
  ASSUME SoloIInv, NEW p \in Payments, RecordManual(p)
  PROVE  SoloKept'
<1>0. SoloKept /\ CheckoutIInv
  BY SoloParts DEF SoloIInv, CheckoutIInv
<1>1. /\ UNCHANGED <<client, attempts, gatewayOf, psp>>
      /\ payment[p].status = "NONE" /\ payment'[p].status = "PAID"
      /\ \A q \in Payments \ {p} : payment'[q] = payment[q]
  <2>1. payment \in [Payments -> PaymentRow]
    BY <1>0 DEF CheckoutIInv, CheckoutTypeOK, OrderTypeOK, TablesOK
  <2> QED
    BY <2>1 DEF RecordManual, FreshId, BookCapture, pspVars, PaymentRow
<1>2. /\ p \notin attempts /\ psp[p] = "none"
      /\ \A d \in Clients : client[d].at \notin Choosing => client[d].id \in Payments \ {p}
  <2>1. p \notin attempts /\ \A d \in Clients : client[d].at \notin Choosing => client[d].id # p
    BY <1>1 DEF SoloIInv, RowsExist
  <2> QED
    BY <1>0, <2>1 DEF CheckoutIInv, SessionsKnown, PlacesOK, PaymentsOf
<1>3. \A q \in Payments : RowFits(q)'
  <2>1. RowFits(p)'
    BY <1>1, <1>2 DEF RowFits
  <2>2. ASSUME NEW q \in Payments, q # p PROVE RowFits(q)'
    BY <1>0, <1>1, <2>2 DEF SoloKept, RowFits
  <2> QED
    BY <2>1, <2>2
<1>4. ASSUME NEW d \in Clients PROVE Fits(d)'
  <2>1. Fits(d)
    BY <1>0 DEF SoloKept
  <2>2. CASE client[d].at \in Choosing
    <3>1. RowsIn(client[d].order, "PENDING")' \subseteq RowsIn(client[d].order, "PENDING")
      BY <1>1 DEF RowsIn, PaymentsOf
    <3> QED
      BY <1>1, <2>1, <2>2, <3>1 DEF Fits, Choosing, Selecting, Talking, Returning
  <2>3. CASE client[d].at \notin Choosing
    <3>1. payment'[client[d].id] = payment[client[d].id]
      BY <1>1, <1>2, <2>3
    <3> QED
      BY <1>1, <2>1, <2>3, <3>1 DEF Fits, Choosing
  <2> QED
    BY <2>2, <2>3
<1>5. LockAlone'
  BY <1>0, <1>1 DEF SoloKept, LockAlone
<1>6. OnePendingPerOrder'
  BY <1>0, <1>1, PendingNext DEF SoloKept
<1> QED
  BY <1>3, <1>4, <1>5, <1>6 DEF SoloKept

\* Administrators leave the payment rows alone when no order is reversed.
LEMMA AdminSolo ==
  ASSUME SoloIInv, (AdminNext /\ UNCHANGED payVars) \/ UNCHANGED vars
  PROVE  SoloKept'
<1>0. SoloKept /\ CheckoutIInv
  BY SoloParts DEF SoloIInv, CheckoutIInv
<1>1. \A r \in Requests : pc[r] # "rev_cancel"
  BY DEF SoloIInv, NoReversalPoints, ReversalPoints
<1>2. UNCHANGED <<client, attempts, gatewayOf, psp, payment>>
  BY <1>0, <1>1, AdminLeavesRows
<1> QED
  BY <1>0, <1>2 DEF SoloKept, Fits, RowFits, LockAlone, OnePendingPerOrder, RowsIn, PaymentsOf

\* Without a request for it no order is reversed, so no such point is reached.
LEMMA NoReversalsNext ==
  ASSUME NoReversals, OrderTypeOK, NoReversalPoints, [CheckoutNext]_vars
  PROVE  NoReversalPoints'
<1> DEFINE Bad == {"check", "void", "purge"} \cup ReversalPoints
<1>0. /\ pc \in [Requests -> Points] /\ task \in [Requests -> Tasks \cup {NoTask}]
      /\ Tasks \subseteq Task
  BY OrderAssumption DEF OrderTypeOK, RequestsOK
<1>1. ASSUME UNCHANGED <<pc, task>> PROVE NoReversalPoints'
  BY <1>1 DEF NoReversalPoints
<1>2. ASSUME NEW r \in Requests, Finish(r) PROVE NoReversalPoints'
  BY <1>0, <1>2 DEF Finish, Goto, NoReversalPoints, ReversalPoints
<1>3. ASSUME NEW r \in Requests, Begin(r) PROVE NoReversalPoints'
  <2>1. PICK t \in Tasks : /\ task' = [task EXCEPT ![r] = t]
                           /\ Goto(r, FirstPoint(t, order[t.order]))
    BY <1>3 DEF Begin
  <2>2. PICK first : first = FirstPoint(t, order[t.order])
    OBVIOUS
  <2>3. t.op \in {"status", "track", "edit", "note"} /\ (t.op = "status" => t.to # "CANCELLED")
    BY <1>0, CheckoutAssumption DEF NoReversals, Task, Ops
  <2>4. first \in {"status", "track", "edit", "save"} /\ (first = "status" => t.op = "status")
    BY <2>2, <2>3 DEF FirstPoint
  <2>5. pc' = [pc EXCEPT ![r] = first]
    BY <2>1, <2>2 DEF Goto
  <2> QED
    BY <1>0, <2>1, <2>3, <2>4, <2>5 DEF NoReversalPoints, ReversalPoints
<1>4. ASSUME NEW r \in Requests, UpdateStatus(r) PROVE NoReversalPoints'
  <2>1. task[r].to # "CANCELLED"
    BY <1>4 DEF UpdateStatus, NoReversalPoints
  <2> QED
    BY <1>2, <1>4, <2>1 DEF UpdateStatus, TriggersReversal
<1>5. ASSUME NEW r \in Requests, EditItems(r) PROVE NoReversalPoints'
  <2>1. Finish(r) \/ (Goto(r, "save") /\ UNCHANGED task)
    BY <1>5 DEF EditItems
  <2>2. CASE Goto(r, "save") /\ UNCHANGED task
    BY <1>0, <2>2 DEF Goto, NoReversalPoints, ReversalPoints
  <2> QED
    BY <1>2, <2>1, <2>2
<1>6. ASSUME NEW r \in Requests, AddTracking(r) \/ SaveOrder(r) \/ Crash(r) PROVE NoReversalPoints'
  BY <1>2, <1>6 DEF AddTracking, SaveOrder, Crash
<1>7. ASSUME NEW r \in Requests
      PROVE  ~(\/ CheckNoCapture(r) \/ ReverseRead(r) \/ ReverseStock(r) \/ ReverseWallet(r)
               \/ ReverseDiscount(r) \/ ReverseFind(r) \/ ReverseCancel(r) \/ ReverseMark(r)
               \/ VoidOrder(r) \/ PurgeOrder(r))
  BY DEF NoReversalPoints, ReversalPoints, CheckNoCapture, ReverseRead, ReverseStock,
     ReverseWallet, ReverseDiscount, ReverseFind, ReverseCancel, ReverseMark, VoidOrder, PurgeOrder
<1>8. ASSUME NEW o \in Orders, AutoConfirm(o) PROVE NoReversalPoints'
  BY <1>1, <1>8 DEF AutoConfirm, reqVars, locals
<1>9. CASE AdminNext
  BY <1>3, <1>4, <1>5, <1>6, <1>7, <1>8, <1>9 DEF AdminNext, Step
<1>10. CASE PaymentNext
  BY <1>1, <1>10, PaymentLeavesRequests
<1>11. CASE UNCHANGED vars
  BY <1>1, <1>11 DEF vars, orderVars
<1> QED
  BY <1>9, <1>10, <1>11 DEF CheckoutNext

LEMMA SoloNext ==
  ASSUME OneGateway, NoReversals, SoloIInv, [CheckoutNext]_vars
  PROVE  SoloIInv'
<1>0. CheckoutIInv /\ OrderTypeOK
  BY DEF SoloIInv, CheckoutIInv, CheckoutTypeOK
<1>1. CheckoutIInv' /\ CheckoutTypeOK'
  BY <1>0, CheckoutIInvNext DEF CheckoutIInv
<1>2. RowsExist' /\ NoReversalPoints'
  BY <1>0, RowsExistNext, NoReversalsNext DEF SoloIInv
<1>3. SoloKept'
  <2>1. CASE PaymentNext
    BY <1>0, <2>1, PaymentSteps, ReadingSolo, ClosingSolo, InsertingSolo, OpeningSolo,
       PayingSolo, ManualSolo
  <2> QED
    BY <2>1, AdminSolo DEF CheckoutNext
<1>4. GatewaysKnown' /\ StartsLocked' /\ RowsAsInserted' /\ SessionsStored' /\ OnePendingPerOrder'
  BY <1>1, <1>3, SoloParts, PTL
<1> QED
  BY <1>1, <1>2, <1>4 DEF SoloIInv

LEMMA SoloInit ==
  ASSUME CheckoutInit
  PROVE  SoloIInv
<1>1. CheckoutIInv /\ RowsExist
  BY CheckoutIInvInit, RowsExistInit
<1>2. /\ client = [c \in Clients |-> NoClient] /\ attempts = {}
      /\ psp = [p \in Payments |-> "none"] /\ payment = [p \in Payments |-> NoPayment]
      /\ pc = [r \in Requests |-> "idle"]
  BY DEF CheckoutInit, OrderInit
<1>3. \A c \in Clients : client[c].at = "idle"
  BY <1>2 DEF NoClient
<1>4. NoReversalPoints
  BY <1>2 DEF NoReversalPoints, ReversalPoints
<1>5. GatewaysKnown /\ StartsLocked /\ RowsAsInserted /\ SessionsStored /\ OnePendingPerOrder
  BY <1>2, <1>3 DEF GatewaysKnown, StartsLocked, RowsAsInserted, SessionsStored, OnePendingPerOrder,
     Selecting, Locking, Talking, Returning, At, NoPayment
<1> QED
  BY <1>1, <1>4, <1>5 DEF SoloIInv

(* With one gateway, and no order reversed beside the starts, the rows of     *)
(* payments agree with the sessions: who waits for a session finds the row as *)
(* inserted, starts of one order exclude each other, and a row whose session  *)
(* the customer was given keeps its authority.                               *)
THEOREM SoloInvariant ==
  ASSUME OneGateway, NoReversals
  PROVE  CheckoutSpec => []SoloIInv
<1>1. CheckoutInit => SoloIInv
  BY SoloInit
<1>2. SoloIInv /\ [CheckoutNext]_vars => SoloIInv'
  BY SoloNext
<1> QED
  BY <1>1, <1>2, PTL DEF CheckoutSpec

(* "Serialize starts per order": two starts of one order never leave two      *)
(* PENDING payments, whatever callbacks, crashes and manual payments do.     *)
THEOREM OnePendingHolds ==
  ASSUME OneGateway, NoReversals
  PROVE  CheckoutSpec => []OnePendingPerOrder
<1>1. SoloIInv => OnePendingPerOrder
  BY DEF SoloIInv
<1> QED
  BY <1>1, SoloInvariant, PTL

(* Who has paid can have it verified: the row keeps the authority through     *)
(* soft cancellations, failed verifications and repeated callbacks, even of a *)
(* gateway that does not answer or answers wrongly.                          *)
THEOREM PaidCanBeVerifiedHolds ==
  ASSUME OneGateway, NoReversals
  PROVE  CheckoutSpec => []PaidCanBeVerified
<1>1. SoloIInv => PaidCanBeVerified
  BY DEF SoloIInv, SessionsStored, PaidCanBeVerified
<1> QED
  BY <1>1, SoloInvariant, PTL

----------------------------------------------------------------------------
(* A gateway that answers, and says OK only to those who paid: nobody then    *)
(* writes over a PAID row, so that it is booked once.                        *)

\* Money that the gateway has seen stays seen.
LEMMA PaidStaysPaid ==
  ASSUME CheckoutIInv, PaymentNext
  PROVE  \A p \in Payments : psp[p] = "paid" => psp'[p] = "paid"
<1>1. ASSUME NEW c \in Clients, Reading(c) \/ Closing(c) \/ Inserting(c) \/ Opening(c)
      PROVE  \A p \in Payments : psp[p] = "paid" => psp'[p] = "paid"
  <2>1. /\ client[c].at = "save" => psp[client[c].id] = "opened"
        /\ client[c].at = "open" => psp[client[c].id] = "none"
    BY DEF CheckoutIInv, SessionsKnown, At
  <2> QED
    BY <1>1, <2>1 DEF Reading, SameRows, Closing, Writes, Inserting, Opening
<1>2. ASSUME NEW p \in Payments, PayAtGateway(p) \/ RecordManual(p)
      PROVE  \A q \in Payments : psp[q] = "paid" => psp'[q] = "paid"
  BY <1>2 DEF PayAtGateway, RecordManual, pspVars, CheckoutIInv, CheckoutTypeOK
<1> QED
  BY <1>1, <1>2, PaymentSteps

LEMMA VerifiesPaidNext ==
  ASSUME Reliable, CheckoutIInv, VerifiesPaid, [CheckoutNext]_vars
  PROVE  VerifiesPaid'
<1>1. ASSUME UNCHANGED <<client, psp>> PROVE VerifiesPaid'
  BY <1>1 DEF VerifiesPaid, At
<1>2. ASSUME NEW c \in Clients, Others(c), PaymentNext, client'[c].at # "reject",
             client'[c].at = "verify" => psp'[client'[c].id] = "paid"
      PROVE  VerifiesPaid'
  <2>1. \A d \in Clients : client[d].at = "verify" => client[d].id \in Payments
    BY DEF CheckoutIInv, PlacesOK, PaymentsOf, Choosing
  <2>2. ASSUME NEW d \in Clients, d # c, client[d].at = "verify" PROVE psp'[client[d].id] = "paid"
    BY <1>2, <2>1, <2>2, PaidStaysPaid DEF VerifiesPaid, At
  <2> QED
    BY <1>2, <2>2 DEF VerifiesPaid, At, Others
<1>3. ASSUME NEW c \in Clients, PaymentNext, Reading(c) PROVE VerifiesPaid'
  <2>1. UNCHANGED psp /\ Others(c) /\ Reads(c)
    BY <1>3 DEF Reading, SameRows
  <2>2. client[c].at = "verify" => psp[client[c].id] = "paid"
    BY DEF VerifiesPaid, At
  <2>3. client'[c].at # "reject" /\ (client'[c].at = "verify" => psp[client'[c].id] = "paid")
    BY <2>1, <2>2 DEF Reads, NoClient
  <2> QED
    BY <1>2, <1>3, <2>1, <2>3
<1>4. ASSUME NEW c \in Clients, PaymentNext, Closing(c) \/ Inserting(c) \/ Opening(c)
      PROVE  VerifiesPaid'
  <2>1. Others(c) /\ client'[c].at \notin {"reject", "verify"}
    BY <1>4 DEF Closing, NoClient, Inserting, Opening
  <2> QED
    BY <1>2, <1>4, <2>1
<1>5. ASSUME NEW p \in Payments, PaymentNext, PayAtGateway(p) \/ RecordManual(p) PROVE VerifiesPaid'
  <2>1. UNCHANGED client /\ \A d \in Clients : client[d].at = "verify" => client[d].id \in Payments
    BY <1>5 DEF PayAtGateway, RecordManual, CheckoutIInv, PlacesOK, PaymentsOf, Choosing
  <2> QED
    BY <1>5, <2>1, PaidStaysPaid DEF VerifiesPaid, At
<1>6. CASE PaymentNext
  BY <1>3, <1>4, <1>5, <1>6, PaymentSteps
<1> QED
  BY <1>1, <1>6, AdminLeavesRows DEF CheckoutNext

LEMMA CapturedIsPaidNext ==
  ASSUME SoloIInv, VerifiesPaid, CapturedIsPaid, [CheckoutNext]_vars
  PROVE  CapturedIsPaid' /\ captured \subseteq captured'
<1>0. /\ SoloKept /\ CheckoutIInv /\ captured \subseteq Payments
      /\ payment \in [Payments -> PaymentRow]
  BY SoloParts DEF SoloIInv, CheckoutIInv, CheckoutTypeOK, OrderTypeOK, TablesOK
<1>1. ASSUME UNCHANGED <<payment, captured>> PROVE CapturedIsPaid' /\ captured \subseteq captured'
  BY <1>1 DEF CapturedIsPaid
<1>2. ASSUME NEW c \in Clients, Closing(c) PROVE CapturedIsPaid' /\ captured \subseteq captured'
  <2>1. PICK p \in Payments : p = client[c].id
    BY <1>2 DEF Closing
  <2>2. /\ \A q \in Payments \ {p} : payment'[q] = payment[q]
        /\ Writes(c) /\ Fits(c) /\ client[c].at # "reject"
    BY <1>0, <1>2, <2>1 DEF Closing, SoloKept, VerifiesPaid, At
  <2>3. client[c].at \in {"save", "fail"} => payment[p].status # "PAID"
    BY <2>1, <2>2 DEF Fits, Talking, NewPayment
  <2>4. /\ captured' = captured \/ captured' = captured \cup {p}
        /\ p \in captured' => payment'[p].status = "PAID"
    BY <2>1, <2>2, <2>3 DEF Writes, CapturedIsPaid, SoftCancellable
  <2> QED
    BY <1>0, <2>2, <2>4 DEF CapturedIsPaid
<1>3. ASSUME NEW c \in Clients, Inserting(c) PROVE CapturedIsPaid' /\ captured \subseteq captured'
  <2>1. client[c].at # "switch"
    BY <1>0 DEF SoloKept, Fits
  <2>2. PICK p \in Payments : /\ payment[p].status = "NONE" /\ UNCHANGED captured
                              /\ \A q \in Payments \ {p} : payment'[q] = payment[q]
    BY <1>3, <2>1 DEF Inserting, PaymentsOf
  <2> QED
    BY <1>0, <2>2 DEF CapturedIsPaid
<1>4. ASSUME NEW c \in Clients, Reading(c) \/ Opening(c)
      PROVE  CapturedIsPaid' /\ captured \subseteq captured'
  BY <1>1, <1>4 DEF Reading, SameRows, Opening
<1>5. ASSUME NEW p \in Payments, PayAtGateway(p)
      PROVE  CapturedIsPaid' /\ captured \subseteq captured'
  BY <1>1, <1>5 DEF PayAtGateway, orderVars
<1>6. ASSUME NEW p \in Payments, RecordManual(p)
      PROVE  CapturedIsPaid' /\ captured \subseteq captured'
  BY <1>0, <1>6 DEF RecordManual, BookCapture, CapturedIsPaid, PaymentRow
<1>7. CASE PaymentNext
  BY <1>0, <1>2, <1>3, <1>4, <1>5, <1>6, <1>7, PaymentSteps
<1>8. CASE (AdminNext /\ UNCHANGED payVars) \/ UNCHANGED vars
  <2>1. \A r \in Requests : pc[r] # "rev_cancel"
    BY DEF SoloIInv, NoReversalPoints, ReversalPoints
  <2> QED
    BY <1>0, <1>1, <1>8, <2>1, AdminLeavesRows
<1> QED
  BY <1>7, <1>8 DEF CheckoutNext

\* The ledger counts the captures, each made on a row that is not PAID.
LEMMA LedgerSteps ==
  ASSUME CheckoutIInv, [CheckoutNext]_vars
  PROVE  \A p \in Payments : \/ ledger'[p] = ledger[p]
                             \/ payment[p].status # "PAID" /\ ledger'[p] <= ledger[p] + 1
<1>0. ledger \in [Payments -> 0..2]
  BY DEF CheckoutIInv, CheckoutTypeOK, MaxBooked
<1>1. ASSUME NEW p \in Payments, BookCapture(p), payment[p].status # "PAID"
      PROVE  \A q \in Payments : \/ ledger'[q] = ledger[q]
                                 \/ payment[q].status # "PAID" /\ ledger'[q] <= ledger[q] + 1
  <2>1. ledger' = [ledger EXCEPT ![p] = IF @ < 2 THEN @ + 1 ELSE @]
    BY <1>1 DEF BookCapture, Book, MaxBooked
  <2> QED
    BY <1>0, <1>1, <2>1
<1>2. ASSUME NEW c \in Clients, CapturePayment(c)
      PROVE  \/ UNCHANGED ledger
             \/ \E p \in Payments : payment[p].status # "PAID" /\ BookCapture(p)
  <2>1. client[c].id \in Payments
    BY <1>2 DEF CapturePayment, At, CheckoutIInv, PlacesOK, PaymentsOf, Choosing
  <2> QED
    BY <1>2, <2>1 DEF CapturePayment, Capturable
<1>3. ASSUME NEW p \in Payments, RecordManual(p)
      PROVE  payment[p].status # "PAID" /\ BookCapture(p)
  BY <1>3 DEF RecordManual, FreshId
<1>4. ASSUME NEW c \in Clients, Start(c) \/ Serve(c) \/ CrashClient(c), ~CapturePayment(c)
      PROVE  UNCHANGED ledger
  BY <1>4 DEF Serve, Start, CrashClient, SaveAddress, LookForPaid, LookForPending, InsertFirst,
     SwitchGateway, InsertPayment, InsertAttempt, OpenSession, SaveSession, FailStart, CancelSoftly,
     VerifyReturn, RejectPayment, RetryApply
<1>5. ASSUME NEW c \in Clients, NEW p \in Payments, Return(c, p) PROVE UNCHANGED ledger
  BY <1>5 DEF Return
<1>6. CASE PaymentNext
  <2>1. UNCHANGED ledger \/ \E p \in Payments : payment[p].status # "PAID" /\ BookCapture(p)
    <3>1. CASE \E c \in Clients : Start(c) \/ Serve(c) \/ CrashClient(c)
      BY <1>2, <1>4, <3>1
    <3>2. CASE \E c \in Clients, p \in Payments : Return(c, p)
      BY <1>5, <3>2
    <3>3. CASE \E p \in Payments : PayAtGateway(p) \/ RecordManual(p)
      <4>1. \A p \in Payments : PayAtGateway(p) => UNCHANGED ledger
        BY DEF PayAtGateway
      <4> QED
        BY <1>3, <3>3, <4>1
    <3> QED
      BY <1>6, <3>1, <3>2, <3>3 DEF PaymentNext
  <2>2. CASE UNCHANGED ledger
    BY <2>2
  <2>3. CASE \E p \in Payments : payment[p].status # "PAID" /\ BookCapture(p)
    BY <1>1, <2>3
  <2> QED
    BY <2>1, <2>2, <2>3
<1>7. CASE (AdminNext /\ UNCHANGED payVars) \/ UNCHANGED vars
  BY <1>7 DEF payVars, vars
<1> QED
  BY <1>6, <1>7 DEF CheckoutNext

LEMMA FinalNext ==
  ASSUME OneGateway, NoReversals, Reliable, FinalIInv, [CheckoutNext]_vars
  PROVE  FinalIInv' /\ captured \subseteq captured'
<1>1. CheckoutIInv /\ SoloIInv'
  BY SoloNext DEF FinalIInv, SoloIInv
<1>2. VerifiesPaid' /\ CapturedIsPaid' /\ captured \subseteq captured'
  BY <1>1, VerifiesPaidNext, CapturedIsPaidNext DEF FinalIInv
<1>3. BookedOnce'
  <2>1. \A p \in Payments : payment[p].status # "PAID" => ledger[p] = 0
    BY <1>1 DEF FinalIInv, CapturedIsPaid, CheckoutIInv, CheckoutTypeOK, CapturesBooked, MaxBooked
  <2> QED
    BY <1>1, <2>1, LedgerSteps DEF FinalIInv, BookedOnce
<1> QED
  BY <1>1, <1>2, <1>3 DEF FinalIInv

(* With a gateway that answers and does not lie, what was captured stays PAID *)
(* and is booked at most once.                                               *)
THEOREM FinalInvariant ==
  ASSUME OneGateway, NoReversals, Reliable
  PROVE  CheckoutSpec => []FinalIInv
<1>1. CheckoutInit => FinalIInv
  <2>1. ASSUME CheckoutInit PROVE FinalIInv
    <3>1. SoloIInv /\ (\A c \in Clients : client[c].at = "idle")
      BY <2>1, SoloInit, RowsExistInit
    <3> QED
      BY <2>1, <3>1 DEF FinalIInv, VerifiesPaid, CapturedIsPaid, BookedOnce, At, CheckoutInit, OrderInit
  <2> QED
    BY <2>1
<1>2. FinalIInv /\ [CheckoutNext]_vars => FinalIInv'
  BY FinalNext
<1> QED
  BY <1>1, <1>2, PTL DEF CheckoutSpec

(* The ledger books a payment once, however many callbacks, starts and        *)
(* administrators race for it.                                               *)
THEOREM BookedOnceHolds ==
  ASSUME OneGateway, NoReversals, Reliable
  PROVE  CheckoutSpec => []BookedOnce
<1>1. FinalIInv => BookedOnce
  BY DEF FinalIInv
<1> QED
  BY <1>1, FinalInvariant, PTL

(* PAID is final: no refused or repeated callback and no other start takes it *)
(* back.                                                                     *)
THEOREM PaidIsFinalHolds ==
  ASSUME OneGateway, NoReversals, Reliable
  PROVE  CheckoutSpec => PaidIsFinal
<1>1. ASSUME FinalIInv, [CheckoutNext]_vars
      PROVE  \A p \in Payments : payment[p].status = "PAID" => payment'[p].status = "PAID"
  <2>1. CapturedIsPaid' /\ captured \subseteq captured'
    BY <1>1, FinalNext DEF FinalIInv
  <2>2. \A p \in Payments : payment[p].status = "PAID" => p \in captured
    BY <1>1 DEF FinalIInv, SoloIInv, CheckoutIInv, CapturesBooked
  <2> QED
    BY <2>1, <2>2 DEF CapturedIsPaid
<1>2. FinalIInv /\ [CheckoutNext]_vars
        => [\A p \in Payments : payment[p].status = "PAID" => payment'[p].status = "PAID"]_vars
  BY <1>1
<1> QED
  BY <1>2, FinalInvariant, PTL DEF CheckoutSpec, PaidIsFinal
=============================================================================
