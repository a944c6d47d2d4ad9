------------------------ MODULE OrderEffects_proofs ------------------------
(***************************************************************************)
(* Proofs about OrderEffects: type correctness, and the invariants of      *)
(* stock settlement, for any set of orders, payments, requests and tasks.  *)
(***************************************************************************)
EXTENDS OrderEffects, SumTheorems, TLAPS

----------------------------------------------------------------------------
(* Type correctness.                                                        *)

LEMMA SettleType ==
  ASSUME TablesOK, NEW o \in Orders, NEW row \in Row, Settle(o, row)
  PROVE  /\ order' \in [Orders -> Row]
         /\ stock' \in Nat
         /\ commits' \in [Orders -> Nat]
<1>0. order \in [Orders -> Row] /\ stock \in Nat /\ commits \in [Orders -> Nat]
  BY DEF TablesOK
<1>1. [row EXCEPT !.committed = TRUE] \in Row /\ row.qty \in Nat
  BY DEF Row
<1>2. CASE Unsettled(row)
  <2>1. stock >= row.qty
    BY <1>2 DEF Settle, CanSettle
  <2>2. /\ order' = [order EXCEPT ![o] = [row EXCEPT !.committed = TRUE]]
        /\ stock' = stock - row.qty
        /\ commits' = [commits EXCEPT ![o] = @ + 1]
    BY <1>2 DEF Settle
  <2> QED
    BY <1>0, <1>1, <2>1, <2>2
<1>3. CASE ~Unsettled(row)
  <2>1. /\ order' = [order EXCEPT ![o] = row]
        /\ UNCHANGED <<stock, commits>>
    BY <1>3 DEF Settle
  <2> QED
    BY <1>0, <2>1
<1> QED
  BY <1>2, <1>3

LEMMA ApplyType ==
  ASSUME TablesOK, NEW o \in Orders, ApplyCapturedPayment(o)
  PROVE  /\ order' \in [Orders -> Row]
         /\ stock' \in Nat
         /\ commits' \in [Orders -> Nat]
<1>1. CASE IgnoresCapture(order[o])
  BY <1>1 DEF ApplyCapturedPayment, TablesOK
<1>2. CASE ~IgnoresCapture(order[o])
  <2> DEFINE row == [order[o] EXCEPT !.status = StatusAfterCapture(@)]
  <2>1. order[o] \in Row
    BY DEF TablesOK
  <2>2. StatusAfterCapture(order[o].status) \in Statuses \cup {"GONE"}
    BY <2>1 DEF StatusAfterCapture, Row, Statuses
  <2>3. row \in Row
    BY <2>1, <2>2 DEF Row
  <2>4. Settle(o, row)
    BY <1>2 DEF ApplyCapturedPayment
  <2> QED
    BY <2>3, <2>4, SettleType
<1> QED
  BY <1>1, <1>2

(* Ending a request and moving it on keep the requests' local state typed.  *)
LEMMA FinishType ==
  ASSUME RequestsOK, NEW r \in Requests, Finish(r), crashes' \in Nat
  PROVE  RequestsOK'
BY DEF RequestsOK, Finish, Goto, Points, NoRow, Row, Statuses

LEMMA GotoType ==
  ASSUME RequestsOK, NEW r \in Requests, NEW point \in Points,
         Goto(r, point), UNCHANGED locals, crashes' \in Nat, task[r] \in Tasks
  PROVE  RequestsOK'
BY DEF RequestsOK, Goto, locals

LEMMA GotoReversalType ==
  ASSUME RequestsOK, NEW r \in Requests, GotoReversal(r),
         crashes' \in Nat, task[r] \in Tasks
  PROVE  RequestsOK'
<1>1. "rev_read" \in Points /\ AfterReversal(r) \in Points
  BY DEF Points, AfterReversal
<1> QED
  BY <1>1, FinishType, GotoType DEF GotoReversal

LEMMA TaskType ==
  ASSUME RequestsOK, NEW r \in Requests, pc[r] \notin {"idle", "done"}
  PROVE  /\ task[r] \in Tasks
         /\ task[r].op \in Ops
         /\ task[r].order \in Orders
         /\ task[r].to \in Statuses
         /\ task[r].qty \in Nat
BY OrderAssumption DEF RequestsOK, Task

LEMMA InitTypeOK ==
  ASSUME OrderInit
  PROVE  OrderTypeOK
<1>1. Cardinality({o \in Orders : CodeUsed[o]}) \in Nat
  BY OrderAssumption, FS_Subset, FS_CardinalityType
<1>2. \A o \in Orders : NewOrder(o) \in Row
  BY OrderAssumption DEF NewOrder, Row, InitialCreateStatus, Statuses
<1>3. NoRow \in Row /\ NoPayment \in PaymentRow
  BY DEF NoRow, Row, Statuses, NoPayment, PaymentRow, PaymentStatuses
<1>4. TablesOK
  BY <1>1, <1>2, <1>3, OrderAssumption DEF OrderInit, TablesOK
<1>5. RequestsOK
  BY <1>3 DEF OrderInit, RequestsOK, Points
<1> QED
  BY <1>4, <1>5 DEF OrderTypeOK

LEMMA NextTypeOK ==
  ASSUME OrderTypeOK, [OrderNext]_orderVars
  PROVE  OrderTypeOK'
<1> USE DEF OrderTypeOK
<1>1. ASSUME NEW r \in Requests, Begin(r) PROVE OrderTypeOK'
  <2>1. TablesOK'
    BY <1>1 DEF Begin, TablesOK, money
  <2>2. PICK t \in Tasks : /\ task' = [task EXCEPT ![r] = t]
                           /\ snap' = [snap EXCEPT ![r] = order[t.order]]
                           /\ Goto(r, FirstPoint(t, order[t.order]))
    BY <1>1 DEF Begin
  <2>3. t.op \in Ops /\ t.order \in Orders
    BY OrderAssumption DEF Task
  <2>4. FirstPoint(t, order[t.order]) \in Points
    BY <2>3 DEF FirstPoint, Points, Ops
  <2>5. order[t.order] \in Row
    BY <2>3 DEF TablesOK
  <2>6. RequestsOK'
    BY <1>1, <2>2, <2>4, <2>5 DEF Begin, RequestsOK, Goto
  <2> QED
    BY <2>1, <2>6
<1>2. ASSUME NEW r \in Requests, UpdateStatus(r) PROVE OrderTypeOK'
  <2> DEFINE o   == task[r].order
             row == [order[o] EXCEPT !.status = task[r].to]
  <2>1. task[r] \in Tasks /\ o \in Orders /\ task[r].to \in Statuses
    BY <1>2, TaskType DEF UpdateStatus
  <2>2. row \in Row
    BY <2>1 DEF TablesOK, Row
  <2>3. \/ UNCHANGED <<order, stock, commits>>
        \/ Settle(o, row)
        \/ order' = [order EXCEPT ![o] = row] /\ UNCHANGED <<stock, commits>>
    BY <1>2 DEF UpdateStatus
  <2>4. order' \in [Orders -> Row] /\ stock' \in Nat /\ commits' \in [Orders -> Nat]
    BY <2>1, <2>2, <2>3, SettleType DEF TablesOK
  <2>5. TablesOK'
    BY <1>2, <2>4 DEF UpdateStatus, TablesOK, money
  <2>6. crashes' \in Nat /\ (Finish(r) \/ GotoReversal(r))
    BY <1>2 DEF UpdateStatus, RequestsOK
  <2>7. RequestsOK'
    BY <2>1, <2>6, FinishType, GotoReversalType
  <2> QED
    BY <2>5, <2>7
<1>3. ASSUME NEW r \in Requests, CheckNoCapture(r) PROVE OrderTypeOK'
  <2>1. TablesOK'
    BY <1>3 DEF CheckNoCapture, TablesOK, money
  <2>2. task[r] \in Tasks
    BY <1>3, TaskType DEF CheckNoCapture
  <2>3. crashes' \in Nat /\ (Finish(r) \/ GotoReversal(r))
    BY <1>3 DEF CheckNoCapture, RequestsOK
  <2> QED
    BY <2>1, <2>2, <2>3, FinishType, GotoReversalType
<1>4. ASSUME NEW r \in Requests, ReverseRead(r) PROVE OrderTypeOK'
  <2>1. TablesOK'
    BY <1>4 DEF ReverseRead, TablesOK, money
  <2>2. task[r] \in Tasks /\ task[r].order \in Orders
    BY <1>4, TaskType DEF ReverseRead
  <2>3. order[task[r].order] \in Row
    BY <2>2 DEF TablesOK
  <2>4. ASSUME Gone(task[r].order) PROVE RequestsOK'
    <3>1. Finish(r) /\ crashes' \in Nat
      BY <1>4, <2>4 DEF ReverseRead, RequestsOK
    <3> QED
      BY <3>1, FinishType
  <2>5. ASSUME ~Gone(task[r].order) PROVE RequestsOK'
    <3>1. full' = [full EXCEPT ![r] = order[task[r].order]]
          /\ Goto(r, "rev_stock") /\ UNCHANGED <<task, snap, found, crashes>>
      BY <1>4, <2>5 DEF ReverseRead
    <3> QED
      BY <2>2, <2>3, <3>1 DEF RequestsOK, Goto, Points
  <2> QED
    BY <2>1, <2>4, <2>5
<1>5. ASSUME NEW r \in Requests, ReverseStock(r) PROVE OrderTypeOK'
  <2>1. full[r].qty \in Nat
    BY DEF RequestsOK, Row
  <2>2. TablesOK'
    BY <1>5, <2>1 DEF ReverseStock, TablesOK, money
  <2>3. task[r] \in Tasks
    BY <1>5, TaskType DEF ReverseStock
  <2>4. "rev_wallet" \in Points /\ crashes' \in Nat
    BY <1>5 DEF Points, ReverseStock, RequestsOK
  <2> QED
    BY <1>5, <2>2, <2>3, <2>4, GotoType DEF ReverseStock
<1>6. ASSUME NEW r \in Requests, ReverseWallet(r) PROVE OrderTypeOK'
  <2>1. task[r] \in Tasks /\ task[r].order \in Orders
    BY <1>6, TaskType DEF ReverseWallet
  <2>2. WalletOf[task[r].order] \in Nat
    BY <2>1, OrderAssumption
  <2>3. TablesOK'
    BY <1>6, <2>2 DEF ReverseWallet, TablesOK
  <2>4. "rev_discount" \in Points /\ crashes' \in Nat
    BY <1>6 DEF Points, ReverseWallet, RequestsOK
  <2> QED
    BY <1>6, <2>1, <2>3, <2>4, GotoType DEF ReverseWallet
<1>7. ASSUME NEW r \in Requests, ReverseDiscount(r) PROVE OrderTypeOK'
  <2>1. uses' \in Nat
    BY <1>7 DEF ReverseDiscount, UsesAfterDecrement, TablesOK
  <2>2. TablesOK'
    BY <1>7, <2>1 DEF ReverseDiscount, TablesOK
  <2>3. task[r] \in Tasks
    BY <1>7, TaskType DEF ReverseDiscount
  <2>4. "rev_find" \in Points /\ crashes' \in Nat
    BY <1>7 DEF Points, ReverseDiscount, RequestsOK
  <2> QED
    BY <1>7, <2>2, <2>3, <2>4, GotoType DEF ReverseDiscount
<1>8. ASSUME NEW r \in Requests, ReverseFind(r) PROVE OrderTypeOK'
  <2> DEFINE rows == {[id |-> p, authority |-> payment[p].authority] :
               p \in {q \in PaymentsOf(task[r].order) : payment[q].status = "PENDING"}}
  <2>1. TablesOK'
    BY <1>8 DEF ReverseFind, TablesOK, money
  <2>2. task[r] \in Tasks
    BY <1>8, TaskType DEF ReverseFind
  <2>3. rows \subseteq Pending
    BY DEF Pending, PaymentsOf, TablesOK, PaymentRow
  <2>4. found' = [found EXCEPT ![r] = rows] /\ Goto(r, "rev_cancel")
        /\ UNCHANGED <<task, snap, full, crashes>>
    BY <1>8 DEF ReverseFind
  <2>5. RequestsOK'
    BY <2>2, <2>3, <2>4 DEF RequestsOK, Goto, Points
  <2> QED
    BY <2>1, <2>5
<1>9. ASSUME NEW r \in Requests, ReverseCancel(r) PROVE OrderTypeOK'
  <2>1. task[r] \in Tasks
    BY <1>9, TaskType DEF ReverseCancel
  <2>2. CASE found[r] = {} /\ Goto(r, "rev_mark") /\ UNCHANGED <<payment, found>>
    <3>1. TablesOK'
      BY <1>9, <2>2 DEF ReverseCancel, TablesOK, money
    <3>2. RequestsOK'
      BY <1>9, <2>1, <2>2 DEF ReverseCancel, RequestsOK, Goto, Points
    <3> QED
      BY <3>1, <3>2
  <2>3. ASSUME NEW row \in found[r],
               payment' = [payment EXCEPT ![row.id] =
                             [status |-> "CANCELLED", authority |-> row.authority]],
               found' = [found EXCEPT ![r] = @ \ {row}],
               UNCHANGED pc
        PROVE  OrderTypeOK'
    <3>1. row \in Pending
      BY DEF RequestsOK
    <3>2. payment' \in [Payments -> PaymentRow]
      BY <2>3, <3>1 DEF TablesOK, Pending, PaymentRow, PaymentStatuses
    <3>3. TablesOK'
      BY <1>9, <3>2 DEF ReverseCancel, TablesOK, money
    <3>4. RequestsOK'
      BY <1>9, <2>1, <2>3 DEF ReverseCancel, RequestsOK
    <3> QED
      BY <3>3, <3>4
  <2> QED
    BY <1>9, <2>2, <2>3 DEF ReverseCancel
<1>10. ASSUME NEW r \in Requests, ReverseMark(r) PROVE OrderTypeOK'
  <2>1. task[r] \in Tasks /\ task[r].order \in Orders
    BY <1>10, TaskType DEF ReverseMark
  <2>2. order' \in [Orders -> Row]
    BY <1>10, <2>1 DEF ReverseMark, TablesOK, Row
  <2>3. TablesOK'
    BY <1>10, <2>2 DEF ReverseMark, TablesOK, money
  <2>4. AfterReversal(r) \in Points /\ crashes' \in Nat
    BY <1>10 DEF AfterReversal, Points, ReverseMark, RequestsOK
  <2>5. RequestsOK'
    BY <1>10, <2>1, <2>4, FinishType, GotoType DEF ReverseMark
  <2> QED
    BY <2>3, <2>5
<1>11. ASSUME NEW r \in Requests, VoidOrder(r) \/ PurgeOrder(r) \/ AddTracking(r)
       PROVE  OrderTypeOK'
  <2>1. task[r].order \in Orders
    BY <1>11, TaskType DEF VoidOrder, PurgeOrder, AddTracking
  <2>2. order' \in [Orders -> Row]
    BY <1>11, <2>1 DEF VoidOrder, PurgeOrder, AddTracking, TablesOK, Row, Statuses
  <2>3. TablesOK'
    BY <1>11, <2>2 DEF VoidOrder, PurgeOrder, AddTracking, TablesOK, money
  <2>4. crashes' \in Nat /\ Finish(r)
    BY <1>11 DEF VoidOrder, PurgeOrder, AddTracking, RequestsOK
  <2> QED
    BY <2>3, <2>4, FinishType
<1>12. ASSUME NEW r \in Requests, EditItems(r) PROVE OrderTypeOK'
  <2> DEFINE row == [snap[r] EXCEPT !.qty = task[r].qty]
  <2>1. task[r] \in Tasks /\ task[r].order \in Orders /\ task[r].qty \in Nat
    BY <1>12, TaskType DEF EditItems
  <2>2. row \in Row /\ snap[r].qty \in Nat
    BY <2>1 DEF RequestsOK, Row
  <2>3. CASE UNCHANGED <<order, stock>> /\ Finish(r)
    <3>1. TablesOK' /\ crashes' \in Nat
      BY <1>12, <2>3 DEF EditItems, TablesOK, RequestsOK, money
    <3> QED
      BY <2>3, <3>1, FinishType
  <2>4. CASE /\ EditMovesStock(snap[r]) => stock + snap[r].qty >= task[r].qty
             /\ order' = [order EXCEPT ![task[r].order] = row]
             /\ stock' = IF EditMovesStock(snap[r])
                         THEN stock + snap[r].qty - task[r].qty ELSE stock
             /\ snap' = [snap EXCEPT ![r] = row]
             /\ Goto(r, "save")
             /\ UNCHANGED <<task, full, found>>
    <3>1. stock \in Nat
      BY DEF TablesOK
    <3>2. stock' \in Nat
      BY <2>1, <2>2, <2>4, <3>1
    <3>3. order' \in [Orders -> Row]
      BY <2>1, <2>2, <2>4 DEF TablesOK
    <3>4. TablesOK'
      BY <1>12, <3>2, <3>3 DEF EditItems, TablesOK, money
    <3>5. RequestsOK'
      BY <1>12, <2>1, <2>2, <2>4 DEF EditItems, RequestsOK, Goto, Points
    <3> QED
      BY <3>4, <3>5
  <2> QED
    BY <1>12, <2>3, <2>4 DEF EditItems
<1>13. ASSUME NEW r \in Requests, SaveOrder(r) PROVE OrderTypeOK'
  <2>1. task[r].order \in Orders /\ snap[r] \in Row
    BY <1>13, TaskType DEF SaveOrder, RequestsOK
  <2>2. order' \in [Orders -> Row]
    BY <1>13, <2>1 DEF SaveOrder, TablesOK
  <2>3. TablesOK' /\ crashes' \in Nat
    BY <1>13, <2>2 DEF SaveOrder, TablesOK, RequestsOK, money
  <2> QED
    BY <1>13, <2>3, FinishType DEF SaveOrder
<1>14. ASSUME NEW r \in Requests, Crash(r) PROVE OrderTypeOK'
  <2>1. TablesOK'
    BY <1>14 DEF Crash, TablesOK, money
  <2>2. crashes' \in Nat
    BY <1>14 DEF Crash, RequestsOK
  <2> QED
    BY <1>14, <2>1, <2>2, FinishType DEF Crash
<1>15. ASSUME NEW o \in Orders, AutoConfirm(o) PROVE OrderTypeOK'
  <2> DEFINE row == [order[o] EXCEPT !.status = "CONFIRMED"]
  <2>1. row \in Row
    BY DEF TablesOK, Row, Statuses
  <2>2. UNCHANGED <<order, stock, commits>> \/ Settle(o, row)
    BY <1>15 DEF AutoConfirm
  <2>3. order' \in [Orders -> Row] /\ stock' \in Nat /\ commits' \in [Orders -> Nat]
    BY <2>1, <2>2, SettleType DEF TablesOK
  <2>4. TablesOK'
    BY <1>15, <2>3 DEF AutoConfirm, TablesOK, money
  <2>5. RequestsOK'
    BY <1>15 DEF AutoConfirm, RequestsOK, reqVars
  <2> QED
    BY <2>4, <2>5
<1>16. ASSUME NEW p \in Payments, Capture(p) \/ Reapply(p) PROVE OrderTypeOK'
  <2>1. OrderOf[p] \in Orders
    BY OrderAssumption
  <2>2. order' \in [Orders -> Row] /\ stock' \in Nat /\ commits' \in [Orders -> Nat]
    BY <1>16, <2>1, ApplyType DEF Capture, Reapply
  <2>3. payment' \in [Payments -> PaymentRow] /\ captured' \subseteq Payments
    BY <1>16 DEF Capture, Reapply, TablesOK, PaymentRow, PaymentStatuses
  <2>4. TablesOK'
    BY <1>16, <2>2, <2>3 DEF Capture, Reapply, TablesOK, money
  <2>5. RequestsOK'
    BY <1>16 DEF Capture, Reapply, RequestsOK, reqVars
  <2> QED
    BY <2>4, <2>5
<1>17. CASE RewritePayments
  <2>1. TablesOK'
    BY <1>17 DEF RewritePayments, TablesOK, money
  <2>2. RequestsOK'
    BY <1>17 DEF RewritePayments, RequestsOK, reqVars
  <2> QED
    BY <2>1, <2>2
<1>18. CASE UNCHANGED orderVars
  BY <1>18 DEF orderVars, TablesOK, RequestsOK
<1> QED
  BY <1>1, <1>2, <1>3, <1>4, <1>5, <1>6, <1>7, <1>8, <1>9, <1>10, <1>11, <1>12,
     <1>13, <1>14, <1>15, <1>16, <1>17, <1>18
  DEF OrderNext, AdminNext, GatewayNext, Step

(* Every column and every local value of a request stays in its domain.     *)
THEOREM TypeCorrect == OrderSpec => []OrderTypeOK
<1>1. OrderInit => OrderTypeOK
  BY InitTypeOK
<1>2. OrderTypeOK /\ [OrderNext]_orderVars => OrderTypeOK'
  BY NextTypeOK
<1> QED
  BY <1>1, <1>2, PTL DEF OrderSpec

----------------------------------------------------------------------------
(* Settlement of stock.  The marks stockCommittedAt and effectsReversedAt    *)
(* are only ever set, so what a request learnt from a settled row stays true *)
(* while it waits.                                                           *)

MarksKept ==
  \A o \in Orders : /\ order[o].committed => order'[o].committed
                    /\ order[o].reversed  => order'[o].reversed

\* A request stands still, or moves on to a point without a claim on the row.
ClaimPoints == {"status", "track", "edit", "save"}
Progress ==
  \A q \in Requests :
     \/ pc'[q] = pc[q] /\ snap'[q] = snap[q] /\ task'[q] = task[q]
     \/ /\ pc'[q] \notin ClaimPoints
        /\ snap'[q] = NoRow \/ (snap'[q] = snap[q] /\ task'[q] = task[q])

LEMMA FinishProgress ==
  ASSUME RequestsOK, NEW r \in Requests, Finish(r)
  PROVE  Progress
BY DEF RequestsOK, Finish, Goto, Progress, ClaimPoints

LEMMA GotoProgress ==
  ASSUME RequestsOK, NEW r \in Requests, NEW point, point \notin ClaimPoints,
         Goto(r, point), UNCHANGED <<task, snap>>
  PROVE  Progress
BY DEF RequestsOK, Goto, Progress

LEMMA GotoReversalProgress ==
  ASSUME RequestsOK, NEW r \in Requests, GotoReversal(r)
  PROVE  Progress
<1>1. "rev_read" \notin ClaimPoints /\ AfterReversal(r) \notin ClaimPoints
  BY DEF ClaimPoints, AfterReversal
<1> QED
  BY <1>1, FinishProgress, GotoProgress DEF GotoReversal, locals

LEMMA ProgressKeepsClaims ==
  ASSUME SettlementIInv, OrderTypeOK', MarksKept, Progress
  PROVE  SnapshotsOwned' /\ TrackingSettled' /\ StatusTasks' /\ NoSavePoints'
<1>1. SnapshotsOwned'
  <2> SUFFICES ASSUME NEW q \in Requests, snap'[q].status \in SettledStatuses
               PROVE  task'[q] \in Tasks /\ Owned(order'[task'[q].order])
    BY DEF SnapshotsOwned, Owned
  <2>1. snap'[q] = snap[q] /\ task'[q] = task[q]
    BY DEF Progress, NoRow, SettledStatuses
  <2>2. task[q] \in Tasks /\ Owned(order[task[q].order])
    BY <2>1 DEF SettlementIInv, SnapshotsOwned
  <2>3. task[q].order \in Orders
    BY <2>2, OrderAssumption DEF Task
  <2> QED
    BY <2>1, <2>2, <2>3 DEF MarksKept, Owned
<1>2. TrackingSettled' /\ StatusTasks' /\ NoSavePoints'
  BY DEF Progress, ClaimPoints, SettlementIInv, TrackingSettled, StatusTasks, NoSavePoints
<1> QED
  BY <1>1, <1>2

(* What a write to one order row does to the invariant, without and with    *)
(* settlement.                                                              *)
TablesKeep == CommitsMarked' /\ SettledHasStock' /\ MarksKept

LEMMA NoOrderWrite ==
  ASSUME SettlementIInv, UNCHANGED <<order, commits>>
  PROVE  TablesKeep
BY DEF SettlementIInv, TablesKeep, CommitsMarked, SettledHasStock, MarksKept

LEMMA PlainWrite ==
  ASSUME SettlementIInv, NEW o \in Orders, NEW row \in Row,
         order' = [order EXCEPT ![o] = row], UNCHANGED commits,
         order[o].committed => row.committed,
         order[o].reversed => row.reversed,
         row.status \in SettledStatuses => Owned(row)
  PROVE  TablesKeep
BY DEF SettlementIInv, OrderTypeOK, TablesOK, TablesKeep, CommitsMarked,
       SettledHasStock, MarksKept, Owned

LEMMA SettleWrite ==
  ASSUME SettlementIInv, NEW o \in Orders, NEW row \in Row, Settle(o, row),
         row.committed = order[o].committed, row.reversed = order[o].reversed
  PROVE  TablesKeep
<1>0. order \in [Orders -> Row] /\ commits \in [Orders -> Nat]
  BY DEF SettlementIInv, OrderTypeOK, TablesOK
<1>1. CASE Unsettled(row)
  <2> DEFINE settled == [row EXCEPT !.committed = TRUE]
  <2>1. /\ order' = [order EXCEPT ![o] = settled]
        /\ commits' = [commits EXCEPT ![o] = @ + 1]
    BY <1>1 DEF Settle
  <2>2. settled.committed /\ settled.status = row.status /\ settled.reversed = row.reversed
    BY DEF Row
  <2>3. commits[o] = 0
    BY <1>1 DEF Unsettled, SettlementIInv, CommitsMarked
  <2>4. CommitsMarked'
    BY <1>0, <2>1, <2>2, <2>3 DEF SettlementIInv, CommitsMarked
  <2>5. SettledHasStock' /\ MarksKept
    BY <1>0, <2>1, <2>2 DEF SettlementIInv, SettledHasStock, MarksKept
  <2> QED
    BY <2>4, <2>5 DEF TablesKeep
<1>2. CASE ~Unsettled(row)
  <2>1. order' = [order EXCEPT ![o] = row] /\ UNCHANGED commits
    BY <1>2 DEF Settle
  <2>2. Owned(row)
    BY <1>2 DEF Unsettled, Owned
  <2> QED
    BY <2>1, <2>2, PlainWrite
<1> QED
  BY <1>1, <1>2

LEMMA ApplyWrite ==
  ASSUME SettlementIInv, NEW o \in Orders, ApplyCapturedPayment(o)
  PROVE  TablesKeep
<1>1. CASE IgnoresCapture(order[o])
  BY <1>1, NoOrderWrite DEF ApplyCapturedPayment
<1>2. CASE ~IgnoresCapture(order[o])
  <2> DEFINE row == [order[o] EXCEPT !.status = StatusAfterCapture(@)]
  <2>1. order[o] \in Row
    BY DEF SettlementIInv, OrderTypeOK, TablesOK
  <2>2. StatusAfterCapture(order[o].status) \in Statuses \cup {"GONE"}
    BY <2>1 DEF StatusAfterCapture, Row, Statuses
  <2>3. row \in Row /\ row.committed = order[o].committed
                    /\ row.reversed = order[o].reversed
    BY <2>1, <2>2 DEF Row
  <2>4. Settle(o, row)
    BY <1>2 DEF ApplyCapturedPayment
  <2> QED
    BY <2>3, <2>4, SettleWrite
<1> QED
  BY <1>1, <1>2

SettlementStep == SettlementIInv' /\ MarksKept

LEMMA SettlementInit ==
  ASSUME OrderInit
  PROVE  SettlementIInv
<1>1. OrderTypeOK
  BY InitTypeOK
<1>2. \A o \in Orders : order[o].status \notin SettledStatuses
  BY DEF OrderInit, NewOrder, InitialCreateStatus, SettledStatuses
<1>3. \A r \in Requests : /\ snap[r].status \notin SettledStatuses
                          /\ pc[r] = "idle"
  BY DEF OrderInit, NoRow, SettledStatuses
<1>4. CommitsMarked
  BY DEF OrderInit, CommitsMarked
<1> QED
  BY <1>1, <1>2, <1>3, <1>4 DEF SettlementIInv, SettledHasStock, SnapshotsOwned,
     TrackingSettled, StatusTasks, NoSavePoints

LEMMA SettlementNext ==
  ASSUME NoWholeSaves, SettlementIInv, [OrderNext]_orderVars
  PROVE  SettlementStep
<1>1. OrderTypeOK' /\ RequestsOK /\ TablesOK
  BY NextTypeOK DEF SettlementIInv, OrderTypeOK
<1>2. ASSUME TablesKeep, Progress PROVE SettlementStep
  BY <1>1, <1>2, ProgressKeepsClaims DEF TablesKeep, SettlementIInv, SettlementStep
<1>3. ASSUME UNCHANGED reqVars PROVE Progress
  BY <1>3 DEF reqVars, Progress
<1>4. ASSUME NEW r \in Requests, Begin(r) PROVE SettlementStep
  <2>1. PICK t \in Tasks : /\ Accepts(t, order[t.order])
                           /\ task' = [task EXCEPT ![r] = t]
                           /\ snap' = [snap EXCEPT ![r] = order[t.order]]
                           /\ Goto(r, FirstPoint(t, order[t.order]))
    BY <1>4 DEF Begin
  <2>2. t.order \in Orders /\ t.op \in Ops \ {"edit", "note"}
    BY OrderAssumption, NoWholeSaves DEF Task, NoWholeSaves
  <2>3. TablesKeep
    BY <1>4, NoOrderWrite DEF Begin
  <2>4. \A q \in Requests : q # r => /\ pc'[q] = pc[q]
                                    /\ snap'[q] = snap[q]
                                    /\ task'[q] = task[q]
    BY <1>1, <2>1 DEF Goto, RequestsOK
  <2>5. /\ pc'[r] = FirstPoint(t, order[t.order])
        /\ snap'[r] = order[t.order]
        /\ task'[r] = t
    BY <1>1, <2>1 DEF Goto, RequestsOK
  <2>6. order' = order
    BY <1>4 DEF Begin
  <2>7. SnapshotsOwned'
    BY <2>2, <2>4, <2>5, <2>6 DEF SettlementIInv, SnapshotsOwned, SettledHasStock, Owned
  <2>8. FirstPoint(t, order[t.order]) \notin {"edit", "save"}
    BY <2>2 DEF FirstPoint, Ops
  <2>9. NoSavePoints'
    BY <2>4, <2>5, <2>8 DEF SettlementIInv, NoSavePoints
  <2>10. FirstPoint(t, order[t.order]) = "track" =>
           order[t.order].status \in SettledStatuses
    <3>1. SUFFICES ASSUME FirstPoint(t, order[t.order]) = "track"
                   PROVE  order[t.order].status \in SettledStatuses
      OBVIOUS
    <3>2. t.op = "track"
      BY <2>2, <3>1 DEF FirstPoint, Ops
    <3>3. order[t.order].status # "GONE" /\ CanTransition(order[t.order].status, "SHIPPED")
      BY <2>1, <3>2 DEF Accepts
    <3>4. order[t.order].status \in Statuses
      BY <1>1, <2>2, <3>3 DEF TablesOK, Row
    <3> QED
      BY <3>3, <3>4 DEF CanTransition, OrderTransitions, Statuses, SettledStatuses
  <2>11. TrackingSettled'
    BY <2>4, <2>5, <2>10 DEF SettlementIInv, TrackingSettled
  <2>12. FirstPoint(t, order[t.order]) = "status" => t.op = "status"
    BY <2>2 DEF FirstPoint, Ops
  <2>13. StatusTasks'
    BY <2>4, <2>5, <2>12 DEF SettlementIInv, StatusTasks
  <2> QED
    BY <1>1, <2>3, <2>7, <2>9, <2>11, <2>13 DEF SettlementIInv, TablesKeep, SettlementStep
<1>5. ASSUME NEW r \in Requests, UpdateStatus(r) PROVE SettlementStep
  <2> DEFINE o   == task[r].order
             row == [order[o] EXCEPT !.status = task[r].to]
  <2>1. task[r] \in Tasks /\ o \in Orders /\ task[r].to \in Statuses
    BY <1>1, <1>5, TaskType DEF UpdateStatus
  <2>2. /\ row \in Row /\ row.status = task[r].to
        /\ row.committed = order[o].committed /\ row.reversed = order[o].reversed
    BY <1>1, <2>1 DEF TablesOK, Row
  <2>3. Progress
    BY <1>1, <1>5, FinishProgress, GotoReversalProgress DEF UpdateStatus
  <2>4. CASE UNCHANGED <<order, commits>>
    BY <1>2, <2>3, <2>4, NoOrderWrite
  <2>5. CASE Settle(o, row)
    BY <1>2, <2>1, <2>2, <2>3, <2>5, SettleWrite
  <2>6. CASE /\ ~ShouldCommitStockOnConfirm(snap[r].status, task[r].to)
             /\ order' = [order EXCEPT ![o] = row]
             /\ UNCHANGED <<stock, commits>>
    <3>1. row.status \in SettledStatuses => Owned(row)
      <4>1. SUFFICES ASSUME row.status \in SettledStatuses PROVE Owned(row)
        OBVIOUS
      <4>2. snap[r].status \in SettledStatuses
        BY <2>2, <2>6, <4>1 DEF ShouldCommitStockOnConfirm
      <4> QED
        BY <2>2, <4>2 DEF SettlementIInv, SnapshotsOwned, Owned
    <3> QED
      BY <1>2, <2>1, <2>2, <2>3, <2>6, <3>1, PlainWrite
  <2> QED
    BY <1>5, <2>4, <2>5, <2>6 DEF UpdateStatus
<1>6. ASSUME NEW r \in Requests, CheckNoCapture(r) PROVE SettlementStep
  <2>1. TablesKeep
    BY <1>6, NoOrderWrite DEF CheckNoCapture
  <2>2. Progress
    BY <1>1, <1>6, FinishProgress, GotoReversalProgress DEF CheckNoCapture
  <2> QED
    BY <1>2, <2>1, <2>2
<1>7. ASSUME NEW r \in Requests, ReverseRead(r) PROVE SettlementStep
  <2>1. TablesKeep
    BY <1>7, NoOrderWrite DEF ReverseRead
  <2>2. "rev_stock" \notin ClaimPoints
    BY DEF ClaimPoints
  <2>3. Finish(r) \/ (Goto(r, "rev_stock") /\ UNCHANGED <<task, snap>>)
    BY <1>7 DEF ReverseRead
  <2> QED
    BY <1>1, <1>2, <2>1, <2>2, <2>3, FinishProgress, GotoProgress
<1>8. ASSUME NEW r \in Requests,
             \/ ReverseStock(r) \/ ReverseWallet(r) \/ ReverseDiscount(r)
             \/ ReverseFind(r)
      PROVE  SettlementStep
  <2>1. TablesKeep
    BY <1>8, NoOrderWrite DEF ReverseStock, ReverseWallet, ReverseDiscount, ReverseFind
  <2>2. PICK point \in {"rev_wallet", "rev_discount", "rev_find", "rev_cancel"} :
          Goto(r, point) /\ UNCHANGED <<task, snap>>
    BY <1>8 DEF ReverseStock, ReverseWallet, ReverseDiscount, ReverseFind, locals
  <2>3. point \notin ClaimPoints
    BY DEF ClaimPoints
  <2> QED
    BY <1>1, <1>2, <2>1, <2>2, <2>3, GotoProgress
<1>9. ASSUME NEW r \in Requests, ReverseCancel(r) PROVE SettlementStep
  <2>1. TablesKeep
    BY <1>9, NoOrderWrite DEF ReverseCancel
  <2>2. "rev_mark" \notin ClaimPoints
    BY DEF ClaimPoints
  <2>3. UNCHANGED <<task, snap>> /\ (Goto(r, "rev_mark") \/ UNCHANGED pc)
    BY <1>9 DEF ReverseCancel
  <2>4. Progress
    BY <1>1, <2>2, <2>3, GotoProgress DEF Progress
  <2> QED
    BY <1>2, <2>1, <2>4
<1>10. ASSUME NEW r \in Requests, ReverseMark(r) PROVE SettlementStep
  <2> DEFINE o   == task[r].order
             row == [order[o] EXCEPT !.reversed = TRUE]
  <2>1. o \in Orders
    BY <1>1, <1>10, TaskType DEF ReverseMark
  <2>2. /\ row \in Row /\ row.status = order[o].status /\ row.reversed
        /\ row.committed = order[o].committed
    BY <1>1, <2>1 DEF TablesOK, Row
  <2>5. TablesKeep
    <3>1. order' = order \/ order' = [order EXCEPT ![o].reversed = TRUE]
      BY <1>10 DEF ReverseMark
    <3>2. CASE order' = order
      BY <1>10, <3>2, NoOrderWrite DEF ReverseMark
    <3>3. CASE order' = [order EXCEPT ![o].reversed = TRUE]
      <4>1. order' = [order EXCEPT ![o] = row] /\ UNCHANGED commits /\ Owned(row)
        BY <1>10, <2>2, <3>3 DEF ReverseMark, Owned
      <4> QED
        BY <2>1, <2>2, <4>1, PlainWrite
    <3> QED
      BY <3>1, <3>2, <3>3
  <2>6. AfterReversal(r) \notin ClaimPoints
    BY DEF AfterReversal, ClaimPoints
  <2>7. Progress
    BY <1>1, <1>10, <2>6, FinishProgress, GotoProgress DEF ReverseMark, locals
  <2> QED
    BY <1>2, <2>5, <2>7
<1>11. ASSUME NEW r \in Requests, VoidOrder(r) PROVE SettlementStep
  <2> DEFINE o   == task[r].order
             row == [order[o] EXCEPT !.status = "DELETED", !.voided = TRUE]
  <2>1. o \in Orders
    BY <1>1, <1>11, TaskType DEF VoidOrder
  <2>2. /\ row \in Row /\ row.status = "DELETED"
        /\ row.committed = order[o].committed /\ row.reversed = order[o].reversed
    BY <1>1, <2>1 DEF TablesOK, Row, Statuses
  <2>3. UNCHANGED commits /\ (order' = order \/ order' = [order EXCEPT ![o] = row])
    BY <1>1, <1>11, <2>1 DEF VoidOrder, TablesOK
  <2>4. row.status \notin SettledStatuses
    BY <2>2 DEF SettledStatuses
  <2>5. TablesKeep
    BY <2>1, <2>2, <2>3, <2>4, NoOrderWrite, PlainWrite
  <2>6. Progress
    BY <1>1, <1>11, FinishProgress DEF VoidOrder
  <2> QED
    BY <1>2, <2>5, <2>6
<1>12. ASSUME NEW r \in Requests, PurgeOrder(r) PROVE SettlementStep
  <2> DEFINE o   == task[r].order
             row == [order[o] EXCEPT !.status = "GONE"]
  <2>1. o \in Orders
    BY <1>1, <1>12, TaskType DEF PurgeOrder
  <2>2. /\ row \in Row /\ row.status = "GONE"
        /\ row.committed = order[o].committed /\ row.reversed = order[o].reversed
    BY <1>1, <2>1 DEF TablesOK, Row
  <2>3. UNCHANGED commits /\ order' = [order EXCEPT ![o] = row]
    BY <1>1, <1>12, <2>1 DEF PurgeOrder, TablesOK
  <2>4. row.status \notin SettledStatuses
    BY <2>2 DEF SettledStatuses
  <2>5. TablesKeep
    BY <2>1, <2>2, <2>3, <2>4, PlainWrite
  <2>6. Progress
    BY <1>1, <1>12, FinishProgress DEF PurgeOrder
  <2> QED
    BY <1>2, <2>5, <2>6
<1>13. ASSUME NEW r \in Requests, AddTracking(r) PROVE SettlementStep
  <2> DEFINE o   == task[r].order
             row == [order[o] EXCEPT !.status = "SHIPPED"]
  <2>1. o \in Orders
    BY <1>1, <1>13, TaskType DEF AddTracking
  <2>2. /\ row \in Row /\ row.status = "SHIPPED"
        /\ row.committed = order[o].committed /\ row.reversed = order[o].reversed
    BY <1>1, <2>1 DEF TablesOK, Row, Statuses
  <2>3. UNCHANGED commits /\ (order' = order \/ order' = [order EXCEPT ![o] = row])
    BY <1>1, <1>13, <2>1 DEF AddTracking, TablesOK
  <2>4. Owned(order[o])
    BY <1>13 DEF AddTracking, SettlementIInv, TrackingSettled, SnapshotsOwned
  <2>5. Owned(row)
    BY <2>2, <2>4 DEF Owned
  <2>6. TablesKeep
    BY <2>1, <2>2, <2>3, <2>5, NoOrderWrite, PlainWrite
  <2>7. Progress
    BY <1>1, <1>13, FinishProgress DEF AddTracking
  <2> QED
    BY <1>2, <2>6, <2>7
<1>14. ASSUME NEW r \in Requests, EditItems(r) \/ SaveOrder(r) PROVE SettlementStep
  BY <1>14 DEF EditItems, SaveOrder, SettlementIInv, NoSavePoints
<1>15. ASSUME NEW r \in Requests, Crash(r) PROVE SettlementStep
  <2>1. TablesKeep
    BY <1>15, NoOrderWrite DEF Crash
  <2>2. Progress
    BY <1>1, <1>15, FinishProgress DEF Crash
  <2> QED
    BY <1>2, <2>1, <2>2
<1>16. ASSUME NEW o \in Orders, AutoConfirm(o) PROVE SettlementStep
  <2> DEFINE row == [order[o] EXCEPT !.status = "CONFIRMED"]
  <2>1. row \in Row /\ row.committed = order[o].committed
                    /\ row.reversed = order[o].reversed
    BY <1>1 DEF TablesOK, Row, Statuses
  <2>2. UNCHANGED <<order, commits>> \/ Settle(o, row)
    BY <1>16 DEF AutoConfirm
  <2>3. TablesKeep
    BY <2>1, <2>2, NoOrderWrite, SettleWrite
  <2>4. Progress
    BY <1>3, <1>16 DEF AutoConfirm
  <2> QED
    BY <1>2, <2>3, <2>4
<1>17. ASSUME NEW p \in Payments, Capture(p) \/ Reapply(p) PROVE SettlementStep
  <2>1. OrderOf[p] \in Orders
    BY OrderAssumption
  <2>2. TablesKeep
    BY <1>17, <2>1, ApplyWrite DEF Capture, Reapply
  <2>3. Progress
    BY <1>3, <1>17 DEF Capture, Reapply
  <2> QED
    BY <1>2, <2>2, <2>3
<1>18. CASE RewritePayments
  BY <1>2, <1>3, <1>18, NoOrderWrite DEF RewritePayments
<1>19. CASE UNCHANGED orderVars
  <2>1. TablesKeep /\ Progress
    BY <1>19, NoOrderWrite DEF orderVars, Progress
  <2> QED
    BY <1>2, <2>1
<1> QED
  BY <1>4, <1>5, <1>6, <1>7, <1>8, <1>9, <1>10, <1>11, <1>12, <1>13, <1>14,
     <1>15, <1>16, <1>17, <1>18, <1>19
  DEF OrderNext, AdminNext, GatewayNext, Step

(* Stock settlement, whatever requests overlap, provided that none of them   *)
(* saves an order row as a whole.                                           *)
THEOREM SettlementInvariant ==
  ASSUME NoWholeSaves
  PROVE  OrderSpec => []SettlementIInv
<1>1. OrderInit => SettlementIInv
  BY SettlementInit
<1>2. SettlementIInv /\ [OrderNext]_orderVars => SettlementIInv'
  BY SettlementNext DEF SettlementStep
<1> QED
  BY <1>1, <1>2, PTL DEF OrderSpec

(* The stock of an order is deducted at most once (commitStockForOrder).    *)
THEOREM CommitOnceHolds ==
  ASSUME NoWholeSaves
  PROVE  OrderSpec => []CommitOnce
<1>1. SettlementIInv => CommitOnce
  BY DEF SettlementIInv, CommitsMarked, CommitOnce
<1> QED
  BY <1>1, SettlementInvariant, PTL

(* An order on its way to the customer owns its goods or was reversed under *)
(* a request that still saw it alive.                                       *)
THEOREM SettledHasStockHolds ==
  ASSUME NoWholeSaves
  PROVE  OrderSpec => []SettledHasStock
<1>1. SettlementIInv => SettledHasStock
  BY DEF SettlementIInv
<1> QED
  BY <1>1, SettlementInvariant, PTL

----------------------------------------------------------------------------
(* Paid orders leave the list of unpaid ones.                               *)

(* No step takes an order back to AWAITING_PAYMENT, or voids one there.     *)
NotReentered ==
  \A o \in Orders :
     order'[o].status = "AWAITING_PAYMENT" =>
       /\ order[o].status = "AWAITING_PAYMENT"
       /\ order'[o].voided => order[o].voided

LEMMA SettleNotReentered ==
  ASSUME TablesOK, NEW o \in Orders, NEW row \in Row, Settle(o, row),
         row.status # "AWAITING_PAYMENT"
  PROVE  /\ NotReentered
         /\ order'[o].status # "AWAITING_PAYMENT"
<1>1. [row EXCEPT !.committed = TRUE].status = row.status
  BY DEF Row
<1>2. \/ order' = [order EXCEPT ![o] = [row EXCEPT !.committed = TRUE]]
      \/ order' = [order EXCEPT ![o] = row]
  BY DEF Settle
<1> QED
  BY <1>1, <1>2 DEF TablesOK, NotReentered

LEMMA ApplyNotReentered ==
  ASSUME TablesOK, NEW o \in Orders, ApplyCapturedPayment(o)
  PROVE  /\ NotReentered
         /\ order'[o].status = "AWAITING_PAYMENT" => IgnoresCapture(order[o])
<1>1. CASE IgnoresCapture(order[o])
  BY <1>1 DEF ApplyCapturedPayment, NotReentered
<1>2. CASE ~IgnoresCapture(order[o])
  <2> DEFINE row == [order[o] EXCEPT !.status = StatusAfterCapture(@)]
  <2>1. order[o] \in Row
    BY DEF TablesOK
  <2>2. /\ StatusAfterCapture(order[o].status) \in Statuses \cup {"GONE"}
        /\ StatusAfterCapture(order[o].status) # "AWAITING_PAYMENT"
    BY <2>1 DEF StatusAfterCapture, Row, Statuses
  <2>3. row \in Row /\ row.status # "AWAITING_PAYMENT"
    BY <2>1, <2>2 DEF Row
  <2>4. Settle(o, row)
    BY <1>2 DEF ApplyCapturedPayment
  <2> QED
    BY <2>3, <2>4, SettleNotReentered
<1> QED
  BY <1>1, <1>2

LEMMA NextNotReentered ==
  ASSUME NoReask, SettlementIInv, [OrderNext]_orderVars
  PROVE  NotReentered
<1>1. TablesOK /\ RequestsOK
  BY DEF SettlementIInv, OrderTypeOK
<1>2. ASSUME UNCHANGED order PROVE NotReentered
  BY <1>2 DEF NotReentered
<1>3. ASSUME NEW r \in Requests, UpdateStatus(r) PROVE NotReentered
  <2> DEFINE o   == task[r].order
             row == [order[o] EXCEPT !.status = task[r].to]
  <2>1. task[r] \in Tasks /\ o \in Orders /\ task[r].to \in Statuses
    BY <1>1, <1>3, TaskType DEF UpdateStatus
  <2>2. task[r].to # "AWAITING_PAYMENT"
    BY <1>3, <2>1, NoReask DEF UpdateStatus, SettlementIInv, StatusTasks, NoReask
  <2>3. row \in Row /\ row.status = task[r].to
    BY <1>1, <2>1 DEF TablesOK, Row
  <2>4. \/ UNCHANGED order
        \/ Settle(o, row)
        \/ order' = [order EXCEPT ![o] = row]
    BY <1>3 DEF UpdateStatus
  <2>5. ASSUME order' = [order EXCEPT ![o] = row] PROVE NotReentered
    BY <1>1, <2>1, <2>2, <2>3, <2>5 DEF TablesOK, NotReentered
  <2> QED
    BY <1>1, <1>2, <2>1, <2>2, <2>3, <2>4, <2>5, SettleNotReentered
<1>4. ASSUME NEW r \in Requests,
             ReverseMark(r) \/ VoidOrder(r) \/ PurgeOrder(r) \/ AddTracking(r)
      PROVE  NotReentered
  <2> DEFINE o == task[r].order
  <2>1. o \in Orders
    BY <1>1, <1>4, TaskType DEF ReverseMark, VoidOrder, PurgeOrder, AddTracking
  <2>2. \/ UNCHANGED order
        \/ order' = [order EXCEPT ![o].reversed = TRUE]
        \/ order' = [order EXCEPT ![o].status = "DELETED", ![o].voided = TRUE]
        \/ order' = [order EXCEPT ![o].status = "GONE"]
        \/ order' = [order EXCEPT ![o].status = "SHIPPED"]
    BY <1>4 DEF ReverseMark, VoidOrder, PurgeOrder, AddTracking
  <2>3. order \in [Orders -> Row]
    BY <1>1 DEF TablesOK
  <2> QED
    BY <2>1, <2>2, <2>3 DEF NotReentered, Row
<1>5. ASSUME NEW r \in Requests, EditItems(r) \/ SaveOrder(r) PROVE NotReentered
  BY <1>5 DEF EditItems, SaveOrder, SettlementIInv, NoSavePoints
<1>6. ASSUME NEW o \in Orders, AutoConfirm(o) PROVE NotReentered
  <2> DEFINE row == [order[o] EXCEPT !.status = "CONFIRMED"]
  <2>1. row \in Row /\ row.status # "AWAITING_PAYMENT"
    BY <1>1 DEF TablesOK, Row, Statuses
  <2>2. UNCHANGED order \/ Settle(o, row)
    BY <1>6 DEF AutoConfirm
  <2> QED
    BY <1>1, <1>2, <2>1, <2>2, SettleNotReentered
<1>7. ASSUME NEW p \in Payments, Capture(p) \/ Reapply(p) PROVE NotReentered
  <2>1. OrderOf[p] \in Orders
    BY OrderAssumption
  <2> QED
    BY <1>1, <1>7, <2>1, ApplyNotReentered DEF Capture, Reapply
<1>8. ASSUME NEW r \in Requests,
             \/ Begin(r) \/ CheckNoCapture(r) \/ ReverseRead(r) \/ ReverseStock(r)
             \/ ReverseWallet(r) \/ ReverseDiscount(r) \/ ReverseFind(r)
             \/ ReverseCancel(r) \/ Crash(r)
      PROVE  NotReentered
  BY <1>2, <1>8 DEF Begin, CheckNoCapture, ReverseRead, ReverseStock, ReverseWallet,
     ReverseDiscount, ReverseFind, ReverseCancel, Crash
<1>9. ASSUME RewritePayments \/ UNCHANGED orderVars PROVE NotReentered
  BY <1>2, <1>9 DEF RewritePayments, orderVars
<1> QED
  BY <1>3, <1>4, <1>5, <1>6, <1>7, <1>8, <1>9
  DEF OrderNext, AdminNext, GatewayNext, Step

(* The invariant behind the three properties of orders, in every run: stock  *)
(* taken once and owned by settled orders, and no paid order left among the  *)
(* unpaid ones unless a reversal closed it.                                  *)
THEOREM OrderInvariant ==
  ASSUME NoWholeSaves, NoReask
  PROVE  OrderSpec => []OrderIInv
<1> DEFINE Awaiting == CapturedLeavesAwaiting /\ VoidedNotAwaiting
<1>1. OrderInit => Awaiting
  BY DEF OrderInit, CapturedLeavesAwaiting, VoidedNotAwaiting, NewOrder
<1>2. SettlementIInv /\ Awaiting /\ [OrderNext]_orderVars => Awaiting'
  <2> SUFFICES ASSUME SettlementIInv, Awaiting, [OrderNext]_orderVars
               PROVE  Awaiting'
    OBVIOUS
  <2>1. NotReentered /\ MarksKept
    BY NextNotReentered, SettlementNext DEF SettlementStep
  <2>2. VoidedNotAwaiting'
    BY <2>1 DEF NotReentered, VoidedNotAwaiting
  <2>3. CapturedLeavesAwaiting'
    <3> SUFFICES ASSUME NEW p \in captured',
                        order'[OrderOf[p]].status = "AWAITING_PAYMENT"
                 PROVE  order'[OrderOf[p]].reversed
      BY DEF CapturedLeavesAwaiting
    <3>1. captured \subseteq Payments
      BY DEF SettlementIInv, OrderTypeOK, TablesOK
    <3>2. CASE p \in captured
      <4>1. OrderOf[p] \in Orders
        BY <3>1, <3>2, OrderAssumption
      <4>2. order[OrderOf[p]].status = "AWAITING_PAYMENT"
        BY <2>1, <4>1 DEF NotReentered
      <4> QED
        BY <2>1, <3>2, <4>1, <4>2 DEF CapturedLeavesAwaiting, MarksKept
    <3>3. CASE p \notin captured
      <4>1. p \in Payments /\ Capture(p)
        BY <3>3 DEF OrderNext, AdminNext, GatewayNext, Step, orderVars,
           Begin, UpdateStatus, CheckNoCapture, ReverseRead, ReverseStock,
           ReverseWallet, ReverseDiscount, ReverseFind, ReverseCancel, ReverseMark,
           VoidOrder, PurgeOrder, AddTracking, EditItems, SaveOrder, Crash,
           AutoConfirm, Capture, Reapply, RewritePayments
      <4>2. OrderOf[p] \in Orders
        BY <4>1, OrderAssumption
      <4>3. IgnoresCapture(order[OrderOf[p]])
        BY <4>1, <4>2, ApplyNotReentered DEF Capture, SettlementIInv, OrderTypeOK
      <4>4. order[OrderOf[p]].status = "AWAITING_PAYMENT"
        BY <2>1, <4>2 DEF NotReentered
      <4>5. order[OrderOf[p]].reversed
        BY <4>2, <4>3, <4>4 DEF IgnoresCapture, VoidedNotAwaiting
      <4> QED
        BY <2>1, <4>2, <4>5 DEF MarksKept
    <3> QED
      BY <3>2, <3>3
  <2> QED
    BY <2>2, <2>3
<1>3. SettlementIInv /\ Awaiting => OrderIInv
  BY DEF OrderIInv
<1> QED
  BY <1>1, <1>2, <1>3, SettlementInvariant, PTL DEF OrderSpec

(* The transaction that captures a payment takes the order out of            *)
(* AWAITING_PAYMENT, and nothing brings it back there, unless its effects     *)
(* were reversed before.                                                     *)
THEOREM CapturedLeavesAwaitingHolds ==
  ASSUME NoWholeSaves, NoReask
  PROVE  OrderSpec => []CapturedLeavesAwaiting
<1>1. OrderIInv => CapturedLeavesAwaiting
  BY DEF OrderIInv
<1> QED
  BY <1>1, OrderInvariant, PTL

----------------------------------------------------------------------------
(* Requests served one by one.                                              *)

LEMMA NoneBusy ==
  ASSUME ServedAlone, \A r, s \in Busy : r = s, Cardinality(Busy) < MaxActive
  PROVE  Busy = {}
<1> SUFFICES ASSUME NEW r \in Busy PROVE FALSE
  OBVIOUS
<1>1. Busy = {r}
  OBVIOUS
<1>2. Cardinality(Busy) = 1
  BY <1>1, FS_Singleton
<1> QED
  BY <1>2 DEF ServedAlone

LEMMA IdleHolds ==
  ASSUME NEW r \in Requests, pc'[r] \in {"idle", "done"}
  PROVE  RequestHolds(r)'
BY DEF RequestHolds, StatusHolds, TrackHolds, SaveHolds, ReversalHolds, ReversalPoints, Busy

RequestsAlone == (\A r, s \in Busy : r = s) /\ \A r \in Requests : RequestHolds(r)

(* While one request runs, the others are idle or done.                      *)
LEMMA OnlyThisRequest ==
  ASSUME AloneIInv, NEW r \in Busy, \A s \in Requests \ {r} : pc'[s] = pc[s], RequestHolds(r)'
  PROVE  RequestsAlone'
<1>1. r \in Requests /\ \A s \in Requests \ {r} : pc'[s] \in {"idle", "done"}
  BY DEF AloneIInv, Busy
<1>2. \A s \in Requests : RequestHolds(s)'
  BY <1>1, IdleHolds
<1>3. \A s, t \in Busy' : s = t
  BY <1>1 DEF Busy
<1> QED
  BY <1>2, <1>3 DEF RequestsAlone

LEMMA FinishAlone ==
  ASSUME AloneIInv, NEW r \in Busy, Finish(r)
  PROVE  RequestsAlone'
<1>1. r \in Requests /\ pc'[r] = "done" /\ \A s \in Requests \ {r} : pc'[s] = pc[s]
  BY DEF Finish, Goto, Busy, AloneIInv, OrderTypeOK, RequestsOK
<1> QED
  BY <1>1, IdleHolds, OnlyThisRequest

(* A request writes the row of its own order, which is not a free one.        *)
LEMMA OwnOrderAlone ==
  ASSUME AloneIInv, NEW o \in Orders, MethodOf[o] # "FREE", UNCHANGED creating,
         \A q \in Orders \ {o} : order'[q] = order[q],
         order'[o].voided => order'[o].status \in {"DELETED", "GONE"}
  PROVE  VoidedIsDeleted' /\ FreeIsYoung'
BY DEF AloneIInv, VoidedIsDeleted, FreeIsYoung

LEMMA BusyFacts ==
  ASSUME ServedAlone, AloneIInv, NEW r \in Requests, pc[r] \notin {"idle", "done"}
  PROVE  /\ r \in Busy /\ task[r] \in Tasks /\ task[r].order \in Orders
         /\ MethodOf[task[r].order] # "FREE" /\ order[task[r].order].status # "GONE"
         /\ task[r].op \in {"void", "edit", "note"} => PaymentsOf(task[r].order) = {}
         /\ RequestHolds(r)
         /\ task[r].to \in Statuses
<1>1. task[r] \in Tasks /\ task[r].order \in Orders /\ task[r].to \in Statuses
  BY TaskType DEF AloneIInv, OrderTypeOK
<1> QED
  BY <1>1 DEF Busy, ServedAlone, AloneIInv, RequestHolds

(* What settling the stock of an order changes.                              *)
LEMMA SettleEffect ==
  ASSUME TablesOK, NEW o \in Orders, NEW row \in Row, Settle(o, row)
  PROVE  /\ \A q \in Orders \ {o} : order'[q] = order[q]
         /\ order'[o].status = row.status /\ order'[o].voided = row.voided
         /\ order'[o].reversed = row.reversed /\ order'[o].qty = row.qty
         /\ order'[o].committed = (row.committed \/ Unsettled(row))
         /\ stock' = IF Unsettled(row) THEN stock - row.qty ELSE stock
<1>1. order \in [Orders -> Row]
  BY DEF TablesOK
<1>2. CASE Unsettled(row)
  <2>1. order' = [order EXCEPT ![o] = [row EXCEPT !.committed = TRUE]] /\ stock' = stock - row.qty
    BY <1>2 DEF Settle
  <2> QED
    BY <1>1, <1>2, <2>1 DEF Row
<1>3. CASE ~Unsettled(row)
  <2>1. order' = [order EXCEPT ![o] = row] /\ stock' = stock
    BY <1>3 DEF Settle
  <2> QED
    BY <1>1, <1>3, <2>1 DEF Row, Unsettled
<1> QED
  BY <1>2, <1>3

LEMMA CaptureEffect ==
  ASSUME TablesOK, NEW o \in Orders, ApplyCapturedPayment(o)
  PROVE  /\ \A q \in Orders \ {o} : order'[q] = order[q]
         /\ IgnoresCapture(order[o]) => UNCHANGED <<order, stock>>
         /\ ~IgnoresCapture(order[o]) =>
              /\ order'[o].status = StatusAfterCapture(order[o].status)
              /\ order'[o].voided = order[o].voided
              /\ order'[o].reversed = order[o].reversed /\ order'[o].qty = order[o].qty
              /\ order'[o].committed = (order[o].committed \/ Unsettled(order[o]))
              /\ stock' = IF Unsettled(order[o]) THEN stock - order[o].qty ELSE stock
<1>1. CASE IgnoresCapture(order[o])
  BY <1>1 DEF ApplyCapturedPayment
<1>2. CASE ~IgnoresCapture(order[o])
  <2> DEFINE row == [order[o] EXCEPT !.status = StatusAfterCapture(@)]
  <2>1. order[o] \in Row
    BY DEF TablesOK
  <2>2. StatusAfterCapture(order[o].status) \in Statuses \cup {"GONE"}
    BY <2>1 DEF StatusAfterCapture, Row, Statuses
  <2>3. /\ row \in Row /\ row.status = StatusAfterCapture(order[o].status)
        /\ row.voided = order[o].voided /\ row.reversed = order[o].reversed
        /\ row.qty = order[o].qty /\ row.committed = order[o].committed
    BY <2>1, <2>2 DEF Row
  <2>4. Settle(o, row)
    BY <1>2 DEF ApplyCapturedPayment
  <2>5. Unsettled(row) <=> Unsettled(order[o])
    BY <2>3 DEF Unsettled
  <2> HIDE DEF row
  <2> QED
    BY <1>2, <2>3, <2>4, <2>5, SettleEffect
<1> QED
  BY <1>1, <1>2

LEMMA BeginAlone ==
  ASSUME ServedAlone, AloneIInv, NEW r \in Requests, Begin(r)
  PROVE  VoidedIsDeleted' /\ FreeIsYoung' /\ RequestsAlone'
<1>1. PICK t \in Tasks : /\ Accepts(t, order[t.order])
                         /\ task' = [task EXCEPT ![r] = t]
                         /\ snap' = [snap EXCEPT ![r] = order[t.order]]
                         /\ pc' = [pc EXCEPT ![r] = FirstPoint(t, order[t.order])]
  BY DEF Begin, Goto
<1>2. UNCHANGED <<order, creating>> /\ Busy = {}
  BY NoneBusy DEF Begin, AloneIInv
<1>3. t.op \in Ops /\ t.order \in Orders
  BY OrderAssumption DEF Task
<1>4. /\ task'[r] = t /\ snap'[r] = order[t.order] /\ pc'[r] = FirstPoint(t, order[t.order])
      /\ \A s \in Requests \ {r} : pc'[s] \in {"idle", "done"}
  BY <1>1, <1>2 DEF AloneIInv, OrderTypeOK, RequestsOK, Busy
<1>5. RequestHolds(r)'
  <2>1. order[t.order].status # "GONE"
    BY <1>1 DEF Accepts
  <2>2. CASE t.op = "status"
    <3>1. pc'[r] = "status" /\ CanTransition(order[t.order].status, t.to)
      BY <1>1, <1>4, <2>2 DEF FirstPoint, Accepts
    <3> QED
      BY <1>2, <1>4, <2>1, <2>2, <3>1 DEF RequestHolds, StatusHolds, TrackHolds, SaveHolds,
         ReversalHolds, ReversalPoints, Overtaken
  <2>3. CASE t.op \in {"void", "purge"}
    <3>1. /\ pc'[r] = "check" /\ (t.op = "void" => PaymentsOf(t.order) = {})
          /\ t.op = "purge" => Deleted(order[t.order])
      BY <1>1, <1>4, <2>3 DEF FirstPoint, Accepts, ServedAlone
    <3>2. t.op = "purge" => order[t.order].status = "DELETED"
      BY <1>3, <2>1, <3>1 DEF Deleted, AloneIInv, VoidedIsDeleted
    <3> QED
      BY <1>2, <1>4, <2>1, <2>3, <3>1, <3>2 DEF RequestHolds, StatusHolds, TrackHolds, SaveHolds,
         ReversalHolds, ReversalPoints, AfterStock
  <2>4. CASE t.op \in {"edit", "note"}
    <3>1. /\ pc'[r] \in {"edit", "save"} /\ PaymentsOf(t.order) = {}
          /\ pc'[r] = "edit" => ~order[t.order].reversed
      BY <1>1, <1>4, <2>4 DEF FirstPoint, ServedAlone
    <3> QED
      BY <1>2, <1>4, <2>1, <3>1 DEF RequestHolds, StatusHolds, TrackHolds, SaveHolds,
         ReversalHolds, ReversalPoints, PaymentsOf
  <2>5. CASE t.op = "track"
    <3>1. pc'[r] = "track" /\ CanTransition(order[t.order].status, "SHIPPED")
      BY <1>1, <1>4, <2>5 DEF FirstPoint, Accepts
    <3>2. order[t.order].status \in Statuses
      BY <1>3, <2>1 DEF AloneIInv, OrderTypeOK, TablesOK, Row
    <3>3. order[t.order].status \in {"CONFIRMED", "PROCESSING", "SHIPPED"}
      BY <3>1, <3>2 DEF CanTransition, OrderTransitions, Statuses
    <3> QED
      BY <1>2, <1>4, <2>1, <3>1, <3>3 DEF RequestHolds, StatusHolds, TrackHolds, SaveHolds,
         ReversalHolds, ReversalPoints
  <2> QED
    BY <1>3, <2>2, <2>3, <2>4, <2>5 DEF Ops
<1>6. \A s \in Requests : RequestHolds(s)'
  BY <1>4, <1>5, IdleHolds
<1>7. \A s, q \in Busy' : s = q
  BY <1>4 DEF Busy
<1> QED
  BY <1>2, <1>6, <1>7 DEF RequestsAlone, AloneIInv, VoidedIsDeleted, FreeIsYoung

(* Entering the reversal: at the row as it is now, not yet reversed.          *)
LEMMA EnterReversal ==
  ASSUME ServedAlone, AloneIInv, NEW r \in Busy, GotoReversal(r),
         LET o == task[r].order IN
           /\ snap[r].reversed = order[o].reversed /\ order'[o].reversed = order[o].reversed
           /\ order'[o].status # "GONE"
           /\ \/ task[r].op = "void" /\ PaymentsOf(o) = {}
              \/ task[r].op = "purge" /\ order'[o].status = "DELETED"
              \/ task[r].op = "status" /\ order'[o].status = "CANCELLED"
  PROVE  RequestsAlone'
<1>1. r \in Requests
  BY DEF Busy
<1>2. CASE Finish(r)
  BY <1>2, FinishAlone
<1>3. CASE ~snap[r].reversed /\ Goto(r, "rev_read") /\ UNCHANGED locals
  <2>1. /\ pc'[r] = "rev_read" /\ UNCHANGED <<task, snap, full>>
        /\ \A s \in Requests \ {r} : pc'[s] = pc[s]
    BY <1>1, <1>3 DEF Goto, locals, AloneIInv, OrderTypeOK, RequestsOK
  <2>2. RequestHolds(r)'
    BY <1>3, <2>1 DEF RequestHolds, StatusHolds, TrackHolds, SaveHolds, ReversalHolds,
       ReversalPoints, AfterStock, PaymentsOf
  <2> QED
    BY <2>1, <2>2, OnlyThisRequest
<1>4. CASE snap[r].reversed /\ AfterReversal(r) # "done" /\ Goto(r, AfterReversal(r)) /\ UNCHANGED locals
  <2>1. /\ pc'[r] = AfterReversal(r) /\ UNCHANGED <<task, snap, full>>
        /\ \A s \in Requests \ {r} : pc'[s] = pc[s]
    BY <1>1, <1>4 DEF Goto, locals, AloneIInv, OrderTypeOK, RequestsOK
  <2>2. /\ AfterReversal(r) \in {"void", "purge"}
        /\ AfterReversal(r) = "void" => task[r].op = "void"
        /\ AfterReversal(r) = "purge" => task[r].op = "purge"
    BY <1>4 DEF AfterReversal
  <2>3. RequestHolds(r)'
    BY <2>1, <2>2 DEF RequestHolds, StatusHolds, TrackHolds, SaveHolds, ReversalHolds,
       ReversalPoints, AfterStock, PaymentsOf
  <2> QED
    BY <2>1, <2>3, OnlyThisRequest
<1> QED
  BY <1>2, <1>3, <1>4 DEF GotoReversal

LEMMA StatusEffect ==
  ASSUME ServedAlone, AloneIInv, NEW r \in Requests, UpdateStatus(r)
  PROVE  LET o == task[r].order IN
         \/ UNCHANGED <<order, stock>> /\ Finish(r)
         \/ /\ \A q \in Orders \ {o} : order'[q] = order[q]
            /\ order'[o].status = task[r].to /\ order'[o].voided = order[o].voided
            /\ order'[o].reversed = order[o].reversed /\ order'[o].qty = order[o].qty
            /\ \/ order'[o].committed = order[o].committed /\ stock' = stock
               \/ /\ Unsettled(order[o]) /\ order'[o].committed
                  /\ stock' = stock - order[o].qty
            /\ Finish(r) \/ (task[r].to = "CANCELLED" /\ GotoReversal(r))
<1> DEFINE o   == task[r].order
           row == [order[o] EXCEPT !.status = task[r].to]
           Written == /\ \A q \in Orders \ {o} : order'[q] = order[q]
                      /\ order'[o].status = task[r].to /\ order'[o].voided = order[o].voided
                      /\ order'[o].reversed = order[o].reversed /\ order'[o].qty = order[o].qty
                      /\ \/ order'[o].committed = order[o].committed /\ stock' = stock
                         \/ /\ Unsettled(order[o]) /\ order'[o].committed
                            /\ stock' = stock - order[o].qty
<1>1. o \in Orders /\ task[r].to \in Statuses
  BY BusyFacts DEF UpdateStatus
<1>2. /\ order[o] \in Row /\ row \in Row /\ row.status = task[r].to
      /\ row.voided = order[o].voided /\ row.reversed = order[o].reversed
      /\ row.qty = order[o].qty /\ row.committed = order[o].committed
  BY <1>1 DEF AloneIInv, OrderTypeOK, TablesOK, Row
<1>3. \/ UNCHANGED <<order, stock>> /\ Finish(r)
      \/ /\ Settle(o, row) \/ (order' = [order EXCEPT ![o] = row] /\ stock' = stock)
         /\ Finish(r) \/ (task[r].to = "CANCELLED" /\ GotoReversal(r))
  BY DEF UpdateStatus, TriggersReversal
<1>4. ASSUME order' = [order EXCEPT ![o] = row] /\ stock' = stock PROVE Written
  BY <1>1, <1>2, <1>4 DEF AloneIInv, OrderTypeOK, TablesOK
<1>5. ASSUME Settle(o, row) PROVE Written
  <2>1. Unsettled(row) <=> Unsettled(order[o])
    BY <1>2 DEF Unsettled
  <2> HIDE DEF row
  <2>2. /\ \A q \in Orders \ {o} : order'[q] = order[q]
        /\ order'[o].status = row.status /\ order'[o].voided = row.voided
        /\ order'[o].reversed = row.reversed /\ order'[o].qty = row.qty
        /\ order'[o].committed = (row.committed \/ Unsettled(row))
        /\ stock' = IF Unsettled(row) THEN stock - row.qty ELSE stock
    BY <1>1, <1>2, <1>5, SettleEffect DEF AloneIInv, OrderTypeOK
  <2>3. row.committed \in BOOLEAN
    BY <1>2 DEF Row
  <2>4. CASE Unsettled(row)
    BY <1>2, <2>1, <2>2, <2>4
  <2>5. CASE ~Unsettled(row)
    BY <1>2, <2>1, <2>2, <2>3, <2>5
  <2> QED
    BY <2>4, <2>5
<1> HIDE DEF row
<1> QED
  BY <1>3, <1>4, <1>5

LEMMA StatusAlone ==
  ASSUME ServedAlone, AloneIInv, NEW r \in Requests, UpdateStatus(r)
  PROVE  VoidedIsDeleted' /\ FreeIsYoung' /\ RequestsAlone'
<1> DEFINE o == task[r].order
<1>1. /\ r \in Busy /\ o \in Orders /\ MethodOf[o] # "FREE" /\ order[o].status # "GONE"
      /\ task[r].to \in Statuses /\ StatusHolds(r)
  BY BusyFacts DEF UpdateStatus, RequestHolds
<1>2. \/ UNCHANGED order /\ Finish(r)
      \/ /\ \A q \in Orders \ {o} : order'[q] = order[q]
         /\ order'[o].status = task[r].to /\ order'[o].voided = order[o].voided
         /\ order'[o].reversed = order[o].reversed
         /\ Finish(r) \/ (task[r].to = "CANCELLED" /\ GotoReversal(r))
  BY StatusEffect
<1>3. UNCHANGED creating
  BY DEF UpdateStatus
<1>4. order[o].voided => task[r].to = "DELETED"
  <2>1. order[o].voided => order[o].status = "DELETED"
    BY <1>1 DEF AloneIInv, VoidedIsDeleted
  <2>2. order[o].status = "DELETED" => snap[r].status = "DELETED"
    BY <1>1 DEF StatusHolds, UpdateStatus, Overtaken
  <2>3. snap[r].status = "DELETED" => task[r].to = "DELETED"
    BY <1>1 DEF StatusHolds, UpdateStatus, CanTransition, OrderTransitions
  <2> QED
    BY <2>1, <2>2, <2>3
<1>5. VoidedIsDeleted' /\ FreeIsYoung'
  <2>1. CASE UNCHANGED order
    BY <1>3, <2>1 DEF AloneIInv, VoidedIsDeleted, FreeIsYoung
  <2>2. CASE ~UNCHANGED order
    BY <1>1, <1>2, <1>3, <1>4, <2>2, OwnOrderAlone
  <2> QED
    BY <2>1, <2>2
<1>6. RequestsAlone'
  <2>1. CASE Finish(r)
    BY <1>1, <2>1, FinishAlone
  <2>2. CASE ~Finish(r)
    <3>1. /\ GotoReversal(r) /\ order'[o].reversed = order[o].reversed
          /\ order'[o].status = "CANCELLED"
      BY <1>2, <2>2
    <3>2. task[r].op = "status" /\ snap[r].reversed = order[o].reversed
      BY <1>1 DEF StatusHolds, UpdateStatus
    <3> QED
      BY <1>1, <3>1, <3>2, EnterReversal
  <2> QED
    BY <2>1, <2>2
<1> QED
  BY <1>5, <1>6

LEMMA CheckAlone ==
  ASSUME ServedAlone, AloneIInv, NEW r \in Requests, CheckNoCapture(r)
  PROVE  RequestsAlone'
<1>1. r \in Busy /\ order[task[r].order].status # "GONE" /\ ReversalHolds(r)
  BY BusyFacts DEF CheckNoCapture, RequestHolds
<1>2. UNCHANGED order /\ pc[r] = "check" /\ (Finish(r) \/ GotoReversal(r))
  BY DEF CheckNoCapture
<1> QED
  BY <1>1, <1>2, FinishAlone, EnterReversal DEF ReversalHolds, ReversalPoints

(* The statements of reverseEffects that leave the orders alone.             *)
LEMMA ReversalStepsAlone ==
  ASSUME ServedAlone, AloneIInv, NEW r \in Requests,
         \/ ReverseRead(r) \/ ReverseStock(r) \/ ReverseWallet(r) \/ ReverseDiscount(r)
         \/ ReverseFind(r) \/ ReverseCancel(r)
  PROVE  RequestsAlone' /\ UNCHANGED <<order, creating, task>>
         /\ pc[r] \in ReversalPoints \ {"rev_mark"} /\ pc'[r] \in ReversalPoints
<1>1. /\ r \in Busy /\ order[task[r].order].status # "GONE" /\ RequestHolds(r)
      /\ pc \in [Requests -> Points] /\ full \in [Requests -> Row]
  BY BusyFacts DEF ReverseRead, ReverseStock, ReverseWallet, ReverseDiscount, ReverseFind,
     ReverseCancel, AloneIInv, OrderTypeOK, RequestsOK
<1>2. /\ UNCHANGED <<order, creating, task, snap>>
      /\ \A s \in Requests \ {r} : pc'[s] = pc[s]
      /\ pc[r] \in ReversalPoints \ {"rev_mark"} /\ pc'[r] \in ReversalPoints \ {"rev_read"}
      /\ \/ pc[r] = "rev_read" /\ full' = [full EXCEPT ![r] = order[task[r].order]]
         \/ pc[r] # "rev_read" /\ UNCHANGED full
  <2>1. CASE ReverseRead(r)
    BY <1>1, <2>1 DEF ReverseRead, Gone, Goto, ReversalPoints
  <2>2. CASE ReverseStock(r) \/ ReverseWallet(r) \/ ReverseDiscount(r)
    BY <1>1, <2>2 DEF ReverseStock, ReverseWallet, ReverseDiscount, Goto, ReversalPoints, locals
  <2>3. CASE ReverseFind(r)
    BY <1>1, <2>3 DEF ReverseFind, Goto, ReversalPoints
  <2>4. CASE ReverseCancel(r)
    BY <1>1, <2>4 DEF ReverseCancel, Goto, ReversalPoints
  <2> QED
    BY <2>1, <2>2, <2>3, <2>4
<1>3. RequestHolds(r)'
  BY <1>1, <1>2 DEF RequestHolds, StatusHolds, TrackHolds, SaveHolds, ReversalHolds,
     ReversalPoints, AfterStock, PaymentsOf
<1> QED
  BY <1>1, <1>2, <1>3, OnlyThisRequest

LEMMA MarkAlone ==
  ASSUME ServedAlone, AloneIInv, NEW r \in Requests, ReverseMark(r)
  PROVE  VoidedIsDeleted' /\ FreeIsYoung' /\ RequestsAlone'
<1> DEFINE o == task[r].order
<1>1. /\ r \in Busy /\ o \in Orders /\ MethodOf[o] # "FREE" /\ order[o].status # "GONE"
      /\ ReversalHolds(r) /\ pc[r] = "rev_mark"
  BY BusyFacts DEF ReverseMark, RequestHolds
<1>2. /\ order' = [order EXCEPT ![o].reversed = TRUE] /\ UNCHANGED creating
      /\ order \in [Orders -> Row] /\ pc \in [Requests -> Points]
  BY <1>1 DEF ReverseMark, Gone, AloneIInv, OrderTypeOK, TablesOK, RequestsOK
<1>3. /\ \A q \in Orders \ {o} : order'[q] = order[q]
      /\ order'[o].status = order[o].status /\ order'[o].voided = order[o].voided
      /\ order'[o].reversed
  BY <1>1, <1>2 DEF Row
<1>4. VoidedIsDeleted' /\ FreeIsYoung'
  BY <1>1, <1>2, <1>3, OwnOrderAlone DEF AloneIInv, VoidedIsDeleted
<1>5. RequestsAlone'
  <2>1. CASE Finish(r)
    BY <1>1, <2>1, FinishAlone
  <2>2. CASE AfterReversal(r) # "done" /\ Goto(r, AfterReversal(r)) /\ UNCHANGED locals
    <3>1. /\ pc'[r] = AfterReversal(r) /\ UNCHANGED <<task, snap, full>>
          /\ \A s \in Requests \ {r} : pc'[s] = pc[s]
      BY <1>2, <2>2 DEF Goto, locals
    <3>2. /\ AfterReversal(r) \in {"void", "purge"}
          /\ AfterReversal(r) = "void" => task[r].op = "void"
          /\ AfterReversal(r) = "purge" => task[r].op = "purge"
      BY <2>2 DEF AfterReversal
    <3>3. RequestHolds(r)'
      BY <1>1, <1>3, <3>1, <3>2 DEF RequestHolds, StatusHolds, TrackHolds, SaveHolds,
         ReversalHolds, ReversalPoints, AfterStock, PaymentsOf
    <3> QED
      BY <1>1, <3>1, <3>3, OnlyThisRequest
  <2> QED
    BY <2>1, <2>2 DEF ReverseMark
<1> QED
  BY <1>4, <1>5

LEMMA LastWritesAlone ==
  ASSUME ServedAlone, AloneIInv, NEW r \in Requests,
         VoidOrder(r) \/ PurgeOrder(r) \/ AddTracking(r) \/ SaveOrder(r) \/ Crash(r)
  PROVE  VoidedIsDeleted' /\ FreeIsYoung' /\ RequestsAlone'
<1> DEFINE o == task[r].order
<1>1. /\ r \in Busy /\ o \in Orders /\ MethodOf[o] # "FREE" /\ order[o].status # "GONE"
      /\ RequestHolds(r) /\ order \in [Orders -> Row]
  BY BusyFacts DEF VoidOrder, PurgeOrder, AddTracking, SaveOrder, Crash, Busy,
     AloneIInv, OrderTypeOK, TablesOK
<1>2. RequestsAlone'
  BY <1>1, FinishAlone DEF VoidOrder, PurgeOrder, AddTracking, SaveOrder, Crash
<1>3. UNCHANGED creating
  BY DEF VoidOrder, PurgeOrder, AddTracking, SaveOrder, Crash
<1>4. \A q \in Orders \ {o} : order'[q] = order[q]
  BY <1>1 DEF VoidOrder, PurgeOrder, AddTracking, SaveOrder, Crash
<1>5. order'[o].voided => order'[o].status \in {"DELETED", "GONE"}
  <2>1. order[o].voided => order[o].status \in {"DELETED", "GONE"}
    BY <1>1 DEF AloneIInv, VoidedIsDeleted
  <2>2. CASE VoidOrder(r) \/ PurgeOrder(r)
    BY <1>1, <2>1, <2>2 DEF VoidOrder, PurgeOrder, Row
  <2>3. CASE AddTracking(r)
    <3>1. order'[o].voided = order[o].voided /\ order[o].status \in {"CONFIRMED", "PROCESSING", "SHIPPED"}
      BY <1>1, <2>3 DEF AddTracking, RequestHolds, TrackHolds, Row
    <3> QED
      BY <2>1, <3>1
  <2>4. CASE SaveOrder(r)
    <3>1. snap[r] = order[o]
      BY <1>1, <2>4 DEF SaveOrder, RequestHolds, SaveHolds
    <3> QED
      BY <1>1, <2>1, <2>4, <3>1 DEF SaveOrder
  <2>5. CASE Crash(r)
    BY <2>1, <2>5 DEF Crash
  <2> QED
    BY <2>2, <2>3, <2>4, <2>5
<1> QED
  BY <1>1, <1>2, <1>3, <1>4, <1>5, OwnOrderAlone

LEMMA EditAlone ==
  ASSUME ServedAlone, AloneIInv, NEW r \in Requests, EditItems(r)
  PROVE  VoidedIsDeleted' /\ FreeIsYoung' /\ RequestsAlone'
<1> DEFINE o == task[r].order
           row == [snap[r] EXCEPT !.qty = task[r].qty]
<1>1. /\ r \in Busy /\ o \in Orders /\ MethodOf[o] # "FREE" /\ order[o].status # "GONE"
      /\ SaveHolds(r) /\ pc[r] = "edit" /\ UNCHANGED creating
      /\ order \in [Orders -> Row] /\ pc \in [Requests -> Points] /\ snap \in [Requests -> Row]
  BY BusyFacts DEF EditItems, RequestHolds, AloneIInv, OrderTypeOK, TablesOK, RequestsOK
<1>2. CASE UNCHANGED order /\ Finish(r)
  BY <1>1, <1>2, FinishAlone DEF AloneIInv, VoidedIsDeleted, FreeIsYoung
<1>3. CASE /\ order' = [order EXCEPT ![o] = row]
           /\ snap' = [snap EXCEPT ![r] = row]
           /\ Goto(r, "save")
           /\ UNCHANGED <<task, full, found>>
  <2>1. /\ row.status = order[o].status /\ row.voided = order[o].voided
        /\ PaymentsOf(o) = {}
    BY <1>1 DEF SaveHolds, Row
  <2> HIDE DEF row
  <2>2. /\ \A q \in Orders \ {o} : order'[q] = order[q]
        /\ order'[o] = row /\ snap'[r] = row /\ pc'[r] = "save"
        /\ \A s \in Requests \ {r} : pc'[s] = pc[s]
    BY <1>1, <1>3 DEF Goto
  <2>3. RequestHolds(r)'
    BY <1>1, <1>3, <2>1, <2>2 DEF RequestHolds, StatusHolds, TrackHolds, SaveHolds,
       ReversalHolds, ReversalPoints, PaymentsOf
  <2>4. VoidedIsDeleted' /\ FreeIsYoung'
    BY <1>1, <2>1, <2>2, OwnOrderAlone DEF AloneIInv, VoidedIsDeleted
  <2> QED
    BY <1>1, <2>2, <2>3, <2>4, OnlyThisRequest
<1> QED
  BY <1>2, <1>3 DEF EditItems

LEMMA AutoConfirmAlone ==
  ASSUME ServedAlone, AloneIInv, NEW o \in Orders, AutoConfirm(o)
  PROVE  /\ VoidedIsDeleted' /\ FreeIsYoung' /\ RequestsAlone'
         /\ MethodOf[o] = "FREE"
         /\ \/ UNCHANGED <<order, stock>>
            \/ /\ \A q \in Orders \ {o} : order'[q] = order[q]
               /\ order'[o].status = "CONFIRMED" /\ order'[o].reversed = order[o].reversed
               /\ order'[o].qty = order[o].qty
               /\ order'[o].committed = (order[o].committed \/ Unsettled(order[o]))
               /\ stock' = IF Unsettled(order[o]) THEN stock - order[o].qty ELSE stock
<1> DEFINE row == [order[o] EXCEPT !.status = "CONFIRMED"]
<1>1. /\ MethodOf[o] = "FREE" /\ creating' \subseteq creating /\ UNCHANGED reqVars
      /\ order[o].status # "GONE" /\ ~order[o].voided
  BY DEF AutoConfirm, AloneIInv, FreeIsYoung, VoidedIsDeleted
<1>2. /\ order[o] \in Row /\ row \in Row /\ row.status = "CONFIRMED"
      /\ row.voided = order[o].voided /\ row.reversed = order[o].reversed
      /\ row.qty = order[o].qty /\ row.committed = order[o].committed
  BY DEF AloneIInv, OrderTypeOK, TablesOK, Row, Statuses
<1>3. UNCHANGED <<order, stock>> \/ Settle(o, row)
  BY DEF AutoConfirm
<1>4. Unsettled(row) <=> Unsettled(order[o])
  BY <1>2 DEF Unsettled
<1> HIDE DEF row
<1>5. \/ UNCHANGED <<order, stock>>
      \/ /\ \A q \in Orders \ {o} : order'[q] = order[q]
         /\ order'[o].status = "CONFIRMED" /\ order'[o].reversed = order[o].reversed
         /\ order'[o].voided = order[o].voided /\ order'[o].qty = order[o].qty
         /\ order'[o].committed = (order[o].committed \/ Unsettled(order[o]))
         /\ stock' = IF Unsettled(order[o]) THEN stock - order[o].qty ELSE stock
  BY <1>2, <1>3, <1>4, SettleEffect DEF AloneIInv, OrderTypeOK
<1>6. VoidedIsDeleted' /\ FreeIsYoung'
  BY <1>1, <1>5 DEF AloneIInv, VoidedIsDeleted, FreeIsYoung
<1>7. RequestsAlone'
  <2>1. UNCHANGED <<pc, task, snap, full>> /\ Busy' = Busy
    BY <1>1 DEF reqVars, Busy
  <2>2. ASSUME NEW r \in Requests PROVE RequestHolds(r)'
    <3>1. CASE pc[r] \in {"idle", "done"}
      BY <2>1, <3>1, IdleHolds
    <3>2. CASE pc[r] \notin {"idle", "done"}
      <4>1. task[r].order \in Orders /\ task[r].order # o /\ RequestHolds(r)
        BY <1>1, <3>2, BusyFacts
      <4>2. order'[task[r].order] = order[task[r].order]
        BY <1>5, <4>1
      <4> QED
        BY <2>1, <4>1, <4>2 DEF RequestHolds, StatusHolds, TrackHolds, SaveHolds, ReversalHolds,
           PaymentsOf
    <3> QED
      BY <3>1, <3>2
  <2> QED
    BY <2>1, <2>2 DEF RequestsAlone, AloneIInv
<1> QED
  BY <1>1, <1>5, <1>6, <1>7

(* A captured payment may overtake a status change or a tracking number, and   *)
(* nothing else.                                                             *)
LEMMA CaptureAlone ==
  ASSUME ServedAlone, AloneIInv, NEW p \in Payments, Capture(p) \/ Reapply(p)
  PROVE  VoidedIsDeleted' /\ FreeIsYoung' /\ RequestsAlone'
<1> DEFINE o == OrderOf[p]
<1>1. /\ o \in Orders /\ ApplyCapturedPayment(o) /\ UNCHANGED <<creating, pc, task, snap, full>>
      /\ order[o].status \in Statuses \cup {"GONE"} /\ Busy' = Busy
  BY OrderAssumption DEF Capture, Reapply, reqVars, AloneIInv, OrderTypeOK, TablesOK, Row, Busy
<1>2. /\ \A q \in Orders \ {o} : order'[q] = order[q]
      /\ IgnoresCapture(order[o]) => UNCHANGED order
      /\ ~IgnoresCapture(order[o]) =>
           /\ order'[o].status = StatusAfterCapture(order[o].status)
           /\ order'[o].voided = order[o].voided
           /\ order'[o].reversed = order[o].reversed
  BY <1>1, CaptureEffect DEF AloneIInv, OrderTypeOK
<1> HIDE DEF o
<1>3. VoidedIsDeleted' /\ FreeIsYoung'
  <2>1. CASE IgnoresCapture(order[o])
    BY <1>1, <1>2, <2>1 DEF AloneIInv, VoidedIsDeleted, FreeIsYoung
  <2>2. CASE ~IgnoresCapture(order[o])
    <3>1. ~order'[o].voided
      BY <1>2, <2>2 DEF IgnoresCapture
    <3>2. order[o].status \in {"PENDING_REVIEW", "CONFIRMED"} => order'[o].status = "CONFIRMED"
      BY <1>2, <2>2 DEF StatusAfterCapture
    <3> QED
      BY <1>1, <1>2, <3>1, <3>2 DEF AloneIInv, VoidedIsDeleted, FreeIsYoung
  <2> QED
    BY <2>1, <2>2
<1>4. ASSUME NEW r \in Requests PROVE RequestHolds(r)'
  <2>1. CASE pc[r] \in {"idle", "done"}
    BY <1>1, <2>1, IdleHolds
  <2>2. CASE pc[r] \notin {"idle", "done"}
    <3>1. /\ task[r].order \in Orders /\ RequestHolds(r) /\ r \in Busy
          /\ order[task[r].order].status # "GONE"
      BY <2>2, BusyFacts
    <3>2. CASE order'[task[r].order] = order[task[r].order]
      BY <1>1, <3>1, <3>2 DEF RequestHolds, StatusHolds, TrackHolds, SaveHolds, ReversalHolds,
         PaymentsOf
    <3>3. CASE task[r].order = o /\ ~IgnoresCapture(order[o])
      <4>1. PaymentsOf(o) # {}
        BY DEF PaymentsOf, o
      <4>2. order[o].status \notin {"DELETED", "CANCELLED", "GONE"}
        BY <3>3 DEF IgnoresCapture
      <4>3. pc[r] \notin {"edit", "save", "check", "void", "purge"} \cup ReversalPoints
        BY <3>1, <3>3, <4>1, <4>2 DEF RequestHolds, SaveHolds, ReversalHolds
      <4>4. /\ order'[o].status # "GONE"
            /\ order[o].status \in {"CONFIRMED", "PROCESSING", "SHIPPED"}
                 => order'[o].status = order[o].status
            /\ \A s : Overtaken(s, order[o].status) => Overtaken(s, order'[o].status)
        BY <1>2, <3>3, <4>2 DEF StatusAfterCapture, Overtaken
      <4> QED
        BY <1>1, <1>2, <3>1, <3>3, <4>3, <4>4 DEF RequestHolds, StatusHolds, TrackHolds,
           SaveHolds, ReversalHolds
    <3> QED
      BY <1>2, <3>1, <3>2, <3>3
  <2> QED
    BY <2>1, <2>2
<1> QED
  BY <1>1, <1>3, <1>4 DEF RequestsAlone, AloneIInv

LEMMA AloneNext ==
  ASSUME ServedAlone, AloneIInv, [OrderNext]_orderVars
  PROVE  AloneIInv'
<1>1. ASSUME UNCHANGED <<order, creating, pc, task, snap, full>> PROVE VoidedIsDeleted' /\ FreeIsYoung' /\ RequestsAlone'
  <2>1. VoidedIsDeleted' /\ FreeIsYoung' /\ Busy' = Busy
    BY <1>1 DEF AloneIInv, VoidedIsDeleted, FreeIsYoung, Busy
  <2>2. \A r \in Requests : RequestHolds(r)'
    BY <1>1 DEF AloneIInv, RequestHolds, StatusHolds, TrackHolds, SaveHolds, ReversalHolds,
       PaymentsOf, Busy
  <2> QED
    BY <2>1, <2>2 DEF RequestsAlone, AloneIInv
<1>2. ASSUME UNCHANGED <<order, creating>> PROVE VoidedIsDeleted' /\ FreeIsYoung'
  BY <1>2 DEF AloneIInv, VoidedIsDeleted, FreeIsYoung
<1>3. ASSUME RewritePayments \/ UNCHANGED orderVars
      PROVE  VoidedIsDeleted' /\ FreeIsYoung' /\ RequestsAlone'
  BY <1>1, <1>3 DEF RewritePayments, orderVars, reqVars
<1>4. ASSUME NEW r \in Requests, CheckNoCapture(r)
      PROVE  VoidedIsDeleted' /\ FreeIsYoung' /\ RequestsAlone'
  BY <1>2, <1>4, CheckAlone DEF CheckNoCapture
<1>5. ASSUME NEW r \in Requests,
         \/ ReverseRead(r) \/ ReverseStock(r) \/ ReverseWallet(r) \/ ReverseDiscount(r)
         \/ ReverseFind(r) \/ ReverseCancel(r)
      PROVE  VoidedIsDeleted' /\ FreeIsYoung' /\ RequestsAlone'
  BY <1>2, <1>5, ReversalStepsAlone
<1>6. ASSUME NEW r \in Requests,
         \/ Begin(r) \/ UpdateStatus(r) \/ ReverseMark(r) \/ VoidOrder(r) \/ PurgeOrder(r)
         \/ AddTracking(r) \/ EditItems(r) \/ SaveOrder(r) \/ Crash(r)
      PROVE  VoidedIsDeleted' /\ FreeIsYoung' /\ RequestsAlone'
  BY <1>6, BeginAlone, StatusAlone, MarkAlone, LastWritesAlone, EditAlone
<1>7. VoidedIsDeleted' /\ FreeIsYoung' /\ RequestsAlone'
  BY <1>3, <1>4, <1>5, <1>6, AutoConfirmAlone, CaptureAlone
  DEF OrderNext, AdminNext, GatewayNext, Step
<1>8. OrderTypeOK'
  BY NextTypeOK DEF AloneIInv
<1> QED
  BY <1>7, <1>8 DEF AloneIInv, RequestsAlone

LEMMA AloneInit ==
  ASSUME OrderInit
  PROVE  AloneIInv
<1>1. OrderTypeOK
  BY InitTypeOK
<1>2. Busy = {}
  BY DEF OrderInit, Busy
<1>3. \A r \in Requests : RequestHolds(r)
  BY <1>2 DEF OrderInit, RequestHolds, StatusHolds, TrackHolds, SaveHolds, ReversalHolds, ReversalPoints
<1>4. VoidedIsDeleted /\ FreeIsYoung
  BY DEF OrderInit, VoidedIsDeleted, FreeIsYoung, NewOrder, InitialCreateStatus
<1> QED
  BY <1>1, <1>2, <1>3, <1>4 DEF AloneIInv

----------------------------------------------------------------------------
(* Legal moves.                                                             *)

MovesLegally == \A o \in Orders : order[o].status # "GONE"
                                    => LegalMove(order[o].status, order'[o].status)

LEMMA OneOrderMoves ==
  ASSUME NEW o \in Orders, \A q \in Orders \ {o} : order'[q] = order[q],
         order[o].status # "GONE" => LegalMove(order[o].status, order'[o].status)
  PROVE  MovesLegally
<1>1. \A s : LegalMove(s, s)
  BY DEF LegalMove, CanTransition
<1> QED
  BY <1>1 DEF MovesLegally

(* Each request and each capture moves the order along the table, although    *)
(* the status a request checked may be older than the captures since.         *)
LEMMA NextLegal ==
  ASSUME ServedAlone, NoStepBack, AloneIInv, [OrderNext]_orderVars
  PROVE  MovesLegally
<1>1. \A s : LegalMove(s, s)
  BY DEF LegalMove, CanTransition
<1>2. ASSUME UNCHANGED order PROVE MovesLegally
  BY <1>1, <1>2 DEF MovesLegally
<1>3. ASSUME NEW r \in Requests, UpdateStatus(r) PROVE MovesLegally
  <2> DEFINE o == task[r].order
  <2>1. /\ o \in Orders /\ task[r] \in Tasks /\ StatusHolds(r) /\ task[r].to \in Statuses
        /\ snap[r].status \in Statuses \cup {"GONE"}
    BY <1>3, BusyFacts DEF UpdateStatus, RequestHolds, AloneIInv, OrderTypeOK, RequestsOK, Row
  <2>2. /\ task[r].to \notin {"AWAITING_PAYMENT", "PENDING_REVIEW"}
        /\ CanTransition(snap[r].status, task[r].to) /\ snap[r].status \in Statuses
        /\ Overtaken(snap[r].status, order[o].status)
    BY <1>3, <2>1 DEF UpdateStatus, StatusHolds, NoStepBack
  <2>3. LegalMove(order[o].status, task[r].to)
    <3>1. CASE snap[r].status = order[o].status
      BY <2>2, <3>1 DEF LegalMove
    <3>2. CASE snap[r].status = "AWAITING_PAYMENT" /\ order[o].status \in {"PENDING_REVIEW", "CONFIRMED"}
      BY <2>2, <3>2 DEF LegalMove, CanTransition, OrderTransitions
    <3>3. CASE snap[r].status = "PENDING_REVIEW" /\ order[o].status = "CONFIRMED"
      BY <2>2, <3>3 DEF LegalMove, CanTransition, OrderTransitions
    <3> QED
      BY <2>2, <3>1, <3>2, <3>3 DEF Overtaken
  <2> QED
    BY <1>2, <1>3, <2>1, <2>3, StatusEffect, OneOrderMoves
<1>4. ASSUME NEW r \in Requests,
             \/ ReverseMark(r) \/ VoidOrder(r) \/ PurgeOrder(r) \/ AddTracking(r)
             \/ EditItems(r) \/ SaveOrder(r)
      PROVE  MovesLegally
  <2> DEFINE o == task[r].order
  <2>1. /\ o \in Orders /\ RequestHolds(r) /\ order \in [Orders -> Row] /\ snap[r] \in Row
    BY <1>4, BusyFacts DEF ReverseMark, VoidOrder, PurgeOrder, AddTracking, EditItems, SaveOrder,
       AloneIInv, OrderTypeOK, TablesOK, RequestsOK
  <2>2. CASE ReverseMark(r)
    BY <1>1, <1>2, <2>1, <2>2, OneOrderMoves DEF ReverseMark, Row
  <2>3. CASE VoidOrder(r)
    <3>1. order' = order \/ order' = [order EXCEPT ![o].status = "DELETED", ![o].voided = TRUE]
      BY <2>3 DEF VoidOrder
    <3> QED
      BY <1>2, <2>1, <3>1, OneOrderMoves DEF LegalMove, Row
  <2>4. CASE PurgeOrder(r)
    <3>1. pc[r] = "purge" /\ order' = [order EXCEPT ![o].status = "GONE"]
      BY <2>4 DEF PurgeOrder
    <3>2. order[o].status = "DELETED"
      BY <2>1, <3>1 DEF RequestHolds, ReversalHolds, ReversalPoints
    <3> QED
      BY <2>1, <3>1, <3>2, OneOrderMoves DEF LegalMove, Row
  <2>5. CASE AddTracking(r)
    <3>1. pc[r] = "track" /\ (order' = order \/ order' = [order EXCEPT ![o].status = "SHIPPED"])
      BY <2>5 DEF AddTracking
    <3>2. order[o].status \in {"CONFIRMED", "PROCESSING", "SHIPPED"}
      BY <2>1, <3>1 DEF RequestHolds, TrackHolds
    <3>3. LegalMove(order[o].status, "SHIPPED")
      BY <3>2 DEF LegalMove, CanTransition, OrderTransitions
    <3> QED
      BY <1>2, <2>1, <3>1, <3>3, OneOrderMoves DEF Row
  <2>6. CASE EditItems(r)
    <3>1. pc[r] = "edit" /\ (order' = order \/ order' = [order EXCEPT ![o] = [snap[r] EXCEPT !.qty = task[r].qty]])
      BY <2>6 DEF EditItems
    <3>2. [snap[r] EXCEPT !.qty = task[r].qty].status = order[o].status
      BY <2>1, <3>1 DEF RequestHolds, SaveHolds, Row
    <3> QED
      BY <1>1, <1>2, <2>1, <3>1, <3>2, OneOrderMoves
  <2>7. CASE SaveOrder(r)
    <3>1. pc[r] = "save" /\ order' = [order EXCEPT ![o] = snap[r]]
      BY <2>7 DEF SaveOrder
    <3>2. snap[r] = order[o]
      BY <2>1, <3>1 DEF RequestHolds, SaveHolds
    <3> QED
      BY <1>1, <2>1, <3>1, <3>2, OneOrderMoves
  <2> QED
    BY <1>4, <2>2, <2>3, <2>4, <2>5, <2>6, <2>7
<1>5. ASSUME NEW o \in Orders, AutoConfirm(o) PROVE MovesLegally
  <2>1. order[o].status \in {"PENDING_REVIEW", "CONFIRMED"}
    BY <1>5, AutoConfirmAlone DEF AloneIInv, FreeIsYoung
  <2>2. LegalMove(order[o].status, "CONFIRMED")
    BY <2>1 DEF LegalMove, CanTransition, OrderTransitions
  <2> QED
    BY <1>2, <1>5, <2>2, AutoConfirmAlone, OneOrderMoves
<1>6. ASSUME NEW p \in Payments, Capture(p) \/ Reapply(p) PROVE MovesLegally
  <2> DEFINE o == OrderOf[p]
  <2>1. o \in Orders /\ ApplyCapturedPayment(o)
    BY <1>6, OrderAssumption DEF Capture, Reapply
  <2>2. LegalMove(order[o].status, StatusAfterCapture(order[o].status))
    BY <1>1 DEF StatusAfterCapture, LegalMove, CanTransition, OrderTransitions
  <2> QED
    BY <1>2, <2>1, <2>2, CaptureEffect, OneOrderMoves DEF AloneIInv, OrderTypeOK
<1>7. ASSUME NEW r \in Requests,
             \/ Begin(r) \/ CheckNoCapture(r) \/ ReverseRead(r) \/ ReverseStock(r)
             \/ ReverseWallet(r) \/ ReverseDiscount(r) \/ ReverseFind(r)
             \/ ReverseCancel(r) \/ Crash(r)
      PROVE  MovesLegally
  BY <1>2, <1>7 DEF Begin, CheckNoCapture, ReverseRead, ReverseStock, ReverseWallet,
     ReverseDiscount, ReverseFind, ReverseCancel, Crash
<1>8. ASSUME RewritePayments \/ UNCHANGED orderVars PROVE MovesLegally
  BY <1>2, <1>8 DEF RewritePayments, orderVars
<1> QED
  BY <1>3, <1>4, <1>5, <1>6, <1>7, <1>8
  DEF OrderNext, AdminNext, GatewayNext, Step

(* What the one request that is busy knows of its order stays true, whatever   *)
(* captures arrive and whenever a request dies.                              *)
THEOREM AloneInvariant ==
  ASSUME ServedAlone
  PROVE  OrderSpec => []AloneIInv
<1>1. OrderInit => AloneIInv
  BY AloneInit
<1>2. AloneIInv /\ [OrderNext]_orderVars => AloneIInv'
  BY AloneNext
<1> QED
  BY <1>1, <1>2, PTL DEF OrderSpec

(* A status changes along ORDER_TRANSITIONS only, although the transition was  *)
(* checked on a row read before captures moved the order on.                 *)
THEOREM LegalMovesHold ==
  ASSUME ServedAlone, NoStepBack
  PROVE  OrderSpec => LegalMoves
<1>1. AloneIInv /\ [OrderNext]_orderVars =>
        [\A o \in Orders : order[o].status # "GONE"
                            => LegalMove(order[o].status, order'[o].status)]_orderVars
  BY NextLegal DEF MovesLegally
<1> QED
  BY <1>1, AloneInvariant, PTL DEF OrderSpec, LegalMoves

----------------------------------------------------------------------------
(* The books.                                                               *)

Balanced ==
  /\ stock + SumFunctionOnSet(StillTaken, Orders) = InitialStock
  /\ wallet = SumFunctionOnSet(CreditedByNow, Orders)
  /\ uses = SumFunctionOnSet(StillUsed, Orders)

\* What an order whose row is row adds to the sums, with the request on it at point.
TakenAt(row, point) ==
  IF point \notin AfterStock /\ row.committed /\ ~row.reversed THEN row.qty ELSE 0
CreditedAt(o, row, point) == IF point \in AfterWallet \/ row.reversed THEN WalletOf[o] ELSE 0
UsedAt(o, row, point) ==
  IF point \notin AfterDiscount /\ CodeUsed[o] /\ ~row.reversed THEN 1 ELSE 0

LEMMA BalanceTypes ==
  ASSUME OrderTypeOK
  PROVE  /\ stock \in Int /\ wallet \in Int /\ uses \in Int
         /\ \A q \in Orders : /\ StillTaken[q] \in Nat /\ CreditedByNow[q] \in Nat
                              /\ StillUsed[q] \in Nat
BY OrderAssumption DEF OrderTypeOK, TablesOK, Row, StillTaken, Taken, CreditedByNow, Credited,
   StillUsed, Used

(* One order changes, and the stock, the wallet and the uses change with it.  *)
LEMMA OneOrderBalanced ==
  ASSUME OrderTypeOK, OrderTypeOK', Balanced, NEW o \in Orders,
         \A q \in Orders \ {o} : /\ StillTaken'[q] = StillTaken[q]
                                 /\ CreditedByNow'[q] = CreditedByNow[q]
                                 /\ StillUsed'[q] = StillUsed[q],
         stock' + StillTaken'[o] = stock + StillTaken[o],
         wallet' - CreditedByNow'[o] = wallet - CreditedByNow[o],
         uses' - StillUsed'[o] = uses - StillUsed[o]
  PROVE  Balanced'
<1>1. IsFiniteSet(Orders)
  BY OrderAssumption
<1>2. /\ \A q \in Orders : StillTaken[q] \in Int
      /\ \A q \in Orders : CreditedByNow[q] \in Int
      /\ \A q \in Orders : StillUsed[q] \in Int
      /\ stock \in Int /\ wallet \in Int /\ uses \in Int
  BY BalanceTypes
<1>3. /\ \A q \in Orders : StillTaken'[q] \in Int
      /\ \A q \in Orders : CreditedByNow'[q] \in Int
      /\ \A q \in Orders : StillUsed'[q] \in Int
      /\ stock' \in Int /\ wallet' \in Int /\ uses' \in Int
  BY OrderAssumption DEF OrderTypeOK, TablesOK, Row, StillTaken, Taken, CreditedByNow,
     Credited, StillUsed, Used
<1>4. /\ \A q \in Orders \ {o} : StillTaken'[q] = StillTaken[q]
      /\ \A q \in Orders \ {o} : CreditedByNow'[q] = CreditedByNow[q]
      /\ \A q \in Orders \ {o} : StillUsed'[q] = StillUsed[q]
  OBVIOUS
<1> DEFINE t0 == StillTaken
           t1 == StillTaken'
           c0 == CreditedByNow
           c1 == CreditedByNow'
           u0 == StillUsed
           u1 == StillUsed'
<1>5. stock' + SumFunctionOnSet(t1, Orders) = stock + SumFunctionOnSet(t0, Orders)
  <2>1. /\ \A q \in Orders : t0[q] \in Int
        /\ \A q \in Orders : t1[q] \in Int
        /\ \A q \in Orders \ {o} : t1[q] = t0[q]
        /\ stock' + t1[o] = stock + t0[o] /\ stock \in Int /\ stock' \in Int
    BY <1>2, <1>3, <1>4
  <2> HIDE DEF t0, t1
  <2> QED
    BY ONLY <1>1, <2>1, SumExchange
<1>6. wallet = SumFunctionOnSet(c0, Orders) => wallet' = SumFunctionOnSet(c1, Orders)
  <2>1. /\ \A q \in Orders : c0[q] \in Int
        /\ \A q \in Orders : c1[q] \in Int
        /\ \A q \in Orders \ {o} : c1[q] = c0[q]
        /\ wallet' - c1[o] = wallet - c0[o] /\ wallet \in Int /\ wallet' \in Int
    BY <1>2, <1>3, <1>4
  <2> HIDE DEF c0, c1
  <2> QED
    BY ONLY <1>1, <2>1, SumExchange
<1>7. uses = SumFunctionOnSet(u0, Orders) => uses' = SumFunctionOnSet(u1, Orders)
  <2>1. /\ \A q \in Orders : u0[q] \in Int
        /\ \A q \in Orders : u1[q] \in Int
        /\ \A q \in Orders \ {o} : u1[q] = u0[q]
        /\ uses' - u1[o] = uses - u0[o] /\ uses \in Int /\ uses' \in Int
    BY <1>2, <1>3, <1>4
  <2> HIDE DEF u0, u1
  <2> QED
    BY ONLY <1>1, <2>1, SumExchange
<1> QED
  BY <1>5, <1>6, <1>7 DEF Balanced

(* An order whose row and whose reversal stand still.                         *)
LEMMA OrderBalanced ==
  ASSUME NEW q \in Orders, order'[q] = order[q],
         GaveBack(q, AfterStock)' = GaveBack(q, AfterStock),
         GaveBack(q, AfterWallet)' = GaveBack(q, AfterWallet),
         GaveBack(q, AfterDiscount)' = GaveBack(q, AfterDiscount)
  PROVE  /\ StillTaken'[q] = StillTaken[q] /\ CreditedByNow'[q] = CreditedByNow[q]
         /\ StillUsed'[q] = StillUsed[q]
BY DEF StillTaken, Taken, CreditedByNow, Credited, StillUsed, Used

(* A step of the one request that is busy.                                   *)
LEMMA RequestBalanced ==
  ASSUME AloneIInv, OrderTypeOK', Balanced, NEW r \in Busy, NEW o \in Orders, o = task[r].order,
         \A s \in Requests \ {r} : pc'[s] = pc[s],
         pc'[r] \in ReversalPoints => task'[r] = task[r],
         \A q \in Orders \ {o} : order'[q] = order[q],
         stock' + TakenAt(order'[o], pc'[r]) = stock + TakenAt(order[o], pc[r]),
         wallet' - CreditedAt(o, order'[o], pc'[r]) = wallet - CreditedAt(o, order[o], pc[r]),
         uses' - UsedAt(o, order'[o], pc'[r]) = uses - UsedAt(o, order[o], pc[r])
  PROVE  Balanced'
<1>1. /\ r \in Requests /\ \A s \in Requests \ {r} : pc[s] \in {"idle", "done"}
      /\ \A P \in {AfterStock, AfterWallet, AfterDiscount} :
           P \subseteq ReversalPoints /\ "idle" \notin P /\ "done" \notin P
  BY DEF AloneIInv, Busy, AfterStock, AfterWallet, AfterDiscount, ReversalPoints
<1>2. ASSUME NEW q \in Orders, NEW P \in {AfterStock, AfterWallet, AfterDiscount}
      PROVE  /\ GaveBack(q, P) <=> pc[r] \in P /\ q = o
             /\ GaveBack(q, P)' <=> pc'[r] \in P /\ q = o
  BY <1>1 DEF GaveBack
<1>3. \A q \in Orders \ {o} : /\ StillTaken'[q] = StillTaken[q]
                              /\ CreditedByNow'[q] = CreditedByNow[q]
                              /\ StillUsed'[q] = StillUsed[q]
  <2>1. ASSUME NEW q \in Orders \ {o}, NEW P \in {AfterStock, AfterWallet, AfterDiscount}
        PROVE  ~GaveBack(q, P) /\ ~GaveBack(q, P)'
    BY <1>2
  <2>2. ASSUME NEW q \in Orders \ {o}
        PROVE  /\ ~GaveBack(q, AfterStock) /\ ~GaveBack(q, AfterStock)'
               /\ ~GaveBack(q, AfterWallet) /\ ~GaveBack(q, AfterWallet)'
               /\ ~GaveBack(q, AfterDiscount) /\ ~GaveBack(q, AfterDiscount)'
    BY <2>1 DEF AfterStock, AfterWallet, AfterDiscount
  <2> QED
    BY <2>2 DEF StillTaken, Taken, CreditedByNow, Credited, StillUsed, Used
<1>4. /\ StillTaken[o] = TakenAt(order[o], pc[r])
      /\ CreditedByNow[o] = CreditedAt(o, order[o], pc[r])
      /\ StillUsed[o] = UsedAt(o, order[o], pc[r])
  BY <1>2 DEF StillTaken, Taken, CreditedByNow, Credited, StillUsed, Used, TakenAt, CreditedAt, UsedAt
<1>5. /\ StillTaken'[o] = TakenAt(order'[o], pc'[r])
      /\ CreditedByNow'[o] = CreditedAt(o, order'[o], pc'[r])
      /\ StillUsed'[o] = UsedAt(o, order'[o], pc'[r])
  BY <1>2 DEF StillTaken, Taken, CreditedByNow, Credited, StillUsed, Used, TakenAt, CreditedAt, UsedAt
<1>6. OrderTypeOK
  BY DEF AloneIInv
<1> QED
  BY <1>3, <1>4, <1>5, <1>6, OneOrderBalanced

(* Nothing that counts changes.                                              *)
LEMMA SameBalanced ==
  ASSUME Balanced, UNCHANGED <<order, stock, wallet, uses>>,
         \A q \in Orders : /\ GaveBack(q, AfterStock)' = GaveBack(q, AfterStock)
                           /\ GaveBack(q, AfterWallet)' = GaveBack(q, AfterWallet)
                           /\ GaveBack(q, AfterDiscount)' = GaveBack(q, AfterDiscount)
  PROVE  Balanced'
<1>1. /\ StillTaken' = StillTaken /\ CreditedByNow' = CreditedByNow
      /\ StillUsed' = StillUsed
  BY DEF StillTaken, Taken, CreditedByNow, Credited, StillUsed, Used
<1> QED
  BY <1>1 DEF Balanced

(* A request that is busy goes on without touching what counts.              *)
LEMMA QuietBalanced ==
  ASSUME AloneIInv, OrderTypeOK', Balanced, NEW r \in Busy, NEW o \in Orders, o = task[r].order,
         \A s \in Requests \ {r} : pc'[s] = pc[s],
         pc'[r] \in ReversalPoints => task'[r] = task[r],
         \A q \in Orders \ {o} : order'[q] = order[q],
         /\ order'[o].committed = order[o].committed /\ order'[o].reversed = order[o].reversed
         /\ order'[o].qty = order[o].qty,
         UNCHANGED <<stock, wallet, uses>>,
         /\ pc'[r] \in AfterStock <=> pc[r] \in AfterStock
         /\ pc'[r] \in AfterWallet <=> pc[r] \in AfterWallet
         /\ pc'[r] \in AfterDiscount <=> pc[r] \in AfterDiscount
  PROVE  Balanced'
<1>1. /\ TakenAt(order'[o], pc'[r]) = TakenAt(order[o], pc[r])
      /\ CreditedAt(o, order'[o], pc'[r]) = CreditedAt(o, order[o], pc[r])
      /\ UsedAt(o, order'[o], pc'[r]) = UsedAt(o, order[o], pc[r])
  BY DEF TakenAt, CreditedAt, UsedAt
<1> QED
  BY <1>1, RequestBalanced

(* The gateway side, or the end of create, settles an order no reversal is on. *)
LEMMA SettledBalanced ==
  ASSUME AloneIInv, OrderTypeOK', Balanced, NEW o \in Orders,
         \A r \in Requests : pc[r] \in ReversalPoints => task[r].order # o,
         UNCHANGED <<pc, task, wallet, uses>>,
         \A q \in Orders \ {o} : order'[q] = order[q],
         order'[o].reversed = order[o].reversed, order'[o].qty = order[o].qty,
         order'[o].committed = (order[o].committed \/ Unsettled(order[o])),
         stock' = IF Unsettled(order[o]) THEN stock - order[o].qty ELSE stock
  PROVE  Balanced'
<1>1. /\ OrderTypeOK
      /\ order[o].committed \in BOOLEAN /\ order[o].reversed \in BOOLEAN
      /\ order[o].qty \in Nat /\ stock \in Nat
  BY DEF AloneIInv, OrderTypeOK, TablesOK, Row
<1>2. /\ AfterStock \subseteq ReversalPoints /\ AfterWallet \subseteq ReversalPoints
      /\ AfterDiscount \subseteq ReversalPoints
  BY DEF AfterStock, AfterWallet, AfterDiscount
<1>3. \A P : GaveBack(o, P)' = GaveBack(o, P)
  BY DEF GaveBack
<1>4. /\ ~GaveBack(o, AfterStock) /\ ~GaveBack(o, AfterWallet) /\ ~GaveBack(o, AfterDiscount)
      /\ ~GaveBack(o, AfterStock)' /\ ~GaveBack(o, AfterWallet)' /\ ~GaveBack(o, AfterDiscount)'
  BY <1>2 DEF GaveBack
<1>5. /\ CreditedByNow'[o] = CreditedByNow[o] /\ StillUsed'[o] = StillUsed[o]
      /\ StillTaken[o] = IF order[o].committed /\ ~order[o].reversed THEN order[o].qty ELSE 0
      /\ StillTaken'[o] = IF order'[o].committed /\ ~order'[o].reversed THEN order'[o].qty ELSE 0
  BY <1>4 DEF StillTaken, Taken, CreditedByNow, Credited, StillUsed, Used
<1>6. stock' + StillTaken'[o] = stock + StillTaken[o]
  <2>1. CASE Unsettled(order[o])
    <3>1. StillTaken[o] = 0 /\ StillTaken'[o] = order[o].qty /\ stock' = stock - order[o].qty
      BY <1>5, <2>1 DEF Unsettled
    <3> QED
      BY <1>1, <3>1
  <2>2. CASE ~Unsettled(order[o])
    <3>1. order'[o].committed = order[o].committed /\ stock' = stock
      BY <1>1, <2>2
    <3> QED
      BY <1>5, <3>1
  <2> QED
    BY <2>1, <2>2
<1>7. \A q \in Orders \ {o} : /\ StillTaken'[q] = StillTaken[q]
                              /\ CreditedByNow'[q] = CreditedByNow[q]
                              /\ StillUsed'[q] = StillUsed[q]
  <2>1. ASSUME NEW q \in Orders \ {o}
        PROVE  /\ GaveBack(q, AfterStock)' = GaveBack(q, AfterStock)
               /\ GaveBack(q, AfterWallet)' = GaveBack(q, AfterWallet)
               /\ GaveBack(q, AfterDiscount)' = GaveBack(q, AfterDiscount)
    BY DEF GaveBack
  <2> QED
    BY <2>1, OrderBalanced
<1>8. /\ wallet' - CreditedByNow'[o] = wallet - CreditedByNow[o]
      /\ uses' - StillUsed'[o] = uses - StillUsed[o]
  BY <1>5
<1> QED
  BY <1>1, <1>6, <1>7, <1>8, OneOrderBalanced

LEMMA BeginBalanced ==
  ASSUME ServedAlone, AloneIInv, Balanced, NEW r \in Requests, Begin(r)
  PROVE  Balanced'
<1>1. Busy = {}
  BY NoneBusy DEF AloneIInv, Begin
<1>2. \A s \in Requests : pc[s] \notin ReversalPoints
  BY <1>1 DEF Busy, ReversalPoints
<1>3. \A s \in Requests : pc'[s] \notin ReversalPoints
  <2>1. PICK t \in Tasks : pc' = [pc EXCEPT ![r] = FirstPoint(t, order[t.order])]
    BY DEF Begin, Goto
  <2>2. t.op \in Ops /\ pc \in [Requests -> Points]
    BY <2>1, OrderAssumption DEF Task, AloneIInv, OrderTypeOK, RequestsOK
  <2>3. FirstPoint(t, order[t.order]) \notin ReversalPoints
    BY <2>2 DEF FirstPoint, ReversalPoints, Ops
  <2> QED
    BY <1>2, <2>1, <2>2, <2>3
<1>4. /\ AfterStock \subseteq ReversalPoints /\ AfterWallet \subseteq ReversalPoints
      /\ AfterDiscount \subseteq ReversalPoints
  BY DEF AfterStock, AfterWallet, AfterDiscount
<1>5. ASSUME NEW q \in Orders
      PROVE  /\ ~GaveBack(q, AfterStock) /\ ~GaveBack(q, AfterWallet) /\ ~GaveBack(q, AfterDiscount)
             /\ ~GaveBack(q, AfterStock)' /\ ~GaveBack(q, AfterWallet)' /\ ~GaveBack(q, AfterDiscount)'
  BY <1>2, <1>3, <1>4 DEF GaveBack
<1>6. UNCHANGED <<order, stock, wallet, uses>>
  BY DEF Begin, money
<1>7. ASSUME NEW q \in Orders
      PROVE  /\ GaveBack(q, AfterStock)' = GaveBack(q, AfterStock)
             /\ GaveBack(q, AfterWallet)' = GaveBack(q, AfterWallet)
             /\ GaveBack(q, AfterDiscount)' = GaveBack(q, AfterDiscount)
  BY <1>5 DEF GaveBack
<1> QED
  BY <1>6, <1>7, SameBalanced

(* Where a request goes when it finishes or turns to the reversal.            *)
LEMMA FinishPoint ==
  ASSUME AloneIInv, NEW r \in Requests, Finish(r)
  PROVE  pc'[r] = "done" /\ \A s \in Requests \ {r} : pc'[s] = pc[s]
BY DEF Finish, Goto, AloneIInv, OrderTypeOK, RequestsOK

LEMMA GotoReversalPoint ==
  ASSUME AloneIInv, NEW r \in Requests, GotoReversal(r)
  PROVE  /\ pc'[r] \in {"done", "void", "purge", "rev_read"}
         /\ \A s \in Requests \ {r} : pc'[s] = pc[s]
         /\ pc'[r] \in ReversalPoints => task'[r] = task[r]
<1>1. CASE Finish(r)
  BY <1>1, FinishPoint DEF ReversalPoints
<1>2. ASSUME NEW c \in {"void", "purge", "rev_read"}, Goto(r, c), UNCHANGED locals
      PROVE  /\ pc'[r] = c /\ \A s \in Requests \ {r} : pc'[s] = pc[s]
             /\ task'[r] = task[r]
  BY <1>2 DEF Goto, locals, AloneIInv, OrderTypeOK, RequestsOK
<1>3. AfterReversal(r) \in {"void", "purge", "done"}
  BY DEF AfterReversal
<1> QED
  BY <1>1, <1>2, <1>3 DEF GotoReversal

LEMMA StatusBalanced ==
  ASSUME ServedAlone, AloneIInv, OrderTypeOK', Balanced, NEW r \in Requests, UpdateStatus(r)
  PROVE  Balanced'
<1> DEFINE o == task[r].order
<1>1. /\ r \in Busy /\ o \in Orders /\ pc[r] = "status" /\ UNCHANGED <<wallet, uses>>
  BY BusyFacts DEF UpdateStatus, money
<1>2. /\ Finish(r) \/ GotoReversal(r)
      /\ \/ UNCHANGED <<order, stock>>
         \/ /\ \A q \in Orders \ {o} : order'[q] = order[q]
            /\ order'[o].reversed = order[o].reversed /\ order'[o].qty = order[o].qty
            /\ \/ order'[o].committed = order[o].committed /\ stock' = stock
               \/ /\ Unsettled(order[o]) /\ order'[o].committed
                  /\ stock' = stock - order[o].qty
  BY StatusEffect
<1>3. /\ pc'[r] \in {"done", "void", "purge", "rev_read"}
      /\ \A s \in Requests \ {r} : pc'[s] = pc[s]
      /\ pc'[r] \in ReversalPoints => task'[r] = task[r]
  BY <1>2, FinishPoint, GotoReversalPoint DEF ReversalPoints
<1>4. /\ pc[r] \notin AfterStock /\ pc[r] \notin AfterWallet /\ pc[r] \notin AfterDiscount
      /\ pc'[r] \notin AfterStock /\ pc'[r] \notin AfterWallet /\ pc'[r] \notin AfterDiscount
  BY <1>1, <1>3 DEF AfterStock, AfterWallet, AfterDiscount, ReversalPoints
<1>5. /\ order[o] \in Row /\ stock \in Nat
  BY <1>1 DEF AloneIInv, OrderTypeOK, TablesOK
<1> HIDE DEF o
<1>6. CASE /\ Unsettled(order[o]) /\ order'[o].committed /\ stock' = stock - order[o].qty
           /\ \A q \in Orders \ {o} : order'[q] = order[q]
           /\ order'[o].reversed = order[o].reversed /\ order'[o].qty = order[o].qty
  <2>1. /\ TakenAt(order[o], pc[r]) = 0 /\ TakenAt(order'[o], pc'[r]) = order[o].qty
        /\ CreditedAt(o, order'[o], pc'[r]) = CreditedAt(o, order[o], pc[r])
        /\ UsedAt(o, order'[o], pc'[r]) = UsedAt(o, order[o], pc[r])
    BY <1>4, <1>6 DEF TakenAt, CreditedAt, UsedAt, Unsettled
  <2>2. order[o].qty \in Nat
    BY <1>5 DEF Row
  <2>3. stock' + TakenAt(order'[o], pc'[r]) = stock + TakenAt(order[o], pc[r])
    BY <1>5, <1>6, <2>1, <2>2
  <2>4. /\ wallet' - CreditedAt(o, order'[o], pc'[r]) = wallet - CreditedAt(o, order[o], pc[r])
        /\ uses' - UsedAt(o, order'[o], pc'[r]) = uses - UsedAt(o, order[o], pc[r])
    BY <1>1, <2>1
  <2> QED
    BY <1>1, <1>3, <1>6, <2>3, <2>4, RequestBalanced DEF o
<1>7. CASE \/ UNCHANGED <<order, stock>>
           \/ /\ order'[o].committed = order[o].committed /\ stock' = stock
              /\ \A q \in Orders \ {o} : order'[q] = order[q]
              /\ order'[o].reversed = order[o].reversed /\ order'[o].qty = order[o].qty
  BY <1>1, <1>3, <1>4, <1>7, QuietBalanced DEF o
<1> QED
  BY <1>2, <1>6, <1>7

LEMMA CheckBalanced ==
  ASSUME ServedAlone, AloneIInv, OrderTypeOK', Balanced, NEW r \in Requests, CheckNoCapture(r)
  PROVE  Balanced'
<1>1. /\ r \in Busy /\ task[r].order \in Orders /\ pc[r] = "check"
      /\ UNCHANGED <<order, stock, wallet, uses>>
      /\ Finish(r) \/ GotoReversal(r)
  BY BusyFacts DEF CheckNoCapture, money
<1>2. /\ pc'[r] \in {"done", "void", "purge", "rev_read"}
      /\ \A s \in Requests \ {r} : pc'[s] = pc[s]
      /\ pc'[r] \in ReversalPoints => task'[r] = task[r]
  BY <1>1, FinishPoint, GotoReversalPoint DEF ReversalPoints
<1>3. /\ pc[r] \notin AfterStock /\ pc[r] \notin AfterWallet /\ pc[r] \notin AfterDiscount
      /\ pc'[r] \notin AfterStock /\ pc'[r] \notin AfterWallet /\ pc'[r] \notin AfterDiscount
  BY <1>1, <1>2 DEF AfterStock, AfterWallet, AfterDiscount, ReversalPoints
<1> DEFINE o == task[r].order
<1>4. /\ o \in Orders /\ \A q \in Orders \ {o} : order'[q] = order[q]
      /\ order'[o].committed = order[o].committed /\ order'[o].reversed = order[o].reversed
      /\ order'[o].qty = order[o].qty /\ UNCHANGED <<stock, wallet, uses>>
  BY <1>1
<1> HIDE DEF o
<1>5. o = task[r].order
  BY DEF o
<1> QED
  BY <1>1, <1>2, <1>3, <1>4, <1>5, QuietBalanced

(* The statements of reverseEffects that give nothing back.                   *)
LEMMA QuietReversalBalanced ==
  ASSUME ServedAlone, AloneIInv, OrderTypeOK', Balanced, NEW r \in Requests,
         ReverseRead(r) \/ ReverseFind(r) \/ ReverseCancel(r)
  PROVE  Balanced'
<1>1. /\ r \in Busy /\ task[r].order \in Orders /\ order[task[r].order].status # "GONE"
      /\ UNCHANGED <<order, stock, wallet, uses>> /\ pc \in [Requests -> Points]
  BY BusyFacts DEF ReverseRead, ReverseFind, ReverseCancel, money, AloneIInv, OrderTypeOK, RequestsOK
<1>2. /\ UNCHANGED task /\ \A s \in Requests \ {r} : pc'[s] = pc[s]
      /\ \/ pc[r] = "rev_read" /\ pc'[r] = "rev_stock"
         \/ pc[r] \in {"rev_find", "rev_cancel"} /\ pc'[r] \in {"rev_cancel", "rev_mark"}
  <2>1. CASE ReverseRead(r)
    BY <1>1, <2>1 DEF ReverseRead, Gone, Goto
  <2>2. CASE ReverseFind(r)
    BY <1>1, <2>2 DEF ReverseFind, Goto
  <2>3. CASE ReverseCancel(r)
    BY <1>1, <2>3 DEF ReverseCancel, Goto
  <2> QED
    BY <2>1, <2>2, <2>3
<1>3. /\ pc'[r] \in AfterStock <=> pc[r] \in AfterStock
      /\ pc'[r] \in AfterWallet <=> pc[r] \in AfterWallet
      /\ pc'[r] \in AfterDiscount <=> pc[r] \in AfterDiscount
  BY <1>2 DEF AfterStock, AfterWallet, AfterDiscount, ReversalPoints
<1> DEFINE o == task[r].order
<1>4. /\ o \in Orders /\ \A q \in Orders \ {o} : order'[q] = order[q]
      /\ order'[o].committed = order[o].committed /\ order'[o].reversed = order[o].reversed
      /\ order'[o].qty = order[o].qty /\ UNCHANGED <<stock, wallet, uses>>
      /\ task'[r] = task[r] /\ r \in Busy
  BY <1>1, <1>2
<1> HIDE DEF o
<1>5. o = task[r].order
  BY DEF o
<1> QED
  BY <1>2, <1>3, <1>4, <1>5, QuietBalanced

(* The statements that give back: each finds the order as the request read it, *)
(* not yet reversed.                                                         *)
LEMMA GiveBackFacts ==
  ASSUME ServedAlone, AloneIInv, NEW r \in Requests, NEW from \in ReversalPoints,
         NEW to \in ReversalPoints, pc[r] = from, Goto(r, to), UNCHANGED <<order, task>>
  PROVE  /\ r \in Busy /\ task[r].order \in Orders /\ ~order[task[r].order].reversed
         /\ from # "rev_read" => full[r] = order[task[r].order]
         /\ pc'[r] = to /\ \A s \in Requests \ {r} : pc'[s] = pc[s]
         /\ \A q \in Orders : order'[q] = order[q]
         /\ order[task[r].order].qty \in Nat /\ stock \in Nat /\ wallet \in Nat /\ uses \in Nat
         /\ WalletOf[task[r].order] \in Nat
<1>1. pc[r] \notin {"idle", "done"}
  BY DEF ReversalPoints
<1>2. /\ r \in Busy /\ task[r].order \in Orders /\ ReversalHolds(r)
  BY <1>1, BusyFacts DEF RequestHolds
<1>3. ~order[task[r].order].reversed /\ (from # "rev_read" => full[r] = order[task[r].order])
  BY <1>2 DEF ReversalHolds, AfterStock, ReversalPoints
<1>4. pc'[r] = to /\ \A s \in Requests \ {r} : pc'[s] = pc[s]
  BY DEF Goto, AloneIInv, OrderTypeOK, RequestsOK
<1>5. order[task[r].order].qty \in Nat /\ stock \in Nat /\ wallet \in Nat /\ uses \in Nat
      /\ WalletOf[task[r].order] \in Nat
  BY <1>2, OrderAssumption DEF AloneIInv, OrderTypeOK, TablesOK, Row
<1> QED
  BY <1>2, <1>3, <1>4, <1>5

LEMMA GiveBackBalanced ==
  ASSUME ServedAlone, AloneIInv, OrderTypeOK', Balanced, NEW r \in Requests,
         ReverseStock(r) \/ ReverseWallet(r) \/ ReverseDiscount(r)
  PROVE  Balanced'
<1> DEFINE o == task[r].order
<1>1. CASE ReverseStock(r)
  <2>1. /\ pc[r] = "rev_stock" /\ Goto(r, "rev_wallet") /\ UNCHANGED <<order, task, wallet, uses>>
        /\ stock' = IF ShouldReverseCommittedStock(full[r]) THEN stock + full[r].qty ELSE stock
    BY <1>1 DEF ReverseStock, locals, money
  <2>2. "rev_stock" \in ReversalPoints /\ "rev_wallet" \in ReversalPoints
    BY DEF ReversalPoints
  <2>3. /\ r \in Busy /\ o \in Orders /\ ~order[o].reversed /\ full[r] = order[o]
        /\ pc'[r] = "rev_wallet" /\ \A s \in Requests \ {r} : pc'[s] = pc[s]
        /\ \A q \in Orders : order'[q] = order[q]
        /\ order[o].qty \in Nat /\ stock \in Nat
    BY <2>1, <2>2, GiveBackFacts
  <2> HIDE DEF o
  <2>4. stock' = IF order[o].committed THEN stock + order[o].qty ELSE stock
    BY <2>1, <2>3 DEF ShouldReverseCommittedStock
  <2>5. /\ TakenAt(order[o], pc[r]) = IF order[o].committed THEN order[o].qty ELSE 0
        /\ TakenAt(order'[o], pc'[r]) = 0
        /\ CreditedAt(o, order'[o], pc'[r]) = CreditedAt(o, order[o], pc[r])
        /\ UsedAt(o, order'[o], pc'[r]) = UsedAt(o, order[o], pc[r])
    BY <2>1, <2>3 DEF TakenAt, CreditedAt, UsedAt, AfterStock, AfterWallet, AfterDiscount, ReversalPoints
  <2>6. stock' + TakenAt(order'[o], pc'[r]) = stock + TakenAt(order[o], pc[r])
    BY <2>3, <2>4, <2>5
  <2>7. /\ wallet' - CreditedAt(o, order'[o], pc'[r]) = wallet - CreditedAt(o, order[o], pc[r])
        /\ uses' - UsedAt(o, order'[o], pc'[r]) = uses - UsedAt(o, order[o], pc[r])
    BY <2>1, <2>5
  <2> QED
    BY <2>1, <2>3, <2>6, <2>7, RequestBalanced DEF o
<1>2. CASE ReverseWallet(r)
  <2>1. /\ pc[r] = "rev_wallet" /\ Goto(r, "rev_discount") /\ UNCHANGED <<order, task, stock, uses>>
        /\ wallet' = wallet + WalletOf[o]
    BY <1>2 DEF ReverseWallet, locals
  <2>2. "rev_wallet" \in ReversalPoints /\ "rev_discount" \in ReversalPoints
    BY DEF ReversalPoints
  <2>3. /\ r \in Busy /\ o \in Orders /\ ~order[o].reversed
        /\ pc'[r] = "rev_discount" /\ \A s \in Requests \ {r} : pc'[s] = pc[s]
        /\ \A q \in Orders : order'[q] = order[q]
        /\ wallet \in Nat /\ WalletOf[o] \in Nat
    BY <2>1, <2>2, GiveBackFacts
  <2> HIDE DEF o
  <2>4. /\ TakenAt(order'[o], pc'[r]) = TakenAt(order[o], pc[r])
        /\ CreditedAt(o, order[o], pc[r]) = 0
        /\ CreditedAt(o, order'[o], pc'[r]) = WalletOf[o]
        /\ UsedAt(o, order'[o], pc'[r]) = UsedAt(o, order[o], pc[r])
    BY <2>1, <2>3 DEF TakenAt, CreditedAt, UsedAt, AfterStock, AfterWallet, AfterDiscount, ReversalPoints
  <2>5. wallet' - CreditedAt(o, order'[o], pc'[r]) = wallet - CreditedAt(o, order[o], pc[r])
    BY <2>1, <2>3, <2>4
  <2>6. /\ stock' + TakenAt(order'[o], pc'[r]) = stock + TakenAt(order[o], pc[r])
        /\ uses' - UsedAt(o, order'[o], pc'[r]) = uses - UsedAt(o, order[o], pc[r])
    BY <2>1, <2>4
  <2> QED
    BY <2>1, <2>3, <2>5, <2>6, RequestBalanced DEF o
<1>3. CASE ReverseDiscount(r)
  <2>1. /\ pc[r] = "rev_discount" /\ Goto(r, "rev_find") /\ UNCHANGED <<order, task, stock, wallet>>
        /\ uses' = IF CodeUsed[o] THEN UsesAfterDecrement(uses) ELSE uses
    BY <1>3 DEF ReverseDiscount, locals
  <2>2. "rev_discount" \in ReversalPoints /\ "rev_find" \in ReversalPoints
    BY DEF ReversalPoints
  <2>3. /\ r \in Busy /\ o \in Orders /\ ~order[o].reversed
        /\ pc'[r] = "rev_find" /\ \A s \in Requests \ {r} : pc'[s] = pc[s]
        /\ \A q \in Orders : order'[q] = order[q] /\ uses \in Nat
    BY <2>1, <2>2, GiveBackFacts
  <2>4. r \in Requests /\ \A s \in Requests : pc[s] \in AfterDiscount => s = r
    BY <2>3 DEF AloneIInv, Busy, AfterDiscount, AfterWallet, AfterStock, ReversalPoints
  <2>5. ~GaveBack(o, AfterDiscount)
    BY <2>1, <2>4 DEF GaveBack, AfterDiscount
  <2> HIDE DEF o
  <2>6. CodeUsed[o] => StillUsed[o] = 1
    BY <2>3, <2>5 DEF StillUsed, Used
  <2>7. CodeUsed[o] => uses > 0
    <3>1. \A q \in Orders : StillUsed[q] \in Nat
      BY BalanceTypes DEF AloneIInv
    <3>2. IsFiniteSet(Orders) /\ {o} \in SUBSET Orders
      BY <2>3, OrderAssumption
    <3>3. SumFunctionOnSet(StillUsed, {o}) <= SumFunctionOnSet(StillUsed, Orders)
      BY <3>1, <3>2, SumSubset
    <3>4. SumFunctionOnSet(StillUsed, {o}) = StillUsed[o] * Cardinality({o})
      <4>1. IsFiniteSet({o})
        BY FS_Singleton
      <4>2. StillUsed[o] \in Int /\ \A q \in {o} : StillUsed[q] = StillUsed[o]
        BY <2>3, <3>1
      <4> QED
        BY <4>1, <4>2, SumConstant
    <3>5. Cardinality({o}) = 1
      BY FS_Singleton
    <3> QED
      BY <2>3, <2>6, <3>3, <3>4, <3>5 DEF Balanced
  <2>8. /\ TakenAt(order'[o], pc'[r]) = TakenAt(order[o], pc[r])
        /\ CreditedAt(o, order'[o], pc'[r]) = CreditedAt(o, order[o], pc[r])
        /\ UsedAt(o, order[o], pc[r]) = (IF CodeUsed[o] THEN 1 ELSE 0)
        /\ UsedAt(o, order'[o], pc'[r]) = 0
    BY <2>1, <2>3 DEF TakenAt, CreditedAt, UsedAt, AfterStock, AfterWallet, AfterDiscount, ReversalPoints
  <2>9. uses' - UsedAt(o, order'[o], pc'[r]) = uses - UsedAt(o, order[o], pc[r])
    BY <2>1, <2>3, <2>7, <2>8 DEF UsesAfterDecrement
  <2>10. /\ stock' + TakenAt(order'[o], pc'[r]) = stock + TakenAt(order[o], pc[r])
         /\ wallet' - CreditedAt(o, order'[o], pc'[r]) = wallet - CreditedAt(o, order[o], pc[r])
    BY <2>1, <2>8
  <2> QED
    BY <2>1, <2>3, <2>9, <2>10, RequestBalanced DEF o
<1> QED
  BY <1>1, <1>2, <1>3

LEMMA MarkBalanced ==
  ASSUME ServedAlone, AloneIInv, OrderTypeOK', Balanced, NEW r \in Requests, ReverseMark(r)
  PROVE  Balanced'
<1> DEFINE o == task[r].order
<1>1. /\ r \in Busy /\ o \in Orders /\ order[o].status # "GONE" /\ pc[r] = "rev_mark"
      /\ ReversalHolds(r) /\ UNCHANGED <<stock, wallet, uses>>
  BY BusyFacts DEF ReverseMark, RequestHolds, money
<1>2. order' = [order EXCEPT ![o].reversed = TRUE] /\ order \in [Orders -> Row]
  BY <1>1 DEF ReverseMark, Gone, AloneIInv, OrderTypeOK, TablesOK
<1>3. ~order[o].reversed
  BY <1>1 DEF ReversalHolds, ReversalPoints
<1>4. /\ \A q \in Orders \ {o} : order'[q] = order[q]
      /\ order'[o].reversed /\ order[o].committed = order'[o].committed
  BY <1>1, <1>2 DEF Row
<1>5. /\ pc'[r] \in {"done", "void", "purge"} /\ \A s \in Requests \ {r} : pc'[s] = pc[s]
  <2>1. CASE Finish(r)
    BY <2>1, FinishPoint
  <2>2. CASE Goto(r, AfterReversal(r))
    BY <2>2 DEF Goto, AfterReversal, AloneIInv, OrderTypeOK, RequestsOK
  <2> QED
    BY <2>1, <2>2 DEF ReverseMark
<1>6. pc'[r] \notin ReversalPoints
  BY <1>5 DEF ReversalPoints
<1> HIDE DEF o
<1>7. /\ TakenAt(order'[o], pc'[r]) = TakenAt(order[o], pc[r])
      /\ CreditedAt(o, order'[o], pc'[r]) = CreditedAt(o, order[o], pc[r])
      /\ UsedAt(o, order'[o], pc'[r]) = UsedAt(o, order[o], pc[r])
  BY <1>1, <1>3, <1>4, <1>5 DEF TakenAt, CreditedAt, UsedAt, AfterStock, AfterWallet,
     AfterDiscount, ReversalPoints
<1> QED
  BY <1>1, <1>4, <1>5, <1>6, <1>7, RequestBalanced DEF o

(* The writes that move neither stock nor money.                             *)
LEMMA LastWritesBalanced ==
  ASSUME ServedAlone, AloneIInv, OrderTypeOK', Balanced, NEW r \in Requests,
         VoidOrder(r) \/ PurgeOrder(r) \/ AddTracking(r) \/ SaveOrder(r)
  PROVE  Balanced'
<1> DEFINE o == task[r].order
<1>1. /\ r \in Busy /\ o \in Orders /\ RequestHolds(r)
      /\ UNCHANGED <<stock, wallet, uses>> /\ Finish(r)
      /\ order \in [Orders -> Row] /\ pc[r] \in {"void", "purge", "track", "save"}
  BY BusyFacts DEF VoidOrder, PurgeOrder, AddTracking, SaveOrder, money, AloneIInv, OrderTypeOK, TablesOK
<1>2. /\ \A q \in Orders \ {o} : order'[q] = order[q]
      /\ order'[o].committed = order[o].committed /\ order'[o].reversed = order[o].reversed
      /\ order'[o].qty = order[o].qty
  <2>1. CASE VoidOrder(r) \/ PurgeOrder(r) \/ AddTracking(r)
    BY <1>1, <2>1 DEF VoidOrder, PurgeOrder, AddTracking, Row
  <2>2. CASE SaveOrder(r)
    <3>1. snap[r] = order[o]
      BY <1>1, <2>2 DEF SaveOrder, RequestHolds, SaveHolds
    <3> QED
      BY <1>1, <2>2, <3>1 DEF SaveOrder
  <2> QED
    BY <2>1, <2>2
<1>3. pc'[r] = "done" /\ \A s \in Requests \ {r} : pc'[s] = pc[s]
  BY <1>1, FinishPoint
<1>4. /\ pc[r] \notin AfterStock /\ pc[r] \notin AfterWallet /\ pc[r] \notin AfterDiscount
      /\ pc'[r] \notin ReversalPoints
      /\ pc'[r] \notin AfterStock /\ pc'[r] \notin AfterWallet /\ pc'[r] \notin AfterDiscount
  BY <1>1, <1>3 DEF AfterStock, AfterWallet, AfterDiscount, ReversalPoints
<1> HIDE DEF o
<1>5. o = task[r].order
  BY DEF o
<1> QED
  BY <1>1, <1>2, <1>3, <1>4, <1>5, QuietBalanced

LEMMA EditBalanced ==
  ASSUME ServedAlone, AloneIInv, OrderTypeOK', Balanced, NEW r \in Requests, EditItems(r)
  PROVE  Balanced'
<1> DEFINE o   == task[r].order
           row == [snap[r] EXCEPT !.qty = task[r].qty]
<1>1. /\ r \in Busy /\ o \in Orders /\ SaveHolds(r) /\ pc[r] = "edit"
      /\ UNCHANGED <<wallet, uses>> /\ order \in [Orders -> Row] /\ pc \in [Requests -> Points]
      /\ task[r] \in Tasks
  BY BusyFacts DEF EditItems, RequestHolds, money, AloneIInv, OrderTypeOK, TablesOK, RequestsOK
<1>2. snap[r] = order[o] /\ ~order[o].reversed
  BY <1>1 DEF SaveHolds
<1>3. /\ row.committed = order[o].committed /\ row.reversed = order[o].reversed
      /\ row.qty = task[r].qty /\ task[r].qty \in Nat /\ stock \in Nat
      /\ order[o].qty \in Nat
  BY <1>1, <1>2, OrderAssumption DEF Row, Task, AloneIInv, OrderTypeOK, TablesOK
<1>4. /\ pc'[r] \in {"done", "save"} /\ \A s \in Requests \ {r} : pc'[s] = pc[s]
  BY <1>1, FinishPoint DEF EditItems, Goto
<1>5. /\ pc[r] \notin AfterStock /\ pc[r] \notin AfterWallet /\ pc[r] \notin AfterDiscount
      /\ pc'[r] \notin ReversalPoints
      /\ pc'[r] \notin AfterStock /\ pc'[r] \notin AfterWallet /\ pc'[r] \notin AfterDiscount
  BY <1>1, <1>4 DEF AfterStock, AfterWallet, AfterDiscount, ReversalPoints
<1>6. \/ UNCHANGED <<order, stock>>
      \/ /\ order' = [order EXCEPT ![o] = row]
         /\ EditMovesStock(snap[r]) => stock + snap[r].qty >= task[r].qty
         /\ stock' = IF EditMovesStock(snap[r]) THEN stock + snap[r].qty - task[r].qty ELSE stock
  BY DEF EditItems
<1> HIDE DEF row
<1>7. CASE UNCHANGED <<order, stock>>
  <2> HIDE DEF o
  <2>1. o = task[r].order
    BY DEF o
  <2> QED
    BY <1>1, <1>4, <1>5, <1>7, <2>1, QuietBalanced
<1>8. CASE /\ order' = [order EXCEPT ![o] = row]
           /\ stock' = IF EditMovesStock(snap[r]) THEN stock + snap[r].qty - task[r].qty ELSE stock
  <2> HIDE DEF o
  <2>1. o = task[r].order
    BY DEF o
  <2>2. /\ \A q \in Orders \ {o} : order'[q] = order[q]
        /\ order'[o].committed = order[o].committed /\ ~order'[o].reversed
        /\ order'[o].qty = task[r].qty
    BY <1>1, <1>2, <1>3, <1>8
  <2>3. stock' = IF order[o].committed THEN stock + order[o].qty - task[r].qty ELSE stock
    BY <1>2, <1>8 DEF EditMovesStock
  <2>4. /\ TakenAt(order[o], pc[r]) = IF order[o].committed THEN order[o].qty ELSE 0
        /\ TakenAt(order'[o], pc'[r]) = IF order[o].committed THEN task[r].qty ELSE 0
        /\ CreditedAt(o, order'[o], pc'[r]) = CreditedAt(o, order[o], pc[r])
        /\ UsedAt(o, order'[o], pc'[r]) = UsedAt(o, order[o], pc[r])
    BY <1>2, <1>5, <2>2 DEF TakenAt, CreditedAt, UsedAt
  <2>5. stock' + TakenAt(order'[o], pc'[r]) = stock + TakenAt(order[o], pc[r])
    BY <1>3, <2>3, <2>4
  <2>6. /\ wallet' - CreditedAt(o, order'[o], pc'[r]) = wallet - CreditedAt(o, order[o], pc[r])
        /\ uses' - UsedAt(o, order'[o], pc'[r]) = uses - UsedAt(o, order[o], pc[r])
    BY <1>1, <2>4
  <2> QED
    BY <1>1, <1>4, <1>5, <2>1, <2>2, <2>5, <2>6, RequestBalanced
<1> QED
  BY <1>6, <1>7, <1>8

LEMMA AutoConfirmBalanced ==
  ASSUME ServedAlone, AloneIInv, OrderTypeOK', Balanced, NEW o \in Orders, AutoConfirm(o)
  PROVE  Balanced'
<1>1. /\ MethodOf[o] = "FREE" /\ UNCHANGED <<pc, task, wallet, uses>>
      /\ \/ UNCHANGED <<order, stock>>
         \/ /\ \A q \in Orders \ {o} : order'[q] = order[q]
            /\ order'[o].reversed = order[o].reversed /\ order'[o].qty = order[o].qty
            /\ order'[o].committed = (order[o].committed \/ Unsettled(order[o]))
            /\ stock' = IF Unsettled(order[o]) THEN stock - order[o].qty ELSE stock
  BY AutoConfirmAlone DEF AutoConfirm, money, reqVars
<1>2. ASSUME NEW r \in Requests, pc[r] \in ReversalPoints PROVE task[r].order # o
  BY <1>1, <1>2, BusyFacts DEF ReversalPoints
<1>3. CASE UNCHANGED <<order, stock>>
  BY <1>1, <1>3, SameBalanced DEF GaveBack
<1>4. CASE ~UNCHANGED <<order, stock>>
  BY <1>1, <1>2, <1>4, SettledBalanced
<1> QED
  BY <1>3, <1>4

LEMMA CaptureBalanced ==
  ASSUME ServedAlone, AloneIInv, OrderTypeOK', Balanced, NEW p \in Payments, Capture(p) \/ Reapply(p)
  PROVE  Balanced'
<1> DEFINE o == OrderOf[p]
<1>1. /\ o \in Orders /\ ApplyCapturedPayment(o) /\ UNCHANGED <<pc, task, wallet, uses>>
      /\ PaymentsOf(o) # {} /\ TablesOK
  BY OrderAssumption DEF Capture, Reapply, money, reqVars, PaymentsOf, AloneIInv, OrderTypeOK
<1> HIDE DEF o
<1>2. CASE IgnoresCapture(order[o])
  <2>1. UNCHANGED <<order, stock>>
    BY <1>1, <1>2, CaptureEffect
  <2> QED
    BY <1>1, <2>1, SameBalanced DEF GaveBack
<1>3. CASE ~IgnoresCapture(order[o])
  <2>1. ASSUME NEW r \in Requests, pc[r] \in ReversalPoints PROVE task[r].order # o
    <3>1. ReversalHolds(r)
      BY <2>1, BusyFacts DEF RequestHolds, ReversalPoints
    <3> QED
      BY <1>1, <1>3, <2>1, <3>1 DEF ReversalHolds, IgnoresCapture
  <2> QED
    BY <1>1, <1>3, <2>1, CaptureEffect, SettledBalanced
<1> QED
  BY <1>2, <1>3

LEMMA BalancedNext ==
  ASSUME ServedAlone, MaxCrashes = 0, BooksIInv, [OrderNext]_orderVars
  PROVE  BooksIInv'
<1>1. AloneIInv /\ Balanced
  BY DEF BooksIInv, Balanced
<1>2. AloneIInv' /\ OrderTypeOK'
  BY <1>1, AloneNext DEF AloneIInv
<1>3. ASSUME RewritePayments \/ UNCHANGED orderVars PROVE Balanced'
  <2>1. UNCHANGED <<pc, task, order, stock, wallet, uses>>
    BY <1>3 DEF RewritePayments, orderVars, reqVars, money
  <2> QED
    BY <1>1, <2>1, SameBalanced DEF GaveBack
<1>4. ASSUME NEW r \in Requests, Begin(r) \/ Step(r) \/ Crash(r) PROVE Balanced'
  <2>1. CASE Crash(r)
    BY <1>1, <2>1 DEF Crash, AloneIInv, OrderTypeOK, RequestsOK
  <2>2. CASE Begin(r)
    BY <1>1, <2>2, BeginBalanced
  <2>3. CASE UpdateStatus(r) \/ CheckNoCapture(r)
    BY <1>1, <1>2, <2>3, StatusBalanced, CheckBalanced
  <2>4. CASE \/ ReverseRead(r) \/ ReverseStock(r) \/ ReverseWallet(r) \/ ReverseDiscount(r)
             \/ ReverseFind(r) \/ ReverseCancel(r) \/ ReverseMark(r)
    BY <1>1, <1>2, <2>4, QuietReversalBalanced, GiveBackBalanced, MarkBalanced
  <2>5. CASE VoidOrder(r) \/ PurgeOrder(r) \/ AddTracking(r) \/ EditItems(r) \/ SaveOrder(r)
    BY <1>1, <1>2, <2>5, LastWritesBalanced, EditBalanced
  <2> QED
    BY <1>4, <2>1, <2>2, <2>3, <2>4, <2>5 DEF Step
<1>5. ASSUME NEW o \in Orders, AutoConfirm(o) PROVE Balanced'
  BY <1>1, <1>2, <1>5, AutoConfirmBalanced
<1>6. ASSUME NEW p \in Payments, Capture(p) \/ Reapply(p) PROVE Balanced'
  BY <1>1, <1>2, <1>6, CaptureBalanced
<1>7. Balanced'
  BY <1>3, <1>4, <1>5, <1>6 DEF OrderNext, AdminNext, GatewayNext
<1> QED
  BY <1>2, <1>7 DEF BooksIInv, Balanced

LEMMA BalancedInit ==
  ASSUME OrderInit
  PROVE  BooksIInv
<1> DEFINE C == {o \in Orders : CodeUsed[o]}
<1>1. IsFiniteSet(Orders) /\ C \in SUBSET Orders
  BY OrderAssumption
<1>2. \A P : "idle" \in P \/ \A o \in Orders : ~GaveBack(o, P)
  BY DEF OrderInit, GaveBack
<1>3. /\ "idle" \notin AfterStock /\ "idle" \notin AfterWallet /\ "idle" \notin AfterDiscount
  BY DEF AfterStock, AfterWallet, AfterDiscount, ReversalPoints
<1>4. \A o \in Orders : ~order[o].committed /\ ~order[o].reversed
  BY DEF OrderInit, NewOrder
<1>5. /\ \A o \in Orders : StillTaken[o] = 0
      /\ \A o \in Orders : CreditedByNow[o] = 0
      /\ \A o \in Orders : StillUsed[o] = IF CodeUsed[o] THEN 1 ELSE 0
  BY <1>2, <1>3, <1>4 DEF StillTaken, Taken, CreditedByNow, Credited, StillUsed, Used
<1>6. SumFunctionOnSet(StillTaken, Orders) = 0 /\ SumFunctionOnSet(CreditedByNow, Orders) = 0
  <2>1. /\ SumFunctionOnSet(StillTaken, Orders) = 0 * Cardinality(Orders)
        /\ SumFunctionOnSet(CreditedByNow, Orders) = 0 * Cardinality(Orders)
    BY <1>1, <1>5, SumConstant
  <2>2. Cardinality(Orders) \in Nat
    BY <1>1, FS_CardinalityType
  <2> QED
    BY <2>1, <2>2
<1>7. SumFunctionOnSet(StillUsed, Orders) = Cardinality(C)
  <2>1. IsFiniteSet(C) /\ IsFiniteSet(Orders \ C)
    BY <1>1, FS_Subset, FS_Difference
  <2>2. SumFunctionOnSet(StillUsed, C) = 1 * Cardinality(C)
    BY <1>5, <2>1, SumConstant
  <2>3. SumFunctionOnSet(StillUsed, Orders \ C) = 0 * Cardinality(Orders \ C)
    BY <1>5, <2>1, SumConstant
  <2>4. \A o \in Orders : StillUsed[o] \in Int
    BY <1>5
  <2> HIDE DEF C
  <2>5. SumFunctionOnSet(StillUsed, Orders)
          = SumFunctionOnSet(StillUsed, C) + SumFunctionOnSet(StillUsed, Orders \ C)
    BY <1>1, <2>4, SumSplit
  <2>6. Cardinality(C) \in Nat /\ Cardinality(Orders \ C) \in Nat
    BY <2>1, FS_CardinalityType
  <2> QED
    BY <2>2, <2>3, <2>5, <2>6
<1>8. stock = InitialStock /\ wallet = 0 /\ uses = Cardinality(C) /\ InitialStock \in Nat
  BY OrderAssumption DEF OrderInit
<1>9. AloneIInv
  BY AloneInit
<1> QED
  BY <1>6, <1>7, <1>8, <1>9 DEF BooksIInv

(* The books balance at every step of every request, counting what a reversal *)
(* under way has already given back.                                         *)
THEOREM BooksInvariant ==
  ASSUME ServedAlone, MaxCrashes = 0
  PROVE  OrderSpec => []BooksIInv
<1>1. OrderInit => BooksIInv
  BY BalancedInit
<1>2. BooksIInv /\ [OrderNext]_orderVars => BooksIInv'
  BY BalancedNext
<1> QED
  BY <1>1, <1>2, PTL DEF OrderSpec

(* Between requests the shelf misses exactly the goods of settled orders, and  *)
(* wallet money and discount uses came back exactly for the reversed ones.   *)
THEOREM BooksHold ==
  ASSUME ServedAlone, MaxCrashes = 0
  PROVE  OrderSpec => []Books
<1>1. BooksIInv => Books
  <2> SUFFICES ASSUME BooksIInv, Busy = {} PROVE Books
    BY DEF Books
  <2>1. \A r \in Requests : pc[r] \in {"idle", "done"}
    BY DEF Busy
  <2>2. \A o \in Orders : /\ ~GaveBack(o, AfterStock) /\ ~GaveBack(o, AfterWallet)
                          /\ ~GaveBack(o, AfterDiscount)
    BY <2>1 DEF GaveBack, AfterStock, AfterWallet, AfterDiscount, ReversalPoints
  <2>3. StillTaken = Taken /\ CreditedByNow = Credited /\ StillUsed = Used
    BY <2>2 DEF StillTaken, Taken, CreditedByNow, Credited, StillUsed, Used
  <2> QED
    BY <2>3 DEF BooksIInv, Books
<1> QED
  BY <1>1, BooksInvariant, PTL
=============================================================================
