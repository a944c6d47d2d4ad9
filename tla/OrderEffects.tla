---------------------------- MODULE OrderEffects ----------------------------
(***************************************************************************)
(* Order rows and their side effects (order.service.ts): the settlement of *)
(* stock, its reversal, and the administrator's requests that trigger      *)
(* them.  A request is a NestJS handler: it reads rows without a lock,      *)
(* waits, and writes later, so every database transaction or single        *)
(* statement of a handler is one step here and other requests run between  *)
(* two steps.  A transaction that locks the order row before it reads it,  *)
(* or whose first statement updates that row, is one atomic step.          *)
(*                                                                         *)
(* The payment service is seen from this side only: the payment rows an    *)
(* order reads and cancels, and the ways the gateway side may touch an     *)
(* order (GatewayNext).  Checkout gives the payment service in detail and  *)
(* is checked to implement this module.                                    *)
(***************************************************************************)
EXTENDS OrderPolicy, Naturals, FiniteSets, FiniteSetsExt

CONSTANTS
  Orders,         \* order ids
  Payments,       \* payment row ids: numbers, in the order the rows are created
  Requests,       \* administrator requests, each served once
  Tasks,          \* what the requests may ask for
  MaxActive,      \* how many administrator requests overlap at most
  MaxCrashes,     \* how many requests die half-way (process restarts)
  GatewayActive,  \* whether the gateway side takes steps of its own
  InitialStock,   \* units on the shelf of the one variant everybody orders
  MethodOf,       \* payment method of each order
  QtyOf,          \* units each order asks for
  WalletOf,       \* wallet money each order used at create
  CodeUsed,       \* whether the order used the discount code at create
  OrderOf         \* the order each payment row belongs to

Ops == {"status", "void", "purge", "track", "edit", "note"}

(* What a request asks for; to and qty matter to "status" and "edit" only. *)
Task == [op : Ops, order : Orders, to : Statuses, qty : Nat]

ASSUME OrderAssumption ==
  /\ IsFiniteSet(Orders)
  /\ Tasks \subseteq Task
  /\ Payments \subseteq Nat
  /\ MaxActive \in Nat /\ MaxCrashes \in Nat
  /\ GatewayActive \in BOOLEAN
  /\ InitialStock \in Nat
  /\ MethodOf \in [Orders -> Methods]
  /\ QtyOf \in [Orders -> Nat]
  /\ WalletOf \in [Orders -> Nat]
  /\ CodeUsed \in [Orders -> BOOLEAN]
  /\ OrderOf \in [Payments -> Orders]

VARIABLES
  order,     \* orders table with the quantity of its items
  stock,     \* product_variants: the channel stock of the variant
  wallet,    \* customers.balance of the one customer
  uses,      \* discount_codes.usedCount
  payment,   \* payments table: the columns an order depends on
  creating,  \* free orders whose create handler still has to confirm them
  commits,   \* how often each order's stock was deducted (history)
  captured,  \* the payment rows that were ever captured (history)
  pc,        \* program point of each request
  task,      \* what each request was asked for
  snap,      \* the order as the request first read it
  full,      \* the order as reverseEffects read it again
  found,     \* the PENDING payment rows cancelPendingForOrder still has to save
  crashes    \* requests lost so far

locals  == <<task, snap, full, found>>
money   == <<wallet, uses>>
reqVars == <<pc, task, snap, full, found, crashes>>
orderVars == <<order, stock, wallet, uses, payment, creating, commits, captured,
               pc, task, snap, full, found, crashes>>

----------------------------------------------------------------------------
(* Rows.  GONE is the status of an order whose row was purged; the other    *)
(* fields then keep their last values, for the properties only.             *)

Row == [status : Statuses \cup {"GONE"}, voided : BOOLEAN,
        committed : BOOLEAN, reversed : BOOLEAN, qty : Nat]

PaymentStatuses == {"NONE", "PENDING", "FAILED", "CANCELLED", "PAID"}
PaymentRow == [status : PaymentStatuses, authority : BOOLEAN]

Pending == [id : Payments, authority : BOOLEAN]

NewOrder(o) == [status |-> InitialCreateStatus(MethodOf[o]), voided |-> FALSE,
                committed |-> FALSE, reversed |-> FALSE, qty |-> QtyOf[o]]

NoRow  == [status |-> "GONE", voided |-> FALSE,
           committed |-> FALSE, reversed |-> FALSE, qty |-> 0]
NoTask == [op |-> "none"]
NoPayment == [status |-> "NONE", authority |-> FALSE]

Points == {"idle", "status", "check", "rev_read", "rev_stock", "rev_wallet",
           "rev_discount", "rev_find", "rev_cancel", "rev_mark", "void",
           "purge", "track", "edit", "save", "done"}

TablesOK ==
  /\ order \in [Orders -> Row]
  /\ stock \in Nat
  /\ wallet \in Nat
  /\ uses \in Nat
  /\ payment \in [Payments -> PaymentRow]
  /\ creating \subseteq Orders
  /\ commits \in [Orders -> Nat]
  /\ captured \subseteq Payments

RequestsOK ==
  /\ pc \in [Requests -> Points]
  /\ task \in [Requests -> Tasks \cup {NoTask}]
  /\ snap \in [Requests -> Row]
  /\ full \in [Requests -> Row]
  /\ found \in [Requests -> SUBSET Pending]
  /\ crashes \in Nat
  /\ \A r \in Requests : pc[r] \notin {"idle", "done"} => task[r] \in Tasks

OrderTypeOK == TablesOK /\ RequestsOK

OrderInit ==
  /\ order = [o \in Orders |-> NewOrder(o)]
  /\ stock = InitialStock
  /\ wallet = 0
  /\ uses = Cardinality({o \in Orders : CodeUsed[o]})
  /\ payment = [p \in Payments |-> NoPayment]
  /\ creating = {o \in Orders : MethodOf[o] = "FREE"}
  /\ commits = [o \in Orders |-> 0]
  /\ captured = {}
  /\ pc = [r \in Requests |-> "idle"]
  /\ task = [r \in Requests |-> NoTask]
  /\ snap = [r \in Requests |-> NoRow]
  /\ full = [r \in Requests |-> NoRow]
  /\ found = [r \in Requests |-> {}]
  /\ crashes = 0

----------------------------------------------------------------------------
(* Settlement of stock.                                                     *)

Gone(o)      == order[o].status = "GONE"
Deleted(row) == row.status = "DELETED" \/ row.voided

(* commitStockForOrder deducts only for an order neither committed nor      *)
(* reversed, and fails when the variant has not enough units.               *)
SettleAgain(row) == ~row.reversed  \* mutant: forgets stockCommittedAt
Unsettled(row)  == ~row.committed /\ ~row.reversed
CanSettle(row)  == Unsettled(row) => stock >= row.qty

(* Write row as the row of order o and settle its stock, in one transaction. *)
Settle(o, row) ==
  /\ CanSettle(row)
  /\ IF Unsettled(row)
     THEN /\ order' = [order EXCEPT ![o] = [row EXCEPT !.committed = TRUE]]
          /\ stock' = stock - row.qty
          /\ commits' = [commits EXCEPT ![o] = @ + 1]
     ELSE /\ order' = [order EXCEPT ![o] = row]
          /\ UNCHANGED <<stock, commits>>

(* A captured payment is applied under the row lock.  Orders that are gone, *)
(* deleted, cancelled or reversed are left alone.                           *)
IgnoresCapture(row) ==
  \/ row.status \in {"GONE", "CANCELLED", "DELETED"}
  \/ row.voided
  \/ row.reversed

ApplyCapturedPayment(o) ==
  IF IgnoresCapture(order[o])
  THEN UNCHANGED <<order, stock, commits>>
  ELSE Settle(o, [order[o] EXCEPT !.status = StatusAfterCapture(@)])

(* The end of create for a free online order: a second transaction confirms *)
(* it and settles; when the stock is short the order stays under review.    *)
AutoConfirm(o) ==
  /\ o \in creating
  /\ creating' = creating \ {o}
  /\ LET row == [order[o] EXCEPT !.status = "CONFIRMED"]
     IN  IF Gone(o) \/ ~CanSettle(row)
         THEN UNCHANGED <<order, stock, commits>>
         ELSE Settle(o, row)
  /\ UNCHANGED <<money, payment, captured, reqVars>>

----------------------------------------------------------------------------
(* Administrator requests.                                                  *)

Busy == {r \in Requests : pc[r] \notin {"idle", "done"}}

Goto(r, point) == pc' = [pc EXCEPT ![r] = point]

Finish(r) ==
  /\ Goto(r, "done")
  /\ task' = [task EXCEPT ![r] = NoTask]
  /\ snap' = [snap EXCEPT ![r] = NoRow]
  /\ full' = [full EXCEPT ![r] = NoRow]
  /\ found' = [found EXCEPT ![r] = {}]

AcceptsAnyMove(t, row) ==  \* mutant: tracking and status moves unchecked
  row.status # "GONE" /\ (t.op = "purge" \/ ~Deleted(row))

(* The checks a handler makes on the row it has just read.                  *)
Accepts(t, row) ==
  /\ row.status # "GONE"
  /\ \/ t.op = "status" /\ ~Deleted(row) /\ CanTransition(row.status, t.to)
     \/ t.op = "void"   /\ ~Deleted(row)
     \/ t.op = "purge"  /\ Deleted(row)
     \/ t.op = "track"  /\ ~Deleted(row) /\ CanTransition(row.status, "SHIPPED")
     \/ t.op = "edit"   /\ ~Deleted(row)
                        /\ row.status \notin {"SHIPPED", "DELIVERED", "COMPLETED"}
     \/ t.op = "note"   /\ ~Deleted(row)

(* updateOrder skips the items of an order whose effects were reversed.     *)
FirstPoint(t, row) ==
  CASE t.op \in {"void", "purge"}        -> "check"
    [] t.op = "edit" /\ ~row.reversed    -> "edit"
    [] t.op = "edit" /\ row.reversed     -> "save"
    [] t.op = "note"                     -> "save"
    [] OTHER                             -> t.op

(* findOne at the start of every handler: an unlocked read.                 *)
Begin(r) ==
  /\ pc[r] = "idle"
  /\ Cardinality(Busy) < MaxActive
  /\ \E t \in Tasks :
       /\ Accepts(t, order[t.order])
       /\ task' = [task EXCEPT ![r] = t]
       /\ snap' = [snap EXCEPT ![r] = order[t.order]]
       /\ Goto(r, FirstPoint(t, order[t.order]))
  /\ UNCHANGED <<order, stock, money, payment, creating, commits, captured,
                 full, found, crashes>>

(* reverseEffects returns at once when the row first read was reversed.     *)
AfterReversal(r) ==
  CASE task[r].op = "void"  -> "void"
    [] task[r].op = "purge" -> "purge"
    [] OTHER                -> "done"

GotoReversal(r) ==
  IF snap[r].reversed
  THEN IF AfterReversal(r) = "done"
       THEN Finish(r)
       ELSE Goto(r, AfterReversal(r)) /\ UNCHANGED locals
  ELSE Goto(r, "rev_read") /\ UNCHANGED locals

(* Only the request that sees the order enter CANCELLED reverses its effects. *)
ReversesIfSettled(prev, next) ==  \* mutant: leaves unpaid orders alone
  next = "CANCELLED" /\ prev \in SettledStatuses

TriggersReversal(prev, next) ==
  next = "CANCELLED" /\ prev \notin {"CANCELLED", "DELETED"}

(* updateStatus: the UPDATE does not look at the current status.  Stock is  *)
(* settled when the status first read was not settled and the new one is.   *)
UpdateStatus(r) ==
  LET o    == task[r].order
      next == task[r].to
      row  == [order[o] EXCEPT !.status = next]
      settles == ShouldCommitStockOnConfirm(snap[r].status, next)
  IN
  /\ pc[r] = "status"
  /\ \/ /\ Gone(o) \/ (settles /\ ~CanSettle(row))
        /\ UNCHANGED <<order, stock, commits>>
        /\ Finish(r)
     \/ /\ ~Gone(o)
        /\ IF settles
           THEN Settle(o, row)
           ELSE order' = [order EXCEPT ![o] = row] /\ UNCHANGED <<stock, commits>>
        /\ IF TriggersReversal(snap[r].status, next)
           THEN GotoReversal(r)
           ELSE Finish(r)
  /\ UNCHANGED <<money, payment, creating, captured, crashes>>

PaymentsOf(o) == {p \in Payments : OrderOf[p] = o}

(* assertNoCapturedPayment, for voidOrder and purgeOrder; purgeOrder is also *)
(* refused while the sales-partner ledger has an open commission.            *)
CheckNoCapture(r) ==
  LET paid == \E p \in PaymentsOf(task[r].order) :
                payment[p].status \in CapturedPaymentStatuses
  IN
  /\ pc[r] = "check"
  /\ \/ (paid \/ task[r].op = "purge") /\ Finish(r)
     \/ ~paid /\ GotoReversal(r)
  /\ UNCHANGED <<order, stock, money, payment, creating, commits, captured, crashes>>

(* reverseEffects, statement by statement.                                  *)
ReverseRead(r) ==
  LET o == task[r].order IN
  /\ pc[r] = "rev_read"
  /\ IF Gone(o)
     THEN Finish(r)
     ELSE /\ full' = [full EXCEPT ![r] = order[o]]
          /\ Goto(r, "rev_stock")
          /\ UNCHANGED <<task, snap, found>>
  /\ UNCHANGED <<order, stock, money, payment, creating, commits, captured, crashes>>

ShouldReverseAnyStock(row) == ~row.reversed  \* mutant: also what was never taken
ShouldReverseCommittedStock(row) == row.committed /\ ~row.reversed

(* The goods go back to the shelf if the row as it was read says so.        *)
ReverseStock(r) ==
  /\ pc[r] = "rev_stock"
  /\ stock' = IF ShouldReverseCommittedStock(full[r])
              THEN stock + full[r].qty ELSE stock
  /\ Goto(r, "rev_wallet")
  /\ UNCHANGED <<order, money, payment, creating, commits, captured, locals, crashes>>

(* The key of this credit is fresh every time (it contains the clock).      *)
ReverseWallet(r) ==
  /\ pc[r] = "rev_wallet"
  /\ wallet' = wallet + WalletOf[task[r].order]
  /\ Goto(r, "rev_discount")
  /\ UNCHANGED <<order, stock, uses, payment, creating, commits, captured, locals, crashes>>

UsesAfterMinus(n) == n - 1  \* mutant: without the lower bound

(* decrementUse stops at zero.                                              *)
UsesAfterDecrement(n) == IF n > 0 THEN n - 1 ELSE n

ReverseDiscount(r) ==
  /\ pc[r] = "rev_discount"
  /\ uses' = IF CodeUsed[task[r].order] THEN UsesAfterDecrement(uses) ELSE uses
  /\ Goto(r, "rev_find")
  /\ UNCHANGED <<order, stock, wallet, payment, creating, commits, captured, locals, crashes>>

(* cancelPendingForOrder reads the PENDING rows, then saves each as it was   *)
(* read with the status CANCELLED, whatever happened to it meanwhile.        *)
ReverseFind(r) ==
  LET pending == {p \in PaymentsOf(task[r].order) : payment[p].status = "PENDING"} IN
  /\ pc[r] = "rev_find"
  /\ found' = [found EXCEPT ![r] =
                 {[id |-> p, authority |-> payment[p].authority] : p \in pending}]
  /\ Goto(r, "rev_cancel")
  /\ UNCHANGED <<order, stock, money, payment, creating, commits, captured,
                 task, snap, full, crashes>>

ReverseCancel(r) ==
  /\ pc[r] = "rev_cancel"
  /\ \/ /\ found[r] = {}
        /\ Goto(r, "rev_mark")
        /\ UNCHANGED <<payment, found>>
     \/ \E row \in found[r] :
        /\ payment' = [payment EXCEPT ![row.id] =
                         [status |-> "CANCELLED", authority |-> row.authority]]
        /\ found' = [found EXCEPT ![r] = @ \ {row}]
        /\ UNCHANGED pc
  /\ UNCHANGED <<order, stock, money, creating, commits, captured, task, snap, full, crashes>>

ReverseMark(r) ==
  LET o == task[r].order IN
  /\ pc[r] = "rev_mark"
  /\ order' = IF Gone(o) THEN order ELSE [order EXCEPT ![o].reversed = TRUE]
  /\ IF AfterReversal(r) = "done"
     THEN Finish(r)
     ELSE Goto(r, AfterReversal(r)) /\ UNCHANGED locals
  /\ UNCHANGED <<stock, money, payment, creating, commits, captured, crashes>>

(* The last write of voidOrder.                                             *)
VoidOrder(r) ==
  LET o == task[r].order IN
  /\ pc[r] = "void"
  /\ order' = IF Gone(o) THEN order
              ELSE [order EXCEPT ![o].status = "DELETED", ![o].voided = TRUE]
  /\ Finish(r)
  /\ UNCHANGED <<stock, money, payment, creating, commits, captured, crashes>>

(* purgeOrder deletes the row and its dependents.  Its unpaid payment rows   *)
(* lose their orderId, which later readers see as an order that is gone.     *)
PurgeOrder(r) ==
  /\ pc[r] = "purge"
  /\ order' = [order EXCEPT ![task[r].order].status = "GONE"]
  /\ Finish(r)
  /\ UNCHANGED <<stock, money, payment, creating, commits, captured, crashes>>

(* addTracking ships the order on the strength of the status first read.    *)
AddTracking(r) ==
  LET o == task[r].order IN
  /\ pc[r] = "track"
  /\ order' = IF Gone(o) THEN order ELSE [order EXCEPT ![o].status = "SHIPPED"]
  /\ Finish(r)
  /\ UNCHANGED <<stock, money, payment, creating, commits, captured, crashes>>

EditAlwaysMovesStock(row) == TRUE  \* mutant: edits of unsettled orders too
EditMovesStock(row) == row.committed

(* updateOrder with items: the stock moves by the difference to the quantity *)
(* first read, if the row first read was committed, and the whole row first  *)
(* read is saved back with the new quantity.                                 *)
EditItems(r) ==
  LET o     == task[r].order
      moves == EditMovesStock(snap[r])
      row   == [snap[r] EXCEPT !.qty = task[r].qty]
  IN
  /\ pc[r] = "edit"
  /\ \/ /\ Gone(o) \/ (moves /\ stock + snap[r].qty < task[r].qty)
        /\ UNCHANGED <<order, stock>>
        /\ Finish(r)
     \/ /\ ~Gone(o)
        /\ moves => stock + snap[r].qty >= task[r].qty
        /\ order' = [order EXCEPT ![o] = row]
        /\ stock' = IF moves THEN stock + snap[r].qty - task[r].qty ELSE stock
        /\ snap' = [snap EXCEPT ![r] = row]
        /\ Goto(r, "save")
        /\ UNCHANGED <<task, full, found>>
  /\ UNCHANGED <<money, payment, creating, commits, captured, crashes>>

(* The save that ends updateOrder: every column, and by cascade the items,   *)
(* are set back to the values the request holds.                             *)
SaveOrder(r) ==
  /\ pc[r] = "save"
  /\ order' = [order EXCEPT ![task[r].order] = snap[r]]
  /\ Finish(r)
  /\ UNCHANGED <<stock, money, payment, creating, commits, captured, crashes>>

(* The process dies between two statements of a handler.                    *)
Crash(r) ==
  /\ r \in Busy
  /\ crashes < MaxCrashes
  /\ crashes' = crashes + 1
  /\ Finish(r)
  /\ UNCHANGED <<order, stock, money, payment, creating, commits, captured>>

Step(r) ==
  \/ UpdateStatus(r) \/ CheckNoCapture(r)
  \/ ReverseRead(r) \/ ReverseStock(r) \/ ReverseWallet(r) \/ ReverseDiscount(r)
  \/ ReverseFind(r) \/ ReverseCancel(r) \/ ReverseMark(r)
  \/ VoidOrder(r) \/ PurgeOrder(r) \/ AddTracking(r) \/ EditItems(r) \/ SaveOrder(r)

----------------------------------------------------------------------------
(* What the gateway side may do to an order: nothing but apply a captured   *)
(* payment, in the transaction that marks the payment PAID or again later.  *)

Capture(p) ==
  /\ payment[p].status # "PAID"
  /\ payment' = [payment EXCEPT ![p].status = "PAID"]
  /\ captured' = captured \cup {p}
  /\ ApplyCapturedPayment(OrderOf[p])
  /\ UNCHANGED <<money, creating, reqVars>>

Reapply(p) ==
  /\ p \in captured
  /\ ApplyCapturedPayment(OrderOf[p])
  /\ UNCHANGED <<money, payment, creating, captured, reqVars>>

(* Any other write to payment rows, even to rows that were PAID.            *)
RewritePayments ==
  /\ payment' \in [Payments -> PaymentRow]
  /\ \A p \in Payments : payment'[p] = payment[p] \/ payment'[p].status # "PAID"
  /\ UNCHANGED <<order, stock, money, creating, commits, captured, reqVars>>

GatewayNext == RewritePayments \/ \E p \in Payments : Capture(p) \/ Reapply(p)

----------------------------------------------------------------------------
AdminNext ==
  \/ \E r \in Requests : Begin(r) \/ Step(r) \/ Crash(r)
  \/ \E o \in Orders : AutoConfirm(o)

OrderNext == AdminNext \/ (GatewayActive /\ GatewayNext)

OrderSpec == OrderInit /\ [][OrderNext]_orderVars

----------------------------------------------------------------------------
(* Safety.                                                                  *)

(* The stock of an order is deducted at most once, whoever confirms it and  *)
(* however confirmations, captures, retries and crashes interleave          *)
(* (commitStockForOrder: "Idempotent via stockCommittedAt").                *)
CommitOnce == \A o \in Orders : commits[o] <= 1

(* An order on its way to the customer owns its goods: its stock was        *)
(* deducted, unless its effects were reversed under the hands of a request  *)
(* that still saw it alive (updateStatus, addTracking, applyCapturedPayment).*)
SettledHasStock ==
  \A o \in Orders : order[o].status \in SettledStatuses =>
                      order[o].committed \/ order[o].reversed

(* An order that was paid does not stay in the list of unpaid orders: the    *)
(* transaction that captures the money also takes it out of AWAITING_PAYMENT *)
(* unless a reversal has already closed it.                                  *)
CapturedLeavesAwaiting ==
  \A p \in captured : order[OrderOf[p]].status = "AWAITING_PAYMENT" =>
                        order[OrderOf[p]].reversed

(* The inductive invariant behind the three properties above, for requests   *)
(* that save no row as a whole (NoWholeSaves) and do not ask for the status   *)
(* AWAITING_PAYMENT the order already has (NoReask).  A request that saw a    *)
(* settled order relies on stock that cannot be given back under it without   *)
(* the order being marked reversed: the two marks only ever get set.          *)
NoWholeSaves == \A t \in Tasks : t.op \notin {"edit", "note"}
NoReask      == \A t \in Tasks : t.op = "status" => t.to # "AWAITING_PAYMENT"

Owned(row) == row.committed \/ row.reversed

CommitsMarked ==
  \A o \in Orders : commits[o] = 0 \/ (commits[o] = 1 /\ order[o].committed)
SnapshotsOwned ==
  \A r \in Requests : snap[r].status \in SettledStatuses
                         => task[r] \in Tasks /\ Owned(order[task[r].order])
TrackingSettled ==
  \A r \in Requests : pc[r] = "track" => snap[r].status \in SettledStatuses
StatusTasks ==
  \A r \in Requests : pc[r] = "status" => task[r].op = "status"
VoidedNotAwaiting ==
  \A o \in Orders : order[o].voided => order[o].status # "AWAITING_PAYMENT"
NoSavePoints == \A r \in Requests : pc[r] \notin {"edit", "save"}

SettlementIInv ==
  /\ OrderTypeOK
  /\ CommitsMarked /\ SettledHasStock
  /\ SnapshotsOwned /\ TrackingSettled /\ StatusTasks /\ NoSavePoints

OrderIInv == SettlementIInv /\ CapturedLeavesAwaiting /\ VoidedNotAwaiting

(* Between requests the books agree: the shelf misses exactly the goods of  *)
(* the orders that are settled and not reversed, and wallet money and       *)
(* discount uses came back exactly for the reversed ones.                   *)
Taken    == [o \in Orders |-> IF order[o].committed /\ ~order[o].reversed THEN order[o].qty ELSE 0]
Credited == [o \in Orders |-> IF order[o].reversed THEN WalletOf[o] ELSE 0]
Used     == [o \in Orders |-> IF CodeUsed[o] /\ ~order[o].reversed THEN 1 ELSE 0]

Books ==
  Busy = {} => /\ stock + SumFunctionOnSet(Taken, Orders) = InitialStock
               /\ wallet = SumFunctionOnSet(Credited, Orders)
               /\ uses = SumFunctionOnSet(Used, Orders)

(* The inductive invariant behind Books and LegalMoves, for requests served  *)
(* one by one (MaxActive = 1) that leave free orders alone and void or save   *)
(* as a whole only orders no payment can reach: what the one request that is *)
(* busy read of its order is still so, but for captures that overtook it.     *)
ServedAlone ==
  /\ MaxActive = 1
  /\ \A t \in Tasks : /\ MethodOf[t.order] # "FREE"
                      /\ t.op \in {"void", "edit", "note"} => PaymentsOf(t.order) = {}

NoStepBack ==
  \A t \in Tasks : t.op = "status" => t.to \notin {"AWAITING_PAYMENT", "PENDING_REVIEW"}

ReversalPoints == {"rev_read", "rev_stock", "rev_wallet", "rev_discount", "rev_find",
                   "rev_cancel", "rev_mark"}
AfterStock     == ReversalPoints \ {"rev_read", "rev_stock"}
AfterWallet    == AfterStock \ {"rev_wallet"}
AfterDiscount  == AfterWallet \ {"rev_discount"}

\* Captures have moved the order on since its status was read.
Overtaken(read, now) ==
  \/ read = now
  \/ read = "AWAITING_PAYMENT" /\ now \in {"PENDING_REVIEW", "CONFIRMED"}
  \/ read = "PENDING_REVIEW" /\ now = "CONFIRMED"

StatusHolds(r) ==
  pc[r] = "status" => LET o == task[r].order IN
    /\ task[r].op = "status" /\ CanTransition(snap[r].status, task[r].to)
    /\ snap[r].status # "GONE" /\ Overtaken(snap[r].status, order[o].status)
    /\ snap[r].reversed = order[o].reversed
TrackHolds(r) ==
  pc[r] = "track" => LET o == task[r].order IN
    order[o].status \in {"CONFIRMED", "PROCESSING", "SHIPPED"}
SaveHolds(r) ==
  pc[r] \in {"edit", "save"} => LET o == task[r].order IN
    snap[r] = order[o] /\ PaymentsOf(o) = {} /\ (pc[r] = "edit" => ~order[o].reversed)
\* The order is closed to captures, or has no payments.
ReversalHolds(r) ==
  pc[r] \in {"check", "void", "purge"} \cup ReversalPoints => LET o == task[r].order IN
    /\ \/ task[r].op = "void" /\ PaymentsOf(o) = {}
       \/ task[r].op = "purge" /\ order[o].status = "DELETED"
       \/ task[r].op = "status" /\ pc[r] \in ReversalPoints /\ order[o].status = "CANCELLED"
    /\ pc[r] = "check" => snap[r].reversed = order[o].reversed
    /\ pc[r] = "purge" => task[r].op = "purge"
    /\ pc[r] \in ReversalPoints => ~order[o].reversed
    /\ pc[r] \in AfterStock \cup {"rev_stock"} => full[r] = order[o]

RequestHolds(r) ==
  /\ r \in Busy => order[task[r].order].status # "GONE"
  /\ StatusHolds(r) /\ TrackHolds(r) /\ SaveHolds(r) /\ ReversalHolds(r)

VoidedIsDeleted ==
  \A o \in Orders : order[o].voided => order[o].status \in {"DELETED", "GONE"}
FreeIsYoung ==
  /\ \A o \in creating : MethodOf[o] = "FREE"
  /\ \A o \in Orders : MethodOf[o] = "FREE" => order[o].status \in {"PENDING_REVIEW", "CONFIRMED"}

AloneIInv ==
  /\ OrderTypeOK
  /\ VoidedIsDeleted /\ FreeIsYoung
  /\ \A r, s \in Busy : r = s
  /\ \A r \in Requests : RequestHolds(r)

\* What a reversal under way has given back is no longer taken, or used.
GaveBack(o, points) == \E r \in Requests : pc[r] \in points /\ task[r].order = o

StillTaken    == [o \in Orders |-> IF GaveBack(o, AfterStock) THEN 0 ELSE Taken[o]]
CreditedByNow == [o \in Orders |-> IF GaveBack(o, AfterWallet) THEN WalletOf[o] ELSE Credited[o]]
StillUsed     == [o \in Orders |-> IF GaveBack(o, AfterDiscount) THEN 0 ELSE Used[o]]

BooksIInv ==
  /\ AloneIInv
  /\ stock + SumFunctionOnSet(StillTaken, Orders) = InitialStock
  /\ wallet = SumFunctionOnSet(CreditedByNow, Orders)
  /\ uses = SumFunctionOnSet(StillUsed, Orders)

(* A status only changes along ORDER_TRANSITIONS, or from AWAITING_PAYMENT  *)
(* to PENDING_REVIEW when the money arrives, although the handlers check    *)
(* the transition on a row read earlier and captures run in between.  Void  *)
(* may take any order to DELETED; purge removes DELETED rows only.          *)
LegalMove(from, to) ==
  \/ CanTransition(from, to)
  \/ from = "AWAITING_PAYMENT" /\ to = "PENDING_REVIEW"
  \/ to = "DELETED"
  \/ from = "DELETED" /\ to = "GONE"

LegalMoves ==
  [][\A o \in Orders : order[o].status # "GONE"
                        => LegalMove(order[o].status, order'[o].status)]_orderVars

(* Reversal restores an order's goods at most once ("Idempotent via         *)
(* effectsReversedAt"): the shelf never holds more than at the beginning.   *)
NeverOverstocked == stock <= InitialStock

(* Liveness: a cancelled order gets its effects reversed, unless a later     *)
(* request moves it out of CANCELLED.                                        *)
CancelledGetsReversed ==
  \A o \in Orders :
     (order[o].status = "CANCELLED") ~> (order[o].reversed \/ order[o].status # "CANCELLED")
=============================================================================
