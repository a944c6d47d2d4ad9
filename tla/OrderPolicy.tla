----------------------------- MODULE OrderPolicy -----------------------------
(***************************************************************************)
(* The pure rules about order statuses: packages/shared-types              *)
(* (order-status.ts) and apps/api/src/modules/order                        *)
(* (order-stock-settlement.ts, order-payment-lifecycle.ts,                 *)
(* order-money-guard.ts).  No state: every operator is a function of       *)
(* statuses, and the state modules use them where the services call the    *)
(* TypeScript functions of the same name.                                  *)
(***************************************************************************)

(* ORDER_TRANSITIONS: the statuses an administrator may move an order to. *)
OrderTransitions ==
  [ AWAITING_PAYMENT |-> {"CANCELLED", "DELETED"},
    PENDING_REVIEW   |-> {"CONFIRMED", "PROCESSING", "CANCELLED", "DELETED"},
    CONFIRMED        |-> {"PROCESSING", "SHIPPED", "CANCELLED", "DELETED"},
    PROCESSING       |-> {"SHIPPED", "CANCELLED", "DELETED"},
    SHIPPED          |-> {"DELIVERED", "CANCELLED"},
    DELIVERED        |-> {"COMPLETED", "REFUNDED"},
    COMPLETED        |-> {"REFUNDED"},
    CANCELLED        |-> {"DELETED"},
    DELETED          |-> {},
    REFUNDED         |-> {} ]

Statuses ==
  {"AWAITING_PAYMENT", "PENDING_REVIEW", "CONFIRMED", "PROCESSING", "SHIPPED",
   "DELIVERED", "COMPLETED", "CANCELLED", "DELETED", "REFUNDED"}

(* Statuses in which the warehouse has handed the goods over to the order. *)
SettledStatuses == {"CONFIRMED", "PROCESSING", "SHIPPED", "DELIVERED", "COMPLETED"}

(* Asking for the status the order already has is allowed. *)
CanTransition(from, to) == from = to \/ to \in OrderTransitions[from]

CommitOnConfirmedOnly(prev, next) ==  \* mutant: forgets the later statuses
  next = "CONFIRMED" /\ prev \notin SettledStatuses

ShouldCommitStockOnConfirm(prev, next) ==
  next \in SettledStatuses /\ prev \notin SettledStatuses

(* The status an order is created with.  ONLINE stands for an online order    *)
(* with something to pay; CASH for cash and instalment orders; FREE for an   *)
(* online order whose wallet and discounts already cover the whole total.    *)
Methods == {"ONLINE", "CASH", "FREE"}

InitialCreateStatus(method) ==
  IF method = "ONLINE" THEN "AWAITING_PAYMENT" ELSE "PENDING_REVIEW"

(* A customer may open a gateway session only before the order settles. *)
IsOrderPayable(status) == status \in {"AWAITING_PAYMENT", "PENDING_REVIEW"}

StatusUnlessAwaiting(status) ==  \* mutant: leaves unpaid orders where they are
  IF status = "PENDING_REVIEW" THEN "CONFIRMED" ELSE status

(* What a captured payment does to the status: an unpaid online order enters *)
(* review, an order already under review is confirmed, others keep theirs.   *)
StatusAfterCapture(status) ==
  CASE status = "AWAITING_PAYMENT" -> "PENDING_REVIEW"
    [] status = "PENDING_REVIEW"   -> "CONFIRMED"
    [] OTHER                       -> status

(* Payment statuses that mean the gateway holds the customer's money. *)
CapturedPaymentStatuses == {"PAID", "REFUNDED"}

=============================================================================
