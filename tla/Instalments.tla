---------------------------- MODULE Instalments ----------------------------
(***************************************************************************)
(* Instalment contracts of one customer (modules/payment/installment.service *)
(* .ts): the credit check while an order is created, payments of single      *)
(* instalments, cancellation by an administrator or by the reversal of the   *)
(* order, and the daily overdue job.                                         *)
(*                                                                         *)
(* A request is a database transaction.  It waits for row locks, and what it *)
(* wrote is seen by others when it commits; job[r] says which locks it holds. *)
(***************************************************************************)
EXTENDS Integers, FiniteSets, FiniteSetsExt

CONSTANTS
  Orders,      \* orders paid by instalments, one contract each
  Remainder,   \* principal minus down payment of each order
  TermCount,   \* number of instalments of each order
  Limits,      \* values the credit limit of the customer takes
  Keys,        \* idempotency keys of payments
  NoKey,
  Requests

ASSUME InstalmentAssumption ==
  /\ IsFiniteSet(Orders) /\ Orders # {}
  /\ Remainder \in [Orders -> Nat]
  /\ TermCount \in [Orders -> Nat \ {0}]
  /\ Limits # {} /\ Limits \subseteq Nat
  /\ NoKey \notin Keys

VARIABLES
  limit,     \* customers.creditLimit
  contract,  \* status of the contract of each order
  credit,    \* creditConsumedIrr
  schedule,  \* the instalments of each contract
  job        \* what each request is doing

tables == <<limit, contract, credit, schedule>>
vars   == <<limit, contract, credit, schedule, job>>

\* buildEqualSchedules: equal parts, the last one absorbs what is left over.
AmountOf(o, n) ==
  LET base == Remainder[o] \div TermCount[o] IN
  IF n = TermCount[o] THEN Remainder[o] - base * (TermCount[o] - 1) ELSE base
Terms(o) == IF Remainder[o] = 0 THEN {} ELSE 1..TermCount[o]

NewRow(o) == [n \in Terms(o) |-> [status |-> "PENDING", paid |-> 0, key |-> NoKey]]
NoRow(o)  == [n \in Terms(o) |-> [status |-> "NONE", paid |-> 0, key |-> NoKey]]
Idle      == [at |-> "idle"]

RowStatuses  == {"NONE", "PENDING", "PARTIAL", "OVERDUE", "PAID", "CANCELLED"}
OpenStatuses == {"PENDING", "PARTIAL", "OVERDUE"}
Rows         == [status : RowStatuses, paid : Nat, key : Keys \cup {NoKey}]

InstalmentTypeOK ==
  /\ limit \in Limits
  /\ contract \in [Orders -> {"NONE", "ACTIVE", "COMPLETED", "CANCELLED"}]
  /\ credit \in [Orders -> Nat]
  /\ DOMAIN schedule = Orders
  /\ \A o \in Orders : schedule[o] \in [Terms(o) -> Rows]
  /\ DOMAIN job = Requests
  /\ \A r \in Requests :
       \/ job[r] = Idle
       \/ job[r] \in [at : {"create", "cancel"}, order : Orders]
       \/ job[r] \in [at : {"pay"}, order : Orders, term : Nat \ {0}, row : Rows]

InstalmentInit ==
  /\ limit \in Limits
  /\ contract = [o \in Orders |-> "NONE"]
  /\ credit = [o \in Orders |-> 0]
  /\ schedule = [o \in Orders |-> NoRow(o)]
  /\ job = [r \in Requests |-> Idle]

Holds(r, at, o) == job[r].at = at /\ job[r].order = o
Ends(r)         == job' = [job EXCEPT ![r] = Idle]

----------------------------------------------------------------------------
(* createFromOrder, inside the transaction that creates the order.          *)

CustomerLocked == \E r \in Requests : job[r].at = "create"

Consuming == [o \in Orders |-> IF contract[o] = "ACTIVE" THEN credit[o] ELSE 0]
Consumed  == SumFunctionOnSet(Consuming, Orders)

CreditForgotten(o) == Remainder[o] <= limit  \* mutant: leaves the other contracts out
\* availableCredit is never below zero.
CreditAllows(o) == Remainder[o] <= (IF limit < Consumed THEN 0 ELSE limit - Consumed)

CreateCheck(r, o) ==
  /\ job[r].at = "idle" /\ contract[o] = "NONE"
  /\ ~CustomerLocked
  /\ CreditAllows(o)
  /\ job' = [job EXCEPT ![r] = [at |-> "create", order |-> o]]
  /\ UNCHANGED tables

\* Nothing to finance: complete at once.
CreateCommit(r) ==
  /\ job[r].at = "create"
  /\ LET o == job[r].order IN
     /\ contract' = [contract EXCEPT ![o] = IF Remainder[o] = 0 THEN "COMPLETED" ELSE "ACTIVE"]
     /\ credit' = [credit EXCEPT ![o] = Remainder[o]]
     /\ schedule' = [schedule EXCEPT ![o] = NewRow(o)]
  /\ Ends(r)
  /\ UNCHANGED limit

\* A later statement of the creation of the order fails.
CreateFails(r) ==
  /\ job[r].at = "create"
  /\ Ends(r)
  /\ UNCHANGED tables

\* customer.service.ts update: waits for the row of the customer.
SetLimit ==
  /\ ~CustomerLocked
  /\ limit' \in Limits \ {limit}
  /\ UNCHANGED <<contract, credit, schedule, job>>

----------------------------------------------------------------------------
(* recordSchedulePayment.                                                   *)

RowLocked(o, n)   == \E r \in Requests : Holds(r, "pay", o) /\ job[r].term = n
ContractLocked(o) == \E r \in Requests : Holds(r, "cancel", o)

AfterPayment(o, n, amount, key) ==
  LET paid == schedule[o][n].paid + amount IN
  [status |-> IF paid >= AmountOf(o, n) THEN "PAID" ELSE "PARTIAL",
   paid |-> paid, key |-> IF key = NoKey THEN schedule[o][n].key ELSE key]

\* Locks the instalment, checks it and writes it.  A payment that repeats the last
\* key of the row ends here without a change.
PayRow(r, o, n, amount, key) ==
  /\ job[r].at = "idle" /\ ~RowLocked(o, n)
  /\ key # NoKey => schedule[o][n].key # key
  /\ schedule[o][n].status \in OpenStatuses
  /\ amount \in 1..(AmountOf(o, n) - schedule[o][n].paid)
  /\ job' = [job EXCEPT ![r] = [at |-> "pay", order |-> o, term |-> n,
                                row |-> AfterPayment(o, n, amount, key)]]
  /\ UNCHANGED tables

NonePending(rows) == \A n \in DOMAIN rows : rows[n].status # "PENDING"  \* mutant
AllPaid(rows) == DOMAIN rows # {} /\ \A n \in DOMAIN rows : rows[n].status = "PAID"

\* Locks the contract, reads all its instalments and commits.
PayContract(r) ==
  /\ job[r].at = "pay" /\ ~ContractLocked(job[r].order)
  /\ LET o    == job[r].order
         rows == [schedule[o] EXCEPT ![job[r].term] = job[r].row]
     IN /\ schedule' = [schedule EXCEPT ![o] = rows]
        /\ IF AllPaid(rows)
           THEN /\ contract' = [contract EXCEPT ![o] = "COMPLETED"]
                /\ credit' = [credit EXCEPT ![o] = 0]
           ELSE UNCHANGED <<contract, credit>>
  /\ Ends(r)
  /\ UNCHANGED limit

----------------------------------------------------------------------------
(* cancelContract and cancelByOrderId: the contract is locked first.        *)

CancelLock(r, o) ==
  /\ job[r].at = "idle" /\ ~ContractLocked(o)
  /\ contract[o] = "ACTIVE"
  /\ job' = [job EXCEPT ![r] = [at |-> "cancel", order |-> o]]
  /\ UNCHANGED tables

CancelledUnlessLate(row) ==  \* mutant: forgets the overdue ones
  IF row.status \in {"PENDING", "PARTIAL"} THEN [row EXCEPT !.status = "CANCELLED"] ELSE row
Cancelled(row) == IF row.status \in OpenStatuses THEN [row EXCEPT !.status = "CANCELLED"] ELSE row

RowsUnchecked(o) == o \in Orders  \* mutant: reads the instalments without their locks
RowsFree(o) == \A n \in Terms(o) : ~RowLocked(o, n)

\* Waits for the instalments that are being paid.
CancelRows(r) ==
  /\ job[r].at = "cancel" /\ RowsFree(job[r].order)
  /\ LET o == job[r].order IN
     /\ schedule' = [schedule EXCEPT ![o] = [n \in Terms(o) |-> Cancelled(schedule[o][n])]]
     /\ contract' = [contract EXCEPT ![o] = "CANCELLED"]
     /\ credit' = [credit EXCEPT ![o] = 0]
  /\ Ends(r)
  /\ UNCHANGED limit

\* Payments lock the row and then the contract, cancellations the other way round:
\* the database ends one transaction of a cycle.
Deadlocked(r) ==
  \E s \in Requests : \E o \in Orders :
    \/ Holds(r, "pay", o) /\ Holds(s, "cancel", o)
    \/ Holds(r, "cancel", o) /\ Holds(s, "pay", o)

Abort(r) ==
  /\ Deadlocked(r)
  /\ Ends(r)
  /\ UNCHANGED tables

----------------------------------------------------------------------------
\* The overdue job: one UPDATE on the instalments of each contract that are past
\* due, the first `elapsed` of them.
MarkOverdue ==
  /\ \E elapsed \in [Orders -> 0..Max({TermCount[o] : o \in Orders})] :
       LET Overdue(o, n) == n <= elapsed[o] /\ schedule[o][n].status = "PENDING" IN
       /\ \A o \in Orders : \A n \in Terms(o) : Overdue(o, n) => ~RowLocked(o, n)
       /\ schedule' = [o \in Orders |-> [n \in Terms(o) |->
            IF Overdue(o, n) THEN [schedule[o][n] EXCEPT !.status = "OVERDUE"] ELSE schedule[o][n]]]
  /\ UNCHANGED <<limit, contract, credit, job>>

InstalmentNext ==
  \/ \E r \in Requests, o \in Orders :
       \/ CreateCheck(r, o)
       \/ CancelLock(r, o)
       \/ \E n \in Terms(o), key \in Keys \cup {NoKey} :
            \E amount \in 1..AmountOf(o, n) : PayRow(r, o, n, amount, key)
  \/ \E r \in Requests :
       CreateCommit(r) \/ CreateFails(r) \/ PayContract(r) \/ CancelRows(r) \/ Abort(r)
  \/ SetLimit
  \/ MarkOverdue

InstalmentSpec == InstalmentInit /\ [][InstalmentNext]_vars

----------------------------------------------------------------------------
(* Properties.                                                              *)

(* A contract is complete exactly when its last instalment was paid, although *)
(* the last two may be paid at the same time (the contract is locked before   *)
(* its instalments are counted), and no row is left open on a closed contract. *)
ClosedWhenPaid ==
  \A o \in Orders :
    /\ contract[o] = "COMPLETED" => \A n \in Terms(o) : schedule[o][n].status = "PAID"
    /\ contract[o] = "ACTIVE" => \E n \in Terms(o) : schedule[o][n].status # "PAID"
    /\ contract[o] = "CANCELLED" =>
         \A n \in Terms(o) : schedule[o][n].status \in {"PAID", "CANCELLED"}

(* The inductive invariant: ClosedWhenPaid, a row is PAID exactly when its     *)
(* amount came in, only active contracts hold credit, whoever has locked a     *)
(* row or a contract knows its present state, and the credit a creation was    *)
(* granted is free until it commits.                                          *)
RowSound(o, n, row) ==
  /\ row.status = "NONE" <=> contract[o] = "NONE"
  /\ row.paid <= AmountOf(o, n)
  /\ row.status = "PAID" => row.paid = AmountOf(o, n)
  /\ row.status \in OpenStatuses \ {"PARTIAL"} => row.paid = 0

LockSound(r) ==
  /\ job[r].at = "create" => contract[job[r].order] = "NONE"
  /\ job[r].at = "cancel" => contract[job[r].order] = "ACTIVE"
  /\ job[r].at = "pay" =>
       LET o == job[r].order  n == job[r].term IN
       /\ contract[o] = "ACTIVE" /\ n \in Terms(o)
       /\ schedule[o][n].status \in OpenStatuses
       /\ job[r].row.status \in {"PARTIAL", "PAID"}
       /\ RowSound(o, n, job[r].row)

OneHolder ==
  \A r, s \in Requests : r # s =>
    /\ job[r].at = "create" => job[s].at # "create"
    /\ \A o \in Orders :
         /\ Holds(r, "cancel", o) => ~Holds(s, "cancel", o)
         /\ Holds(r, "pay", o) /\ Holds(s, "pay", o) => job[r].term # job[s].term

ContractIInv ==
  /\ InstalmentTypeOK
  /\ ClosedWhenPaid
  /\ OneHolder
  /\ \A o \in Orders :
       /\ credit[o] = IF contract[o] = "ACTIVE" THEN Remainder[o] ELSE 0
       /\ \A n \in Terms(o) : RowSound(o, n, schedule[o][n])
  /\ \A r \in Requests : LockSound(r)

GrantStands == \A r \in Requests : job[r].at = "create" => CreditAllows(job[r].order)

InstalmentIInv == ContractIInv /\ GrantStands

(* A cancelled contract takes no more money: its instalments, its credit and   *)
(* its status stay, whatever was being paid when it was cancelled.            *)
CancelledStays ==
  [][\A o \in Orders : contract[o] = "CANCELLED" =>
       contract'[o] = "CANCELLED" /\ schedule'[o] = schedule[o] /\ credit'[o] = credit[o]]_vars

(* New contracts fit into the limit together with those that are running, also *)
(* when orders are created at once and the limit moves (availableCredit).      *)
CreditGranted == [][Consumed' > Consumed => Consumed' <= limit']_vars

(* The instalments of a contract add up to what was financed, and what was     *)
(* collected is all of it once the contract is complete.                      *)
Amounts(o)   == [n \in Terms(o) |-> AmountOf(o, n)]
Collected(o) == [n \in Terms(o) |-> schedule[o][n].paid]

CollectsRemainder ==
  \A o \in Orders :
    /\ contract[o] # "NONE" => SumFunctionOnSet(Amounts(o), Terms(o)) = Remainder[o]
    /\ contract[o] = "COMPLETED" => SumFunctionOnSet(Collected(o), Terms(o)) = Remainder[o]
=============================================================================
