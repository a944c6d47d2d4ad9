--------------------------- MODULE PartnerLedger ---------------------------
(***************************************************************************)
(* The commission ledger of one sales partner (modules/sales-partner): the  *)
(* job that turns orders and returns into ledger entries                    *)
(* (sales-partner-ledger.service.ts), the administrators who record and     *)
(* reverse payouts (sales-partner-payout.service.ts), and the order service, *)
(* which moves and purges the orders meanwhile.                             *)
(*                                                                         *)
(* Every line of an order has a snapshot with a commission above zero.  An  *)
(* entry is what its idempotency key identifies: one EARNED entry per line,  *)
(* one COMMISSION_REVERSAL per line and reason, one PAYOUT_REVERSAL per      *)
(* payout.  The page lock admits one run of the job at a time, so find and  *)
(* insert of one entry are one step.  Nothing in the repository writes a    *)
(* MANUAL_ADJUSTMENT.                                                       *)
(***************************************************************************)
EXTENDS Integers, FiniteSets, FiniteSetsExt

CONSTANTS
  Lines,         \* order lines
  CommissionOf,  \* commissionIrr of the snapshot of each line
  Orders,
  OrderOf,       \* order of each line
  Payouts,       \* payout requests, one idempotency key each
  NoPayout,
  MaxStops       \* how often the job is interrupted

ASSUME LedgerAssumption ==
  /\ IsFiniteSet(Lines) /\ CommissionOf \in [Lines -> Nat \ {0}]
  /\ Orders # {} /\ OrderOf \in [Lines -> Orders]
  /\ IsFiniteSet(Payouts) /\ NoPayout \notin Payouts
  /\ MaxStops \in Nat

VARIABLES
  order,     \* status of each order
  returned,  \* lines with an approved return
  purging,   \* orders purgeOrder has checked and is about to delete
  sync,      \* the job: its place, the order as read, the lines still to do
  avail,     \* EARNED entry of each line and its availableAt relative to now
  earnedIn,  \* payoutId of the EARNED entry
  reversal,  \* COMMISSION_REVERSAL entries
  returnIn,  \* payoutId of the PAYOUT_REVERSAL of each reversed payout
  payout,    \* status of each payout and the entries it settles
  amount,    \* amountIrr of each payout
  stops      \* interruptions of the job so far

orders  == <<order, returned, purging>>
job     == <<sync, stops>>
entries == <<avail, earnedIn, reversal, returnIn>>
payouts == <<payout, amount>>
vars    == <<orders, job, entries, payouts>>

OrderStatuses == {"REVIEW", "CONFIRMED", "DELIVERED", "CANCELLED", "REFUNDED",
                  "DELETED", "PURGED"}
EarnStatuses  == {"CONFIRMED", "DELIVERED"}
FullReversalStatuses == {"CANCELLED", "REFUNDED", "DELETED"}
Reasons       == {"RMA"} \cup FullReversalStatuses
SyncPlaces    == {"idle", "earn", "returns", "reverse", "status", "release"}
Idle          == [at |-> "idle", order |-> CHOOSE o \in Orders : TRUE,
                  status |-> "REVIEW", todo |-> {}, reason |-> "RMA"]

ReversalRows == [line : Lines, reason : Reasons, bucket : {"held", "available"},
                 payoutId : Payouts \cup {NoPayout}]
NewPayout    == [status |-> "NONE", lines |-> {}, reversals |-> {}, returns |-> {}]

LedgerTypeOK ==
  /\ order \in [Orders -> OrderStatuses]
  /\ returned \subseteq Lines
  /\ purging \subseteq Orders
  /\ sync \in [at : SyncPlaces, order : Orders, status : OrderStatuses,
               todo : SUBSET Lines, reason : Reasons]
  /\ avail \in [Lines -> {"absent", "unset", "future", "due"}]
  /\ earnedIn \in [Lines -> Payouts \cup {NoPayout}]
  /\ reversal \subseteq ReversalRows
  /\ payout \in [Payouts -> [status : {"NONE", "READ", "RECORDED", "REVERSED"},
                             lines : SUBSET Lines, reversals : SUBSET ReversalRows,
                             returns : SUBSET Payouts]]
  /\ returnIn \in [Payouts -> Payouts \cup {NoPayout}]
  /\ DOMAIN amount = Payouts
  /\ stops \in 0..MaxStops

LedgerInit ==
  /\ order = [o \in Orders |-> "REVIEW"]
  /\ returned = {}
  /\ purging = {}
  /\ sync = Idle
  /\ avail = [i \in Lines |-> "absent"]
  /\ earnedIn = [i \in Lines |-> NoPayout]
  /\ reversal = {}
  /\ payout = [p \in Payouts |-> NewPayout]
  /\ returnIn = [p \in Payouts |-> NoPayout]
  /\ amount = [p \in Payouts |-> 0]
  /\ stops = 0

LinesOf(o)   == {i \in Lines : OrderOf[i] = o}
Total(lines) == SumFunctionOnSet(CommissionOf, lines)

----------------------------------------------------------------------------
(* The order service.                                                       *)

OrderMoves ==
  [REVIEW |-> {"CONFIRMED", "CANCELLED", "DELETED"}, CONFIRMED |-> {"DELIVERED", "CANCELLED", "DELETED"},
   DELIVERED |-> {"REFUNDED", "DELETED"}, CANCELLED |-> {"DELETED"}, REFUNDED |-> {"DELETED"},
   DELETED |-> {}, PURGED |-> {}]

\* updateStatus and voidOrder.
MoveOrder(o) ==
  /\ order' \in {[order EXCEPT ![o] = s] : s \in OrderMoves[order[o]]}
  /\ UNCHANGED <<returned, purging, job, entries, payouts>>

ApproveReturn(i) ==
  /\ order[OrderOf[i]] = "DELIVERED"
  /\ returned' = returned \cup {i}
  /\ UNCHANGED <<order, purging, job, entries, payouts>>

\* Entries without payout that name the order.
OpenCommission(o) ==
  \/ \E i \in LinesOf(o) : avail[i] # "absent" /\ earnedIn[i] = NoPayout
  \/ \E r \in reversal : OrderOf[r.line] = o /\ r.payoutId = NoPayout

\* purgeOrder counts the open entries first and deletes the order later.
PurgeCheck(o) ==
  /\ order[o] = "DELETED" /\ ~OpenCommission(o)
  /\ purging' = purging \cup {o}
  /\ UNCHANGED <<order, returned, job, entries, payouts>>

PurgeDelete(o) ==
  /\ o \in purging
  /\ order' = [order EXCEPT ![o] = "PURGED"]
  /\ returned' = returned \ LinesOf(o)
  /\ purging' = purging \ {o}
  /\ UNCHANGED <<job, entries, payouts>>

----------------------------------------------------------------------------
(* The job: applyOrderLedger for one order after the other.                 *)

SyncRead(o) ==
  /\ sync.at = "idle" /\ order[o] # "PURGED"
  /\ sync' = [at |-> IF order[o] \in EarnStatuses THEN "earn" ELSE "returns", order |-> o,
              status |-> order[o], reason |-> "RMA",
              todo |-> IF order[o] \in EarnStatuses THEN LinesOf(o) ELSE {}]
  /\ UNCHANGED <<orders, entries, payouts, stops>>

\* availableAt as the job computes it: none before delivery or without hold days,
\* else the delivery plus the hold days, which a late job may find in the past.
EarnAt(status) == IF status = "DELIVERED" THEN {"unset", "future", "due"} ELSE {"unset"}

\* insertIgnore: a new entry, or the date for an entry that has none yet.
SyncEarn(i) ==
  /\ sync.at = "earn" /\ i \in sync.todo
  /\ \E at \in EarnAt(sync.status) :
       IF avail[i] \in {"absent", "unset"}
       THEN avail' = [avail EXCEPT ![i] = at]
       ELSE UNCHANGED avail
  /\ sync' = [sync EXCEPT !.todo = @ \ {i},
                          !.at = IF sync.todo = {i} THEN "returns" ELSE "earn"]
  /\ UNCHANGED <<orders, earnedIn, reversal, returnIn, payouts, stops>>

\* reverseApprovedReturns reads the approved returns.
SyncReturns ==
  /\ sync.at = "returns"
  /\ LET lines == LinesOf(sync.order) \cap returned IN
     sync' = [sync EXCEPT !.todo = lines, !.at = IF lines = {} THEN "status" ELSE "reverse"]
  /\ UNCHANGED <<orders, entries, payouts, stops>>

Reversed == {r.line : r \in reversal}

HasEarning(i)  == avail[i] # "absent"  \* mutant: forgets the earlier reversals
UnpaidOnly(i)  == earnedIn[i] = NoPayout /\ avail[i] # "absent" /\ i \notin Reversed  \* mutant: spares paid ones
\* What remains is the whole commission, or nothing once it was reversed.
CanReverse(i) == avail[i] # "absent" /\ i \notin Reversed

\* reverseEarnedRemainder; the entry of a reason is written once.
SyncReverse(i) ==
  /\ sync.at = "reverse" /\ i \in sync.todo
  /\ reversal' = IF CanReverse(i) /\ ~\E r \in reversal : r.line = i /\ r.reason = sync.reason
                 THEN reversal \cup {[line |-> i, reason |-> sync.reason, payoutId |-> NoPayout,
                                      bucket |-> IF avail[i] = "due" THEN "available" ELSE "held"]}
                 ELSE reversal
  /\ LET next == IF sync.reason = "RMA" THEN "status" ELSE "release" IN
     sync' = [sync EXCEPT !.todo = @ \ {i}, !.at = IF sync.todo = {i} THEN next ELSE "reverse"]
  /\ UNCHANGED <<orders, avail, earnedIn, returnIn, payouts, stops>>

\* reverseRemaining follows for an order that ended, by the status read at first.
SyncStatus ==
  /\ sync.at = "status"
  /\ sync' = IF sync.status \in FullReversalStatuses
             THEN [sync EXCEPT !.at = "reverse", !.reason = sync.status, !.todo = LinesOf(sync.order)]
             ELSE [sync EXCEPT !.at = "release"]
  /\ UNCHANGED <<orders, entries, payouts, stops>>

KeepsBucket(r) == r  \* mutant: never releases

\* releaseHeldReversals.
Released(r) == [r EXCEPT !.bucket = IF OrderOf[r.line] = sync.order /\ r.payoutId = NoPayout
                                       /\ avail[r.line] = "due" THEN "available" ELSE @]
\* A payout holds the rows it settles with FOR UPDATE until it commits.
Locked(r) == \E p \in Payouts : payout[p].status = "READ" /\ r \in payout[p].reversals

SyncRelease ==
  /\ sync.at = "release"
  /\ \A r \in reversal : Released(r) # r => ~Locked(r)
  /\ reversal' = {Released(r) : r \in reversal}
  /\ sync' = Idle
  /\ UNCHANGED <<orders, avail, earnedIn, returnIn, payouts, stops>>

\* A statement fails or the process dies: what was written stays.
SyncStops ==
  /\ sync.at # "idle" /\ stops < MaxStops
  /\ sync' = Idle
  /\ stops' = stops + 1
  /\ UNCHANGED <<orders, entries, payouts>>

Tick(i) ==
  /\ avail[i] = "future"
  /\ avail' = [avail EXCEPT ![i] = "due"]
  /\ UNCHANGED <<orders, job, earnedIn, reversal, returnIn, payouts>>

----------------------------------------------------------------------------
(* Payouts, under the advisory lock of the partner.                         *)

LedgerLocked == \E p \in Payouts : payout[p].status = "READ"

PayableLines == {i \in Lines : avail[i] = "due" /\ earnedIn[i] = NoPayout}
OpenLines    == {i \in Lines : avail[i] # "absent" /\ earnedIn[i] = NoPayout}

CountsAlways(r)       == r.payoutId = NoPayout  \* mutant: sets off claims on held earnings
\* A reversal counts once its earning is payable or has left the open entries.
CountsTowardPayout(r) == r.payoutId = NoPayout /\ (r.line \in OpenLines => r.line \in PayableLines)

CountedReversals == {r \in reversal : CountsTowardPayout(r)}
OpenReturns      == {p \in Payouts : payout[p].status = "REVERSED" /\ returnIn[p] = NoPayout}
Amounts(ps)      == SumFunctionOnSet(amount, ps)
Claims(rs)       == SumFunctionOnSet([r \in rs |-> CommissionOf[r.line]], rs)

\* allocatePayoutIrr on the open entries.
AllocatePayout ==
  Total(PayableLines) + Amounts(OpenReturns) - Claims(CountedReversals)

\* confirm up to the lock on the open entries: the expected amount is still right.
PayRead(p) ==
  /\ payout[p].status = "NONE" /\ ~LedgerLocked
  /\ AllocatePayout > 0
  /\ payout' = [payout EXCEPT ![p] = [status |-> "READ", lines |-> PayableLines,
                                 reversals |-> CountedReversals, returns |-> OpenReturns]]
  /\ amount' = [amount EXCEPT ![p] = AllocatePayout]
  /\ UNCHANGED <<orders, job, entries>>

\* The rest of the transaction.
PayCommit(p) ==
  /\ payout[p].status = "READ"
  /\ earnedIn' = [i \in Lines |-> IF i \in payout[p].lines THEN p ELSE earnedIn[i]]
  /\ reversal' = {[r EXCEPT !.payoutId = IF r \in payout[p].reversals THEN p ELSE @] : r \in reversal}
  /\ returnIn' = [q \in Payouts |-> IF q \in payout[p].returns THEN p ELSE returnIn[q]]
  /\ payout' = [payout EXCEPT ![p].status = "RECORDED"]
  /\ UNCHANGED <<orders, job, avail, amount>>

PayFails(p) ==
  /\ payout[p].status = "READ"
  /\ payout' = [payout EXCEPT ![p] = NewPayout]
  /\ amount' = [amount EXCEPT ![p] = 0]
  /\ UNCHANGED <<orders, job, entries>>

ReopensEntries(p) ==  \* mutant: gives the entries back as well
  /\ payout[p].status = "RECORDED" /\ ~LedgerLocked
  /\ payout' = [payout EXCEPT ![p].status = "REVERSED"]
  /\ earnedIn' = [i \in Lines |-> IF earnedIn[i] = p THEN NoPayout ELSE earnedIn[i]]
  /\ UNCHANGED <<orders, job, avail, reversal, returnIn, amount>>

\* reverse: one PAYOUT_REVERSAL, the entries of the payout stay with it.
ReversePayout(p) ==
  /\ payout[p].status = "RECORDED" /\ ~LedgerLocked
  /\ payout' = [payout EXCEPT ![p].status = "REVERSED"]
  /\ UNCHANGED <<orders, job, entries, amount>>

----------------------------------------------------------------------------
LedgerNext ==
  \/ \E o \in Orders : MoveOrder(o) \/ PurgeCheck(o) \/ PurgeDelete(o) \/ SyncRead(o)
  \/ \E i \in Lines : ApproveReturn(i) \/ SyncEarn(i) \/ SyncReverse(i) \/ Tick(i)
  \/ SyncReturns \/ SyncStatus \/ SyncRelease \/ SyncStops
  \/ \E p \in Payouts : PayRead(p) \/ PayCommit(p) \/ PayFails(p) \/ ReversePayout(p)

LedgerSpec == LedgerInit /\ [][LedgerNext]_vars

(* The job runs every ten minutes and its cursor walks all orders, oldest    *)
(* first, page by page; a transaction that locked the ledger ends, and a     *)
(* statement that waits for its row locks gets them in turn.                 *)
LedgerFairness ==
  /\ \A o \in Orders : SF_vars(SyncRead(o))
  /\ SF_vars(SyncReturns \/ SyncStatus \/ SyncRelease \/ \E i \in Lines : SyncEarn(i) \/ SyncReverse(i))
  /\ \A p \in Payouts : WF_vars(PayCommit(p) \/ PayFails(p))

FairLedgerSpec == LedgerSpec /\ LedgerFairness

----------------------------------------------------------------------------
(* Properties.                                                              *)

\* The ledger keeps what the account promises.  A payout counts as sent from the
\* moment its transaction has read the open entries; one that fails is returned.
WithStatus(ss) == {p \in Payouts : payout[p].status \in ss}

Sent == Amounts(WithStatus({"READ", "RECORDED"}))

Account == INSTANCE CommissionAccount WITH
  earned <- {i \in Lines : avail[i] # "absent"},
  due    <- {i \in Lines : avail[i] = "due"},
  clawed <- Reversed,
  sent   <- Sent

(* Whatever the job, the payouts and the order service do in between, every   *)
(* payout brings the money sent exactly to the commissions then due and not   *)
(* taken back, and a reversed payout can be made good once                    *)
(* (sales-partner-payout.service.ts:187-228, allocatePayoutIrr).             *)
ImplementsAccount == Account!AccountSpec

(* The commission of a line is taken back once, although a return and each    *)
(* status that ends the order are reasons with keys of their own              *)
(* (reverseEarnedRemainder).                                                 *)
ClawedBackOnce ==
  \A r, s \in reversal : r.line = s.line => r = s

(* A claim is set off only against a commission the partner was paid, at the  *)
(* latest by the same payout (reversalCountsTowardPayout).                    *)
SetOffAfterPayment ==
  \A r \in reversal : r.payoutId # NoPayout => earnedIn[r.line] # NoPayout

(* The inductive invariant.  Of the entries: what an open transaction of      *)
(* confirm has read stays true until it commits, and only commissions that    *)
(* fell due are paid.                                                         *)
ReadStillHolds(p) ==
  payout[p].status = "READ" =>
    /\ \A i \in payout[p].lines : avail[i] = "due"
    /\ \A r \in payout[p].reversals :
         /\ r \in reversal /\ r.payoutId = NoPayout
         /\ r.line \in payout[p].lines \/ earnedIn[r.line] # NoPayout

EntriesIInv ==
  /\ LedgerTypeOK
  /\ ClawedBackOnce
  /\ SetOffAfterPayment
  /\ \A r \in reversal : avail[r.line] # "absent"
  /\ \A i \in Lines : earnedIn[i] # NoPayout => avail[i] = "due"
  /\ \A p, q \in Payouts : payout[p].status = "READ" /\ payout[q].status = "READ" => p = q
  /\ \A p \in Payouts : ReadStillHolds(p)

LinesIn(rs) == {r.line : r \in rs}
PaidLines   == {i \in Lines : earnedIn[i] # NoPayout}
SetOff      == {r \in reversal : r.payoutId # NoPayout}
MadeGood    == {p \in Payouts : returnIn[p] # NoPayout}

(* Of the money: an open transaction will settle exactly its amount, with     *)
(* entries no other payout has settled, ...                                   *)
SettlesItsAmount(p) ==
  payout[p].status = "READ" =>
    /\ amount[p] = Total(payout[p].lines) + Amounts(payout[p].returns)
                     - Total(LinesIn(payout[p].reversals))
    /\ payout[p].lines \cap PaidLines = {}
    /\ payout[p].returns \subseteq OpenReturns

(* ... and the amounts of the committed payouts, less those made good, are    *)
(* the commissions paid less the claims set off.                              *)
MoneyIInv ==
  /\ amount \in [Payouts -> Nat]
  /\ \A p \in Payouts : payout[p].status # "NONE" => amount[p] > 0
  /\ \A p \in Payouts : SettlesItsAmount(p)
  /\ MadeGood \subseteq WithStatus({"REVERSED"})
  /\ Amounts(WithStatus({"RECORDED", "REVERSED"})) - Amounts(MadeGood)
       = Total(PaidLines) - Total(LinesIn(SetOff))

LedgerIInv == EntriesIInv /\ MoneyIInv

(* The commission of a line whose order was cancelled, refunded or deleted is *)
(* eventually taken back, unless the order is purged.                         *)
EndedGetsClawed ==
  \A i \in Lines :
    avail[i] # "absent" /\ order[OrderOf[i]] \in FullReversalStatuses
      ~> i \in Reversed \/ order[OrderOf[i]] = "PURGED"

(* The balance shown to the partner (sumBalances) counts a claim as held      *)
(* although its commission fell due only until the job has seen the order.    *)
Misplaced(i) == \E r \in reversal :
  r.line = i /\ r.bucket = "held" /\ r.payoutId = NoPayout /\ avail[i] = "due"

StatementSettles ==
  \A i \in Lines : Misplaced(i) ~> ~Misplaced(i) \/ order[OrderOf[i]] = "PURGED"

=============================================================================
