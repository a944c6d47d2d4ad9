------------------------ MODULE PartnerLedger_proofs ------------------------
(***************************************************************************)
(* Proofs about PartnerLedger: type correctness and the inductive invariant  *)
(* of the commission ledger, for any set of lines, orders and payouts.       *)
(***************************************************************************)
EXTENDS PartnerLedger, SumTheorems, TLAPS

----------------------------------------------------------------------------
(* Type correctness.                                                        *)

LEMMA IdleType == Idle.at = "idle" /\
  Idle \in [at : SyncPlaces, order : Orders, status : OrderStatuses, todo : SUBSET Lines, reason : Reasons]
BY LedgerAssumption DEF Idle, SyncPlaces, OrderStatuses, Reasons, FullReversalStatuses

LEMMA NewPayoutType ==
  NewPayout \in [status : {"NONE", "READ", "RECORDED", "REVERSED"}, lines : SUBSET Lines,
                 reversals : SUBSET ReversalRows, returns : SUBSET Payouts]
BY DEF NewPayout

(* The moves of the order service keep the types.                            *)
LEMMA OrderTypes ==
  ASSUME LedgerTypeOK,
         \/ \E o \in Orders : MoveOrder(o) \/ PurgeCheck(o) \/ PurgeDelete(o)
         \/ \E i \in Lines : ApproveReturn(i)
  PROVE  LedgerTypeOK'
<1>1. ASSUME NEW o \in Orders, MoveOrder(o) PROVE LedgerTypeOK'
  <2>1. PICK s \in OrderMoves[order[o]] : order' = [order EXCEPT ![o] = s]
    BY <1>1 DEF MoveOrder
  <2>2. s \in OrderStatuses
    BY <2>1 DEF OrderMoves, OrderStatuses, LedgerTypeOK
  <2> QED
    BY <1>1, <2>1, <2>2 DEF MoveOrder, LedgerTypeOK, entries, payouts, job
<1>2. ASSUME NEW o \in Orders, PurgeCheck(o) PROVE LedgerTypeOK'
  BY <1>2 DEF PurgeCheck, LedgerTypeOK, entries, payouts, job
<1>3. ASSUME NEW o \in Orders, PurgeDelete(o) PROVE LedgerTypeOK'
  BY <1>3 DEF PurgeDelete, LedgerTypeOK, entries, payouts, job, OrderStatuses
<1>4. ASSUME NEW i \in Lines, ApproveReturn(i) PROVE LedgerTypeOK'
  BY <1>4 DEF ApproveReturn, LedgerTypeOK, entries, payouts, job
<1> QED
  BY <1>1, <1>2, <1>3, <1>4

(* The steps of the job keep the types.                                      *)
LEMMA JobTypes ==
  ASSUME LedgerTypeOK,
         \/ \E o \in Orders : SyncRead(o)
         \/ \E i \in Lines : SyncEarn(i) \/ SyncReverse(i) \/ Tick(i)
         \/ SyncReturns \/ SyncStatus \/ SyncRelease \/ SyncStops
  PROVE  LedgerTypeOK'
<1> USE LedgerAssumption DEF LedgerTypeOK
<1>1. ASSUME NEW o \in Orders, SyncRead(o) PROVE LedgerTypeOK'
  BY <1>1 DEF SyncRead, orders, entries, payouts, SyncPlaces, Reasons, LinesOf
<1>2. ASSUME NEW i \in Lines, SyncEarn(i) PROVE LedgerTypeOK'
  <2>1. sync' \in [at : SyncPlaces, order : Orders, status : OrderStatuses,
                   todo : SUBSET Lines, reason : Reasons]
    BY <1>2 DEF SyncEarn, SyncPlaces
  <2>2. EarnAt(sync.status) \subseteq {"absent", "unset", "future", "due"}
    BY DEF EarnAt
  <2>3. avail' \in [Lines -> {"absent", "unset", "future", "due"}]
    BY <1>2, <2>2 DEF SyncEarn
  <2> QED
    BY <1>2, <2>1, <2>3 DEF SyncEarn, orders, payouts
<1>3. CASE SyncReturns
  BY <1>3 DEF SyncReturns, orders, entries, payouts, SyncPlaces, LinesOf
<1>4. ASSUME NEW i \in Lines, SyncReverse(i) PROVE LedgerTypeOK'
  <2>1. sync' \in [at : SyncPlaces, order : Orders, status : OrderStatuses,
                   todo : SUBSET Lines, reason : Reasons]
    BY <1>4 DEF SyncReverse, SyncPlaces
  <2>2. \A b \in {"held", "available"} :
          [line |-> i, reason |-> sync.reason, payoutId |-> NoPayout, bucket |-> b] \in ReversalRows
    BY DEF ReversalRows
  <2>3. reversal' \subseteq ReversalRows
    BY <1>4, <2>2 DEF SyncReverse
  <2> QED
    BY <1>4, <2>1, <2>3 DEF SyncReverse, orders, payouts
<1>5. CASE SyncStatus
  BY <1>5 DEF SyncStatus, orders, entries, payouts, SyncPlaces, LinesOf, Reasons
<1>6. CASE SyncRelease
  <2>1. \A r \in reversal : Released(r) \in ReversalRows
    BY DEF Released, ReversalRows
  <2> QED
    BY <1>6, <2>1, IdleType DEF SyncRelease, orders, payouts
<1>7. CASE SyncStops
  BY <1>7, IdleType DEF SyncStops, orders, entries, payouts
<1>8. ASSUME NEW i \in Lines, Tick(i) PROVE LedgerTypeOK'
  BY <1>8 DEF Tick, orders, job, payouts
<1> QED
  BY <1>1, <1>2, <1>3, <1>4, <1>5, <1>6, <1>7, <1>8

(* The transactions of payouts keep the types.                               *)
LEMMA PayoutTypes ==
  ASSUME LedgerTypeOK, NEW p \in Payouts,
         PayRead(p) \/ PayCommit(p) \/ PayFails(p) \/ ReversePayout(p)
  PROVE  LedgerTypeOK'
<1> USE DEF LedgerTypeOK
<1>1. CASE PayRead(p)
  <2>1. /\ PayableLines \subseteq Lines
        /\ CountedReversals \subseteq ReversalRows
        /\ OpenReturns \subseteq Payouts
    BY DEF PayableLines, CountedReversals, OpenReturns
  <2> QED
    BY <1>1, <2>1 DEF PayRead, orders, job, entries
<1>2. CASE PayCommit(p)
  <2>1. reversal' \subseteq ReversalRows
    BY <1>2 DEF PayCommit, ReversalRows
  <2>2. /\ earnedIn' \in [Lines -> Payouts \cup {NoPayout}]
        /\ returnIn' \in [Payouts -> Payouts \cup {NoPayout}]
    BY <1>2 DEF PayCommit
  <2> QED
    BY <1>2, <2>1, <2>2 DEF PayCommit, orders, job
<1>3. CASE PayFails(p)
  BY <1>3, NewPayoutType DEF PayFails, orders, job, entries
<1>4. CASE ReversePayout(p)
  BY <1>4 DEF ReversePayout, orders, job, entries
<1> QED
  BY <1>1, <1>2, <1>3, <1>4

LEMMA NextTypes == LedgerTypeOK /\ [LedgerNext]_vars => LedgerTypeOK'
<1> SUFFICES ASSUME LedgerTypeOK, [LedgerNext]_vars PROVE LedgerTypeOK'
  OBVIOUS
<1>1. CASE UNCHANGED vars
  BY <1>1 DEF LedgerTypeOK, vars, orders, job, entries, payouts
<1>2. CASE LedgerNext
  BY <1>2, OrderTypes, JobTypes, PayoutTypes DEF LedgerNext
<1> QED
  BY <1>1, <1>2

LEMMA InitTypes == LedgerInit => LedgerTypeOK
BY LedgerAssumption, IdleType, NewPayoutType DEF LedgerInit, LedgerTypeOK, OrderStatuses

(* Every variable keeps its type.                                            *)
THEOREM TypeCorrect == LedgerSpec => []LedgerTypeOK
BY InitTypes, NextTypes, PTL DEF LedgerSpec

----------------------------------------------------------------------------
(* The invariant.                                                           *)

LEMMA InitInvariant == LedgerInit => EntriesIInv
<1> SUFFICES ASSUME LedgerInit PROVE EntriesIInv
  OBVIOUS
<1>1. LedgerTypeOK
  BY InitTypes
<1> QED
  BY <1>1 DEF LedgerInit, EntriesIInv, ClawedBackOnce, SetOffAfterPayment, ReadStillHolds, NewPayout

(* Nothing the order service does touches the ledger.                        *)
LEMMA QuietKeepsInvariant ==
  ASSUME EntriesIInv, LedgerTypeOK', UNCHANGED <<entries, payouts>>
  PROVE  EntriesIInv'
BY DEF EntriesIInv, entries, payouts, ClawedBackOnce, SetOffAfterPayment, ReadStillHolds

(* An earning that is written or falls due is not one that was paid.          *)
LEMMA EarningKeepsInvariant ==
  ASSUME EntriesIInv, LedgerTypeOK', NEW i \in Lines, SyncEarn(i) \/ Tick(i)
  PROVE  EntriesIInv'
<1>1. /\ \A j \in Lines : avail'[j] # avail[j] => j = i /\ avail[j] # "due" /\ avail'[j] # "absent"
      /\ UNCHANGED <<earnedIn, reversal, payout>>
  BY DEF SyncEarn, Tick, EarnAt, EntriesIInv, LedgerTypeOK, payouts
<1>2. \A j \in Lines : avail[j] = "due" => avail'[j] = "due"
  BY <1>1
<1>3. \A r \in reversal : r.line \in Lines
  BY DEF EntriesIInv, LedgerTypeOK, ReversalRows
<1>4. \A p \in Payouts : payout[p].lines \subseteq Lines
  BY DEF EntriesIInv, LedgerTypeOK
<1>5. \A r \in reversal : avail'[r.line] # "absent"
  BY <1>1, <1>3 DEF EntriesIInv
<1>6. \A p \in Payouts : ReadStillHolds(p)'
  BY <1>1, <1>2, <1>4 DEF EntriesIInv, ReadStillHolds
<1> QED
  BY <1>1, <1>2, <1>5, <1>6 DEF EntriesIInv, ClawedBackOnce, SetOffAfterPayment

(* A reversal is written for a line that has an earning and no reversal.      *)
LEMMA ReverseKeepsInvariant ==
  ASSUME EntriesIInv, LedgerTypeOK', NEW i \in Lines, SyncReverse(i)
  PROVE  EntriesIInv'
<1>1. UNCHANGED <<avail, earnedIn, payout>>
  BY DEF SyncReverse, payouts
<1>2. CASE reversal' = reversal
  BY <1>1, <1>2 DEF EntriesIInv, ClawedBackOnce, SetOffAfterPayment, ReadStillHolds
<1>3. CASE reversal' # reversal
  <2>1. PICK row : reversal' = reversal \cup {row} /\ row.line = i /\ row.payoutId = NoPayout
    BY <1>3 DEF SyncReverse
  <2>2. CanReverse(i)
    BY <1>3 DEF SyncReverse
  <2> QED
    BY <1>1, <2>1, <2>2 DEF EntriesIInv, ClawedBackOnce, SetOffAfterPayment, ReadStillHolds,
                            CanReverse, Reversed
<1> QED
  BY <1>2, <1>3

(* Releasing held reversals leaves the rows of an open transaction alone.     *)
LEMMA ReleaseKeepsInvariant ==
  ASSUME EntriesIInv, LedgerTypeOK', SyncRelease
  PROVE  EntriesIInv'
<1>1. UNCHANGED <<avail, earnedIn, payout>>
  BY DEF SyncRelease, payouts
<1>2. reversal' = {Released(r) : r \in reversal}
  BY DEF SyncRelease
<1>3. \A r \in reversal : Released(r).line = r.line /\ Released(r).payoutId = r.payoutId
  BY DEF Released, EntriesIInv, LedgerTypeOK, ReversalRows
<1>4. ClawedBackOnce' /\ SetOffAfterPayment' /\ \A r \in reversal' : avail'[r.line] # "absent"
  BY <1>1, <1>2, <1>3 DEF EntriesIInv, ClawedBackOnce, SetOffAfterPayment
<1>5. ASSUME NEW p \in Payouts PROVE ReadStillHolds(p)'
  <2>1. \A r \in payout[p].reversals : payout[p].status = "READ" => Released(r) = r
    BY DEF SyncRelease, Locked, EntriesIInv, ReadStillHolds
  <2> QED
    BY <1>1, <1>2, <2>1 DEF EntriesIInv, ReadStillHolds
<1> QED
  BY <1>1, <1>4, <1>5 DEF EntriesIInv

(* A payout reads, under the lock, claims whose commission it settles or that *)
(* was settled before.                                                       *)
LEMMA ReadKeepsInvariant ==
  ASSUME EntriesIInv, LedgerTypeOK', NEW p \in Payouts, PayRead(p)
  PROVE  EntriesIInv'
<1>1. UNCHANGED <<avail, earnedIn, reversal>>
  BY DEF PayRead, entries
<1>2. /\ \A q \in Payouts : q # p => payout'[q] = payout[q] /\ payout[q].status # "READ"
      /\ payout'[p].lines = PayableLines /\ payout'[p].reversals = CountedReversals
  BY DEF PayRead, LedgerLocked, EntriesIInv, LedgerTypeOK
<1>3. ReadStillHolds(p)'
  <2>1. \A i \in PayableLines : avail[i] = "due"
    BY DEF PayableLines
  <2>2. ASSUME NEW r \in CountedReversals
        PROVE  r \in reversal /\ r.payoutId = NoPayout
               /\ (r.line \in PayableLines \/ earnedIn[r.line] # NoPayout)
    <3>1. r \in reversal /\ r.line \in Lines /\ avail[r.line] # "absent"
      BY DEF CountedReversals, EntriesIInv, LedgerTypeOK, ReversalRows
    <3> QED
      BY <3>1 DEF CountedReversals, CountsTowardPayout, OpenLines
  <2> QED
    BY <1>1, <1>2, <2>1, <2>2 DEF ReadStillHolds
<1>4. \A q \in Payouts : ReadStillHolds(q)'
  BY <1>2, <1>3 DEF ReadStillHolds
<1>5. \A q, s \in Payouts : payout'[q].status = "READ" /\ payout'[s].status = "READ" => q = s
  BY <1>2
<1> QED
  BY <1>1, <1>4, <1>5 DEF EntriesIInv, ClawedBackOnce, SetOffAfterPayment

(* The commit settles the lines and the claims together.                     *)
LEMMA CommitKeepsInvariant ==
  ASSUME EntriesIInv, LedgerTypeOK', NEW p \in Payouts, PayCommit(p)
  PROVE  EntriesIInv'
<1> DEFINE settled(r) == [r EXCEPT !.payoutId = IF r \in payout[p].reversals THEN p ELSE @]
<1>1. /\ UNCHANGED avail
      /\ earnedIn' = [i \in Lines |-> IF i \in payout[p].lines THEN p ELSE earnedIn[i]]
      /\ reversal' = {settled(r) : r \in reversal}
  BY DEF PayCommit
<1>2. \A q \in Payouts : q # p => payout'[q] = payout[q] /\ payout[q].status # "READ"
  BY DEF PayCommit, EntriesIInv, LedgerTypeOK
<1>3. payout'[p].status = "RECORDED"
  BY DEF PayCommit, EntriesIInv, LedgerTypeOK
<1>4. ReadStillHolds(p) /\ payout[p].status = "READ"
  BY DEF PayCommit, EntriesIInv
<1>5. \A r \in reversal : settled(r).line = r.line /\ r.line \in Lines
  BY DEF EntriesIInv, LedgerTypeOK, ReversalRows
<1>6. \A r \in reversal : r \notin payout[p].reversals => settled(r).payoutId = r.payoutId
  BY DEF EntriesIInv, LedgerTypeOK, ReversalRows
<1>7. ClawedBackOnce'
  <2>1. ASSUME NEW r \in reversal, NEW s \in reversal, settled(r).line = settled(s).line
        PROVE  settled(r) = settled(s)
    <3>1. r = s
      BY <1>5, <2>1 DEF EntriesIInv, ClawedBackOnce
    <3> QED
      BY <3>1
  <2> HIDE DEF settled
  <2> QED
    BY <1>1, <2>1 DEF ClawedBackOnce
<1>8. \A i \in Lines : earnedIn[i] # NoPayout => earnedIn'[i] # NoPayout
  BY <1>1, LedgerAssumption
<1>9. SetOffAfterPayment'
  <2>1. ASSUME NEW r \in reversal, settled(r).payoutId # NoPayout
        PROVE  earnedIn'[settled(r).line] # NoPayout
    <3>1. CASE r \in payout[p].reversals
      <4>1. r.line \in payout[p].lines \/ earnedIn[r.line] # NoPayout
        BY <1>4, <3>1 DEF ReadStillHolds
      <4> QED
        BY <1>1, <1>5, <1>8, <4>1, LedgerAssumption
    <3>2. CASE r \notin payout[p].reversals
      <4>1. earnedIn[r.line] # NoPayout
        BY <1>6, <2>1, <3>2 DEF EntriesIInv, SetOffAfterPayment
      <4> QED
        BY <1>5, <1>8, <4>1
    <3> QED
      BY <3>1, <3>2
  <2> QED
    BY <1>1, <2>1 DEF SetOffAfterPayment
<1>10. \A r \in reversal' : avail'[r.line] # "absent"
  BY <1>1, <1>5 DEF EntriesIInv
<1>11. \A i \in Lines : earnedIn'[i] # NoPayout => avail'[i] = "due"
  BY <1>1, <1>4 DEF EntriesIInv, ReadStillHolds
<1>12. \A q \in Payouts : ReadStillHolds(q)'
  BY <1>2, <1>3 DEF ReadStillHolds
<1> HIDE DEF settled
<1> QED
  BY <1>2, <1>3, <1>7, <1>9, <1>10, <1>11, <1>12 DEF EntriesIInv

(* A payout that fails or is reversed leaves the entries as they are.         *)
LEMMA EndKeepsInvariant ==
  ASSUME EntriesIInv, LedgerTypeOK', NEW p \in Payouts, PayFails(p) \/ ReversePayout(p)
  PROVE  EntriesIInv'
<1>1. UNCHANGED <<avail, earnedIn, reversal>>
  BY DEF PayFails, ReversePayout, entries
<1>2. /\ \A q \in Payouts : q # p => payout'[q] = payout[q]
      /\ payout'[p].status # "READ"
  BY DEF PayFails, ReversePayout, NewPayout, EntriesIInv, LedgerTypeOK
<1>3. \A q \in Payouts : ReadStillHolds(q)'
  BY <1>1, <1>2 DEF EntriesIInv, ReadStillHolds
<1> QED
  BY <1>1, <1>2, <1>3 DEF EntriesIInv, ClawedBackOnce, SetOffAfterPayment

LEMMA NextInvariant == EntriesIInv /\ [LedgerNext]_vars => EntriesIInv'
<1> SUFFICES ASSUME EntriesIInv, [LedgerNext]_vars PROVE EntriesIInv'
  OBVIOUS
<1>0. LedgerTypeOK'
  BY NextTypes DEF EntriesIInv
<1>1. CASE UNCHANGED vars
  BY <1>0, <1>1, QuietKeepsInvariant DEF vars
<1>2. ASSUME NEW o \in Orders, MoveOrder(o) \/ PurgeCheck(o) \/ PurgeDelete(o) \/ SyncRead(o)
      PROVE  EntriesIInv'
  BY <1>0, <1>2, QuietKeepsInvariant DEF MoveOrder, PurgeCheck, PurgeDelete, SyncRead
<1>3. ASSUME NEW i \in Lines, ApproveReturn(i) PROVE EntriesIInv'
  BY <1>0, <1>3, QuietKeepsInvariant DEF ApproveReturn
<1>4. CASE SyncReturns \/ SyncStatus \/ SyncStops
  BY <1>0, <1>4, QuietKeepsInvariant DEF SyncReturns, SyncStatus, SyncStops
<1> QED
  BY <1>0, <1>1, <1>2, <1>3, <1>4, EarningKeepsInvariant, ReverseKeepsInvariant,
     ReleaseKeepsInvariant, ReadKeepsInvariant, CommitKeepsInvariant, EndKeepsInvariant
     DEF LedgerNext

(* The invariant of the ledger holds for any number of lines, orders and      *)
(* payouts (sales-partner-ledger.service.ts, sales-partner-payout.service.ts). *)
THEOREM EntriesInvariant == LedgerSpec => []EntriesIInv
BY InitInvariant, NextInvariant, PTL DEF LedgerSpec

(* A commission is taken back at most once, whatever the reasons.             *)
THEOREM ClawBackOnce == LedgerSpec => []ClawedBackOnce
<1>1. EntriesIInv => ClawedBackOnce
  BY DEF EntriesIInv
<1> QED
  BY <1>1, EntriesInvariant, PTL

(* A claim is set off only against a commission that was paid.                *)
THEOREM ClaimsAfterPayment == LedgerSpec => []SetOffAfterPayment
<1>1. EntriesIInv => SetOffAfterPayment
  BY DEF EntriesIInv
<1> QED
  BY <1>1, EntriesInvariant, PTL

----------------------------------------------------------------------------
(* The money.  Sums over lines, over payouts and over reversals.             *)

LEMMA LineSums ==
  /\ \A S \in SUBSET Lines : Total(S) \in Nat
  /\ \A S, T \in SUBSET Lines : S \cap T = {} => Total(S \cup T) = Total(S) + Total(T)
<1>1. IsFiniteSet(Lines) /\ \A i \in Lines : CommissionOf[i] \in Nat
  BY LedgerAssumption
<1>2. ASSUME NEW S \in SUBSET Lines PROVE Total(S) \in Nat
  <2>1. IsFiniteSet(S) /\ \A i \in S : CommissionOf[i] \in Nat
    BY <1>1, FS_Subset
  <2> QED BY <2>1, SumNat DEF Total
<1>3. ASSUME NEW S \in SUBSET Lines, NEW T \in SUBSET Lines, S \cap T = {}
      PROVE  Total(S \cup T) = Total(S) + Total(T)
  BY <1>1, <1>3, SumUnion DEF Total
<1> QED
  BY <1>2, <1>3

LEMMA PayoutSums ==
  ASSUME NEW f \in [Payouts -> Nat]
  PROVE  /\ \A S \in SUBSET Payouts : SumFunctionOnSet(f, S) \in Nat
         /\ \A S, T \in SUBSET Payouts : S \cap T = {} =>
              SumFunctionOnSet(f, S \cup T) = SumFunctionOnSet(f, S) + SumFunctionOnSet(f, T)
<1>1. IsFiniteSet(Payouts) /\ \A p \in Payouts : f[p] \in Nat
  BY LedgerAssumption
<1>2. ASSUME NEW S \in SUBSET Payouts PROVE SumFunctionOnSet(f, S) \in Nat
  <2>1. IsFiniteSet(S) /\ \A p \in S : f[p] \in Nat
    BY <1>1, FS_Subset
  <2> QED BY <2>1, SumNat
<1>3. ASSUME NEW S \in SUBSET Payouts, NEW T \in SUBSET Payouts, S \cap T = {}
      PROVE  SumFunctionOnSet(f, S \cup T) = SumFunctionOnSet(f, S) + SumFunctionOnSet(f, T)
  BY <1>1, <1>3, SumUnion
<1> QED
  BY <1>2, <1>3

(* Payouts whose amount stays add up to what they did.                       *)
LEMMA AmountsKept ==
  ASSUME NEW f \in [Payouts -> Nat], NEW g \in [Payouts -> Nat], NEW S \in SUBSET Payouts,
         \A p \in S : g[p] = f[p]
  PROVE  SumFunctionOnSet(g, S) = SumFunctionOnSet(f, S)
<1>1. IsFiniteSet(S)
  BY LedgerAssumption, FS_Subset
<1>2. \A p \in S : f[p] \in Int /\ g[p] = f[p]
  OBVIOUS
<1> QED BY <1>1, <1>2, SumSame

(* No two reversals share a line, so the claims add up line by line.          *)
LEMMA ClaimsByLine ==
  ASSUME EntriesIInv, NEW rs \in SUBSET reversal
  PROVE  Claims(rs) = Total(LinesIn(rs))
<1> DEFINE h == [r \in rs |-> r.line]
           g == [r \in rs |-> CommissionOf[r.line]]
<1>1. \A r \in rs : r.line \in Lines /\ h[r] = r.line
  BY DEF EntriesIInv, LedgerTypeOK, ReversalRows
<1>2. \A r, s \in rs : h[r] = h[s] => r = s
  BY <1>1 DEF EntriesIInv, ClawedBackOnce
<1>3. IsFiniteSet(rs)
  <2>1. h \in Injection(rs, Lines)
    <3>1. h \in [rs -> Lines]
      BY <1>1
    <3> QED BY <1>2, <3>1 DEF Injection, IsInjective
  <2> HIDE DEF h
  <2> QED BY <2>1, LedgerAssumption, FS_Injection
<1>4. \A r \in rs : CommissionOf[h[r]] \in Int /\ g[r] = CommissionOf[h[r]]
  BY <1>1, LedgerAssumption
<1>5. SumFunctionOnSet(g, rs) = SumFunctionOnSet(CommissionOf, {h[r] : r \in rs})
  <2> HIDE DEF g, h
  <2> QED BY <1>2, <1>3, <1>4, SumImage
<1>6. {h[r] : r \in rs} = LinesIn(rs)
  BY <1>1 DEF LinesIn
<1> QED
  BY <1>5, <1>6 DEF Claims, Total

----------------------------------------------------------------------------
(* The invariant of the money.                                              *)

LEMMA MoneyTypes ==
  ASSUME EntriesIInv
  PROVE  /\ PaidLines \in SUBSET Lines /\ Reversed \in SUBSET Lines
         /\ \A rs \in SUBSET reversal : LinesIn(rs) \in SUBSET Lines
         /\ \A ss : WithStatus(ss) \in SUBSET Payouts
         /\ MadeGood \in SUBSET Payouts /\ OpenReturns \in SUBSET Payouts
         /\ PayableLines \in SUBSET Lines
         /\ SetOff \in SUBSET reversal /\ CountedReversals \in SUBSET reversal
BY DEF EntriesIInv, LedgerTypeOK, PaidLines, Reversed, LinesIn, WithStatus, MadeGood, OpenReturns,
       PayableLines, SetOff, CountedReversals, ReversalRows

LEMMA InitMoney == LedgerInit => MoneyIInv
<1> SUFFICES ASSUME LedgerInit PROVE MoneyIInv
  OBVIOUS
<1>1. /\ PaidLines = {} /\ MadeGood = {} /\ WithStatus({"RECORDED", "REVERSED"}) = {}
      /\ SetOff = {}
  BY DEF LedgerInit, PaidLines, MadeGood, WithStatus, SetOff, NewPayout
<1>2. LinesIn(SetOff) = {}
  BY <1>1 DEF LinesIn
<1>3. Amounts({}) = 0 /\ Total({}) = 0
  BY SumEmpty DEF Amounts, Total
<1>4. amount \in [Payouts -> Nat] /\ \A p \in Payouts : payout[p].status = "NONE"
  BY DEF LedgerInit, NewPayout
<1> QED
  BY <1>1, <1>2, <1>3, <1>4 DEF MoneyIInv, SettlesItsAmount

(* Steps that settle nothing and move no payout.                              *)
LEMMA QuietKeepsMoney ==
  ASSUME MoneyIInv, UNCHANGED <<earnedIn, returnIn, payout, amount>>,
         LinesIn(SetOff)' = LinesIn(SetOff)
  PROVE  MoneyIInv'
<1>1. /\ PaidLines' = PaidLines /\ MadeGood' = MadeGood /\ OpenReturns' = OpenReturns
      /\ WithStatus({"REVERSED"})' = WithStatus({"REVERSED"})
      /\ WithStatus({"RECORDED", "REVERSED"})' = WithStatus({"RECORDED", "REVERSED"})
  BY DEF PaidLines, MadeGood, OpenReturns, WithStatus
<1>2. \A p \in Payouts : SettlesItsAmount(p)'
  BY <1>1 DEF MoneyIInv, SettlesItsAmount, Amounts, Total, LinesIn
<1>3. Amounts(WithStatus({"RECORDED", "REVERSED"}))' = Amounts(WithStatus({"RECORDED", "REVERSED"}))
      /\ Amounts(MadeGood)' = Amounts(MadeGood)
      /\ Total(PaidLines)' = Total(PaidLines) /\ Total(LinesIn(SetOff))' = Total(LinesIn(SetOff))
  BY <1>1 DEF Amounts, Total
<1> QED
  BY <1>1, <1>2, <1>3 DEF MoneyIInv

(* The job writes and releases claims; it settles none.                       *)
LEMMA JobKeepsMoney ==
  ASSUME EntriesIInv, MoneyIInv,
         (\E i \in Lines : SyncReverse(i)) \/ SyncRelease
  PROVE  MoneyIInv'
<1>1. UNCHANGED <<earnedIn, returnIn, payout, amount>>
  BY DEF SyncReverse, SyncRelease, payouts
<1>2. ASSUME NEW i \in Lines, SyncReverse(i) PROVE LinesIn(SetOff)' = LinesIn(SetOff)
  <2> DEFINE row == [line |-> i, reason |-> sync.reason, payoutId |-> NoPayout,
                     bucket |-> IF avail[i] = "due" THEN "available" ELSE "held"]
  <2>1. reversal' = reversal \/ reversal' = reversal \cup {row}
    BY <1>2 DEF SyncReverse
  <2>2. row.payoutId = NoPayout
    OBVIOUS
  <2> HIDE DEF row
  <2>3. SetOff' = SetOff
    BY <2>1, <2>2 DEF SetOff
  <2> QED BY <2>3 DEF LinesIn
<1>3. CASE SyncRelease
  <2>1. reversal' = {Released(r) : r \in reversal}
    BY <1>3 DEF SyncRelease
  <2>2. \A r \in reversal : Released(r).line = r.line /\ Released(r).payoutId = r.payoutId
    BY DEF Released, EntriesIInv, LedgerTypeOK, ReversalRows
  <2>3. SetOff' = {Released(r) : r \in SetOff}
    <3>1. ASSUME NEW r PROVE r \in SetOff' <=> r \in {Released(s) : s \in SetOff}
      <4> HIDE DEF Released
      <4> QED BY <2>1, <2>2 DEF SetOff
    <3> QED BY <3>1
  <2>4. LinesIn(SetOff)' = LinesIn(SetOff)
    <3>1. \A r \in SetOff : Released(r).line = r.line
      BY <2>2 DEF SetOff
    <3> HIDE DEF Released
    <3> QED BY <2>3, <3>1 DEF LinesIn
  <2> QED BY <1>1, <2>4, QuietKeepsMoney
<1> QED
  BY <1>1, <1>2, <1>3, QuietKeepsMoney

(* What allocatePayoutIrr returns, with the claims added line by line.        *)
LEMMA AllocateByLine ==
  ASSUME EntriesIInv, amount \in [Payouts -> Nat]
  PROVE  /\ AllocatePayout = Total(PayableLines) + Amounts(OpenReturns)
                              - Total(LinesIn(CountedReversals))
         /\ AllocatePayout \in Int
<1>1. Claims(CountedReversals) = Total(LinesIn(CountedReversals))
  BY MoneyTypes, ClaimsByLine
<1>2. Total(PayableLines) \in Nat /\ Total(LinesIn(CountedReversals)) \in Nat
  BY MoneyTypes, LineSums
<1>3. Amounts(OpenReturns) \in Nat
  BY MoneyTypes, PayoutSums DEF Amounts
<1> QED
  BY <1>1, <1>2, <1>3 DEF AllocatePayout

LEMMA ReadKeepsMoney ==
  ASSUME EntriesIInv, MoneyIInv, NEW p \in Payouts, PayRead(p)
  PROVE  MoneyIInv'
<1>1. UNCHANGED <<earnedIn, returnIn, reversal>>
  BY DEF PayRead, entries
<1>2. /\ \A q \in Payouts \ {p} : /\ payout'[q] = payout[q] /\ amount'[q] = amount[q]
                                  /\ payout[q].status # "READ"
      /\ payout[p].status = "NONE"
      /\ payout'[p] = [status |-> "READ", lines |-> PayableLines,
                       reversals |-> CountedReversals, returns |-> OpenReturns]
      /\ amount'[p] = AllocatePayout /\ AllocatePayout > 0
  BY DEF PayRead, LedgerLocked, EntriesIInv, LedgerTypeOK, MoneyIInv
<1>3. amount' \in [Payouts -> Nat]
  <2>1. AllocatePayout \in Nat
    BY <1>2, AllocateByLine DEF MoneyIInv
  <2> QED
    BY <2>1 DEF PayRead, MoneyIInv
<1>4. /\ PaidLines' = PaidLines /\ MadeGood' = MadeGood /\ OpenReturns' = OpenReturns
      /\ SetOff' = SetOff
      /\ WithStatus({"REVERSED"})' = WithStatus({"REVERSED"})
      /\ WithStatus({"RECORDED", "REVERSED"})' = WithStatus({"RECORDED", "REVERSED"})
  BY <1>1, <1>2 DEF PaidLines, MadeGood, OpenReturns, SetOff, WithStatus
<1>5. \A S \in SUBSET Payouts : p \notin S => Amounts(S)' = Amounts(S)
  <2>1. PICK f, g : f = amount /\ g = amount'
    OBVIOUS
  <2>2. ASSUME NEW S \in SUBSET Payouts, p \notin S
        PROVE  SumFunctionOnSet(g, S) = SumFunctionOnSet(f, S)
    BY <1>2, <1>3, <2>1, <2>2, AmountsKept DEF MoneyIInv
  <2> QED
    BY <2>1, <2>2 DEF Amounts
<1>6. p \notin MadeGood /\ p \notin OpenReturns /\ p \notin WithStatus({"RECORDED", "REVERSED"})
  BY <1>2 DEF MoneyIInv, WithStatus, OpenReturns
<1>7. SettlesItsAmount(p)'
  <2>1. PayableLines \cap PaidLines = {}
    BY DEF PayableLines, PaidLines
  <2>2. Amounts(OpenReturns)' = Amounts(OpenReturns)
    BY <1>4, <1>5, <1>6, MoneyTypes
  <2>3. amount'[p] = Total(PayableLines) + Amounts(OpenReturns) - Total(LinesIn(CountedReversals))
    BY <1>2, AllocateByLine DEF MoneyIInv
  <2> QED
    BY <1>2, <1>4, <2>1, <2>2, <2>3 DEF SettlesItsAmount, Amounts, Total, LinesIn
<1>8. \A q \in Payouts : SettlesItsAmount(q)'
  BY <1>2, <1>7 DEF SettlesItsAmount
<1>9. /\ Amounts(WithStatus({"RECORDED", "REVERSED"}))' = Amounts(WithStatus({"RECORDED", "REVERSED"}))
      /\ Amounts(MadeGood)' = Amounts(MadeGood)
      /\ Total(PaidLines)' = Total(PaidLines) /\ Total(LinesIn(SetOff))' = Total(LinesIn(SetOff))
  BY <1>4, <1>5, <1>6, MoneyTypes DEF Amounts, Total, LinesIn
<1>10. \A q \in Payouts : payout'[q].status # "NONE" => amount'[q] > 0
  BY <1>2 DEF MoneyIInv
<1> QED
  BY <1>3, <1>4, <1>8, <1>9, <1>10 DEF MoneyIInv

(* A commit moves the lines, the claims and the returned amounts it settles    *)
(* over to the payout, which by then has exactly their balance.               *)
LEMMA CommitKeepsMoney ==
  ASSUME EntriesIInv, MoneyIInv, NEW p \in Payouts, PayCommit(p)
  PROVE  MoneyIInv'
<1> DEFINE lines == payout[p].lines
           returns == payout[p].returns
           claims == payout[p].reversals
           settled(r) == [r EXCEPT !.payoutId = IF r \in claims THEN p ELSE @]
           Done == WithStatus({"RECORDED", "REVERSED"})
<1>1. /\ UNCHANGED amount
      /\ earnedIn' = [i \in Lines |-> IF i \in lines THEN p ELSE earnedIn[i]]
      /\ returnIn' = [q \in Payouts |-> IF q \in returns THEN p ELSE returnIn[q]]
      /\ reversal' = {settled(r) : r \in reversal}
  BY DEF PayCommit
<1>2. \A q \in Payouts \ {p} : payout'[q] = payout[q] /\ payout[q].status # "READ"
  BY DEF PayCommit, EntriesIInv, LedgerTypeOK
<1>3. payout[p].status = "READ" /\ payout'[p].status = "RECORDED" /\ p # NoPayout
  BY LedgerAssumption DEF PayCommit, EntriesIInv, LedgerTypeOK
<1>4. /\ amount[p] = Total(lines) + Amounts(returns) - Total(LinesIn(claims))
      /\ lines \cap PaidLines = {} /\ returns \subseteq OpenReturns
      /\ lines \in SUBSET Lines /\ returns \in SUBSET Payouts
  BY <1>3 DEF MoneyIInv, SettlesItsAmount, EntriesIInv, LedgerTypeOK
<1>5. \A r \in claims : r \in reversal /\ r.payoutId = NoPayout
  BY <1>3 DEF EntriesIInv, ReadStillHolds
<1>6. PaidLines' = PaidLines \cup lines
  BY <1>1, <1>3, <1>4 DEF PaidLines
<1>7. MadeGood' = MadeGood \cup returns
  BY <1>1, <1>3, <1>4 DEF MadeGood
<1>8. Done' = Done \cup {p} /\ p \notin Done
  BY <1>2, <1>3 DEF WithStatus
<1>9. WithStatus({"REVERSED"})' = WithStatus({"REVERSED"})
  BY <1>2, <1>3 DEF WithStatus
<1>10. LinesIn(SetOff)' = LinesIn(SetOff) \cup LinesIn(claims)
  <2>1. \A r \in reversal : /\ settled(r).line = r.line
                            /\ settled(r).payoutId = IF r \in claims THEN p ELSE r.payoutId
    BY DEF EntriesIInv, LedgerTypeOK, ReversalRows
  <2>2. LinesIn(SetOff)' = {r.line : r \in {s \in reversal : s.payoutId # NoPayout \/ s \in claims}}
    <3> HIDE DEF settled
    <3>1. SetOff' = {settled(r) : r \in {s \in reversal : s.payoutId # NoPayout \/ s \in claims}}
      <4>1. ASSUME NEW r PROVE r \in SetOff' <=>
                 r \in {settled(t) : t \in {s \in reversal : s.payoutId # NoPayout \/ s \in claims}}
        BY <1>1, <1>3, <2>1 DEF SetOff
      <4> QED BY <4>1
    <3> QED BY <2>1, <3>1 DEF LinesIn
  <2>3. {s \in reversal : s.payoutId # NoPayout \/ s \in claims} = SetOff \cup claims
    BY <1>5 DEF SetOff
  <2> QED BY <2>2, <2>3 DEF LinesIn
<1>11. LinesIn(SetOff) \cap LinesIn(claims) = {}
  BY <1>5 DEF LinesIn, SetOff, EntriesIInv, ClawedBackOnce
<1>12. MadeGood \cap returns = {} /\ returns \subseteq WithStatus({"REVERSED"})
  BY <1>4 DEF MadeGood, OpenReturns, WithStatus
<1> HIDE DEF lines, returns, claims, settled, Done
<1>13. claims \in SUBSET reversal
  BY <1>5
<1>14. /\ Total(PaidLines)' = Total(PaidLines) + Total(lines)
       /\ Total(LinesIn(SetOff))' = Total(LinesIn(SetOff)) + Total(LinesIn(claims))
  <2>1. Total(PaidLines)' = Total(PaidLines') /\ Total(LinesIn(SetOff))' = Total(LinesIn(SetOff)')
    BY DEF Total
  <2> QED
    BY <1>4, <1>6, <1>10, <1>11, <1>13, <2>1, MoneyTypes, LineSums
<1>15. /\ Amounts(Done)' = Amounts(Done) + amount[p]
       /\ Amounts(MadeGood)' = Amounts(MadeGood) + Amounts(returns)
  <2>1. Amounts(Done)' = Amounts(Done \cup {p}) /\ Amounts(MadeGood)' = Amounts(MadeGood \cup returns)
    BY <1>1, <1>7, <1>8 DEF Amounts
  <2>2. Done \in SUBSET Payouts /\ MadeGood \in SUBSET Payouts /\ amount \in [Payouts -> Nat]
    BY MoneyTypes DEF Done, MoneyIInv
  <2>3. Amounts({p}) = amount[p]
    <3>1. {} \cup {p} = {p} /\ IsFiniteSet({}) /\ amount[p] \in Int
      BY <2>2, FS_EmptySet
    <3>2. SumFunctionOnSet(amount, {} \cup {p}) = SumFunctionOnSet(amount, {}) + amount[p]
      BY <3>1, SumAdd
    <3> QED BY <3>1, <3>2, SumEmpty DEF Amounts
  <2>4. Amounts(Done \cup {p}) = Amounts(Done) + Amounts({p})
    BY <1>8, <2>2, PayoutSums DEF Amounts
  <2>5. Amounts(MadeGood \cup returns) = Amounts(MadeGood) + Amounts(returns)
    BY <1>4, <1>12, <2>2, PayoutSums DEF Amounts
  <2> QED BY <2>1, <2>3, <2>4, <2>5
<1>16. Amounts(Done) - Amounts(MadeGood) = Total(PaidLines) - Total(LinesIn(SetOff))
  BY DEF MoneyIInv, Done
<1>17. (Amounts(Done) - Amounts(MadeGood) = Total(PaidLines) - Total(LinesIn(SetOff)))'
  <2>1. /\ Total(PaidLines) \in Nat /\ Total(LinesIn(SetOff)) \in Nat
        /\ Total(lines) \in Nat /\ Total(LinesIn(claims)) \in Nat
    BY <1>4, <1>13, MoneyTypes, LineSums
  <2>2. Amounts(Done) \in Nat /\ Amounts(MadeGood) \in Nat /\ Amounts(returns) \in Nat
    BY <1>4, MoneyTypes, PayoutSums DEF Amounts, Done, MoneyIInv
  <2> QED
    BY <1>4, <1>14, <1>15, <1>16, <2>1, <2>2
<1>18. \A q \in Payouts : SettlesItsAmount(q)'
  BY <1>2, <1>3 DEF SettlesItsAmount
<1>19. MadeGood' \subseteq WithStatus({"REVERSED"})'
  BY <1>7, <1>9, <1>12 DEF MoneyIInv
<1>20. amount' \in [Payouts -> Nat] /\ \A q \in Payouts : payout'[q].status # "NONE" => amount'[q] > 0
  BY <1>1, <1>2, <1>3 DEF MoneyIInv
<1> QED
  BY <1>17, <1>18, <1>19, <1>20 DEF MoneyIInv, Done

LEMMA EndKeepsMoney ==
  ASSUME EntriesIInv, MoneyIInv, NEW p \in Payouts, PayFails(p) \/ ReversePayout(p)
  PROVE  MoneyIInv'
<1>1. UNCHANGED <<earnedIn, returnIn, reversal>>
  BY DEF PayFails, ReversePayout, entries
<1>2. /\ \A q \in Payouts \ {p} : payout'[q] = payout[q] /\ amount'[q] = amount[q]
      /\ \A q \in Payouts : payout'[q].status # "READ"
      /\ \/ payout'[p].status = "NONE" /\ payout[p].status = "READ" /\ amount'[p] = 0
         \/ payout'[p].status = "REVERSED" /\ payout[p].status = "RECORDED" /\ amount'[p] = amount[p]
      /\ amount' \in [Payouts -> Nat]
  <2>1. CASE PayFails(p)
    BY <2>1 DEF PayFails, NewPayout, EntriesIInv, LedgerTypeOK, MoneyIInv
  <2>2. CASE ReversePayout(p)
    BY <2>2 DEF ReversePayout, LedgerLocked, EntriesIInv, LedgerTypeOK, MoneyIInv
  <2> QED
    BY <2>1, <2>2
<1>3. /\ PaidLines' = PaidLines /\ MadeGood' = MadeGood /\ SetOff' = SetOff
      /\ WithStatus({"RECORDED", "REVERSED"})' = WithStatus({"RECORDED", "REVERSED"})
      /\ WithStatus({"REVERSED"}) \subseteq WithStatus({"REVERSED"})'
  BY <1>1, <1>2 DEF PaidLines, MadeGood, SetOff, WithStatus
<1>4. \A S \in SUBSET WithStatus({"RECORDED", "REVERSED"}) : Amounts(S)' = Amounts(S)
  <2>1. PICK f, g : f = amount /\ g = amount'
    OBVIOUS
  <2>2. ASSUME NEW S \in SUBSET WithStatus({"RECORDED", "REVERSED"})
        PROVE  SumFunctionOnSet(g, S) = SumFunctionOnSet(f, S)
    <3>1. S \in SUBSET Payouts /\ \A q \in S : g[q] = f[q]
      BY <1>2, <2>1 DEF WithStatus
    <3> QED BY <1>2, <2>1, <3>1, AmountsKept DEF MoneyIInv
  <2> QED
    BY <2>1, <2>2 DEF Amounts
<1>5. MadeGood \in SUBSET WithStatus({"RECORDED", "REVERSED"})
  BY DEF MoneyIInv, WithStatus
<1>6. /\ Amounts(WithStatus({"RECORDED", "REVERSED"}))' = Amounts(WithStatus({"RECORDED", "REVERSED"}))
      /\ Amounts(MadeGood)' = Amounts(MadeGood)
      /\ Total(PaidLines)' = Total(PaidLines) /\ Total(LinesIn(SetOff))' = Total(LinesIn(SetOff))
  BY <1>3, <1>4, <1>5 DEF Amounts, Total, LinesIn
<1>7. \A q \in Payouts : SettlesItsAmount(q)'
  BY <1>2 DEF SettlesItsAmount
<1>8. \A q \in Payouts : payout'[q].status # "NONE" => amount'[q] > 0
  BY <1>2 DEF MoneyIInv
<1> QED
  BY <1>2, <1>3, <1>6, <1>7, <1>8 DEF MoneyIInv

LEMMA NextMoney == EntriesIInv /\ MoneyIInv /\ [LedgerNext]_vars => MoneyIInv'
<1> SUFFICES ASSUME EntriesIInv, MoneyIInv, [LedgerNext]_vars PROVE MoneyIInv'
  OBVIOUS
<1>1. ASSUME UNCHANGED <<earnedIn, returnIn, reversal, payout, amount>> PROVE MoneyIInv'
  <2>1. LinesIn(SetOff)' = LinesIn(SetOff)
    BY <1>1 DEF LinesIn, SetOff
  <2> QED
    BY <1>1, <2>1, QuietKeepsMoney
<1>2. CASE UNCHANGED vars
  BY <1>1, <1>2 DEF vars, entries, payouts
<1>3. ASSUME NEW o \in Orders, MoveOrder(o) \/ PurgeCheck(o) \/ PurgeDelete(o) \/ SyncRead(o)
      PROVE  MoneyIInv'
  BY <1>1, <1>3 DEF MoveOrder, PurgeCheck, PurgeDelete, SyncRead, entries, payouts
<1>4. ASSUME NEW i \in Lines, ApproveReturn(i) \/ SyncEarn(i) \/ Tick(i) PROVE MoneyIInv'
  BY <1>1, <1>4 DEF ApproveReturn, SyncEarn, Tick, entries, payouts
<1>5. CASE SyncReturns \/ SyncStatus \/ SyncStops
  BY <1>1, <1>5 DEF SyncReturns, SyncStatus, SyncStops, entries, payouts
<1> QED
  BY <1>2, <1>3, <1>4, <1>5, JobKeepsMoney, ReadKeepsMoney, CommitKeepsMoney, EndKeepsMoney
     DEF LedgerNext

(* The whole invariant: besides the entries, the amounts of the payouts that   *)
(* committed are always the commissions paid less the claims set off and the  *)
(* returned amounts made good (sales-partner-payout.service.ts:187-228).      *)
THEOREM LedgerInvariant == LedgerSpec => []LedgerIInv
<1>1. LedgerInit => LedgerIInv
  BY InitInvariant, InitMoney DEF LedgerIInv
<1>2. LedgerIInv /\ [LedgerNext]_vars => LedgerIInv'
  BY NextInvariant, NextMoney DEF LedgerIInv
<1> QED
  BY <1>1, <1>2, PTL DEF LedgerSpec

----------------------------------------------------------------------------
(* The ledger implements the account.                                       *)

LEMMA SentKept == ASSUME UNCHANGED <<payout, amount>> PROVE Sent' = Sent
BY DEF Sent, Amounts, WithStatus

LEMMA SentNat == ASSUME LedgerIInv PROVE Sent \in Nat
BY MoneyTypes, PayoutSums DEF Sent, Amounts, LedgerIInv, MoneyIInv

LEMMA InitAccount == LedgerInit => Account!AccountInit
<1> SUFFICES ASSUME LedgerInit PROVE Account!AccountInit
  OBVIOUS
<1>1. WithStatus({"READ", "RECORDED"}) = {}
  BY DEF LedgerInit, WithStatus, NewPayout
<1>2. Sent = 0
  BY <1>1, SumEmpty DEF Sent, Amounts
<1> QED
  BY <1>2 DEF LedgerInit, Account!AccountInit, Reversed

(* An earning written or fallen due is the account's Earn or FallDue.         *)
LEMMA EarningImplements ==
  ASSUME LedgerIInv, NEW i \in Lines, SyncEarn(i) \/ Tick(i)
  PROVE  Account!AccountNext \/ UNCHANGED Account!account
<1>1. /\ Sent' = Sent
      /\ Reversed' = Reversed
      /\ avail' \in [Lines -> {"absent", "unset", "future", "due"}]
      /\ avail \in [Lines -> {"absent", "unset", "future", "due"}]
      /\ \A j \in Lines : avail'[j] # avail[j] => j = i /\ avail[j] # "due" /\ avail'[j] # "absent"
  BY NextTypes, SentKept DEF SyncEarn, Tick, EarnAt, payouts, Reversed, LedgerIInv, EntriesIInv,
     LedgerTypeOK, LedgerNext
<1>2. CASE avail' = avail
  BY <1>1, <1>2 DEF Account!account
<1>3. CASE avail[i] = "absent" /\ avail'[i] # "absent"
  <2>1. Account!Earn(i)
    BY <1>1, <1>3 DEF Account!Earn
  <2> QED BY <2>1 DEF Account!AccountNext
<1>4. CASE avail[i] # "absent" /\ avail[i] # "due" /\ avail'[i] = "due"
  <2>1. Account!FallDue(i)
    BY <1>1, <1>4 DEF Account!FallDue
  <2> QED BY <2>1 DEF Account!AccountNext
<1>5. CASE avail[i] # "absent" /\ avail'[i] # "absent" /\ avail'[i] # "due" /\ avail[i] # "due"
  BY <1>1, <1>5 DEF Account!account
<1> QED
  BY <1>1, <1>2, <1>3, <1>4, <1>5

(* A reversal is the account's ClawBack.                                      *)
LEMMA ReverseImplements ==
  ASSUME LedgerIInv, NEW i \in Lines, SyncReverse(i)
  PROVE  Account!AccountNext \/ UNCHANGED Account!account
<1>1. Sent' = Sent /\ avail' = avail
  BY SentKept DEF SyncReverse, payouts
<1>2. CASE reversal' = reversal
  BY <1>1, <1>2 DEF Account!account, Reversed
<1>3. CASE reversal' # reversal
  <2>1. CanReverse(i)
    BY <1>3 DEF SyncReverse
  <2>2. PICK row : reversal' = reversal \cup {row} /\ row.line = i
    BY <1>3 DEF SyncReverse
  <2>3. Reversed' = Reversed \cup {i}
    BY <2>2 DEF Reversed
  <2>4. Account!ClawBack(i)
    BY <1>1, <2>1, <2>3 DEF Account!ClawBack, CanReverse
  <2> QED BY <2>4 DEF Account!AccountNext
<1> QED
  BY <1>2, <1>3

(* Releasing a claim and committing a payout change nothing the account shows. *)
LEMMA SettlingImplements ==
  ASSUME LedgerIInv, SyncRelease \/ \E p \in Payouts : PayCommit(p)
  PROVE  UNCHANGED Account!account
<1>1. CASE SyncRelease
  <2>1. Sent' = Sent /\ avail' = avail /\ reversal' = {Released(r) : r \in reversal}
    BY <1>1, SentKept DEF SyncRelease, payouts
  <2>2. \A r \in reversal : Released(r).line = r.line
    BY DEF Released, LedgerIInv, EntriesIInv, LedgerTypeOK, ReversalRows
  <2>3. Reversed' = Reversed
    <3> HIDE DEF Released
    <3> QED BY <2>1, <2>2 DEF Reversed
  <2> QED
    BY <2>1, <2>3 DEF Account!account
<1>2. ASSUME NEW p \in Payouts, PayCommit(p) PROVE UNCHANGED Account!account
  <2> DEFINE settled(r) == [r EXCEPT !.payoutId = IF r \in payout[p].reversals THEN p ELSE @]
  <2>1. reversal' = {settled(r) : r \in reversal} /\ UNCHANGED <<avail, amount>>
    BY <1>2 DEF PayCommit
  <2>2. \A r \in reversal : settled(r).line = r.line
    BY DEF LedgerIInv, EntriesIInv, LedgerTypeOK, ReversalRows
  <2>3. Reversed' = Reversed
    <3> HIDE DEF settled
    <3> QED BY <2>1, <2>2 DEF Reversed
  <2>4. WithStatus({"READ", "RECORDED"})' = WithStatus({"READ", "RECORDED"})
    BY <1>2 DEF PayCommit, WithStatus, LedgerIInv, EntriesIInv, LedgerTypeOK
  <2>5. Sent' = Sent
    BY <2>1, <2>4 DEF Sent, Amounts
  <2> QED
    BY <2>1, <2>3, <2>5 DEF Account!account
<1> QED
  BY <1>1, <1>2

(* A failed or reversed payout returns its whole amount.                      *)
LEMMA EndImplements ==
  ASSUME LedgerIInv, NEW p \in Payouts, PayFails(p) \/ ReversePayout(p)
  PROVE  Account!AccountNext
<1> DEFINE W == WithStatus({"READ", "RECORDED"})
<1>1. /\ UNCHANGED <<avail, reversal>>
      /\ \A q \in Payouts \ {p} : payout'[q] = payout[q] /\ amount'[q] = amount[q]
      /\ payout[p].status \in {"READ", "RECORDED"}
      /\ payout'[p].status \in {"NONE", "REVERSED"}
      /\ amount' \in [Payouts -> Nat] /\ amount \in [Payouts -> Nat] /\ amount[p] > 0
  <2>1. CASE PayFails(p)
    BY <2>1 DEF PayFails, NewPayout, entries, LedgerIInv, EntriesIInv, LedgerTypeOK, MoneyIInv
  <2>2. CASE ReversePayout(p)
    BY <2>2 DEF ReversePayout, entries, LedgerIInv, EntriesIInv, LedgerTypeOK, MoneyIInv
  <2> QED
    BY <2>1, <2>2
<1>2. W' = W \ {p} /\ p \in W
  BY <1>1 DEF WithStatus
<1>3. W \in SUBSET Payouts
  BY DEF WithStatus
<1> HIDE DEF W
<1>4. Sent' = Amounts(W \ {p})
  <2>1. PICK f, g : f = amount /\ g = amount'
    OBVIOUS
  <2>2. \A q \in W \ {p} : g[q] = f[q]
    BY <1>1, <1>3, <2>1
  <2>3. SumFunctionOnSet(g, W \ {p}) = SumFunctionOnSet(f, W \ {p})
    BY <1>1, <1>3, <2>1, <2>2, AmountsKept
  <2>4. Sent' = SumFunctionOnSet(g, W \ {p})
    BY <1>2, <2>1 DEF Sent, Amounts, W
  <2> QED
    BY <2>1, <2>3, <2>4 DEF Amounts
<1>5. Sent = amount[p] + Amounts(W \ {p})
  <2>1. IsFiniteSet(W) /\ W \in SUBSET W /\ \A q \in W : amount[q] \in Int
    BY <1>1, <1>3, LedgerAssumption, FS_Subset
  <2>2. SumFunctionOnSet(amount, W) = amount[p] + SumFunctionOnSet(amount, W \ {p})
    BY <1>2, <2>1, SumRemove
  <2> QED
    BY <2>2 DEF Sent, Amounts, W
<1>6. Amounts(W \ {p}) \in Nat /\ amount[p] \in Nat
  BY <1>1, <1>3, PayoutSums DEF Amounts
<1>7. Sent' \in 0..(Sent - 1)
  BY <1>1, <1>4, <1>5, <1>6
<1>8. Account!Return
  BY <1>1, <1>7 DEF Account!Return, Reversed
<1> QED
  BY <1>8 DEF Account!AccountNext

DueLines == {i \in Lines : avail[i] = "due"}

(* What a payout reads is what is due and not taken back beyond what was sent. *)
LEMMA AllocatesTheRest ==
  ASSUME LedgerIInv, ~LedgerLocked
  PROVE  Sent + AllocatePayout = Total(DueLines \ Reversed)
<1> DEFINE paid == Total(PaidLines)
           payable == Total(PayableLines)
           setOff == Total(LinesIn(SetOff))
           counted == Total(LinesIn(CountedReversals))
<1>1. EntriesIInv /\ MoneyIInv
  BY DEF LedgerIInv
<1>2. /\ paid \in Nat /\ payable \in Nat /\ setOff \in Nat /\ counted \in Nat
  BY <1>1, MoneyTypes, LineSums
<1>3. Total(DueLines) = paid + payable
  <2>1. DueLines = PaidLines \cup PayableLines /\ PaidLines \cap PayableLines = {}
    BY <1>1 DEF DueLines, PaidLines, PayableLines, EntriesIInv
  <2> QED
    BY <1>1, <2>1, MoneyTypes, LineSums
<1>4. Total(DueLines \cap Reversed) = setOff + counted
  <2>1. \A r \in reversal : r.line \in Lines /\ avail[r.line] # "absent"
    BY <1>1 DEF EntriesIInv, LedgerTypeOK, ReversalRows
  <2>2. \A r \in SetOff : r \in reversal /\ avail[r.line] = "due"
    BY <1>1, <2>1 DEF SetOff, EntriesIInv, SetOffAfterPayment
  <2>3. \A r \in CountedReversals : r \in reversal /\ avail[r.line] = "due" /\ r.payoutId = NoPayout
    BY <1>1, <2>1 DEF CountedReversals, CountsTowardPayout, OpenLines, PayableLines, EntriesIInv
  <2>4. \A r \in reversal : avail[r.line] = "due" => r \in SetOff \/ r \in CountedReversals
    BY <2>1 DEF SetOff, CountedReversals, CountsTowardPayout, OpenLines, PayableLines
  <2>5. DueLines \cap Reversed = LinesIn(SetOff) \cup LinesIn(CountedReversals)
    BY <2>1, <2>2, <2>3, <2>4 DEF DueLines, Reversed, LinesIn
  <2>6. LinesIn(SetOff) \cap LinesIn(CountedReversals) = {}
    BY <1>1, <2>2, <2>3 DEF LinesIn, SetOff, EntriesIInv, ClawedBackOnce
  <2> QED
    BY <1>1, <2>5, <2>6, MoneyTypes, LineSums
<1>5. Total(DueLines) = Total(DueLines \cap Reversed) + Total(DueLines \ Reversed)
      /\ Total(DueLines \ Reversed) \in Nat
  <2>1. /\ DueLines \cap Reversed \in SUBSET Lines /\ DueLines \ Reversed \in SUBSET Lines
        /\ (DueLines \cap Reversed) \cap (DueLines \ Reversed) = {}
        /\ DueLines = (DueLines \cap Reversed) \cup (DueLines \ Reversed)
    BY DEF DueLines
  <2> QED
    BY <2>1, LineSums
<1>6. Amounts(WithStatus({"RECORDED", "REVERSED"})) = Sent + Amounts(MadeGood) + Amounts(OpenReturns)
  <2>1. /\ WithStatus({"RECORDED", "REVERSED"})
             = WithStatus({"READ", "RECORDED"}) \cup WithStatus({"REVERSED"})
        /\ WithStatus({"READ", "RECORDED"}) \cap WithStatus({"REVERSED"}) = {}
    BY DEF LedgerLocked, WithStatus
  <2>2. WithStatus({"REVERSED"}) = MadeGood \cup OpenReturns /\ MadeGood \cap OpenReturns = {}
    BY <1>1 DEF MadeGood, OpenReturns, WithStatus, MoneyIInv
  <2>3. amount \in [Payouts -> Nat]
    BY <1>1 DEF MoneyIInv
  <2>4. Amounts(WithStatus({"RECORDED", "REVERSED"}))
          = Amounts(WithStatus({"READ", "RECORDED"})) + Amounts(WithStatus({"REVERSED"}))
    BY <1>1, <2>1, <2>3, MoneyTypes, PayoutSums DEF Amounts
  <2>5. Amounts(WithStatus({"REVERSED"})) = Amounts(MadeGood) + Amounts(OpenReturns)
    BY <1>1, <2>2, <2>3, MoneyTypes, PayoutSums DEF Amounts
  <2>6. Sent \in Nat /\ Amounts(MadeGood) \in Nat /\ Amounts(OpenReturns) \in Nat
    BY <1>1, <2>3, SentNat, MoneyTypes, PayoutSums DEF Amounts
  <2> QED
    BY <2>4, <2>5, <2>6 DEF Sent
<1>7. Amounts(WithStatus({"RECORDED", "REVERSED"})) - Amounts(MadeGood) = paid - setOff
  BY <1>1 DEF MoneyIInv
<1>8. AllocatePayout = payable + Amounts(OpenReturns) - counted
  BY <1>1, AllocateByLine DEF MoneyIInv
<1>9. Sent \in Nat /\ Amounts(MadeGood) \in Nat /\ Amounts(OpenReturns) \in Nat
  BY <1>1, SentNat, MoneyTypes, PayoutSums DEF Amounts, MoneyIInv
<1> HIDE DEF paid, payable, setOff, counted
<1> QED
  BY <1>2, <1>3, <1>4, <1>5, <1>6, <1>7, <1>8, <1>9

(* The read of a payout is the account's Transfer.                            *)
LEMMA ReadImplements ==
  ASSUME LedgerIInv, NEW p \in Payouts, PayRead(p)
  PROVE  Account!AccountNext
<1> DEFINE W == WithStatus({"READ", "RECORDED"})
<1>1. /\ UNCHANGED <<avail, reversal>>
      /\ \A q \in Payouts \ {p} : payout'[q] = payout[q] /\ amount'[q] = amount[q]
      /\ payout[p].status = "NONE" /\ payout'[p].status = "READ"
      /\ amount'[p] = AllocatePayout /\ AllocatePayout > 0 /\ ~LedgerLocked
      /\ amount \in [Payouts -> Nat]
  BY DEF PayRead, entries, LedgerIInv, EntriesIInv, LedgerTypeOK, MoneyIInv
<1>2. amount' \in [Payouts -> Nat]
  BY ReadKeepsMoney DEF LedgerIInv, MoneyIInv
<1>3. W' = W \cup {p} /\ p \notin W /\ W \in SUBSET Payouts
  BY <1>1 DEF WithStatus
<1> HIDE DEF W
<1>4. Sent' = Sent + AllocatePayout
  <2>1. PICK f, g : f = amount /\ g = amount'
    OBVIOUS
  <2>2. \A q \in W : g[q] = f[q]
    BY <1>1, <1>3, <2>1
  <2>3. SumFunctionOnSet(g, W) = SumFunctionOnSet(f, W)
    BY <1>1, <1>2, <1>3, <2>1, <2>2, AmountsKept
  <2>4. IsFiniteSet(W) /\ \A q \in W \cup {p} : g[q] \in Int
    BY <1>2, <1>3, <2>1, LedgerAssumption, FS_Subset
  <2>5. SumFunctionOnSet(g, W \cup {p}) = SumFunctionOnSet(g, W) + g[p]
    BY <1>3, <2>4, SumAdd
  <2>6. Sent' = SumFunctionOnSet(g, W \cup {p}) /\ Sent = SumFunctionOnSet(f, W)
    BY <1>3, <2>1 DEF Sent, Amounts, W
  <2> QED
    BY <1>1, <2>1, <2>3, <2>5, <2>6
<1>5. Account!Standing = Total(DueLines \ Reversed)
  BY DEF Account!Standing, Account!Total, Account!SumFunctionOnSet, Account!FoldFunctionOnSet,
     Account!MapThenFoldSet, Total, SumFunctionOnSet, FoldFunctionOnSet, MapThenFoldSet, DueLines
<1>6. Sent' = Account!Standing
  BY <1>1, <1>4, <1>5, AllocatesTheRest
<1>7. Sent < Account!Standing
  BY <1>1, <1>4, <1>6, SentNat, AllocateByLine DEF LedgerIInv
<1>8. Account!Transfer
  BY <1>1, <1>6, <1>7 DEF Account!Transfer, Reversed
<1> QED
  BY <1>8 DEF Account!AccountNext

LEMMA NextImplements ==
  LedgerIInv /\ [LedgerNext]_vars => [Account!AccountNext]_(Account!account)
<1> SUFFICES ASSUME LedgerIInv, [LedgerNext]_vars
             PROVE  Account!AccountNext \/ UNCHANGED Account!account
  OBVIOUS
<1>1. ASSUME UNCHANGED <<avail, reversal, payout, amount>> PROVE UNCHANGED Account!account
  BY <1>1, SentKept DEF Account!account, Reversed
<1>2. CASE UNCHANGED vars
  BY <1>1, <1>2 DEF vars, entries, payouts
<1>3. ASSUME NEW o \in Orders, MoveOrder(o) \/ PurgeCheck(o) \/ PurgeDelete(o) \/ SyncRead(o)
      PROVE  UNCHANGED Account!account
  BY <1>1, <1>3 DEF MoveOrder, PurgeCheck, PurgeDelete, SyncRead, entries, payouts
<1>4. ASSUME NEW i \in Lines, ApproveReturn(i) PROVE UNCHANGED Account!account
  BY <1>1, <1>4 DEF ApproveReturn, entries, payouts
<1>5. CASE SyncReturns \/ SyncStatus \/ SyncStops
  BY <1>1, <1>5 DEF SyncReturns, SyncStatus, SyncStops, entries, payouts
<1> QED
  BY <1>2, <1>3, <1>4, <1>5, EarningImplements, ReverseImplements, SettlingImplements,
     EndImplements, ReadImplements DEF LedgerNext

(* The ledger, with its keys, jobs, locks and payouts, is an account that      *)
(* brings the money sent exactly to the commissions due and not taken back    *)
(* (sales-partner-payout.service.ts:187-228, allocatePayoutIrr).             *)
THEOREM LedgerImplementsAccount == LedgerSpec => ImplementsAccount
<1> QED
  BY InitAccount, NextImplements, LedgerInvariant, PTL DEF LedgerSpec, ImplementsAccount, Account!AccountSpec
=============================================================================
