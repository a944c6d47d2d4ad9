------------------------- MODULE Instalments_proofs -------------------------
(***************************************************************************)
(* The types, the lock discipline and the sums of Instalments hold for any    *)
(* orders, amounts, limits and requests.                                     *)
(***************************************************************************)
EXTENDS Instalments, SumTheorems, TLAPS

USE InstalmentAssumption

LEMMA AmountIsInteger == \A o \in Orders : \A n \in Terms(o) : AmountOf(o, n) \in Int
BY SMT DEF AmountOf, Terms

LEMMA TermsArePositive ==
  \A o \in Orders : /\ \A n \in Terms(o) : n \in Nat \ {0}
                    /\ Remainder[o] # 0 => 1 \in Terms(o)
BY SMT DEF Terms

\* What a request that writes no table has to keep.
LEMMA TablesKept ==
  ASSUME ContractIInv, UNCHANGED tables, InstalmentTypeOK', OneHolder',
         \A r \in Requests : LockSound(r)'
  PROVE  ContractIInv'
BY DEF ContractIInv, ClosedWhenPaid, RowSound, tables

LEMMA InitHolds == InstalmentInit => ContractIInv
<1> SUFFICES ASSUME InstalmentInit PROVE ContractIInv
  OBVIOUS
<1> USE DEF InstalmentInit
<1>1. InstalmentTypeOK
  BY DEF InstalmentTypeOK, NoRow, Rows, RowStatuses
<1>2. ClosedWhenPaid
  BY DEF ClosedWhenPaid
<1>3. OneHolder
  BY DEF OneHolder, Idle, Holds
<1>4. \A o \in Orders : \A n \in Terms(o) : RowSound(o, n, schedule[o][n])
  <2> SUFFICES ASSUME NEW o \in Orders, NEW n \in Terms(o) PROVE RowSound(o, n, schedule[o][n])
    OBVIOUS
  <2>1. schedule[o][n] = [status |-> "NONE", paid |-> 0, key |-> NoKey]
    BY DEF NoRow
  <2>2. 0 <= AmountOf(o, n)
    BY SMT DEF AmountOf, Terms
  <2> QED
    BY <2>1, <2>2 DEF RowSound
<1>5. \A r \in Requests : LockSound(r)
  BY DEF LockSound, Idle
<1> QED
  BY <1>1, <1>2, <1>3, <1>4, <1>5 DEF ContractIInv

(* Requests that lock: one step of TablesKept each.                          *)

LEMMA BeginKeeps ==
  ASSUME ContractIInv, NEW r \in Requests, NEW o \in Orders,
         CreateCheck(r, o) \/ CancelLock(r, o)
  PROVE  ContractIInv'
<1> USE DEF ContractIInv
<1>1. UNCHANGED tables
  BY DEF CreateCheck, CancelLock
<1>2. InstalmentTypeOK'
  BY DEF CreateCheck, CancelLock, InstalmentTypeOK, tables
<1>3. OneHolder'
  BY DEF CreateCheck, CancelLock, InstalmentTypeOK, OneHolder, Holds, CustomerLocked, ContractLocked
<1>4. ASSUME NEW s \in Requests PROVE LockSound(s)'
  <2>1. CASE s = r
    BY <2>1 DEF CreateCheck, CancelLock, InstalmentTypeOK, LockSound, tables
  <2>2. CASE s # r
    BY <1>1, <2>2 DEF CreateCheck, CancelLock, InstalmentTypeOK, LockSound, RowSound, tables
  <2> QED
    BY <2>1, <2>2
<1> QED
  BY <1>1, <1>2, <1>3, <1>4, TablesKept

LEMMA EndKeeps ==
  ASSUME ContractIInv, NEW r \in Requests, Ends(r), UNCHANGED tables
  PROVE  ContractIInv'
<1> USE DEF ContractIInv, Ends, Idle
<1>1. InstalmentTypeOK'
  BY DEF InstalmentTypeOK, tables
<1>2. OneHolder'
  BY DEF InstalmentTypeOK, OneHolder, Holds
<1>3. ASSUME NEW s \in Requests PROVE LockSound(s)'
  BY DEF InstalmentTypeOK, LockSound, RowSound, tables
<1> QED
  BY <1>1, <1>2, <1>3, TablesKept

LEMMA PaymentIsSound ==
  ASSUME ContractIInv, NEW o \in Orders, NEW n \in Terms(o), NEW key \in Keys \cup {NoKey},
         schedule[o][n].status \in OpenStatuses,
         NEW amount \in 1..(AmountOf(o, n) - schedule[o][n].paid)
  PROVE  /\ AfterPayment(o, n, amount, key) \in Rows
         /\ AfterPayment(o, n, amount, key).status \in {"PARTIAL", "PAID"}
         /\ contract[o] = "ACTIVE"
         /\ RowSound(o, n, AfterPayment(o, n, amount, key))
<1> DEFINE row == schedule[o][n]  new == AfterPayment(o, n, amount, key)
<1>1. row \in Rows /\ RowSound(o, n, row)
  BY DEF ContractIInv, InstalmentTypeOK
<1>2. row.paid \in Nat /\ AmountOf(o, n) \in Int /\ row.key \in Keys \cup {NoKey}
  BY <1>1, AmountIsInteger DEF Rows
<1>3. new = [status |-> IF row.paid + amount >= AmountOf(o, n) THEN "PAID" ELSE "PARTIAL",
             paid |-> row.paid + amount, key |-> IF key = NoKey THEN row.key ELSE key]
  BY DEF AfterPayment
<1> HIDE DEF new, row
<1>4. row.paid + amount \in Nat /\ row.paid + amount <= AmountOf(o, n)
  BY <1>2 DEF row
<1>5. new \in Rows
  BY <1>2, <1>3, <1>4 DEF Rows, RowStatuses
<1>6. contract[o] # "NONE"
  BY <1>1 DEF RowSound, OpenStatuses, row
<1>7. contract[o] = "ACTIVE"
  BY <1>6 DEF ContractIInv, InstalmentTypeOK, ClosedWhenPaid, OpenStatuses
<1>8. RowSound(o, n, new)
  BY <1>2, <1>3, <1>4, <1>6 DEF RowSound, OpenStatuses
<1> QED
  BY <1>3, <1>5, <1>7, <1>8 DEF new

LEMMA PayRowKeeps ==
  ASSUME ContractIInv, NEW r \in Requests, NEW o \in Orders, NEW n \in Terms(o),
         NEW key \in Keys \cup {NoKey}, NEW amount, PayRow(r, o, n, amount, key)
  PROVE  ContractIInv'
<1> DEFINE new == AfterPayment(o, n, amount, key)
<1>1. /\ new \in Rows /\ new.status \in {"PARTIAL", "PAID"}
      /\ contract[o] = "ACTIVE" /\ RowSound(o, n, new)
  BY PaymentIsSound DEF PayRow
<1>2. /\ job' = [job EXCEPT ![r] = [at |-> "pay", order |-> o, term |-> n, row |-> new]]
      /\ UNCHANGED tables /\ ~RowLocked(o, n) /\ schedule[o][n].status \in OpenStatuses
      /\ job[r].at = "idle"
  BY DEF PayRow
<1> HIDE DEF new
<1> USE DEF ContractIInv
<1>3. n \in Nat \ {0}
  BY TermsArePositive
<1>4. InstalmentTypeOK'
  BY <1>1, <1>2, <1>3 DEF InstalmentTypeOK, tables
<1>5. OneHolder'
  BY <1>2 DEF InstalmentTypeOK, OneHolder, Holds, RowLocked
<1>6. ASSUME NEW s \in Requests PROVE LockSound(s)'
  <2>1. CASE s = r
    BY <1>1, <1>2, <2>1 DEF InstalmentTypeOK, LockSound, RowSound, tables
  <2>2. CASE s # r
    BY <1>2, <2>2 DEF InstalmentTypeOK, LockSound, RowSound, tables
  <2> QED
    BY <2>1, <2>2
<1> QED
  BY <1>2, <1>4, <1>5, <1>6, TablesKept

(* Requests that write.                                                      *)

\* Whoever locks another order is not disturbed by a write to this one.
LEMMA WriteKeeps ==
  ASSUME ContractIInv, NEW r \in Requests, NEW o \in Orders, job[r] # Idle, job[r].order = o,
         Ends(r), InstalmentTypeOK',
         \A q \in Orders : q # o => contract'[q] = contract[q] /\ credit'[q] = credit[q]
                                     /\ schedule'[q] = schedule[q],
         contract'[o] \in {"ACTIVE", "COMPLETED", "CANCELLED"},
         credit'[o] = IF contract'[o] = "ACTIVE" THEN Remainder[o] ELSE 0,
         \A n \in Terms(o) : RowSound(o, n, schedule[o][n])',
         /\ contract'[o] = "COMPLETED" => \A n \in Terms(o) : schedule'[o][n].status = "PAID"
         /\ contract'[o] = "ACTIVE" => \E n \in Terms(o) : schedule'[o][n].status # "PAID"
         /\ contract'[o] = "CANCELLED" =>
              \A n \in Terms(o) : schedule'[o][n].status \in {"PAID", "CANCELLED"},
         \A s \in Requests : s # r /\ job[s] # Idle /\ job[s].order = o => LockSound(s)'
  PROVE  ContractIInv'
<1>1. ClosedWhenPaid'
  BY DEF ContractIInv, InstalmentTypeOK, ClosedWhenPaid
<1>2. OneHolder'
  BY DEF ContractIInv, InstalmentTypeOK, OneHolder, Holds, Ends, Idle
<1>3. \A q \in Orders : /\ credit'[q] = IF contract'[q] = "ACTIVE" THEN Remainder[q] ELSE 0
                        /\ \A n \in Terms(q) : RowSound(q, n, schedule[q][n])'
  BY DEF ContractIInv, RowSound
<1>4. ASSUME NEW s \in Requests PROVE LockSound(s)'
  <2>1. CASE job'[s] = Idle
    BY <2>1 DEF LockSound, Idle
  <2>2. CASE job'[s] # Idle
    <3>1. s # r /\ job'[s] = job[s]
      BY <2>2 DEF Ends, ContractIInv, InstalmentTypeOK
    <3>2. CASE job[s].order = o
      BY <2>2, <3>1, <3>2
    <3>3. CASE job[s].order # o
      <4>1. job[s].order \in Orders /\ LockSound(s)
        BY <2>2, <3>1 DEF ContractIInv, InstalmentTypeOK
      <4> QED
        BY <3>1, <3>3, <4>1 DEF LockSound, RowSound
    <3> QED
      BY <3>2, <3>3
  <2> QED
    BY <2>1, <2>2
<1> QED
  BY <1>1, <1>2, <1>3, <1>4 DEF ContractIInv

LEMMA CreateCommitKeeps ==
  ASSUME ContractIInv, NEW r \in Requests, CreateCommit(r)
  PROVE  ContractIInv'
<1>0. PICK o \in Orders : o = job[r].order
  BY DEF CreateCommit, ContractIInv, InstalmentTypeOK, Idle
<1>1. job[r].at = "create" /\ job[r] # Idle /\ contract[o] = "NONE"
  BY <1>0 DEF CreateCommit, ContractIInv, InstalmentTypeOK, LockSound, Idle
<1>2. /\ contract' = [contract EXCEPT ![o] = IF Remainder[o] = 0 THEN "COMPLETED" ELSE "ACTIVE"]
      /\ credit' = [credit EXCEPT ![o] = Remainder[o]]
      /\ schedule' = [schedule EXCEPT ![o] = NewRow(o)]
      /\ Ends(r) /\ limit' = limit
  BY <1>0 DEF CreateCommit
<1>3. NewRow(o) \in [Terms(o) -> Rows] /\ \A n \in Terms(o) : NewRow(o)[n] = [status |-> "PENDING", paid |-> 0, key |-> NoKey]
  BY DEF NewRow, Rows, RowStatuses
<1>4. InstalmentTypeOK'
  BY <1>1, <1>2, <1>3 DEF ContractIInv, InstalmentTypeOK, Ends, Idle
<1>5. /\ contract'[o] \in {"ACTIVE", "COMPLETED"} /\ schedule'[o] = NewRow(o)
      /\ credit'[o] = IF contract'[o] = "ACTIVE" THEN Remainder[o] ELSE 0
      /\ \A q \in Orders : q # o => contract'[q] = contract[q] /\ credit'[q] = credit[q]
                                      /\ schedule'[q] = schedule[q]
  BY <1>1, <1>2 DEF ContractIInv, InstalmentTypeOK
<1>6. \A n \in Terms(o) : RowSound(o, n, schedule[o][n])'
  <2> SUFFICES ASSUME NEW n \in Terms(o) PROVE RowSound(o, n, schedule[o][n])'
    OBVIOUS
  <2>1. 0 <= AmountOf(o, n)
    <3>1. schedule[o][n].paid \in Nat /\ schedule[o][n].paid <= AmountOf(o, n)
      BY <1>1 DEF ContractIInv, InstalmentTypeOK, RowSound, Rows
    <3> QED
      BY <1>1, <3>1, AmountIsInteger
  <2> QED
    BY <1>3, <1>5, <2>1 DEF RowSound
<1>7. /\ contract'[o] = "COMPLETED" => \A n \in Terms(o) : schedule'[o][n].status = "PAID"
      /\ contract'[o] = "ACTIVE" => \E n \in Terms(o) : schedule'[o][n].status # "PAID"
  <2>1. contract'[o] = "COMPLETED" => Terms(o) = {}
    BY <1>1, <1>2 DEF Terms, ContractIInv, InstalmentTypeOK
  <2>2. contract'[o] = "ACTIVE" => 1 \in Terms(o)
    BY <1>1, <1>2, TermsArePositive DEF ContractIInv, InstalmentTypeOK
  <2> QED
    BY <1>3, <1>5, <2>1, <2>2
<1>8. \A s \in Requests : s # r /\ job[s] # Idle /\ job[s].order = o => LockSound(s)'
  BY <1>0, <1>1, <1>2 DEF ContractIInv, InstalmentTypeOK, OneHolder, LockSound, Ends, Holds
<1> QED
  BY <1>0, <1>1, <1>2, <1>4, <1>5, <1>6, <1>7, <1>8, WriteKeeps

LEMMA PayContractKeeps ==
  ASSUME ContractIInv, NEW r \in Requests, PayContract(r)
  PROVE  ContractIInv'
<1>0. PICK o \in Orders, n \in Terms(job[r].order) : o = job[r].order /\ n = job[r].term
  BY DEF PayContract, ContractIInv, InstalmentTypeOK, LockSound, Idle
<1> DEFINE rows == [schedule[o] EXCEPT ![n] = job[r].row]
<1>1. /\ n \in Terms(o) /\ job[r].at = "pay" /\ job[r] # Idle
      /\ contract[o] = "ACTIVE" /\ ~ContractLocked(o)
      /\ job[r].row \in Rows /\ RowSound(o, n, job[r].row) /\ job[r].row.status \in {"PARTIAL", "PAID"}
      /\ schedule[o] \in [Terms(o) -> Rows]
  BY <1>0 DEF PayContract, ContractIInv, InstalmentTypeOK, LockSound, Idle
<1>2. rows \in [Terms(o) -> Rows] /\ \A m \in Terms(o) : rows[m] = IF m = n THEN job[r].row ELSE schedule[o][m]
  BY <1>1
<1>3. /\ schedule' = [schedule EXCEPT ![o] = rows]
      /\ IF AllPaid(rows)
         THEN /\ contract' = [contract EXCEPT ![o] = "COMPLETED"]
              /\ credit' = [credit EXCEPT ![o] = 0]
         ELSE UNCHANGED <<contract, credit>>
      /\ Ends(r) /\ limit' = limit
  BY <1>0 DEF PayContract
<1> HIDE DEF rows
<1>4. InstalmentTypeOK'
  <2>1. contract' \in [Orders -> {"NONE", "ACTIVE", "COMPLETED", "CANCELLED"}] /\ credit' \in [Orders -> Nat]
    BY <1>3 DEF ContractIInv, InstalmentTypeOK
  <2>2. DOMAIN schedule' = Orders /\ \A q \in Orders : schedule'[q] \in [Terms(q) -> Rows]
    BY <1>2, <1>3 DEF ContractIInv, InstalmentTypeOK
  <2>3. DOMAIN job' = Requests /\ \A s \in Requests : job'[s] = Idle \/ job'[s] = job[s]
    BY <1>3 DEF ContractIInv, InstalmentTypeOK, Ends
  <2> QED
    BY <1>3, <2>1, <2>2, <2>3 DEF ContractIInv, InstalmentTypeOK
<1>5. /\ contract'[o] = (IF AllPaid(rows) THEN "COMPLETED" ELSE "ACTIVE")
      /\ schedule'[o] = rows
      /\ credit'[o] = IF contract'[o] = "ACTIVE" THEN Remainder[o] ELSE 0
      /\ \A q \in Orders : q # o => contract'[q] = contract[q] /\ credit'[q] = credit[q]
                                      /\ schedule'[q] = schedule[q]
  BY <1>1, <1>3 DEF ContractIInv, InstalmentTypeOK
<1>6. \A m \in Terms(o) : RowSound(o, m, schedule[o][m])'
  BY <1>1, <1>2, <1>5 DEF ContractIInv, RowSound
<1>7. /\ contract'[o] = "COMPLETED" => \A m \in Terms(o) : schedule'[o][m].status = "PAID"
      /\ contract'[o] = "ACTIVE" => \E m \in Terms(o) : schedule'[o][m].status # "PAID"
  BY <1>1, <1>2, <1>5 DEF AllPaid
<1>8. ASSUME NEW s \in Requests, s # r, job[s] # Idle, job[s].order = o PROVE LockSound(s)'
  <2>1. LockSound(s) /\ job[s].at = "pay" /\ job'[s] = job[s]
    BY <1>1, <1>3, <1>8 DEF ContractIInv, InstalmentTypeOK, LockSound, ContractLocked, Holds, Ends
  <2> DEFINE m == job[s].term
  <2>2. m # n /\ m \in Terms(o)
    BY <1>0, <1>1, <1>8, <2>1 DEF ContractIInv, OneHolder, Holds, LockSound
  <2>3. schedule'[o][m] = schedule[o][m] /\ schedule[o][m].status \in OpenStatuses
    BY <1>1, <1>2, <1>5, <1>8, <2>1, <2>2 DEF LockSound
  <2>4. contract'[o] = "ACTIVE"
    BY <1>2, <1>5, <2>2, <2>3 DEF AllPaid, OpenStatuses
  <2> QED
    BY <1>1, <1>8, <2>1, <2>2, <2>3, <2>4 DEF LockSound, RowSound
<1>9. contract'[o] \in {"ACTIVE", "COMPLETED"}
  BY <1>5
<1>10. \A s \in Requests : s # r /\ job[s] # Idle /\ job[s].order = o => LockSound(s)'
  BY <1>8
<1>11. Ends(r) /\ job[r] # Idle /\ job[r].order = o
  BY <1>0, <1>1, <1>3
<1> QED
  BY <1>4, <1>5, <1>6, <1>7, <1>9, <1>10, <1>11, WriteKeeps

LEMMA CancelRowsKeeps ==
  ASSUME ContractIInv, NEW r \in Requests, CancelRows(r)
  PROVE  ContractIInv'
<1>0. PICK o \in Orders : o = job[r].order
  BY DEF CancelRows, ContractIInv, InstalmentTypeOK, Idle
<1>1. /\ job[r].at = "cancel" /\ job[r] # Idle /\ contract[o] = "ACTIVE"
      /\ RowsFree(o) /\ schedule[o] \in [Terms(o) -> Rows]
  BY <1>0 DEF CancelRows, ContractIInv, InstalmentTypeOK, LockSound, Idle
<1> DEFINE rows == [n \in Terms(o) |-> Cancelled(schedule[o][n])]
<1>2. /\ schedule' = [schedule EXCEPT ![o] = rows]
      /\ contract' = [contract EXCEPT ![o] = "CANCELLED"]
      /\ credit' = [credit EXCEPT ![o] = 0]
      /\ Ends(r) /\ limit' = limit
  BY <1>0 DEF CancelRows
<1>3. ASSUME NEW n \in Terms(o)
      PROVE  /\ rows[n] \in Rows /\ rows[n].status \in {"PAID", "CANCELLED"}
             /\ rows[n].paid = schedule[o][n].paid
             /\ rows[n].status = "PAID" => schedule[o][n].status = "PAID"
  <2>1. schedule[o][n] \in Rows /\ RowSound(o, n, schedule[o][n])
    BY <1>1 DEF ContractIInv
  <2> QED
    BY <1>1, <2>1 DEF Cancelled, Rows, RowStatuses, OpenStatuses, RowSound
<1>4. rows \in [Terms(o) -> Rows]
  BY <1>3
<1> HIDE DEF rows
<1>5. InstalmentTypeOK'
  BY <1>1, <1>2, <1>4 DEF ContractIInv, InstalmentTypeOK, Ends, Idle
<1>6. /\ contract'[o] = "CANCELLED" /\ schedule'[o] = rows /\ credit'[o] = 0
      /\ \A q \in Orders : q # o => contract'[q] = contract[q] /\ credit'[q] = credit[q]
                                      /\ schedule'[q] = schedule[q]
  BY <1>1, <1>2 DEF ContractIInv, InstalmentTypeOK
<1>7. \A n \in Terms(o) : RowSound(o, n, schedule[o][n])'
  BY <1>1, <1>3, <1>6 DEF ContractIInv, RowSound, OpenStatuses
<1>8. ASSUME NEW s \in Requests, s # r, job[s] # Idle, job[s].order = o PROVE FALSE
  <2>1. job[s].at # "cancel" /\ job[s].at # "create"
    BY <1>0, <1>1, <1>8 DEF ContractIInv, OneHolder, Holds, LockSound
  <2>2. job[s].at = "pay" /\ job[s].term \in Terms(o)
    BY <1>8, <2>1 DEF ContractIInv, InstalmentTypeOK, LockSound
  <2> QED
    BY <1>1, <1>8, <2>2 DEF RowsFree, RowLocked, Holds
<1> QED
  BY <1>1, <1>2, <1>3, <1>5, <1>6, <1>7, <1>8, WriteKeeps, <1>0

LEMMA SetLimitKeeps ==
  ASSUME ContractIInv, SetLimit
  PROVE  ContractIInv'
BY DEF SetLimit, ContractIInv, InstalmentTypeOK, ClosedWhenPaid, OneHolder, Holds, LockSound, RowSound

LEMMA MarkOverdueKeeps ==
  ASSUME ContractIInv, MarkOverdue
  PROVE  ContractIInv'
<1> USE DEF ContractIInv
<1>1. PICK elapsed \in [Orders -> 0..Max({TermCount[o] : o \in Orders})] :
        /\ \A o \in Orders : \A n \in Terms(o) :
             n <= elapsed[o] /\ schedule[o][n].status = "PENDING" => ~RowLocked(o, n)
        /\ schedule' = [o \in Orders |-> [n \in Terms(o) |->
             IF n <= elapsed[o] /\ schedule[o][n].status = "PENDING"
             THEN [schedule[o][n] EXCEPT !.status = "OVERDUE"] ELSE schedule[o][n]]]
  BY DEF MarkOverdue
<1>2. UNCHANGED <<limit, contract, credit, job>>
  BY DEF MarkOverdue
<1>3. ASSUME NEW o \in Orders, NEW n \in Terms(o)
      PROVE  \/ schedule'[o][n] = schedule[o][n]
             \/ /\ schedule[o][n].status = "PENDING" /\ ~RowLocked(o, n)
                /\ schedule'[o][n] = [schedule[o][n] EXCEPT !.status = "OVERDUE"]
  BY <1>1
<1>4. ASSUME NEW o \in Orders, NEW n \in Terms(o)
      PROVE  /\ schedule'[o][n] \in Rows /\ RowSound(o, n, schedule[o][n])'
             /\ schedule'[o][n].status \in OpenStatuses <=> schedule[o][n].status \in OpenStatuses
             /\ schedule'[o][n].status = "PAID" <=> schedule[o][n].status = "PAID"
             /\ schedule'[o][n].status = "CANCELLED" <=> schedule[o][n].status = "CANCELLED"
  <2>1. schedule[o][n] \in Rows /\ RowSound(o, n, schedule[o][n])
    BY DEF InstalmentTypeOK
  <2>2. CASE schedule'[o][n] = schedule[o][n]
    BY <1>2, <2>1, <2>2 DEF RowSound
  <2>3. CASE /\ schedule[o][n].status = "PENDING"
             /\ schedule'[o][n] = [schedule[o][n] EXCEPT !.status = "OVERDUE"]
    <3>1. /\ schedule'[o][n] \in Rows /\ schedule'[o][n].status = "OVERDUE"
          /\ schedule'[o][n].paid = schedule[o][n].paid
      BY <2>1, <2>3 DEF Rows, RowStatuses
    <3>2. RowSound(o, n, schedule[o][n])'
      BY <1>2, <2>1, <2>3, <3>1 DEF RowSound, OpenStatuses
    <3> QED
      BY <2>3, <3>1, <3>2 DEF OpenStatuses
  <2> QED
    BY <1>3, <2>2, <2>3
<1>5. InstalmentTypeOK'
  <2>1. \A o \in Orders : schedule'[o] \in [Terms(o) -> Rows]
    BY <1>1, <1>4
  <2> QED
    BY <1>1, <1>2, <2>1 DEF InstalmentTypeOK
<1>6. ClosedWhenPaid'
  BY <1>2, <1>4 DEF ClosedWhenPaid
<1>7. OneHolder'
  BY <1>2 DEF OneHolder, Holds
<1>8. ASSUME NEW r \in Requests PROVE LockSound(r)'
  <2>1. CASE job[r] = Idle
    BY <1>2, <2>1 DEF LockSound, Idle
  <2>2. CASE job[r] # Idle
    <3>1. LockSound(r) /\ job[r].order \in Orders
      BY <2>2 DEF InstalmentTypeOK
    <3>2. job[r].at = "pay" =>
            (schedule'[job[r].order][job[r].term].status \in OpenStatuses
               <=> schedule[job[r].order][job[r].term].status \in OpenStatuses)
      BY <1>4, <3>1 DEF LockSound
    <3> QED
      BY <1>2, <3>1, <3>2 DEF LockSound, RowSound
  <2> QED
    BY <2>1, <2>2
<1> QED
  BY <1>2, <1>4, <1>5, <1>6, <1>7, <1>8

LEMMA StepKeeps == ContractIInv /\ [InstalmentNext]_vars => ContractIInv'
<1> SUFFICES ASSUME ContractIInv, [InstalmentNext]_vars PROVE ContractIInv'
  OBVIOUS
<1>1. ASSUME NEW r \in Requests, NEW o \in Orders, CreateCheck(r, o) \/ CancelLock(r, o)
      PROVE  ContractIInv'
  BY <1>1, BeginKeeps
<1>2. ASSUME NEW r \in Requests, NEW o \in Orders, NEW n \in Terms(o), NEW key \in Keys \cup {NoKey},
             NEW amount \in 1..AmountOf(o, n), PayRow(r, o, n, amount, key)
      PROVE  ContractIInv'
  BY <1>2, PayRowKeeps
<1>3. ASSUME NEW r \in Requests, CreateFails(r) \/ Abort(r) PROVE ContractIInv'
  BY <1>3, EndKeeps DEF CreateFails, Abort
<1>4. ASSUME NEW r \in Requests, CreateCommit(r) PROVE ContractIInv'
  BY <1>4, CreateCommitKeeps
<1>5. ASSUME NEW r \in Requests, PayContract(r) PROVE ContractIInv'
  BY <1>5, PayContractKeeps
<1>6. ASSUME NEW r \in Requests, CancelRows(r) PROVE ContractIInv'
  BY <1>6, CancelRowsKeeps
<1>7. CASE SetLimit
  BY <1>7, SetLimitKeeps
<1>8. CASE MarkOverdue
  BY <1>8, MarkOverdueKeeps
<1>9. CASE UNCHANGED vars
  BY <1>9 DEF vars, ContractIInv, InstalmentTypeOK, ClosedWhenPaid, OneHolder, Holds, LockSound, RowSound
<1> QED
  BY <1>1, <1>2, <1>3, <1>4, <1>5, <1>6, <1>7, <1>8, <1>9 DEF InstalmentNext

(* The credit a creation was granted.                                        *)

LEMMA ConsumingIsNatural ==
  ASSUME InstalmentTypeOK
  PROVE  Consuming \in [Orders -> Nat] /\ Consumed \in Nat
<1>1. Consuming \in [Orders -> Nat]
  BY DEF Consuming, InstalmentTypeOK
<1> QED
  BY <1>1, SumNat DEF Consumed

LEMMA ConsumingStaysNatural ==
  ASSUME InstalmentTypeOK'
  PROVE  Consuming' \in [Orders -> Nat] /\ Consumed' \in Nat
<1>1. Consuming' \in [Orders -> Nat]
  BY DEF Consuming, InstalmentTypeOK
<1> QED
  BY <1>1, SumNat DEF Consumed

LEMMA ConsumesNoMore ==
  ASSUME InstalmentTypeOK, InstalmentTypeOK', \A o \in Orders : Consuming'[o] <= Consuming[o]
  PROVE  Consumed' <= Consumed
<1>1. \A o \in Orders : Consuming[o] \in Int /\ Consuming'[o] \in Int
  BY ConsumingIsNatural DEF Consuming, InstalmentTypeOK
<1> QED
  BY <1>1, SumMonotone DEF Consumed

\* Of all writes only a creation that commits takes credit, what it was granted.
LEMMA CreditTaken ==
  ASSUME InstalmentIInv, ContractIInv', [InstalmentNext]_vars
  PROVE  \/ Consumed' <= Consumed
         \/ \E r \in Requests : CreateCommit(r) /\ Consumed' = Consumed + Remainder[job[r].order]
<1> USE DEF InstalmentIInv, ContractIInv
<1>1. CASE UNCHANGED <<contract, credit>>
  BY <1>1, ConsumesNoMore, ConsumingIsNatural DEF Consumed, Consuming
<1>2. ASSUME NEW r \in Requests, PayContract(r) \/ CancelRows(r)
      PROVE  Consumed' <= Consumed
  <2> SUFFICES ASSUME NEW o \in Orders PROVE Consuming'[o] <= Consuming[o]
    BY ConsumesNoMore
  <2>1. contract'[o] = "ACTIVE" => contract[o] = "ACTIVE" /\ credit'[o] = credit[o]
    BY <1>2 DEF PayContract, CancelRows, InstalmentTypeOK
  <2> QED
    BY <2>1, ConsumingIsNatural DEF Consuming, InstalmentTypeOK
<1>3. ASSUME NEW r \in Requests, CreateCommit(r)
      PROVE  Consumed' = Consumed + Remainder[job[r].order]
  <2>1. PICK o \in Orders : o = job[r].order /\ contract[o] = "NONE"
    BY <1>3 DEF CreateCommit, InstalmentTypeOK, Idle, LockSound
  <2>2. /\ contract' = [contract EXCEPT ![o] = IF Remainder[o] = 0 THEN "COMPLETED" ELSE "ACTIVE"]
        /\ credit' = [credit EXCEPT ![o] = Remainder[o]]
    BY <1>3, <2>1 DEF CreateCommit
  <2>3. Consuming'[o] = Remainder[o] /\ Consuming[o] = 0
    BY <2>1, <2>2 DEF Consuming, InstalmentTypeOK
  <2>4. \A q \in Orders : Consuming[q] \in Int /\ Consuming'[q] \in Int
                            /\ (q # o => Consuming'[q] = Consuming[q])
    BY <2>2, ConsumingIsNatural DEF Consuming, InstalmentTypeOK
  <2>5. Consumed' = Consumed + Consuming'[o] - Consuming[o]
    <3>1. PICK f, g : f = Consuming /\ g = Consuming'
      OBVIOUS
    <3>2. /\ \A q \in Orders : f[q] \in Int
          /\ \A q \in Orders : g[q] \in Int
          /\ \A q \in Orders \ {o} : g[q] = f[q]
      BY <2>4, <3>1
    <3>3. SumFunctionOnSet(g, Orders) = SumFunctionOnSet(f, Orders) + g[o] - f[o]
      <4>1. IsFiniteSet(Orders) /\ o \in Orders
        BY InstalmentAssumption
      <4> QED
        BY ONLY <3>2, <4>1, SumUpdate
    <3> QED
      BY <3>1, <3>3 DEF Consumed
  <2> QED
    BY <2>1, <2>3, <2>5, ConsumingIsNatural
<1> QED
  BY <1>1, <1>2, <1>3 DEF InstalmentNext, vars, tables,
       CreateCheck, CancelLock, PayRow, CreateFails, Abort, SetLimit, MarkOverdue

LEMMA GrantKeeps ==
  ASSUME InstalmentIInv, ContractIInv', [InstalmentNext]_vars
  PROVE  GrantStands'
<1> SUFFICES ASSUME NEW r \in Requests, job'[r].at = "create" PROVE CreditAllows(job[r].order)'
  BY DEF GrantStands
<1> USE DEF InstalmentIInv, ContractIInv
<1>1. limit \in Nat /\ limit' \in Nat /\ Consumed \in Nat /\ Consumed' \in Nat
  BY ConsumingIsNatural, ConsumingStaysNatural DEF InstalmentTypeOK
<1>2. CASE job'[r] = job[r]
  <2>1. CreditAllows(job[r].order) /\ job[r].order \in Orders
    BY <1>2 DEF GrantStands, InstalmentTypeOK, Idle
  <2>2. limit' = limit
    BY <1>2 DEF InstalmentNext, vars, tables, CreateCheck, CancelLock, PayRow, CreateFails, Abort,
         SetLimit, MarkOverdue, CreateCommit, PayContract, CancelRows, CustomerLocked
  <2>3. ASSUME NEW s \in Requests, CreateCommit(s) PROVE FALSE
    <3>1. s # r
      BY <1>2, <2>3 DEF CreateCommit, Ends, Idle, InstalmentTypeOK
    <3> QED
      BY <1>2, <2>3, <3>1 DEF CreateCommit, OneHolder
  <2>4. Consumed' <= Consumed
    BY <2>3, CreditTaken
  <2> QED
    BY <1>1, <1>2, <2>1, <2>2, <2>4 DEF CreditAllows
<1>3. CASE job'[r] # job[r]
  <2>1. PICK o \in Orders : CreateCheck(r, o)
    <3>1. ASSUME NEW s \in Requests, Ends(s) PROVE FALSE
      BY <1>3, <3>1 DEF Ends, Idle, InstalmentTypeOK
    <3>2. ASSUME NEW s \in Requests, NEW o \in Orders, CreateCheck(s, o) PROVE s = r
      BY <1>3, <3>2 DEF CreateCheck, InstalmentTypeOK
    <3>3. ASSUME NEW s \in Requests, NEW o \in Orders, CancelLock(s, o) PROVE FALSE
      BY <1>3, <3>3 DEF CancelLock, InstalmentTypeOK
    <3>4. ASSUME NEW s \in Requests, NEW o \in Orders, NEW n \in Terms(o), NEW key \in Keys \cup {NoKey},
                 NEW amount \in 1..AmountOf(o, n), PayRow(s, o, n, amount, key)
          PROVE  FALSE
      BY <1>3, <3>4 DEF PayRow, InstalmentTypeOK
    <3>5. ~(UNCHANGED job)
      BY <1>3
    <3> QED
      BY <3>1, <3>2, <3>3, <3>4, <3>5 DEF InstalmentNext, vars, CreateFails, Abort, SetLimit, MarkOverdue,
           CreateCommit, PayContract, CancelRows
  <2>2. job'[r].order = o /\ CreditAllows(o) /\ UNCHANGED tables
    BY <2>1 DEF CreateCheck, InstalmentTypeOK
  <2> QED
    BY <2>2 DEF CreditAllows, Consumed, Consuming, tables
<1> QED
  BY <1>2, <1>3

(* Whatever payments, cancellations, new orders and overdue jobs meet, rows,   *)
(* contracts, credit and locks fit together, and the credit a creation was     *)
(* granted stays free until it commits (installment.service.ts).              *)
THEOREM InstalmentInvariant == InstalmentSpec => []InstalmentIInv
<1>1. InstalmentInit => InstalmentIInv
  <2>1. InstalmentInit => GrantStands
    BY DEF InstalmentInit, GrantStands, Idle
  <2> QED
    BY <2>1, InitHolds DEF InstalmentIInv
<1>2. InstalmentIInv /\ [InstalmentNext]_vars => InstalmentIInv'
  BY StepKeeps, GrantKeeps DEF InstalmentIInv
<1> QED
  BY <1>1, <1>2, PTL DEF InstalmentSpec

(* New contracts fit into the limit together with those that run, also when    *)
(* orders are created at once and the limit moves.                            *)
THEOREM CreditGrantedHolds == InstalmentSpec => CreditGranted
<1>1. ASSUME InstalmentIInv, ContractIInv', [InstalmentNext]_vars, Consumed' > Consumed
      PROVE  Consumed' <= limit'
  <2>1. Consumed \in Nat /\ Consumed' \in Nat /\ limit \in Nat
    BY <1>1, ConsumingIsNatural, ConsumingStaysNatural DEF InstalmentIInv, ContractIInv, InstalmentTypeOK
  <2>2. PICK r \in Requests : CreateCommit(r) /\ Consumed' = Consumed + Remainder[job[r].order]
    BY <1>1, <2>1, CreditTaken
  <2>3. CreditAllows(job[r].order) /\ Remainder[job[r].order] \in Nat /\ limit' = limit
    BY <1>1, <2>2 DEF CreateCommit, GrantStands, InstalmentIInv, ContractIInv, InstalmentTypeOK, Idle
  <2> QED
    BY <1>1, <2>1, <2>2, <2>3 DEF CreditAllows
<1>2. InstalmentIInv /\ InstalmentIInv' /\ [InstalmentNext]_vars
        => [Consumed' > Consumed => Consumed' <= limit']_vars
  BY <1>1 DEF InstalmentIInv
<1> QED
  BY <1>2, InstalmentInvariant, PTL DEF InstalmentSpec, CreditGranted

(* buildEqualSchedules: the last instalment absorbs what the equal ones leave. *)
LEMMA AmountsAddUp ==
  ASSUME NEW o \in Orders
  PROVE  SumFunctionOnSet(Amounts(o), Terms(o)) = Remainder[o]
<1> DEFINE k == TermCount[o]  base == Remainder[o] \div TermCount[o]
<1>1. k \in Nat \ {0} /\ base \in Nat
  <2>1. k \in Nat \ {0} /\ Remainder[o] \in Nat
    OBVIOUS
  <2>2. base \in Nat
    BY <2>1
  <2> QED
    BY <2>1, <2>2
<1>2. CASE Remainder[o] = 0
  BY <1>2, SumEmpty DEF Terms
<1>3. CASE Remainder[o] # 0
  <2>1. Terms(o) = 1..k /\ IsFiniteSet(1..k) /\ k \in 1..k /\ (1..k) \ {k} = 1..(k - 1)
    <3>1. IsFiniteSet(1..k)
      BY <1>1, FS_Interval
    <3>2. Terms(o) = 1..k
      BY <1>3 DEF Terms
    <3>3. k \in 1..k /\ (1..k) \ {k} = 1..(k - 1)
      <4> HIDE DEF k
      <4> QED
        BY <1>1
    <3> QED
      BY <3>1, <3>2, <3>3
  <2>2. \A n \in 1..k : Amounts(o)[n] = IF n = k THEN Remainder[o] - base * (k - 1) ELSE base
    BY <2>1 DEF Amounts, AmountOf
  <2>3. base * (k - 1) \in Int
    BY <1>1
  <2> DEFINE a == Amounts(o)
  <2>4. SumFunctionOnSet(a, 1..k) = a[k] + SumFunctionOnSet(a, 1..(k - 1))
    <3>1. \A n \in 1..k : a[n] \in Int
      BY <1>1, <2>2, <2>3
    <3> HIDE DEF a, k
    <3>2. 1..k \in SUBSET (1..k)
      OBVIOUS
    <3>3. SumFunctionOnSet(a, 1..k) = a[k] + SumFunctionOnSet(a, (1..k) \ {k})
      <4>1. IsFiniteSet(1..k) /\ k \in 1..k
        BY <2>1
      <4> QED
        BY ONLY <3>1, <3>2, <4>1, SumRemove
    <3> QED
      BY <2>1, <3>3
  <2>5. SumFunctionOnSet(a, 1..(k - 1)) = base * Cardinality(1..(k - 1))
    <3>1. \A n \in 1..(k - 1) : a[n] = base
      BY <1>1, <2>2
    <3>2. IsFiniteSet(1..(k - 1)) /\ base \in Int
      BY <1>1, FS_Interval
    <3> HIDE DEF a, base
    <3> QED
      BY <3>1, <3>2, SumConstant
  <2>6. Cardinality(1..(k - 1)) = k - 1
    <3>1. Cardinality(1..(k - 1)) = IF 1 > k - 1 THEN 0 ELSE (k - 1) - 1 + 1
      <4>1. 1 \in Int /\ k - 1 \in Int
        BY <1>1
      <4> HIDE DEF k
      <4> QED
        BY <4>1, FS_Interval
    <3> HIDE DEF k
    <3> QED
      BY <1>1, <3>1
  <2>7. a[k] = Remainder[o] - base * (k - 1)
    BY <2>1, <2>2
  <2> HIDE DEF a, base, k
  <2>8. SumFunctionOnSet(a, 1..k) = Remainder[o] - base * (k - 1) + base * (k - 1)
    BY <2>4, <2>5, <2>6, <2>7
  <2>9. SumFunctionOnSet(a, 1..k) = Remainder[o]
    BY <2>3, <2>8
  <2> QED
    BY <2>1, <2>9 DEF a
<1> QED
  BY <1>2, <1>3

(* The instalments of a contract add up to what was financed, and a complete   *)
(* contract has collected all of it.                                         *)
THEOREM CollectsRemainderHolds == InstalmentSpec => []CollectsRemainder
<1>1. ASSUME InstalmentIInv, NEW o \in Orders, contract[o] = "COMPLETED"
      PROVE  SumFunctionOnSet(Collected(o), Terms(o)) = Remainder[o]
  <2>1. \A n \in Terms(o) : Amounts(o)[n] \in Int /\ Collected(o)[n] = Amounts(o)[n]
    BY <1>1, AmountIsInteger DEF InstalmentIInv, ContractIInv, ClosedWhenPaid, RowSound, Amounts, Collected
  <2>2. IsFiniteSet(Terms(o))
    <3>1. IsFiniteSet(1..TermCount[o])
      BY FS_Interval
    <3> QED
      BY <3>1, FS_EmptySet DEF Terms
  <2> QED
    BY <2>1, <2>2, SumSame, AmountsAddUp
<1>2. InstalmentIInv => CollectsRemainder
  BY <1>1, AmountsAddUp DEF CollectsRemainder
<1> QED
  BY <1>2, InstalmentInvariant, PTL

(* A contract is closed exactly when its instalments are, whoever pays or      *)
(* cancels at the same time.                                                 *)
THEOREM ClosedWhenPaidHolds == InstalmentSpec => []ClosedWhenPaid
<1>1. InstalmentIInv => ClosedWhenPaid
  BY DEF InstalmentIInv, ContractIInv
<1> QED
  BY <1>1, InstalmentInvariant, PTL

(* No payment, overdue job or late transaction changes a cancelled contract.  *)
THEOREM CancelledStaysHolds == InstalmentSpec => CancelledStays
<1> DEFINE Stays(o) == contract[o] = "CANCELLED" =>
                         contract'[o] = "CANCELLED" /\ schedule'[o] = schedule[o] /\ credit'[o] = credit[o]
<1>1. ASSUME InstalmentIInv, [InstalmentNext]_vars, NEW o \in Orders, contract[o] = "CANCELLED"
      PROVE  contract'[o] = "CANCELLED" /\ schedule'[o] = schedule[o] /\ credit'[o] = credit[o]
  <2>1. CASE UNCHANGED tables \/ SetLimit \/ UNCHANGED vars
    BY <1>1, <2>1 DEF SetLimit, vars, tables
  <2>2. ASSUME NEW r \in Requests, CreateCommit(r) \/ PayContract(r) \/ CancelRows(r)
        PROVE  contract'[o] = "CANCELLED" /\ schedule'[o] = schedule[o] /\ credit'[o] = credit[o]
    <3>1. job[r].order \in Orders /\ LockSound(r) /\ job[r].at \in {"create", "pay", "cancel"}
      BY <1>1, <2>2 DEF CreateCommit, PayContract, CancelRows, InstalmentIInv, ContractIInv, InstalmentTypeOK, Idle
    <3>2. job[r].order # o
      BY <1>1, <3>1 DEF LockSound
    <3> QED
      BY <1>1, <2>2, <3>1, <3>2 DEF CreateCommit, PayContract, CancelRows, InstalmentIInv, ContractIInv, InstalmentTypeOK
  <2>3. CASE MarkOverdue
    <3>1. \A n \in Terms(o) : schedule[o][n].status # "PENDING"
      BY <1>1 DEF InstalmentIInv, ContractIInv, ClosedWhenPaid
    <3>2. schedule[o] \in [Terms(o) -> Rows]
      BY <1>1 DEF InstalmentIInv, ContractIInv, InstalmentTypeOK
    <3>3. PICK elapsed \in [Orders -> 0..Max({TermCount[q] : q \in Orders})] :
            schedule' = [q \in Orders |-> [n \in Terms(q) |->
              IF n <= elapsed[q] /\ schedule[q][n].status = "PENDING"
              THEN [schedule[q][n] EXCEPT !.status = "OVERDUE"] ELSE schedule[q][n]]]
      BY <2>3 DEF MarkOverdue
    <3>4. schedule'[o] = [n \in Terms(o) |-> schedule[o][n]]
      BY <3>1, <3>3
    <3>5. schedule'[o] = schedule[o]
      BY <3>2, <3>4
    <3> QED
      BY <1>1, <2>3, <3>5 DEF MarkOverdue
  <2> QED
    BY <1>1, <2>1, <2>2, <2>3 DEF InstalmentNext, CreateCheck, CancelLock, PayRow, CreateFails, Abort
<1>2. InstalmentIInv /\ [InstalmentNext]_vars => [\A o \in Orders : Stays(o)]_vars
  BY <1>1
<1> QED
  BY <1>2, InstalmentInvariant, PTL DEF InstalmentSpec, CancelledStays
=============================================================================
