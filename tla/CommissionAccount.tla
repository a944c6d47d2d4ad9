------------------------- MODULE CommissionAccount -------------------------
(***************************************************************************)
(* What the commission ledger of modules/sales-partner promises a partner   *)
(* and the shop, without entries, keys, locks or jobs: every sold line earns *)
(* its commission once, the commission falls due later or is taken back, and *)
(* a transfer brings the money sent up to exactly what is due at that       *)
(* moment.  A commission taken back after it was paid stays a debt that the  *)
(* next transfer sets off.                                                  *)
(***************************************************************************)
EXTENDS Integers, FiniteSetsExt

CONSTANTS
  Lines,        \* order lines sold by the partner
  CommissionOf  \* commission of each line, in Rial

VARIABLES
  earned,  \* lines with a commission
  due,     \* those whose commission may be transferred
  clawed,  \* those whose commission was taken back
  sent     \* money transferred to the partner and not returned

account == <<earned, due, clawed, sent>>

Total(lines) == SumFunctionOnSet(CommissionOf, lines)
Standing     == Total(due \ clawed)

AccountInit == earned = {} /\ due = {} /\ clawed = {} /\ sent = 0

Earn(i) ==
  /\ i \notin earned
  /\ earned' = earned \cup {i}
  /\ due' \in {due, due \cup {i}}
  /\ UNCHANGED <<clawed, sent>>

FallDue(i) ==
  /\ i \in earned \ due
  /\ due' = due \cup {i}
  /\ UNCHANGED <<earned, clawed, sent>>

ClawBack(i) ==
  /\ i \in earned \ clawed
  /\ clawed' = clawed \cup {i}
  /\ UNCHANGED <<earned, due, sent>>

Transfer ==
  /\ sent < Standing
  /\ sent' = Standing
  /\ UNCHANGED <<earned, due, clawed>>

\* A transfer that failed or was returned, as a whole.
Return ==
  /\ sent' \in 0..(sent - 1)
  /\ UNCHANGED <<earned, due, clawed>>

AccountNext ==
  \/ \E i \in Lines : Earn(i) \/ FallDue(i) \/ ClawBack(i)
  \/ Transfer
  \/ Return

AccountSpec == AccountInit /\ [][AccountNext]_account

=============================================================================
