\* Two lines of an order, two payouts and one interruption of the job.
SPECIFICATION FairLedgerSpec
CONSTANTS
  o1 = o1
  i1 = i1
  i2 = i2
  p1 = p1
  p2 = p2
  Orders = {o1}
  Lines = {i1, i2}
  Payouts = {p1, p2}
  OrderOf <- MCOrderOf
  CommissionOf <- MCCommissionOf
  NoPayout = NoPayout
  MaxStops = 1
INVARIANTS LedgerIInv ClawedBackOnce SetOffAfterPayment
PROPERTIES ImplementsAccount EndedGetsClawed StatementSettles
CHECK_DEADLOCK FALSE
