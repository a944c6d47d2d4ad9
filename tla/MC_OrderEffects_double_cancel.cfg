\* Two overlapping cancellations of a paid order.
SPECIFICATION OrderSpec
CONSTANTS
  o1 = o1
  o2 = o2
  Orders = {o1}
  Payments <- MCPayments
  Requests = {r1, r2}
  Tasks <- MCCancels
  MaxActive = 2
  MaxCrashes = 0
  GatewayActive = TRUE
  InitialStock = 3
  MethodOf <- MCMethodOne
  QtyOf <- MCTwoUnits
  WalletOf <- MCWallet
  CodeUsed <- MCCode
  OrderOf <- MCOrderOf
INVARIANTS NeverOverstocked
CHECK_DEADLOCK FALSE
