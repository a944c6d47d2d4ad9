\* Two administrators and the gateway at once on an online and a free order.
SPECIFICATION OrderSpec
CONSTANTS
  o1 = o1
  o2 = o2
  Orders = {o1, o2}
  Payments <- MCPayments
  Requests = {r1, r2}
  Tasks <- MCAllButEdits
  MaxActive = 2
  MaxCrashes = 1
  GatewayActive = TRUE
  InitialStock = 3
  MethodOf <- MCMethodTwo
  QtyOf <- MCTwoUnits
  WalletOf <- MCWallet
  CodeUsed <- MCCode
  OrderOf <- MCOrderOf
INVARIANTS OrderIInv CommitOnce SettledHasStock CapturedLeavesAwaiting
CHECK_DEADLOCK FALSE
