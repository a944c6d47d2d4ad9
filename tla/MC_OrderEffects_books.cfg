\* All requests on a paid online order and a cash order that compete for goods, one
\* request at a time, captures in between.
SPECIFICATION OrderSpec
CONSTANTS
  o1 = o1
  o2 = o2
  Orders = {o1, o2}
  Payments <- MCPayments
  Requests = {r1, r2, r3, r4}
  Tasks <- MCBooks
  MaxActive = 1
  MaxCrashes = 0
  GatewayActive = TRUE
  InitialStock = 4
  MethodOf <- MCMethodPaid
  QtyOf <- MCTwoUnits
  WalletOf <- MCWallet
  CodeUsed <- MCCode
  OrderOf <- MCOrderOf
INVARIANTS Books
PROPERTIES LegalMoves
CHECK_DEADLOCK FALSE
