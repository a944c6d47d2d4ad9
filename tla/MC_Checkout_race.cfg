\* Three customer requests of one order race on one reliable gateway.
SPECIFICATION CheckoutSpec
CONSTANTS
  o1 = o1
  Orders = {o1}
  Payments = {1, 2}
  Requests = {}
  Tasks = {}
  MaxActive = 1
  MaxCrashes = 0
  GatewayActive = TRUE
  InitialStock = 2
  MethodOf <- MCMethod
  QtyOf <- MCUnits
  WalletOf <- MCNone
  CodeUsed <- MCNoCode
  OrderOf <- MCOrderOf
  Clients = {c1, c2, c3}
  Gateways = {"ZARINPAL"}
  AddressSent = FALSE
  Reliable = TRUE
  ClientsCrash = FALSE
  ManualAllowed = TRUE
INVARIANTS OnePendingPerOrder BookedOnce NoStuckStart PaidCanBeVerified
PROPERTIES PaidIsFinal
CHECK_DEADLOCK FALSE
