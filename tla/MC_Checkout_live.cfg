\* Customers who paid and return while administrators cancel the order.
SPECIFICATION FairCheckoutSpec
CONSTANTS
  o1 = o1
  Orders = {o1}
  Payments = {1}
  Requests = {r1, r2}
  Tasks <- MCCancel
  MaxActive = 2
  MaxCrashes = 0
  GatewayActive = TRUE
  InitialStock = 2
  MethodOf <- MCMethod
  QtyOf <- MCUnits
  WalletOf <- MCNone
  CodeUsed <- MCNoCode
  OrderOf <- MCOrderOf
  Clients = {c1, c2}
  Gateways = {"ZARINPAL"}
  AddressSent = FALSE
  Reliable = TRUE
  ClientsCrash = FALSE
  ManualAllowed = FALSE
PROPERTIES PaidGetsBooked CancelledGetsReversed
CHECK_DEADLOCK FALSE
