\* Two gateways that fail and lie, crashes, and manual payments.
SPECIFICATION CheckoutSpec
CONSTANTS
  o1 = o1
  Orders = {o1}
  Payments = {1, 2}
  Requests = {}
  Tasks = {}
  MaxActive = 1
  MaxCrashes = 0
  GatewayActive = TRUE
  InitialStock = 2
  MethodOf <- MCMethod
  QtyOf <- MCUnits
  WalletOf <- MCNone
  CodeUsed <- MCNoCode
  OrderOf <- MCOrderOf
  Clients = {c1, c2}
  Gateways = {"ZARINPAL", "DIGIPAY"}
  AddressSent = FALSE
  Reliable = FALSE
  ClientsCrash = TRUE
  ManualAllowed = TRUE
INVARIANTS CapturedWasPaid
PROPERTIES OrderSpec
CHECK_DEADLOCK FALSE
