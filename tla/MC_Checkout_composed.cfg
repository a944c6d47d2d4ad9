\* Customers, an unreliable gateway and crashes while an administrator works.
SPECIFICATION CheckoutSpec
CONSTANTS
  o1 = o1
  Orders = {o1}
  Payments = {1}
  Requests = {r1, r2}
  Tasks <- MCAdmin
  MaxActive = 1
  MaxCrashes = 0
  GatewayActive = TRUE
  InitialStock = 2
  MethodOf <- MCMethod
  QtyOf <- MCUnits
  WalletOf <- MCNone
  CodeUsed <- MCNoCode
  OrderOf <- MCOrderOf
  Clients = {c1, c2}
  Gateways = {"ZARINPAL"}
  AddressSent = TRUE
  Reliable = FALSE
  ClientsCrash = TRUE
  ManualAllowed = FALSE
INVARIANTS MoneyIInv OneSessionPerPayment OnlineNeedsMoney
SYMMETRY MCSymmetry
CHECK_DEADLOCK FALSE
