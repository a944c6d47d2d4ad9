\* Two workers, overlapping leases, time-outs, crashes and administrators.
SPECIFICATION DeliverySpec
CONSTANTS
  Deliveries = {d1}
  Workers = {w1, w2}
  Handlers = {h1, h2}
  None = None
  Cap = 1
  MaxOrders = 1
  Mishaps = {"timeout", "crash", "expiry", "database", "republish", "clear"}
INVARIANTS NeverTwice SendsWithinBudget
PROPERTIES SuccessStays
CONSTRAINT MCExplored
SYMMETRY MCSymmetry
CHECK_DEADLOCK FALSE
