\* Three transactions at once on the contracts of a customer whose limit moves.
SPECIFICATION InstalmentSpec
CONSTANTS
  o1 = o1
  o2 = o2
  o3 = o3
  r1 = r1
  r2 = r2
  r3 = r3
  Orders = {o1, o2, o3}
  Remainder <- MCRemainder
  TermCount <- MCTermCount
  Limits = {0, 4, 5}
  Keys = {"k1"}
  NoKey = "none"
  Requests = {r1, r2, r3}
INVARIANTS InstalmentIInv CollectsRemainder
PROPERTIES CancelledStays CreditGranted
SYMMETRY MCSymmetry
