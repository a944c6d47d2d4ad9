\* Two requests at once on an invoice of two units with two payments.
SPECIFICATION FairInvoiceSpec
CONSTANTS
  p1 = p1
  p2 = p2
  r1 = r1
  r2 = r2
  Total = 2
  Payments = {p1, p2}
  Keys = {"k1", "k2"}
  Requests = {r1, r2}
INVARIANTS InvoiceIInv BooksAgree RefundsCovered
PROPERTIES OnlyLateFailures ReturnedGetsBooked
CHECK_DEADLOCK FALSE
