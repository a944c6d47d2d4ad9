\* Two administrators, the job, restarts and failing statements.
SPECIFICATION FairSmsSpec
CONSTANTS
  r1 = r1
  r2 = r2
  p1 = p1
  Phones = {p1}
  Requests = {r1, r2}
  None = None
  MaxAttempts = 2
  MaxPrepares = 1
  MaxMishaps = 1
INVARIANTS SmsIInv NoDoubleText
PROPERTIES OutcomeStays TextsMoveOn
CHECK_DEADLOCK FALSE
