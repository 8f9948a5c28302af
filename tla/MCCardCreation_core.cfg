SPECIFICATION Spec
CONSTANTS
  e1 = e1
  e2 = e2
  r1 = r1
  r2 = r2
  None = None
  Execs = {e1, e2}
  Retries = {r1, r2}
  MaxAttempt = 4
  MaxFaults = 1
INVARIANTS TypeOK SecondCardNeedsTwoGrants
PROPERTIES RetrySettles
CHECK_DEADLOCK FALSE
