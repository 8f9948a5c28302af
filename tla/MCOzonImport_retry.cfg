SPECIFICATION Spec
CONSTANTS
  t1 = t1
  t2 = t2
  t3 = t3
  None = None
  Tokens = {t1, t2, t3}
  MaxFaults = 1
PROPERTIES AllowedRetrySettles
CHECK_DEADLOCK FALSE
