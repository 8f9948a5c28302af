SPECIFICATION Spec
CONSTANTS
  t1 = t1
  t2 = t2
  t3 = t3
  None = None
  Tokens = {t1, t2, t3}
  MaxFaults = 4
INVARIANTS TypeOK ImportedOnce SuccessIsArchived
PROPERTIES ConfirmedImportSettles
CHECK_DEADLOCK FALSE
