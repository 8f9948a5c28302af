SPECIFICATION Spec
CONSTANTS
  x1 = x1
  x2 = x2
  x3 = x3
  Exec = {x1, x2, x3}
  None = None
  Overlap = FALSE
  MaxCrash = 1
  MaxSleep = 1
  MaxHang = 0
  MaxBusy = 1
INVARIANTS TypeOK AnswersAgree
PROPERTIES OwnershipRespected JobIsSettled
CHECK_DEADLOCK FALSE
