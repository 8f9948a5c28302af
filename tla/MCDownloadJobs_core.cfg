SPECIFICATION Spec
CONSTANTS
  s1 = s1
  s2 = s2
  wa = wa
  wb = wb
  MaxJobs = 2
  Sku = {s1, s2}
  Replayable = {s2}
  Batch = {bt1}
  SkusOf <- MCSkusOf
  Worker = {wa, wb}
  Nobody = Nobody
  Lease = 1
  Deadline = 1
  MaxWaits = 2
  Budget = 1
  MaxDelay = 1
  MaxFaults = 1
INVARIANTS TypeOK ResultFromHolder OutcomesTold
CHECK_DEADLOCK FALSE
PROPERTIES JobsSettle
