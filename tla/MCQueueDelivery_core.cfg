CONSTANTS
  a1 = a1
  a2 = a2
  b1 = b1
  ta = ta
  tb = tb
  g1 = g1
  g2 = g2
  draft = draft
  redrawn = redrawn
  default = default
  tuned = tuned
  NoItem = NoItem
  Direct = FALSE
  Item = {a1, a2}
  Target = {ta}
  TargetOf <- MCTargetOf
  Group = {g1, g2}
  GroupOf <- MCGroupOf
  Selection = {draft}
  Parameters = {default}
  Template = default
  Policy = {"skip"}
  RetryLimit = 1
  MaxRevision = 1
  MaxOps = 2
  MaxEdits = 2
  MaxFaults = 1
  MaxCrash = 1
  MaxWriteFail = 1
SPECIFICATION Spec
INVARIANTS TypeOK AtMostOncePublish EvidenceSound
PROPERTIES SucceededMeansDelivered
SYMMETRY RowSymmetry
