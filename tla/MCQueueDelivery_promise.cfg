CONSTANTS
  a1 = a1
  a2 = a2
  b1 = b1
  ta = ta
  tb = tb
  g1 = g1
  g2 = g2
  draft = draft
  redrawn = redrawn
  default = default
  tuned = tuned
  NoItem = NoItem
  Direct = TRUE
  Item = {a1, b1}
  Target = {ta, tb}
  TargetOf <- MCTargetOf
  Group = {g1}
  GroupOf <- MCGroupOf
  Selection = {draft, redrawn}
  Parameters = {default}
  Template = default
  Policy = {"skip"}
  RetryLimit = 0
  MaxRevision = 2
  MaxOps = 2
  MaxEdits = 1
  MaxFaults = 1
  MaxCrash = 1
  MaxWriteFail = 1
SPECIFICATION FairSpec
INVARIANTS ArchiveAgrees
PROPERTIES ImplementsPromise RunsEnd
