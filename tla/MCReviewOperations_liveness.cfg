CONSTANTS
  t1 = t1
  t2 = t2
  review1 = review1
  pending1 = pending1
  pending2 = pending2
  approve1 = approve1
  batch12 = batch12
  retry2 = retry2
  Task <- MCTask
  ReviewDoc = {}
  PendingDoc = {pending1}
  DocTask <- MCDocTask
  Key = {k1, k2}
  Request = {approve1, batch12, retry2}
  KindOf <- MCKindOf
  SubjectsOf <- MCSubjectsOf
  DocsOf <- MCDocsOf
  UnitsOf <- MCUnitsOf
  QueueLimit = 3
  MaxRunning = 2
  RetryLimit = 1
  MaxOps = 2
  MaxChain = 1
  MaxEdits = 1
  MaxCrash = 1
  MaxWriteFail = 0
SPECIFICATION FairSpec
PROPERTIES AcceptedSettles
