CONSTANTS
  img = img
  vid = vid
  w1 = w1
  w2 = w2
  o1 = o1
  o2 = o2
  Wb = Wb
  Ozon = Ozon
  Nobody = Nobody
  Approval = {img}
  Delivery = {w1, o1}
  ApprovalOf <- MCApprovalOf
  PlatformOf <- MCPlatformOf
  MaxFaults = 1
  MaxCrash = 1
  MaxWriteFail = 1
SPECIFICATION Spec
INVARIANTS TypeOK RegisteredOnce RecordsAgree SucceededMeansDelivered
