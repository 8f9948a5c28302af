CONSTANTS
  img = img
  vid = vid
  w1 = w1
  w2 = w2
  o1 = o1
  o2 = o2
  Wb = Wb
  Ozon = Ozon
  Nobody = Nobody
  Approval = {img, vid}
  Delivery = {w1, w2}
  ApprovalOf <- MCApprovalOf
  PlatformOf <- MCPlatformOf
  MaxFaults = 0
  MaxCrash = 1
  MaxWriteFail = 0
SPECIFICATION FairSpec
PROPERTIES ManifestKeepsOthers DeliveriesSettle
