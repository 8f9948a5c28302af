----------------------- MODULE MCSharedMediaDelivery -----------------------
(* Instances of SharedMediaDelivery for TLC: approval img delivers w1 to WB *)
(* and o1 to OZON, approval vid delivers w2 to WB and o2 to OZON.          *)
EXTENDS SharedMediaDelivery

CONSTANTS img, vid, w1, w2, o1, o2

MCApprovalOf == [d \in Delivery |-> IF d \in {w1, o1} THEN img ELSE vid]
MCPlatformOf == [d \in Delivery |-> IF d \in {w1, w2} THEN Wb ELSE Ozon]
=============================================================================
