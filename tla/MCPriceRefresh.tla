----------------------------- MODULE MCPriceRefresh ----------------------------
(* Instances of PriceRefresh for TLC.                                      *)
EXTENDS PriceRefresh, TLC

CONSTANTS m1, m2, r1, r2, in, out, img, o1

Sku(m, svc, g, k, class, global, long, price) ==
  [model |-> m, svc |-> svc, region |-> g, kind |-> k, class |-> class,
   global |-> global, long |-> long, price |-> price]
FM == "FoundationModels"
AB == "AmazonBedrock"

(* m1 has rates of every sort in r1, one in r2; m2 has one in r2. Of images *)
(* only a batch has a rate for global routing.                              *)
Base    == Sku(m1, FM, r1, in, "plain", FALSE, FALSE, 3)
Premium == Sku(m1, FM, r1, in, "plain", FALSE, FALSE, 4)
Flex    == Sku(m1, FM, r1, in, "flex", FALSE, FALSE, 1)
Global  == Sku(m1, FM, r1, in, "plain", TRUE, FALSE, 2)
Long    == Sku(m1, FM, r1, in, "plain", FALSE, TRUE, 1)
Other   == Sku(m1, AB, r2, in, "plain", FALSE, FALSE, 5)
Batch   == Sku(m1, FM, r1, in, "batch", FALSE, FALSE, 1)
Image   == Sku(m1, AB, r1, img, "plain", FALSE, FALSE, 6)
Images  == Sku(m1, AB, r1, img, "batch", TRUE, FALSE, 2)
Second  == Sku(m2, AB, r2, in, "plain", FALSE, FALSE, 7)
AllSkus == {Base, Premium, Flex, Global, Long, Batch, Image, Images, Other, Second}

Ascending  == <<Long, Batch, Flex, Global, Images, Base, Premium, Image, Other, Second>>
Orders     == {Ascending, Reverse(Ascending)}
Unsettled  == {Base, Second}

TwoRegions == <<r1, r2>>
Listing    == r1 :> {m1} @@ r2 :> {m1, m2}
TierOnly   == m1 :> [short |-> [regional |-> in :> 8 @@ out :> 9, global |-> in :> 7],
                     long |-> [regional |-> in :> 16 @@ out :> 18, global |-> << >>]]
Entered    == {in :> 10}
Indexed    == AllSkus
Filed      == AllSkus \ {Second}
================================================================================
