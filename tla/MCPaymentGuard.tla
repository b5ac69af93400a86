---------------------------- MODULE MCPaymentGuard ---------------------------
(* Payments of which only some fit into a day, two verifications.           *)
EXTENDS PaymentGuard, TLC

Offer(k, to) == [amount |-> Num(k), recipient |-> to, asset |-> "usdc", chain |-> "base"]
MCOffers == {Offer(2, "shop"), Offer(1, "other")}

Lists(to) == [s \in Scopes |-> IF s = "recipient" THEN to ELSE Anything]
Daily(k) == [NoPolicy EXCEPT !.type = "limit", !.maxDaily = k]
MCPolicies ==
    {[config |-> Daily(3), lists |-> Lists(Anything)],
     [config |-> [Daily(2) EXCEPT !.smallThreshold = 2, !.largeThreshold = 5], lists |-> Lists({"shop"})],
     [config |-> TakenOver, lists |-> Lists(Anything)]}

Interchangeable == Permutations(Checks)
=============================================================================
