---------------------------- MODULE MCStripeSync ----------------------------
(* Prices of StripeSync, and the model values that TLC may exchange. *)
EXTENDS StripeSync, TLC

CONSTANT Free  \* the one plan with a price of its own; the others share one

MCPriceOf == [p \in Plans |-> IF p = Free THEN "price_free" ELSE "price_pro"]

Exchangeable ==
  Permutations(Tenants) \cup Permutations(StripeSubs) \cup Permutations(Plans \ {Free})
=============================================================================
