------------------------------ MODULE MCEngine ------------------------------
(***************************************************************************)
(* A small instance of Engine for TLC.  The clock starts in December, so    *)
(* that the one month that ends is the one whose end is in another year.   *)
(* Tokens have no quota, so one request of two units fills all there is.   *)
(***************************************************************************)
EXTENDS Engine

MCLimit == [p \in Plans |->
              [API_CALL |-> IF p = "free" THEN 1 ELSE 2, TOKENS |-> 0]]
MCTopLimit == [API_CALL |-> 2, TOKENS |-> 0]
MCPrice == [p \in Plans |-> IF p = "free" THEN 0 ELSE 5]
MCUsageLimit == [p \in Plans |-> IF p = "free" THEN 0 ELSE 1]
MCFirst == FirstOf(2026, 12)

\* Each key asks for two units.
MCRequests ==
  {[tenant |-> "n1", sub |-> "s1", type |-> "API_CALL", qty |-> 2, key |-> k] :
     k \in Keys}
=============================================================================
