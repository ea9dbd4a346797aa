----------------------------- MODULE MCMetering -----------------------------
(***************************************************************************)
(* Small instances of Metering for TLC.  Two plans, so that an upgrade or a*)
(* downgrade can land between the plan read and the INSERT; two usage      *)
(* types with limits of their own; requests that share a key with the same *)
(* body (a retry) and with another subscription's body (a collision).      *)
(***************************************************************************)
EXTENDS Metering, TLC

\* Handlers are interchangeable; no property of the runs that use this
\* symmetry is a liveness property.
HandlerSymmetry == Permutations(Handlers)

MCLimit == [p \in Plans |-> [t \in Types |-> IF p = "free" THEN 1 ELSE 2]]

MCTopLimit == [t \in Types |-> 2]

MCRequest(n, s, t, q, k) ==
  [tenant |-> n, sub |-> s, type |-> t, qty |-> q, key |-> k]

\* One subscription, three keys.
QuotaRequests ==
  { MCRequest("n1", "s1", "API_CALL", 2, "k1"),
    MCRequest("n1", "s1", "API_CALL", 1, "k2"),
    MCRequest("n1", "s1", "API_CALL", 2, "k3") }

\* One request that takes the whole limit.
RetryRefusedRequests == { MCRequest("n1", "s1", "API_CALL", 2, "k1") }

\* Two tenants, one subscription each: a request for another tenant's
\* subscription, a key that both tenants use, and a zero-token response.
KeyRequests ==
  { MCRequest("n1", "s1", "API_CALL", 1, "k1"),
    MCRequest("n2", "s2", "TOKENS", 1, "k1"),
    MCRequest("n2", "s1", "TOKENS", 0, "k2") }
=============================================================================
