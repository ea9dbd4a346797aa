----------------------------- MODULE UsageLedger -----------------------------
(***************************************************************************)
(* What the metering path promises a client that retries: an exactly-once  *)
(* ledger.  Under a key at most one row is ever recorded, it is never      *)
(* withdrawn, and every answer for the key names it.  How requests race,   *)
(* wait, fail and are retried is the implementation's business             *)
(* (Metering.tla).                                                         *)
(***************************************************************************)
CONSTANT Keys       \* idempotency keys

VARIABLES
  recorded,   \* recorded[k]: the identity of the row recorded under k, if any
  answered    \* answered[k]: the rows that answers for k have named

ledgerVars == <<recorded, answered>>

Init ==
  /\ recorded = [k \in Keys |-> {}]
  /\ answered = [k \in Keys |-> {}]

\* A new row, of any identity that no other key has.
Record(k) ==
  /\ recorded[k] = {}
  /\ \E i \in recorded'[k] :
       /\ \A j \in Keys : i \notin recorded[j]
       /\ recorded' = [recorded EXCEPT ![k] = {i}]
  /\ UNCHANGED answered

Answer(k) ==
  /\ recorded[k] # {}
  /\ answered' = [answered EXCEPT ![k] = @ \cup recorded[k]]
  /\ UNCHANGED recorded

Next == \E k \in Keys : Record(k) \/ Answer(k)

Spec == Init /\ [][Next]_ledgerVars
=============================================================================
