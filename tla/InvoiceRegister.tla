--------------------------- MODULE InvoiceRegister ---------------------------
(***************************************************************************)
(* What billing promises the tenants it charges: a register of invoices.   *)
(* An invoice is never changed or withdrawn once it is issued; every       *)
(* answer to a request for the bill of a period is an invoice of that      *)
(* period; and a period has at most Copies of them.  How requests race,    *)
(* fail and are repeated is the implementation's business (Billing.tla).   *)
(***************************************************************************)
EXTENDS Integers, Sequences, FiniteSets

CONSTANTS
  Subs, Months,   \* a period is a month of a subscription
  Copies          \* the most invoices a period may have

VARIABLES
  issued,     \* the invoices, in the order they were issued
  answered    \* answered[s][m]: the invoices that requests were answered with

registerVars == <<issued, answered>>

Init ==
  /\ issued = <<>>
  /\ answered = [s \in Subs |-> [m \in Months |-> {}]]

IssuedFor(s, m) ==
  {i \in DOMAIN issued : issued[i].sub = s /\ issued[i].month = m}

\* One invoice more.
Issue ==
  /\ Len(issued') > Len(issued)
  /\ LET bill == issued'[Len(issued')]
     IN  /\ issued' = Append(issued, bill)
         /\ bill.sub \in Subs /\ bill.month \in Months
         /\ Cardinality(IssuedFor(bill.sub, bill.month)) < Copies
  /\ UNCHANGED answered

Answer(s, m) ==
  /\ \E i \in IssuedFor(s, m) :
       answered' = [answered EXCEPT ![s][m] = @ \cup {i}]
  /\ UNCHANGED issued

Next == Issue \/ \E s \in Subs, m \in Months : Answer(s, m)

Spec == Init /\ [][Next]_registerVars
=============================================================================
