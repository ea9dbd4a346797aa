------------------------------- MODULE Engine -------------------------------
(***************************************************************************)
(* Metering and billing over one database.  A worker process runs POST     *)
(* /usage and GET /billing handlers side by side (src/app/api/router.py);   *)
(* what Metering and Billing each leave to "the rest of the engine" is here *)
(* the other component's real step, on the same tables and clock:          *)
(*                                                                         *)
(*   table             written by            read by                       *)
(*   usage_events      Metering (Commit)     Metering, Billing             *)
(*   subscriptions     POST /subscriptions,  Metering, Billing             *)
(*                     webhooks                                            *)
(*   invoices          Billing (Store)       Billing                       *)
(*                                                                         *)
(* The clock runs through real calendar months from First on; month is the *)
(* number of months since then.                                            *)
(***************************************************************************)
EXTENDS Integers, Sequences, FiniteSets, UsageTotals, Calendar

CONSTANTS
  Handlers, Billers,             \* concurrent requests of either kind
  Subs, Tenants, Plans, Statuses, NoSub,
  Types, Keys, Requests, MaxQty,
  Limit, TopLimit,               \* the per-type limits of the plans
  Price, UsageLimit,             \* what their bills are made from
  MaxInt,                        \* the largest value of an integer column
  First,                         \* the date of month 1
  LastMonth                      \* bound: the clock stops in this month

\* What Metering and Billing assume of their constants.
ASSUME RequestersAssumption ==
  /\ IsFiniteSet(Handlers) /\ Handlers # {}
  /\ IsFiniteSet(Billers) /\ Billers # {}
  /\ Subs # {} /\ Plans # {} /\ IsFiniteSet(Keys)
  /\ MaxQty \in Nat
  /\ Requests \subseteq
       [tenant: Tenants, sub: Subs, type: Types, qty: 0..MaxQty, key: Keys]
  /\ Requests # {}
  /\ "active" \in Statuses
  /\ Statuses \subseteq {"active", "cancelled", "past_due", "trialing"}
  /\ NoSub \notin [tenant: Tenants, plan: Plans, status: Statuses]

ASSUME PlansAssumption ==
  /\ Types = {"API_CALL", "TOKENS"}
  /\ TopLimit \in [Types -> Nat]
  /\ Limit \in [Plans -> [Types -> Int]]
  /\ \A p \in Plans, t \in Types : Limit[p][t] <= TopLimit[t]
  /\ MaxInt \in Nat
  /\ Price \in [Plans -> -(MaxInt + 1) .. MaxInt]
  /\ UsageLimit \in [Plans -> -(MaxInt + 1) .. MaxInt]

ASSUME ClockAssumption ==
  /\ First \in DateTime /\ First.at = 0
  /\ LastMonth \in Nat \ {0}

VARIABLES
  events, subs, month,                              \* shared
  pc, req, reply, period, limit, stamp, rowid,      \* Metering's handlers
  answered,
  invoices, given,                                  \* Billing's table
  bpc, bsub, bseen, bperiod, btotal, bstored, bsince \* Billing's handlers

shared    == <<events, subs, month>>
meterVars == <<pc, req, reply, period, limit, stamp, rowid, answered>>
billVars  == <<invoices, given, bpc, bsub, bseen, bperiod, btotal, bstored,
               bsince>>
vars == <<shared, meterVars, billVars>>

-----------------------------------------------------------------------------
(* The components, over the shared tables *)

Meter == INSTANCE Metering

\* What Billing reads of the tables: rows without their key, and the plan of
\* each subscription (any plan for one that does not exist yet: no bill of it
\* can be asked for).
BilledRows ==
  [i \in DOMAIN events |-> [sub |-> events[i].sub, type |-> events[i].type,
                            qty |-> events[i].qty, month |-> events[i].month]]

PlanOf ==
  [s \in Subs |-> IF subs[s] = NoSub THEN CHOOSE p \in Plans : TRUE
                                     ELSE subs[s].plan]

Bills == INSTANCE Billing WITH
           events <- BilledRows, plan <- PlanOf,
           Quantities <- 0..MaxQty, MaxEvents <- Cardinality(Keys),
           pc <- bpc, sub <- bsub, seen <- bseen, period <- bperiod,
           total <- btotal, stored <- bstored, since <- bsince

Init ==
  /\ Meter!Init
  /\ invoices = <<>>
  /\ given = [s \in Subs |-> [m \in 1..LastMonth |-> {}]]
  /\ bpc = [b \in Billers |-> "idle"]
  /\ bsub = [b \in Billers |-> CHOOSE s \in Subs : TRUE]
  /\ bseen = [b \in Billers |-> CHOOSE p \in Plans : TRUE]
  /\ bperiod = [b \in Billers |-> 0]
  /\ btotal = [b \in Billers |-> 0]
  /\ bstored = [b \in Billers |-> 0]
  /\ bsince = [b \in Billers |-> 0]

\* A metering handler takes a step, fails, or is sent a request.
MeterStep(h) ==
  /\ \/ Meter!Step(h) \/ Meter!Fail(h)
     \/ \E r \in Requests : Meter!Start(h, r)
  /\ UNCHANGED billVars

\* get_owned_subscription answers 404 for a subscription that is not there.
AskForBill(b, s) ==
  /\ subs[s] # NoSub
  /\ UNCHANGED <<shared, meterVars>>
  /\ Bills!Request(b, s)

BillStep(b) ==
  /\ UNCHANGED <<shared, meterVars>>
  /\ \/ Bills!Load(b) \/ Bills!ReadClock(b) \/ Bills!SumUsage(b)
     \/ Bills!LookUp(b) \/ Bills!Store(b) \/ Bills!Refresh(b) \/ Bills!Fail(b)

\* POST /subscriptions, webhooks and the reconciliation.
Subscriptions ==
  /\ \/ \E s \in Subs, n \in Tenants, p \in Plans :
          Meter!CreateSubscription(s, n, p)
     \/ \E s \in Subs, st \in Statuses, p \in Plans :
          Meter!SyncSubscription(s, st, p)
     \/ Meter!Reconcile
  /\ UNCHANGED billVars

NextMonth == Meter!NextMonth /\ UNCHANGED billVars

Next ==
  \/ \E h \in Handlers : MeterStep(h)
  \/ \E b \in Billers : BillStep(b) \/ \E s \in Subs : AskForBill(b, s)
  \/ Subscriptions
  \/ NextMonth

Spec == Init /\ [][Next]_vars

-----------------------------------------------------------------------------
(* Properties *)

\* Billing assumes no more of the rest of the engine than metering keeps to:
\* whatever the metering handlers commit is, to a bill, a usage event of a
\* month that is not in the future, and never more of them than keys.
BillingSpec == Bills!Spec

QuotaBound(t) == TopLimit[t] + (Cardinality(Handlers) - 1) * MaxQty

\* No invoice charges for more than the quotas of both usage types let in,
\* requests that were in flight included: overage is billed on usage_limit,
\* but what can be billed is bounded by the limits that record_usage checks
\* (billing_service.py:43-46, usage_service.py:41-58).
BilledWithinQuotas ==
  \A i \in DOMAIN invoices :
    invoices[i].total <= QuotaBound("API_CALL") + QuotaBound("TOKENS")

\* The date of month m's first moment.
DateOf(m) ==
  LET n == First.month + m - 2
  IN  FirstOf(First.year + n \div 12, (n % 12) + 1)

\* The window a bill is computed for holds exactly the usage of its month,
\* in December as in every other month (utils/dates.py:17-30): a row is
\* billed in one period and in no other.
PeriodsHoldTheirRows ==
  \A b \in Billers : bpc[b] \in {"sum", "look", "store", "refresh"} =>
    \A i \in DOMAIN events :
      InPeriod(DateOf(events[i].month), MonthBounds(DateOf(bperiod[b])))
        <=> events[i].month = bperiod[b]
=============================================================================
