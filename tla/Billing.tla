------------------------------ MODULE Billing ------------------------------
(***************************************************************************)
(* GET /billing/{subscription_id} (src/app/services/billing_service.py):   *)
(* concurrent handlers compute the bill of the current month, return the   *)
(* stored invoice of the period if there is one and store it otherwise.    *)
(* Reading the subscription, summing its usage, looking for an invoice and *)
(* storing the new one are statements of their own; meanwhile usage is     *)
(* recorded, the plan is changed, the month ends.  The invoices table has  *)
(* no unique constraint on subscription and period                         *)
(* (alembic/versions/8b0e3e7d8039, 4c4dce7abd0f).                          *)
(*                                                                         *)
(* A handler is about to: "load" the subscription, read the "clock", "sum" *)
(* the usage, "look" the invoice up, "store" the new one, "refresh" it and *)
(* answer.                                                                 *)
(***************************************************************************)
EXTENDS Integers, Sequences, FiniteSets, UsageTotals

CONSTANTS
  Billers,     \* concurrent request handlers
  Subs,        \* the subscriptions
  Plans,
  Price,       \* Price[p], UsageLimit[p]: columns of plans
  UsageLimit,
  Types,       \* usage types; a bill sums them all
  Quantities,  \* the quantities of usage events
  MaxInt,      \* the largest value of an integer column
  LastMonth,   \* bound: the clock stops in this month
  MaxEvents    \* bound: usage events recorded

ASSUME BillersAssumption == IsFiniteSet(Billers) /\ Billers # {}

ASSUME RowsAssumption ==
  /\ Subs # {} /\ Plans # {}
  /\ Quantities \subseteq Nat
  /\ MaxEvents \in Nat /\ LastMonth \in Nat \ {0}

\* An integer column (two's complement).
Column == -(MaxInt + 1) .. MaxInt

\* plans.price and plans.usage_limit are integer columns, and a plan may be
\* given negative ones (schemas/plan.py:8-9 have no lower bound).
ASSUME PlansAssumption ==
  /\ MaxInt \in Nat
  /\ Price \in [Plans -> Column]
  /\ UsageLimit \in [Plans -> Column]

Months == 1..LastMonth

OveragePrice == 10      \* cents per unit over the plan's usage_limit

UsageRow == [sub: Subs, type: Types, qty: Quantities, month: Months]

Invoice == [sub: Subs, month: Months, price: Column, limit: Column,
            total: 0..MaxInt, overage: 0..MaxInt, amount: Column]

Pcs == {"idle", "load", "clock", "sum", "look", "store", "refresh"}

VARIABLES
  events,     \* the committed usage events
  plan,       \* plan[s]: subscription s's plan_id
  month,      \* the clock
  invoices,   \* the committed invoices, in commit order
  pc, sub,    \* each handler's position and subscription
  seen,       \* the plan the handler read with the subscription
  period,     \* the month whose bounds it computed (0: none yet)
  total,      \* the usage it summed
  stored,     \* the invoice it stored (0: none yet)
  since,      \* history: the period's usage when its bounds were computed
  given       \* history: given[s][m], the invoices answered for that period

billerVars == <<pc, sub, seen, period, total, stored, since>>
vars == <<events, plan, month, invoices, given, pc, sub, seen, period,
          total, stored, since>>

TypeOK ==
  /\ events \in Seq(UsageRow)
  /\ plan \in [Subs -> Plans]
  /\ month \in Months
  /\ invoices \in Seq(Invoice)
  /\ pc \in [Billers -> Pcs]
  /\ sub \in [Billers -> Subs]
  /\ seen \in [Billers -> Plans]
  /\ period \in [Billers -> 0..LastMonth]
  /\ total \in [Billers -> Nat]
  /\ stored \in [Billers -> Nat]
  /\ since \in [Billers -> Nat]
  /\ given \in [Subs -> [Months -> SUBSET Nat]]
  /\ \A b \in Billers :
       pc[b] \in {"sum", "look", "store", "refresh"} => period[b] \in Months

Init ==
  /\ events = <<>>
  /\ plan \in [Subs -> Plans]
  /\ month = 1
  /\ invoices = <<>>
  /\ pc = [b \in Billers |-> "idle"]
  /\ sub = [b \in Billers |-> CHOOSE s \in Subs : TRUE]
  /\ seen = [b \in Billers |-> CHOOSE p \in Plans : TRUE]
  /\ period = [b \in Billers |-> 0]
  /\ total = [b \in Billers |-> 0]
  /\ stored = [b \in Billers |-> 0]
  /\ since = [b \in Billers |-> 0]
  /\ given = [s \in Subs |-> [m \in Months |-> {}]]

InvoicesOf(s, m) ==
  {i \in DOMAIN invoices : invoices[i].sub = s /\ invoices[i].month = m}

-----------------------------------------------------------------------------
(* The request handler *)

\* The session ends; the handler's variables are reset.
Finish(b) ==
  /\ pc' = [pc EXCEPT ![b] = "idle"]
  /\ period' = [period EXCEPT ![b] = 0]
  /\ total' = [total EXCEPT ![b] = 0]
  /\ stored' = [stored EXCEPT ![b] = 0]
  /\ since' = [since EXCEPT ![b] = 0]
  /\ seen' = [seen EXCEPT ![b] = CHOOSE p \in Plans : TRUE]
  /\ UNCHANGED <<events, plan, month, invoices, sub>>

Refuse(b) == Finish(b) /\ UNCHANGED given

Answer(b, i) ==
  /\ Finish(b)
  /\ given' = [given EXCEPT ![sub[b]][period[b]] = @ \cup {i}]

\* The owner asks for the bill of s.  For anyone else, and for an unknown id,
\* get_owned_subscription answers 403 or 404 and nothing changes.
Request(b, s) ==
  /\ pc[b] = "idle"
  /\ pc' = [pc EXCEPT ![b] = "load"]
  /\ sub' = [sub EXCEPT ![b] = s]
  /\ UNCHANGED <<events, plan, month, invoices, given, seen, period, total, stored,
                 since>>

\* The subscription with its plan.
Load(b) ==
  /\ pc[b] = "load"
  /\ pc' = [pc EXCEPT ![b] = "clock"]
  /\ seen' = [seen EXCEPT ![b] = plan[sub[b]]]
  /\ UNCHANGED <<events, plan, month, invoices, given, sub, period, total,
                 stored, since>>

\* month_bounds()
ReadClock(b) ==
  /\ pc[b] = "clock"
  /\ pc' = [pc EXCEPT ![b] = "sum"]
  /\ period' = [period EXCEPT ![b] = month]
  /\ since' = [since EXCEPT ![b] = TotalUsage(events, sub[b], month)]
  /\ UNCHANGED <<events, plan, month, invoices, given, sub, seen, total,
                 stored>>

\* [planted bug] sums the API calls only.
SumUsageApiOnly(b) ==
  /\ pc[b] = "sum"
  /\ pc' = [pc EXCEPT ![b] = "look"]
  /\ total' = [total EXCEPT
                 ![b] = TotalByType(events, sub[b], "API_CALL", period[b])]
  /\ UNCHANGED <<events, plan, month, invoices, given, sub, seen,
                 period, stored, since>>

SumUsage(b) ==
  /\ pc[b] = "sum"
  /\ pc' = [pc EXCEPT ![b] = "look"]
  /\ total' = [total EXCEPT ![b] = TotalUsage(events, sub[b], period[b])]
  /\ UNCHANGED <<events, plan, month, invoices, given, sub, seen,
                 period, stored, since>>

\* A stored invoice among `found` is the answer; `first()` takes any of them.
AnswerOrStore(b, found) ==
  /\ pc[b] = "look"
  /\ \/ \E i \in found : Answer(b, i)
     \/ /\ found = {}
        /\ pc' = [pc EXCEPT ![b] = "store"]
        /\ UNCHANGED <<events, plan, month, invoices, given, sub, seen,
                       period, total, stored, since>>

\* [planted bug] takes any invoice of the subscription.
LookUpAnyPeriod(b) ==
  AnswerOrStore(b, {i \in DOMAIN invoices : invoices[i].sub = sub[b]})

\* [planted bug] does not look for the stored invoice.
LookUpNothing(b) == AnswerOrStore(b, {})

LookUp(b) == AnswerOrStore(b, InvoicesOf(sub[b], period[b]))

\* [planted bug] takes the limit of the plan the subscription has now.
BillMixingPlans(b) ==
  LET limit == UsageLimit[plan[sub[b]]]
      over  == IF total[b] > limit THEN total[b] - limit ELSE 0
  IN  [sub |-> sub[b], month |-> period[b], price |-> Price[seen[b]],
       limit |-> limit, total |-> total[b], overage |-> over,
       amount |-> Price[seen[b]] + over * OveragePrice]

\* The invoice, from what was read.
Bill(b) ==
  LET limit == UsageLimit[seen[b]]
      over  == IF total[b] > limit THEN total[b] - limit ELSE 0
  IN  [sub |-> sub[b], month |-> period[b], price |-> Price[seen[b]],
       limit |-> limit, total |-> total[b], overage |-> over,
       amount |-> Price[seen[b]] + over * OveragePrice]

\* [planted bug] the columns hold any integer.
StorableAny(bill) == TRUE

\* Every amount fits its column; the INSERT raises DataError otherwise.  None
\* can be below it: total and overage are not negative, price fits its own.
Storable(bill) ==
  /\ bill.total <= MaxInt /\ bill.overage <= MaxInt /\ bill.amount <= MaxInt

\* [planted bug] bills an issued invoice of the period anew.
StoreAnew(b) ==
  /\ pc[b] = "store"
  /\ Storable(Bill(b))
  /\ pc' = [pc EXCEPT ![b] = "refresh"]
  /\ \/ /\ InvoicesOf(sub[b], period[b]) = {}
        /\ invoices' = Append(invoices, Bill(b))
        /\ stored' = [stored EXCEPT ![b] = Len(invoices) + 1]
     \/ \E i \in InvoicesOf(sub[b], period[b]) :
          /\ invoices' = [invoices EXCEPT ![i] = Bill(b)]
          /\ stored' = [stored EXCEPT ![b] = i]
  /\ UNCHANGED <<events, plan, month, given, sub, seen, period, total, since>>

\* INSERT and COMMIT: nothing makes it wait, nothing sees it in between.
Store(b) ==
  /\ pc[b] = "store"
  /\ \/ /\ Storable(Bill(b))
        /\ pc' = [pc EXCEPT ![b] = "refresh"]
        /\ invoices' = Append(invoices, Bill(b))
        /\ stored' = [stored EXCEPT ![b] = Len(invoices) + 1]
        /\ UNCHANGED <<events, plan, month, given, sub, seen, period,
                       total, since>>
     \/ ~Storable(Bill(b)) /\ Refuse(b)

\* db.refresh re-reads the stored row; the answer is made from it.
Refresh(b) == pc[b] = "refresh" /\ Answer(b, stored[b])

\* A statement fails or the worker dies; a stored invoice stays.
Fail(b) == pc[b] # "idle" /\ Refuse(b)

-----------------------------------------------------------------------------
(* What the rest of the engine does meanwhile *)

\* A usage event is committed.  Its created_at may lie in an earlier month
\* when its handler was held up between the INSERT and the COMMIT.
RecordUsage(s, t, q, m) ==
  /\ Len(events) < MaxEvents
  /\ m <= month
  /\ events' = Append(events, [sub |-> s, type |-> t, qty |-> q, month |-> m])
  /\ UNCHANGED <<plan, month, invoices, given, billerVars>>

\* A webhook commits another plan.
ChangePlan(s, p) ==
  /\ plan' = [plan EXCEPT ![s] = p]
  /\ UNCHANGED <<events, month, invoices, given, billerVars>>

NextMonth ==
  /\ month < LastMonth
  /\ month' = month + 1
  /\ UNCHANGED <<events, plan, invoices, given, billerVars>>

Next ==
  \/ \E b \in Billers :
       \/ \E s \in Subs : Request(b, s)
       \/ Load(b) \/ ReadClock(b) \/ SumUsage(b) \/ LookUp(b) \/ Store(b) \/ Refresh(b)
       \/ Fail(b)
  \/ \E s \in Subs, t \in Types, q \in Quantities, m \in Months :
       RecordUsage(s, t, q, m)
  \/ \E s \in Subs, p \in Plans : ChangePlan(s, p)
  \/ NextMonth

Spec == Init /\ [][Next]_vars

-----------------------------------------------------------------------------
(* Properties *)

\* However plan changes and usage interleave with the four reads, an invoice
\* charges the price and the limit of one plan, bills no usage that is not
\* recorded, and adds up (billing_service.py:43-65).
InvoiceConsistent ==
  \A i \in DOMAIN invoices :
    LET v == invoices[i]
    IN  /\ \E p \in Plans : v.price = Price[p] /\ v.limit = UsageLimit[p]
        /\ v.total <= TotalUsage(events, v.sub, v.month)
        /\ v.total <= v.limit + v.overage
        /\ v.overage > 0 => v.total = v.limit + v.overage
        /\ v.amount = v.price + v.overage * OveragePrice

\* A new invoice counts, of both usage types, everything recorded in its
\* period before the bill was requested, and nothing twice
\* (billing_service.py:43, usage_repository.py:61-76).
BillCountsUsage ==
  [][\A b \in Billers :
       Len(invoices') > Len(invoices) /\ pc[b] = "store" /\ pc'[b] = "refresh"
         => LET v == invoices'[Len(invoices')]
            IN  /\ since[b] <= v.total
                /\ v.total <= TotalUsage(events, v.sub, v.month)]_vars

\* Concurrent requests may each store an invoice, but a period never has more
\* invoices than there are handlers: each duplicate comes from a handler that
\* looked before the first one was stored (billing_service.py:48-67).
DuplicatesBounded ==
  \A s \in Subs, m \in Months :
    Cardinality(InvoicesOf(s, m)) <= Cardinality(Billers)

\* What README.md:84 promises.  DuplicatesBounded is this for one handler; it
\* fails for two.
OneInvoicePerPeriod ==
  \A s \in Subs, m \in Months : Cardinality(InvoicesOf(s, m)) <= 1

\* Every bill answered is a committed invoice of the subscription and month it
\* was asked for, although the month may end while it is made: no answer is
\* taken from another period or from an invoice that was rolled back
\* (billing_service.py:39-54, invoice_repository.py:38-52).
AnswersOfPeriod ==
  \A s \in Subs, m \in Months : given[s][m] \subseteq InvoicesOf(s, m)

\* The register of invoices this component implements: whoever bills a period
\* again, no invoice is changed once it is stored, a period has no more of
\* them than there are handlers, and answers name the period's own
\* (invoice_repository.py:11-16, billing_service.py:48-67).
Register == INSTANCE InvoiceRegister WITH
              Copies <- Cardinality(Billers),
              issued <- invoices, answered <- given

RegisterSpec == Register!Spec
=============================================================================
