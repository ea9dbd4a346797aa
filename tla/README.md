# Verification of the metering and billing engine

TLA+ models of the usage metering and billing engine in `src/`, model-checked
with TLC, with theorems checked by TLAPS. The engine is a FastAPI application
over PostgreSQL: tenants send usage events, the engine counts them against the
quota of their plan, bills the month, shows a rollup of usage and cost, and
follows Stripe for subscriptions that are paid there.

## 1. The system

Endpoints are plain functions (run in a thread pool) or `async` ones that never
await (run on the event loop). Every request has a database session of its own
(`db/session.py:12-17`); statements run at READ COMMITTED, so each statement
sees what is committed when it starts, and nothing holds between two of them but
the locks the database takes itself. The README of the repository runs two
worker processes (`README.md:676`, `--workers 2`). So the engine is a set of
sequential handlers over shared tables, and what can go wrong goes wrong
*between two statements*.

| component | state | operations | interacts with |
|---|---|---|---|
| Metering and quota (`usage_service`, `usage_repository`) | `usage_events`, unique index on `idempotency_key` | POST /usage, POST /generate | reads subscriptions and plans; its rows are summed by billing and rollup |
| Billing (`billing_service`, `invoice_repository`) | `invoices`, no unique constraint on subscription and period | GET /billing, GET /invoices | sums usage, reads subscription and plan |
| Stripe webhooks (`stripe_service`) | `subscriptions`, `webhook_events` with unique `event_id` | POST /webhooks/stripe | writes subscriptions that metering and billing read |
| Stripe checkout (`stripe_service`, `integrations/stripe`) | open sessions at Stripe | GET /stripe/checkout | reads the tenant's customer; makes Stripe send the checkout event |
| Reconciliation (`reconciliation_service`, `main`) | session objects of one run | a loop in each worker process | reads Stripe, writes the status of subscriptions |
| Pricing and rollup (`cost_service`, `constants/pricing`) | none | GET /usage/{id}, the cost in POST /generate | three sums over `usage_events` |
| Subscriptions | `subscriptions` | POST /subscriptions, list | as above |
| Catalogue (tenants, plans) | unique `email`, unique `name` | POST /tenants, POST /plans, list | keys of subscriptions |
| Seeding (`scripts/seed.py`) | one transaction over plans, tenant, subscription | run by hand, again or twice at once | races the catalogue's requests |
| Calendar (`utils/dates`) | the clock | `month_bounds` | every sum and look-up by period |
| Shell, migrations | settings, schema | | |

**Hard behaviours, and what correct means.**

* *Metering.* Key look-up, quota sum and INSERT are separate statements. Retries
  overlap their originals; a second INSERT with the key waits for the first
  transaction, then fails on the index and is answered by a re-read. The plan
  can change and the month can end in between. Correct: a key is counted at most
  once; every answer for a key names its one row; usage exceeds a limit by no
  more than the requests in flight; nobody waits for ever.
* *Billing.* Load, sum, look up, store: four moments. Correct: an invoice
  charges one plan and adds up; it counts what was recorded when it was asked
  for; an answer is an invoice of the period asked for; duplicates are bounded.
* *Stripe.* Events are lost, repeated, reordered and processed by two workers at
  once; reconciliation keeps objects for minutes and then commits the columns it
  changed over whatever the rows hold by then. Correct: an event is applied once
  and only acknowledged if it was; applied in order, events make the row mirror
  Stripe; when Stripe stops changing, the status converges. A tenant may have
  several checkout sessions open for several customers: a row's customer must be
  the one that pays for its subscription, and no two rows follow one subscription.
* *Rollup.* Three sums at three moments; blocks are rounded up before or after
  summing. Correct: nothing shown goes back; what has a price is charged; a
  rollup costs no more than the responses did one by one.
* *Catalogue and seeding.* Look up, INSERT and COMMIT race on unique columns; the
  script holds several uncommitted names at once while it waits for the next one.
  Correct: nothing is there twice; a refusal is true; the script's rows are there
  together or not at all; running it again or twice adds nothing; no circle of
  waiting jobs.
* *The engine as a whole.* Bills are made between any two statements of usage
  requests, over the same tables and clock, and months end in December too.
  Correct: what each component assumed of the other is what the other does, and
  what is billed is bounded by what the quotas let in.

`PROJECT.json` lists each hazard at its line, with the properties that watch it.

## 2. The modules

| module | models | checked by |
|---|---|---|
| `UsageTotals` | the two SUM queries over `usage_events` | used by the three below |
| `Metering` | `record_usage` as concurrent handlers | `MCMetering` + 4 configurations |
| `UsageLedger` | abstract: an exactly-once ledger per key | refined by `Metering` |
| `SubscriptionTable` | abstract: the subscriptions table as its readers rely on it | used by `Metering`, refined by `StripeSync` |
| `Billing` | `calculate_bill` as concurrent handlers | `MCBilling` + 2 |
| `InvoiceRegister` | abstract: a register of invoices | refined by `Billing` |
| `StripeSync` | checkout, webhooks and reconciliation in several workers | `MCStripeSync` + 3 |
| `Cost` | block pricing, in integer micro-units | through `Rollup` |
| `Rollup` | the monthly rollup while usage is recorded | `MCRollup` + 1 |
| `Calendar` | `month_bounds` on dates | through `Engine` |
| `Engine` | composition: `Metering` and `Billing` on one database and one clock | `MCEngine` + 1 |
| `Catalog` | tenants, plans, subscriptions and the seed script | `MCCatalog` + 1 |
| `UsageTotalsProofs`, `MeteringProofs`, `BillingProofs`, `StripeSyncProofs`, `StripeMirrorProofs`, `RollupProofs`, `CatalogProofs`, `EngineProofs` | theorems | TLAPS |

**How code becomes actions.** A handler has a program counter (`pc`) whose
labels name the statement it is about to run. An action is what happens between
two points where another handler can get in: one SELECT, one COMMIT, or the
Python code in between when it reads the clock. `month` is the clock; `NextMonth`
may fire between any two steps. The local variables of a handler are functions
on the set of handlers. A table is the sequence of its committed rows; a row's
primary key is its position. Refusals (401, 403, 404) change no table and end the
handler. `Fail` is a statement that raises or a worker that dies: the open
transaction is rolled back, what was committed stays.

**What is abstracted.** Names, e-mails, timestamps within a month and the wording
of answers. A row of `usage_events` has the month of its `created_at`:
`month_bounds()` is the half-open window of a calendar month
(`utils/dates.py:17-30`), so falling in the window is having that month: `Engine`
and `EngineProofs` show it of the dates themselves, from any first month on. The
history variables (`answered`, `given`, `since`, `shown`, `responses`, `floor`,
`log`, `acked`) only record; no guard reads them.

**Metering.** `CheckOwner` is `get_owned_subscription`; `CheckKey` the look-up by
key; `LoadSubscription` reads status and plan; `ReadClock` is `month_bounds()`, after
it; `CheckQuota` sums and compares; `Flush` is the default of `created_at`, taken
when the unit of work builds the INSERT and not when the period was computed;
`Insert` waits while another handler's uncommitted row has the key (`KeyIsLocked`)
and fails if a committed one has; `Commit`, `Refresh`, `Reread` follow
`usage_repository.py:41-47`. The rest of the engine appears as
`CreateSubscription`, `SyncSubscription` and `Reconcile`, which are the actions of
`SubscriptionTable`: a row is made active, a webhook commits the plan and status of
one row, a reconciliation the statuses of any.

**Billing.** `Load`, `ReadClock`, `SumUsage`, `LookUp`, `Store`, `Refresh` follow
`billing_service.py:33-69`. Prices and limits are any integers of their columns:
`schemas/plan.py:8-9` sets no lower bound. `Store` fails when an amount does not fit its integer
column. The overage is priced at 10 cents a unit over `usage_limit`, both usage
types together, as in the code.

**StripeSync.** A worker runs one event or one reconciliation at a time, because
both are `async` functions that never await. `seen` are rows as loaded, `obj` as
changed; `Flushed` writes only the columns in which they differ. `SaveEvent`
fails when another worker marked the event meanwhile. `SyncFromCheckout` takes
any row of the tenant (`first()` has no order), and so does
`CreateCheckoutSession` when it takes the customer of the session from it. The price of an update is looked up
among the plans (`AtPriceOf`): two may have it, as nothing makes it unique, and any is
taken; none has `OtherPrice`, and the row keeps its plan. What the row should show is
therefore said of the price and not of the plan. Each
name in `StripeSubs` is one session and the subscription it becomes: the session
is open until `Subscribe`, or for ever, and others of the tenant are open beside
it. A session without a customer gets a new one from Stripe. The step is taken at
the SELECT; what follows it reads and writes nothing of the engine. Stripe itself is external:
`Subscribe`, `Update`, `Cancel`, `Notify`, and `Deliver` of any event sent so
far, at any time, again or never. Sleeping between the attempts of a retrieval
is not a step: nothing is read or written between them. `AsRead` is the table as
metering and billing see it, without Stripe's ids, and `TableSpec` says that whatever
the workers do to it is a step of `SubscriptionTable`. Rows have the ids that
`MaxRows` calls of POST /subscriptions and `MaxEvents` events can take.

**Cost and Rollup.** `Request`, `SumCalls`, `SumTokens`, `SumTotals` are the rollup's
statements, `Answer` what it returns. `shown` keeps every rollup answered and `floor`
those of the month that were answered, to any reader, when a reader began. The rates are the literal ones of `constants/pricing.py`.
`math.ceil(n / 1000)` divides floats; it equals the integer quotient rounded up
for every n below 2^53, which the sums of integer columns stay far below.

**Calendar and Engine.** `Engine` is written over instances of the components, not
over copies: `Meter == INSTANCE Metering` and `Bills == INSTANCE Billing` with
`BilledRows` and `PlanOf` as what Billing reads of the shared tables. A step of one
leaves the other's handlers alone. The actions that stand for "the rest of the
engine" in either (`RecordUsage`, `ChangePlan`; and `SyncSubscription` and
`Reconcile` of Metering, which are kept as what Stripe's side commits) are matched by real steps.
`Bills!Spec` is a property of the whole. `Meter!Spec` holds by construction, as every step
that touches Metering's variables is one of its own actions; it is a lemma of the
proofs (`SameMetering`) and not a claim. The month number of the
components is the number of months since `First`; `DateOf` gives it its date.

**Catalog.** One program counter serves a request and a run of the script: a request
has one value to look up and commits; a run has a list and commits once at the end.
`Locked` is the wait of an INSERT for another transaction that has inserted the
value; `Insert` fails when it committed. `mine` are the uncommitted rows,
`CreateSubscription` is POST /subscriptions, which checks the foreign keys only.
`Makers` (history) says who made a row, to tell the script's from the API's.

## 3. The runs

| run | bounds | shows |
|---|---|---|
| `metering_quota` | 2 handlers, 1 subscription, 3 keys, quantities 1 and 2, limits 1 and 2, 2 months | `OvershootBounded` |
| `metering_keys` | 2 handlers, 2 tenants, 2 subscriptions, 2 keys, both types | `OneRowPerKey`, `AnswersAgree` (of the subscription whose row the key has), refinement of `UsageLedger` (`LedgerSpec`), `EveryRequestAnswered` under fairness |
| `metering_quota_race` | 2 handlers | `QuotaNeverExceeded` is violated |
| `metering_retry_race` | 2 handlers, one key, quantity = limit | `RetryGetsOriginal` is violated |
| `billing_race` | 2 handlers, 1 subscription, 2 plans, 2 months, 1 event at any moment, column maximum 15, one plan with a negative price and limit | `InvoiceConsistent`, `BillCountsUsage`, `AnswersOfPeriod`, `DuplicatesBounded`, refinement of `InvoiceRegister` (`RegisterSpec`) |
| `billing_duplicate` | 2 handlers, no usage | `OneInvoicePerPeriod` is violated |
| `stripe_mirror` | 1 worker, 2 tenants, 2 checkouts (of one tenant or of two), 3 plans of which two share a price, 3 events | `MirrorsInOrder`, `MirrorsItsOwn`, `CheckoutReusesRow`, `CustomerOwnsSubscription`, `TenantsApart` |
| `stripe_converge` | 2 workers, 1 Stripe subscription, 3 events, 1 crash | `EventAppliedOnce`, `LinksUnique`, `StatusConverges`, refinement of `SubscriptionTable` (`TableSpec`) |
| `stripe_plan` | 1 worker, 2 plans, 2 events | `PlanConverges` is violated |
| `rollup` | 2 readers, 1 subscription, 2 events, 2 months, counts on both sides of a block | `RollupWithinResponses`, `ShownTokensAreCharged`, `RollupGrows` |
| `engine` | 1 usage handler, 1 biller, 1 subscription, 2 keys of 2 units, 2 plans, December and January | `BillingSpec` (refinement), `BilledWithinQuotas`, `PeriodsHoldTheirRows` |
| `catalog` | 2 requests, 2 runs of the script, 1 plan and the demo tenant | `NamesUnique`, `RefusalsAreTrue`, `SeedIsWhole`, `SeededOnce`, `NoCircleOfWaits`, `EveryJobEnds` under fairness |

**Why the bounds are enough.** Two handlers are the smallest number that races,
and every safety property is proved for any number of handlers (some of
`StripeSync` for any number of everything but workers, see below), so the runs guard
the statements against error rather than carry the argument. In
`metering_quota` the quantities are such that the bound 4 is reached (2 + 2 over a
limit of 2) and a check that forgets the request itself passes it. Two months
let the month end once, which is all a request can be caught by twice. One usage
event at any moment is enough for an invoice to be stale. The column maximum 15
lies between a bill that fits and one that does not; the plan whose price and limit are
negative has overage without usage and a bill below zero. The clock of `engine` starts in
December, so that the month that ends is the one whose end lies in another year; two
requests of two units over a limit of two are one that fits and one that does not,
and in the second month both plans can have been billed. In `catalog` one plan and the
tenant are two names in order, which two runs, or a run and a request, need to wait
for one another; two requests can each take one of them. Three Stripe events allow
every order of checkout, update and cancellation. `metering_quota` and
`billing_race` use symmetry of handlers, `stripe_mirror` of tenants and of
subscriptions and of the two plans at one price, `rollup` of readers; the liveness runs
do not. `rollup` has one subscription, so that two readers fit: that they
are not answered with rows of another subscription is in the theorems, for any number.
A worker that fails is in `stripe_converge`, and in the theorems for the properties of
`stripe_mirror`, which has no failure for the sake of the third plan.
`CHECK_DEADLOCK` is on everywhere.

**Fairness.** `Metering!FairSpec`: weak fairness of every handler's own step (the
event loop and the thread pool run what can run), strong fairness of `Insert`
(the database wakes a waiter each time the lock holder ends and serves it in the
end). Clients and failures are not fair. `Catalog!FairSpec` is the same for the jobs of the
catalogue. `StripeSync!FairSpec`: a worker finishes
the event or run it began; its loop comes round to `StartReconcile` however many
events arrive in between (strong, because each event disables it for a moment:
`main.py` starts the loop once and it sleeps and runs for ever); a retrieval of a
row that is tried again and again succeeds at last (strong fairness of
`Retrieve`: Stripe does not fail on one row for ever). Crashes are finitely many
(`MaxCrashes`). No event has to be delivered.

## 4. What is proved

For every value of the constants, under the assumptions named in the modules
(finite sets of handlers and workers; quantities, prices and limits as the schemas and
columns allow, so prices and limits may be negative):

* **Metering**: `TypeCorrect`, `ExactlyOnce`, `AnswersNameTheRow`, `OwnKeysOwnAnswers`
  (where no two subscriptions use one key, every answer is the requester's own),
  `QuotaOvershoot`, `ImplementsLedger`; and with one handler `QuotaExactAlone` and
  `RetriesGetOriginalAlone`, the two properties that two handlers violate.
* **Billing**: `TypeCorrect`, `InvoicesConsistent`, `AnswersAreOfPeriod`,
  `BillsCountUsage`, `DuplicatesAreBounded`, `ImplementsRegister`; and with one
  handler `OneInvoiceAlone`.
* **StripeSync**, for any number of workers: `TypeCorrect`, `EventsAppliedOnce`,
  `OneRowPerSubscription`, `TenantsStayApart`, `TableAsAssumed`; for one worker
  `CheckoutReusesRowAlone`, `CustomersOwnTheirs`, `RowsShowTheirOwn`,
  `RowsMirrorStripe`. With two workers those four do not hold: both find no row and
  insert one, or one commits the columns that it changed over what the other has
  committed since it loaded the row (two checkouts at once can leave the subscription
  of one with the customer or the plan of the other). They say what a deployment with
  one worker has, and `TenantsStayApart` how far the mixture can go with more: never
  across tenants.
* **Rollup**: `TypeCorrect`, `RollupsWithinResponses`, `ShownTokensCharged`,
  `RollupsGrow` (no figure is below that of any rollup answered, to whichever reader,
  before the request).
* **Catalog**: `TypeCorrect`, `UniqueNames`, `TrueRefusals`, `WholeSeed`,
  `OneDemoSubscription`, `NobodyWaitsInACircle`, for any plans, seed list, requests and runs.
* **Engine**: `PeriodIsTheMonth`, `PeriodsPartitionUsage`, `BillingInEngine`, `BillsWithinQuotas`.

**The arguments.** None of the invariants is inductive as it stands.

* *Exactly once* needs `KeyInv`: a handler about to commit holds the only lock of
  its key and no committed row has it; a handler that has committed remembers the
  one row. The lock is what carries the unique index from the check to the commit.
* *Overshoot* needs `QuotaInv`. `Pending(s, t, m)` are the handlers whose row may
  still be added to a sum: past the check, or before it but bound to a period that
  `m` comes after, when the month ends between check and INSERT. `Room` says that
  one of them fits under the bound and every other adds at most `MaxQty`. The one
  that fits is exchanged as handlers pass, commit and fail. With one handler the
  bound is the limit itself.
* *Retries* with one handler need `StillNew`: a request that is past the look-up has a
  key that no row has, so a request whose key was recorded is answered at the look-up
  and never reaches the refusals behind it. With two handlers the row can be committed
  in between.
* *Bills* need `ReadInv`: what a handler summed lies between the usage when it was
  asked and the usage now, because sums over a table that only grows only grow
  (`UsageGrows`). *Duplicates* need `StoresLeft`: once a period has an invoice, no
  handler begins to store one, so invoices plus handlers still storing never
  exceed the handlers. The *register* takes both: a stored bill is one more of a period
  that had fewer invoices than handlers, and what a request is answered with was found
  or stored for its own period.
* *Once per event* needs `OnceInv`: log and markers hold the same events.
  *Checkout* needs `FreshInv`: a row about to be inserted is of a tenant without a
  linked row, which only another worker could change.
* *One row per subscription* needs `LinkInv`: a linked row's checkout is marked, so
  the commit of that checkout, which happens once, is the only one that links a row.
* *Customers* and *mirroring* need what Stripe sends (`SentInv`: the checkout is the
  first event of its subscription, the newest event says what it is, a cancellation
  has the plan of the event before it), what a session holds (`HoldsInv`: a new row, one
  row as the event makes it, or a run that changed statuses only) and that a
  single worker's loaded rows are the table's (`AloneInv`). From them `OwnInv`: a linked
  row has the customer of its subscription, which events never change. `MirrorInv`
  has two parts, because plan and status travel differently. The plan of a row is that
  of the event its subscription has come to (`PlanOK`), step by step with the log. The
  status is only right when every event was committed (`StatusOK`), as a run may have put
  a later or an earlier one there before; and a run under way then holds no other. `ShownInv` needs no order: plan and status
  each come from some event of the row's own subscription.
* *Tenants* need `TenantInv`: a session object is of a row that has the tenant it was
  loaded with, and holds only what is the tenant's own at Stripe. It says nothing of
  which worker commits when, and so holds for any number.
* *The table* needs `RoomInv`: rows beyond those of POST /subscriptions are no more than
  the events committed, and these no more than the events sent, because none is
  committed twice. So there is an id for each row, and each commit is a `Create`, a
  `Sync` or a `Reconcile`.
* *Rollups* need `RowsInv` (tokens shown = tokens without a breakdown + the totals;
  the totals cost at most the answers), `ShownInv` and `ReaderInv` (a figure is
  never above the sums of now). The pricing lemmas are that rounding up is
  subadditive, monotone and never free.
* *The catalogue* needs `Consistent`: an uncommitted row (`Held`) is of a name that is
  in no table and in no other transaction, which is what the lock wait carries from
  INSERT to COMMIT. *Seeding* needs `Seeded`: what a run has dealt with is committed
  or its own (`Carried`), a run that adds the subscription of a tenant it did not find
  holds the tenant's e-mail (`TenantFirst`), and so adds alone (`AddsAlone`).
  *No circle of waits* needs `WaitInv`: a request holds a value only when it is about to
  commit, and the items that a run has dealt with are in the tables or its own. So whoever waits,
  waits for a job that waits for nothing or for a run that has dealt with more
  items; the job furthest on waits for nobody.
* *The engine* refines its components because the tables grow the way each allows
  the other: the row a metering COMMIT appends is one that Billing's `RecordUsage`
  may append, which needs that there is room (a row takes a key, and keys are unique:
  `OneRowPerKey` of Metering, used in the composition) and that its month is the
  clock's or an earlier one. *Bills within quotas* puts three theorems of two components
  together: what an invoice counts is at most the usage of its month
  (`InvoiceConsistent`), that usage is the sum over both types, and each type's
  sum is bounded (`QuotaInvariant`).
* *Periods*: the window of a date holds a moment exactly when both are of the same
  year and month (`PeriodIsTheMonth`), and months counted from `First` are the
  same number exactly when they are.
* The lemmas on sums (`UsageTotalsProofs`) are inductions over the length of a
  table; they are done as arguments about the smallest counterexample.

**Only model-checked.** `EveryRequestAnswered`, `EveryJobEnds`, `StatusConverges`
(liveness under fairness is out of the provers' reach) and the violation runs, whose
counterexamples are TLC's.

## 5. Where code and documentation differ

| run | documented | code |
|---|---|---|
| `metering_quota_race` | `README.md:74`: requests over the limit are rejected | the sum and the INSERT are separate statements; two requests pass on one sum |
| `metering_retry_race` | `README.md:625-631`: a retry gets the original event | a retry that misses the uncommitted key may count the original against itself and is answered 429 |
| `billing_duplicate` | `README.md:84`: one invoice per period | no unique constraint; two requests store one each |
| `stripe_plan` | `README.md:96-97`: reconciliation syncs status and plan | it writes the status only |

Met while modelling and not run as a violation: a key is looked up without its subscription
(`usage_service.py:23`), so a tenant that re-uses another tenant's key is answered 200
with the other's event, and its own usage is not recorded, while `README.md:50` and
`README.md:696-698` promise that a tenant sees only its own usage. `AnswersAgree` is therefore
restricted to the subscription whose row the key has; `AnswersTheirOwn` says what the
README promises, and `OwnKeysOwnAnswers` proves it under the condition that no two
subscriptions use one key, which nothing in the code enforces. The schema of a plan accepts
negative prices and limits (`schemas/plan.py:8-9`), and two plans may have one Stripe price
(`models/plan.py:52`): an update of a subscription may then move its row to the other plan.

Met while reading: `schemas/usage.py:18-19` says that usage_type is pinned
to TOKENS for /generate, and it is only the default (`Rollup!Generate` takes either);
two concurrent runs of the seed script over a demo tenant that POST /tenants made add
two subscriptions (`seed.py:3` says it never duplicates rows; `SeededOnce` says it of
the tenant the script made); the downgrade of migration `10bb7eb21c52` drops a
constraint by no name and always raises, and that of `43dca0c47b44` leaves the enum
type behind, so that the next upgrade fails; migration `4c4dce7abd0f` gives old
invoices no period, so that no look-up finds them; TOKENS that come through POST /usage have no
breakdown and cannot be priced (`README.md:231-234`; `ShownTokensAreCharged` sets
them apart); a second tenant e-mail or plan name answers 500 instead of 400 when
two requests race; Stripe's `incomplete` and `paused` become ACTIVE; a trialing
subscription is ACTIVE after its checkout and refused after the next
reconciliation; amounts are in cents where the pricing table of the README speaks of
dollars.

## 6. Not modelled

* **Quantities above 2^31-1** in usage rows: the INSERT fails, which `Fail`
  covers; the models' quantities fit.
* **Checkout metadata** that the engine did not write itself, bad signatures, a
  missing Stripe configuration: they change nothing.
* **Listing endpoints, health, logging, settings**: they change no state.
* **Migrations**: run once, in one transaction, before the engine starts. The
  constraints and column types they leave are in the models.
* **Stripe's side of a second subscription**: a second completed checkout relinks the
  tenant's row and the first subscription goes on at Stripe; the model has the case, but
  nothing says what should happen to it.
* **StripeSync in `Engine`**: the two are not composed in one module. They meet in
  `SubscriptionTable`: the engine holds for every table that its actions allow, and
  `TableAsAssumed` says that the webhooks and the reconciliation do nothing else.

## 7. Plan

Done, in this order: `UsageTotals`, `Metering`, `UsageLedger`; `Billing`;
`StripeSync`; `Cost`, `Rollup`; `Catalog`; `Calendar`, `Engine`; the checkout;
`SubscriptionTable`, `InvoiceRegister`; and the proofs of each.

Left: what a retry that begins after its original was committed is promised when
there are several handlers (it is never refused for the quota). `RetriesGetOriginalAlone`
says it for one; for more, `Metering` has to record when a request began.
