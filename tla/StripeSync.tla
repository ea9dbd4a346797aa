----------------------------- MODULE StripeSync -----------------------------
(***************************************************************************)
(* How the subscriptions table follows Stripe: checkouts, webhook events   *)
(* (src/app/services/stripe_service.py) and the reconciliation job         *)
(* (src/app/services/reconciliation_service.py), in several worker         *)
(* processes over one database.                                            *)
(*                                                                         *)
(* Webhooks and reconciliation run on the event loop of their worker and   *)
(* never await, so a worker does one of them at a time; workers interleave *)
(* at every statement.  POST /subscriptions and GET /stripe/checkout run   *)
(* in threads and interleave with everything.                              *)
(* Stripe (external) delivers each event it sent in any order, any number  *)
(* of times or never.                                                      *)
(*                                                                         *)
(* A worker keeps the rows it loaded as session objects.  A flush writes   *)
(* only the columns whose value differs from the loaded one, over whatever *)
(* the row holds by then.  Flush and commit are one step: another worker's *)
(* write of the same row or marker waits for the commit and then sees it.  *)
(*                                                                         *)
(*   pc        the worker is about to                                      *)
(*   "read"    read the rows its event is about and change them            *)
(*   "save"    commit the event's marker and changes                       *)
(*   "fetch"   retrieve a subscription from Stripe, or commit the run      *)
(***************************************************************************)
EXTENDS Integers, Sequences, FiniteSets

CONSTANTS
  Workers,      \* worker processes
  Tenants,      \* tenants in the database
  Plans,        \* plans in the database
  PriceOf,      \* their Stripe prices; plans may share one
  StripeSubs,   \* subscriptions that Stripe may create; a customer has the
                \* name of the first subscription made for it
  Statuses,     \* the statuses of a live subscription at Stripe
  NotLinked,    \* stripe_subscription_id, or stripe_customer_id, is NULL
  OtherPrice,   \* a Stripe price that no plan has
  NoSub,        \* to a reader of the table: the row does not exist
  MaxEvents,    \* bound: events that Stripe sends
  MaxRows,      \* bound: rows that POST /subscriptions makes room for
  MaxCrashes    \* bound: statements that fail, workers that die

ASSUME ConstantsAssumption ==
  /\ IsFiniteSet(Workers) /\ Workers # {} /\ IsFiniteSet(StripeSubs)
  /\ NotLinked \notin StripeSubs
  /\ OtherPrice \notin Plans
  /\ "active" \in Statuses /\ Statuses \cap {"none", "open"} = {}
  /\ MaxEvents \in Nat /\ MaxRows \in Nat /\ MaxCrashes \in Nat

ASSUME PricesAssumption == DOMAIN PriceOf = Plans

StripeStatuses == Statuses \cup {"active", "canceled"}

\* [planted bug] keeps Stripe's word for a status.
FromStripeAsIs(st) == st

\* from_stripe_status: what is not listed is active.
FromStripe(st) ==
  CASE st = "trialing" -> "trialing"
    [] st \in {"past_due", "unpaid"} -> "past_due"
    [] st \in {"canceled", "incomplete_expired"} -> "cancelled"
    [] OTHER -> "active"

Fields == {"tenant", "plan", "status", "link", "customer"}

\* SubscriptionStatus
RowStatuses == {"active", "cancelled", "past_due", "trialing"}

ASSUME NoSubAssumption ==
  NoSub \notin [tenant: Tenants, plan: Plans, status: RowStatuses]

\* A row of subscriptions: link is its stripe_subscription_id.
Row == [tenant: Tenants, plan: Plans, status: RowStatuses,
        link: StripeSubs \cup {NotLinked},
        customer: StripeSubs \cup {NotLinked}]

\* A subscription at Stripe, or the checkout session it may come from, and an
\* event about one; its plan stands for a Stripe price, by a plan that has it.
StripeSub == [tenant: Tenants, plan: Plans \cup {OtherPrice},
              status: StripeStatuses \cup {"none", "open"},
              customer: StripeSubs \cup {NotLinked}]

Kinds == {"checkout", "updated", "deleted", "other"}

Event == [kind: Kinds, sub: StripeSubs, tenant: Tenants,
          plan: Plans \cup {OtherPrice}, status: StripeStatuses,
          customer: StripeSubs]

VARIABLES
  rows,      \* the subscriptions table, in order of creation
  marked,    \* webhook_events: the processed events
  stripe,    \* the subscriptions at Stripe (status "none": not there yet,
             \* "open": a checkout session that is not completed)
  sent,      \* the events Stripe sent; an event's id is its position
  pc, event, \* each worker's position and the event it processes (0: none)
  seen,      \* the rows it loaded, as loaded
  obj,       \* the same rows, as its code changed them
  fresh,     \* the new row it will insert, if any
  todo,      \* the rows the reconciliation has yet to look at
  log,       \* history: the events whose changes were committed, in order
  acked,     \* history: the events answered with 200
  crashes

workerVars == <<pc, event, seen, obj, fresh, todo>>
vars == <<rows, marked, stripe, sent, pc, event, seen, obj, fresh, todo, log,
          acked, crashes>>

\* The objects of a session are of rows that exist, its event was sent, and
\* only a reconciliation has rows to look at.
SessionOK(w) ==
  /\ DOMAIN seen[w] \subseteq DOMAIN rows
  /\ DOMAIN obj[w] = DOMAIN seen[w]
  /\ \A r \in DOMAIN seen[w] : seen[w][r] \in Row /\ obj[w][r] \in Row
  /\ todo[w] \subseteq DOMAIN seen[w]
  /\ pc[w] # "fetch" => todo[w] = {}
  /\ pc[w] \in {"read", "save"} => event[w] \in DOMAIN sent

TypeOK ==
  /\ rows \in Seq(Row)
  /\ marked \subseteq 1..MaxEvents
  /\ stripe \in [StripeSubs -> StripeSub]
  /\ sent \in Seq(Event)
  /\ pc \in [Workers -> {"idle", "read", "save", "fetch"}]
  /\ event \in [Workers -> 0..MaxEvents]
  /\ DOMAIN seen = Workers /\ DOMAIN obj = Workers /\ DOMAIN todo = Workers
  /\ \A w \in Workers : SessionOK(w)
  /\ fresh \in [Workers -> SUBSET Row]
  /\ log \in Seq(1..MaxEvents)
  /\ acked \subseteq 1..MaxEvents
  /\ crashes \in 0..MaxCrashes

Init ==
  /\ rows = <<>>
  /\ marked = {}
  /\ stripe \in [StripeSubs -> [tenant: Tenants, plan: {OtherPrice},
                                status: {"none"}, customer: {NotLinked}]]
  /\ sent = <<>>
  /\ pc = [w \in Workers |-> "idle"]
  /\ event = [w \in Workers |-> 0]
  /\ seen = [w \in Workers |-> <<>>]
  /\ obj = [w \in Workers |-> <<>>]
  /\ fresh = [w \in Workers |-> {}]
  /\ todo = [w \in Workers |-> {}]
  /\ log = <<>>
  /\ acked = {}
  /\ crashes = 0

RowsOf(n)   == {r \in DOMAIN rows : rows[r].tenant = n}
LinkedTo(x) == {r \in DOMAIN rows : rows[r].link = x}

-----------------------------------------------------------------------------
(* The session of a worker *)

\* The table as the flush leaves it: the changed columns of the loaded rows,
\* then the new row.
Flushed(w) ==
  [r \in DOMAIN rows |->
     IF r \in DOMAIN seen[w]
     THEN [f \in Fields |-> IF obj[w][r][f] # seen[w][r][f]
                            THEN obj[w][r][f] ELSE rows[r][f]]
     ELSE rows[r]]

\* The session ends: nothing of it is kept.
Close(w) ==
  /\ pc' = [pc EXCEPT ![w] = "idle"]
  /\ event' = [event EXCEPT ![w] = 0]
  /\ seen' = [seen EXCEPT ![w] = <<>>]
  /\ obj' = [obj EXCEPT ![w] = <<>>]
  /\ fresh' = [fresh EXCEPT ![w] = {}]
  /\ todo' = [todo EXCEPT ![w] = {}]

Rollback(w) == Close(w) /\ UNCHANGED <<rows, marked, stripe, sent, log, acked>>

-----------------------------------------------------------------------------
(* POST /webhooks/stripe *)

\* An event arrives whose signature is good; a marked one is a replay.
Deliver(w, e) ==
  /\ pc[w] = "idle"
  /\ \/ e \in marked
        /\ acked' = acked \cup {e}
        /\ UNCHANGED <<pc, event>>
     \/ e \notin marked
        /\ pc' = [pc EXCEPT ![w] = "read"]
        /\ event' = [event EXCEPT ![w] = e]
        /\ UNCHANGED acked
  /\ UNCHANGED <<rows, marked, stripe, sent, seen, obj, fresh, todo, log, crashes>>

\* The worker has loaded row r and made `new` of it.
Change(w, r, new) ==
  /\ seen' = [seen EXCEPT ![w] = [i \in {r} |-> rows[r]]]
  /\ obj' = [obj EXCEPT ![w] = [i \in {r} |-> new]]
  /\ UNCHANGED fresh

ChangeNothing == UNCHANGED <<seen, obj, fresh>>

\* [planted bug] the row starts with the subscription's status, as Stripe has it.
NewRowAsAtStripe(v) == [tenant |-> v.tenant, plan |-> v.plan, status |-> v.status,
                        link |-> v.sub, customer |-> v.customer]

\* The row that a completed checkout makes for a tenant that has none.
NewRow(v) == [tenant |-> v.tenant, plan |-> v.plan, status |-> "active",
              link |-> v.sub, customer |-> v.customer]

\* [planted bug] looks for the row of the Stripe subscription, not the tenant.
SyncFromCheckoutBySub(w, v) ==
  \/ \E r \in LinkedTo(v.sub) :
       Change(w, r, [rows[r] EXCEPT !.plan = v.plan, !.status = "active"])
  \/ /\ LinkedTo(v.sub) = {}
     /\ fresh' = [fresh EXCEPT ![w] = {NewRow(v)}]
     /\ UNCHANGED <<seen, obj>>

\* [planted bug] takes a row of any tenant.
SyncFromCheckoutOfAnyone(w, v) ==
  \/ \E r \in DOMAIN rows :
       Change(w, r, [rows[r] EXCEPT !.plan = v.plan, !.status = "active",
                                    !.link = v.sub, !.customer = v.customer])
  \/ /\ rows = <<>>
     /\ fresh' = [fresh EXCEPT ![w] = {NewRow(v)}]
     /\ UNCHANGED <<seen, obj>>

\* [planted bug] links the row and leaves its plan and status to later events.
SyncFromCheckoutLinkOnly(w, v) ==
  \/ \E r \in RowsOf(v.tenant) :
       Change(w, r, [rows[r] EXCEPT !.link = v.sub, !.customer = v.customer])
  \/ /\ RowsOf(v.tenant) = {}
     /\ fresh' = [fresh EXCEPT ![w] = {NewRow(v)}]
     /\ UNCHANGED <<seen, obj>>

\* [planted bug] a row that has a customer keeps it.
SyncFromCheckoutKeepingCustomer(w, v) ==
  \/ \E r \in RowsOf(v.tenant) :
       Change(w, r, [rows[r] EXCEPT
                       !.plan = v.plan, !.status = "active", !.link = v.sub,
                       !.customer = IF @ = NotLinked THEN v.customer ELSE @])
  \/ /\ RowsOf(v.tenant) = {}
     /\ fresh' = [fresh EXCEPT ![w] = {NewRow(v)}]
     /\ UNCHANGED <<seen, obj>>

\* _sync_from_checkout, on any row of the tenant: first() has no order.
SyncFromCheckout(w, v) ==
  \/ \E r \in RowsOf(v.tenant) :
       Change(w, r, [rows[r] EXCEPT !.plan = v.plan, !.status = "active",
                                    !.link = v.sub, !.customer = v.customer])
  \/ /\ RowsOf(v.tenant) = {}
     /\ fresh' = [fresh EXCEPT ![w] = {NewRow(v)}]
     /\ UNCHANGED <<seen, obj>>

\* [planted bug] leaves the plan alone.
SyncStatusOnly(w, v) ==
  \/ LinkedTo(v.sub) = {} /\ ChangeNothing
  \/ \E r \in LinkedTo(v.sub) :
       Change(w, r, [rows[r] EXCEPT !.status = FromStripe(v.status)])

\* The plans that a look-up by the price of plan p may find: stripe_price_id is
\* not unique, and first() has no order.
AtPriceOf(p) == {q \in Plans : p \in Plans /\ PriceOf[q] = PriceOf[p]}

\* The plans that event v may leave in a row of plan `old`.
PlansAfter(v, old) == IF v.plan \in Plans THEN AtPriceOf(v.plan) ELSE {old}

\* _sync_subscription_status
SyncSubscriptionStatus(w, v) ==
  \/ LinkedTo(v.sub) = {} /\ ChangeNothing
  \/ \E r \in LinkedTo(v.sub) : \E p \in PlansAfter(v, rows[r].plan) :
       Change(w, r, [rows[r] EXCEPT !.status = FromStripe(v.status), !.plan = p])

\* _cancel_subscription
CancelSubscription(w, v) ==
  \/ LinkedTo(v.sub) = {} /\ ChangeNothing
  \/ \E r \in LinkedTo(v.sub) :
       Change(w, r, [rows[r] EXCEPT !.status = "cancelled"])

ProcessEvent(w) ==
  /\ pc[w] = "read"
  /\ pc' = [pc EXCEPT ![w] = "save"]
  /\ LET v == sent[event[w]]
     IN  \/ v.kind = "checkout" /\ SyncFromCheckout(w, v)
         \/ v.kind = "updated" /\ SyncSubscriptionStatus(w, v)
         \/ v.kind = "deleted" /\ CancelSubscription(w, v)
         \/ v.kind = "other" /\ ChangeNothing
  /\ UNCHANGED <<rows, marked, stripe, sent, event, todo, log, acked, crashes>>

\* [planted bug] event_id is not unique.
AlreadyMarkedNever(w) == FALSE

\* The commit fails on the unique event_id when another worker marked the
\* event meanwhile; everything is rolled back and Stripe gets a 500.
AlreadyMarked(w) == event[w] \in marked

SaveEvent(w) ==
  /\ pc[w] = "save"
  /\ \/ AlreadyMarked(w) /\ Rollback(w)
     \/ /\ ~AlreadyMarked(w)
        /\ marked' = marked \cup {event[w]}
        /\ \/ fresh[w] = {} /\ rows' = Flushed(w)
           \/ \E new \in fresh[w] : rows' = Append(Flushed(w), new)
        /\ log' = Append(log, event[w])
        /\ acked' = acked \cup {event[w]}
        /\ Close(w)
        /\ UNCHANGED <<stripe, sent>>
  /\ UNCHANGED crashes

-----------------------------------------------------------------------------
(* The reconciliation job *)

StartReconcile(w) ==
  /\ pc[w] = "idle"
  /\ pc' = [pc EXCEPT ![w] = "fetch"]
  /\ LET linked == {r \in DOMAIN rows : rows[r].link # NotLinked}
     IN  /\ linked # {}
         /\ todo' = [todo EXCEPT ![w] = linked]
         /\ seen' = [seen EXCEPT ![w] = [r \in linked |-> rows[r]]]
         /\ obj' = [obj EXCEPT ![w] = [r \in linked |-> rows[r]]]
  /\ UNCHANGED <<rows, marked, stripe, sent, event, fresh, log, acked, crashes>>

\* The run looks at row r next and gets Stripe's view of it, at one of the
\* attempts.
Retrieve(w, r) ==
  /\ pc[w] = "fetch"
  /\ r \in todo[w]
  /\ todo' = [todo EXCEPT ![w] = @ \ {r}]
  /\ obj' = [obj EXCEPT ![w][r].status = FromStripe(stripe[seen[w][r].link].status)]
  /\ UNCHANGED <<rows, marked, stripe, sent, pc, event, seen, fresh, log, acked, crashes>>

\* All three attempts fail: the row is logged and left as it is.
GiveUp(w, r) ==
  /\ pc[w] = "fetch"
  /\ r \in todo[w]
  /\ todo' = [todo EXCEPT ![w] = @ \ {r}]
  /\ UNCHANGED <<rows, marked, stripe, sent, pc, event, seen, obj, fresh, log, acked, crashes>>

\* [planted bug] the run ends without a commit.
SaveReconcileNever(w) ==
  /\ pc[w] = "fetch"
  /\ todo[w] = {}
  /\ Rollback(w)
  /\ UNCHANGED crashes

SaveReconcile(w) ==
  /\ pc[w] = "fetch"
  /\ todo[w] = {}
  /\ rows' = Flushed(w)
  /\ Close(w)
  /\ UNCHANGED <<marked, stripe, sent, log, acked, crashes>>

\* A statement fails or the worker dies: its open transaction is rolled back.
Fail(w) ==
  /\ pc[w] # "idle"
  /\ crashes < MaxCrashes
  /\ crashes' = crashes + 1
  /\ Rollback(w)

-----------------------------------------------------------------------------
(* POST /subscriptions *)

CreateSubscription(n, p) ==
  /\ Len(rows) < MaxRows
  /\ rows' = Append(rows, [tenant |-> n, plan |-> p, status |-> "active",
                           link |-> NotLinked, customer |-> NotLinked])
  /\ UNCHANGED <<marked, stripe, sent, workerVars, log, acked, crashes>>

-----------------------------------------------------------------------------
(* GET /stripe/checkout/{tenant_id}/{plan_id} *)

\* The customers a session may be made for: the one of any row of the tenant
\* (first() has no order), or a new one.
CustomersOf(n) ==
  IF RowsOf(n) = {} THEN {NotLinked} ELSE {rows[r].customer : r \in RowsOf(n)}

\* A session for plan p at Stripe, whose url the tenant gets.  Without such a
\* plan or its price (404, 500) nothing changes.
CreateCheckoutSession(x, p) ==
  /\ stripe[x].status = "none"
  /\ \E c \in CustomersOf(stripe[x].tenant) :
       stripe' = [stripe EXCEPT ![x].status = "open", ![x].plan = p,
                                ![x].customer = c]
  /\ UNCHANGED <<rows, marked, sent, workerVars, log, acked, crashes>>

-----------------------------------------------------------------------------
(* Stripe *)

Send(kind, x) ==
  /\ Len(sent) < MaxEvents
  /\ sent' = Append(sent, [kind |-> kind, sub |-> x, tenant |-> stripe'[x].tenant,
                           plan |-> stripe'[x].plan, status |-> stripe'[x].status,
                           customer |-> stripe'[x].customer])
  /\ UNCHANGED <<rows, marked, workerVars, log, acked, crashes>>

Live(x) == stripe[x].status \notin {"none", "open", "canceled"}

\* The tenant of x completes the hosted checkout, days later or never.
Subscribe(x, st) ==
  /\ stripe[x].status = "open"
  /\ stripe' = [stripe EXCEPT ![x].status = st,
                              ![x].customer = IF @ = NotLinked THEN x ELSE @]
  /\ Send("checkout", x)

\* Its plan or status changes at Stripe.
Update(x, p, st) ==
  /\ Live(x)
  /\ <<p, st>> # <<stripe[x].plan, stripe[x].status>>
  /\ stripe' = [stripe EXCEPT ![x].plan = p, ![x].status = st]
  /\ Send("updated", x)

Cancel(x) ==
  /\ Live(x)
  /\ stripe' = [stripe EXCEPT ![x].status = "canceled"]
  /\ Send("deleted", x)

\* An event of a type that the engine does not handle.
Notify(x) ==
  /\ Live(x)
  /\ UNCHANGED stripe
  /\ Send("other", x)

Next ==
  \/ \E w \in Workers :
       \/ \E e \in DOMAIN sent : Deliver(w, e)
       \/ ProcessEvent(w) \/ SaveEvent(w)
       \/ StartReconcile(w) \/ SaveReconcile(w) \/ Fail(w)
       \/ \E r \in DOMAIN rows : Retrieve(w, r) \/ GiveUp(w, r)
  \/ \E n \in Tenants, p \in Plans : CreateSubscription(n, p)
  \/ \E x \in StripeSubs :
       \/ \E p \in Plans : CreateCheckoutSession(x, p)
       \/ \E st \in Statuses : Subscribe(x, st)
       \/ \E p \in Plans \cup {OtherPrice}, st \in Statuses : Update(x, p, st)
       \/ Cancel(x) \/ Notify(x)

Spec == Init /\ [][Next]_vars

\* A worker finishes what it began, its loop comes round to reconcile again
\* however many events are delivered, and Stripe does not fail for ever on
\* the same row.  No event has to be delivered.
FairSpec ==
  /\ Spec
  /\ \A w \in Workers :
       /\ WF_vars(ProcessEvent(w)) /\ WF_vars(SaveEvent(w))
       /\ SF_vars(StartReconcile(w)) /\ WF_vars(SaveReconcile(w))
       /\ \A r \in 1..(MaxRows + Cardinality(StripeSubs)) :
            WF_vars(Retrieve(w, r) \/ GiveUp(w, r)) /\ SF_vars(Retrieve(w, r))

-----------------------------------------------------------------------------
(* Properties *)

\* An event's changes are committed at most once, although several workers
\* may process its deliveries at the same time, fail and be sent it again;
\* and an event that was answered with 200 has been committed, so Stripe
\* never stops retrying one that was not (stripe_service.py:92-94).
EventAppliedOnce ==
  /\ \A i, j \in DOMAIN log : log[i] = log[j] => i = j
  /\ \A e \in acked : \E i \in DOMAIN log : log[i] = e

\* Events about x that change the database.
EventsOf(x) == {e \in DOMAIN sent : sent[e].sub = x /\ sent[e].kind # "other"}

AppliedInOrder(x) ==
  /\ EventsOf(x) \subseteq marked
  /\ \A i, j \in DOMAIN log :
       i < j /\ log[i] \in EventsOf(x) /\ log[j] \in EventsOf(x)
         => log[i] < log[j]

\* With one worker: once every event of a Stripe subscription has been
\* committed, in the order they were sent, the row linked to it has a plan
\* of its price and, after the checkout, its status, whatever reconciliation runs, other
\* events, replays and failures came in between (README.md:94-95).
MirrorsInOrder ==
  \A x \in StripeSubs : AppliedInOrder(x) =>
    \A r \in LinkedTo(x) :
      /\ stripe[x].plan \in Plans => rows[r].plan \in AtPriceOf(stripe[x].plan)
      /\ (\E e \in EventsOf(x) : sent[e].kind # "checkout")
           => rows[r].status = FromStripe(stripe[x].status)

\* With one worker: a checkout does not add a row for a tenant that has one
\* linked to Stripe (README.md:574: it creates or updates the subscription).
CheckoutReusesRow ==
  [][\A r \in DOMAIN rows' \ DOMAIN rows :
       rows'[r].link # NotLinked =>
         \A q \in DOMAIN rows :
           rows[q].tenant = rows'[r].tenant => rows[q].link = NotLinked]_vars

Linked == {r \in DOMAIN rows : rows[r].link # NotLinked}

\* With one worker: the customer of a row is the one that pays for its Stripe
\* subscription, so the next checkout is charged to it, although a tenant may
\* have sessions for several customers open and complete them in any order
\* (stripe_service.py:67-81, 151-154).
CustomerOwnsSubscription ==
  \A r \in Linked : rows[r].customer = stripe[rows[r].link].customer

\* No two rows follow one Stripe subscription, although several workers may
\* process its checkout at the same time: the unique constraint on
\* stripe_subscription_id (c1d0e2f3a4b5:43-47) never makes an event fail.
LinksUnique ==
  \A q, r \in Linked : rows[q].link = rows[r].link => q = r

\* Tenants do not mix: a row's Stripe subscription and its customer are of the
\* row's own tenant, whatever workers do to one another's rows.  Where two
\* checkouts leave the subscription of one and the customer of the other
\* (CustomerOwnsSubscription), both are still the tenant's (stripe_service.py:
\* 67-81, 140-154).
TenantsApart ==
  \A r \in DOMAIN rows : \A x \in {rows[r].link, rows[r].customer} :
    x # NotLinked => stripe[x].tenant = rows[r].tenant

\* With one worker: a row shows a plan, or one at the price of a plan, and a
\* status that its subscription has had, in whatever order its events arrive
\* and whichever are lost; a row that a second checkout has linked anew shows
\* nothing of the first subscription (stripe_service.py:149-154).
MirrorsItsOwn ==
  \A r \in Linked : \E e, f \in EventsOf(rows[r].link) :
    /\ rows[r].plan \in AtPriceOf(sent[e].plan)
    /\ rows[r].status \in {"active", FromStripe(sent[f].status)}

\* The ids that rows may have, and the table that metering and billing read.
Ids == 1..(MaxRows + MaxEvents)

AsRead ==
  [i \in Ids |-> IF i \in DOMAIN rows
                 THEN [tenant |-> rows[i].tenant, plan |-> rows[i].plan,
                       status |-> rows[i].status]
                 ELSE NoSub]

Table == INSTANCE SubscriptionTable WITH Statuses <- RowStatuses, subs <- AsRead

\* To its readers (Metering.tla, Engine.tla) the table is the one they assume,
\* whatever workers commit side by side, repeat or abandon: a commit creates
\* one active row, changes the plan and status of one row, or the statuses of
\* any; no row disappears or goes to another tenant (stripe_service.py:151-187,
\* reconciliation_service.py:65-71).
TableSpec == Table!Spec

\* When Stripe stops changing, every linked row comes to have the status of
\* its Stripe subscription and keeps it, even if the events that said so are
\* lost, late or overtaken (reconciliation_service.py:5-6).
StatusConverges ==
  <>[](\A r \in Linked :
         rows[r].status = FromStripe(stripe[rows[r].link].status))

\* What README.md:597 promises besides: the plan converges as well, to one at
\* the price that Stripe charges.
PlanConverges ==
  <>[](\A r \in Linked :
         stripe[rows[r].link].plan \in Plans
           => rows[r].plan \in AtPriceOf(stripe[rows[r].link].plan))
=============================================================================
