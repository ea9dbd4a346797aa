------------------------------ MODULE Metering ------------------------------
(***************************************************************************)
(* The metering path of the engine: POST /usage and POST /generate as they *)
(* run concurrently, one request per handler (a thread of one of the       *)
(* worker processes, with its own database session).                       *)
(*                                                                         *)
(* A handler's step is what happens between two points where other         *)
(* handlers can get in: one SQL statement (READ COMMITTED: each statement  *)
(* sees the rows committed when it starts), one COMMIT, or the Python code *)
(* between them when it reads the clock.                                   *)
(*                                                                         *)
(*   pc         the handler is about to                    source          *)
(*   "owner"    read the subscription, check its tenant    tenant.py:30    *)
(*   "key"      look the idempotency key up                usage_service:23*)
(*   "load"     read the subscription and its plan         usage_service:27*)
(*   "clock"    compute the bounds of the current month    usage_service:42*)
(*   "quota"    sum the period, compare with the limit     usage_service:43*)
(*   "flush"    stamp created_at with the clock            usage_event:71  *)
(*   "insert"   INSERT, under the unique index on the key  usage_repo:42   *)
(*   "commit"   COMMIT (the row is there, not visible)     usage_repo:42   *)
(*   "refresh"  re-read the row and answer                 usage_repo:43   *)
(*   "reread"   rolled back on IntegrityError, re-read     usage_repo:46   *)
(*   "idle"     answered                                                   *)
(***************************************************************************)
EXTENDS Integers, Sequences, FiniteSets, UsageTotals

CONSTANTS
  Handlers,   \* concurrent request handlers
  Subs,       \* subscription ids
  Tenants,    \* tenant ids
  Plans,      \* plan ids
  Statuses,   \* subscription statuses
  Types,      \* usage types (API_CALL, TOKENS)
  Keys,       \* idempotency keys
  Requests,   \* the requests clients send: [tenant, sub, type, qty, key]
  MaxQty,     \* the largest quantity of a request
  Limit,      \* Limit[p][t]: plan p's limit for type t
  TopLimit,   \* TopLimit[t]: no plan's limit for type t is above it
  LastMonth,  \* bound: the clock stops in this month
  NoSub       \* the subscription row does not exist

\* Handlers are finitely many (thread pool size times worker processes).
ASSUME HandlersAssumption == IsFiniteSet(Handlers) /\ Handlers # {}

\* What the request schemas accept (schemas/usage.py): /usage has qty > 0,
\* /generate derives qty from its token counts, so 0 is possible.
ASSUME RequestsAssumption ==
  /\ MaxQty \in Nat
  /\ Requests \subseteq
       [tenant: Tenants, sub: Subs, type: Types, qty: 0..MaxQty, key: Keys]
  /\ Requests # {}

\* Plan limits are plain integer columns, a negative one is not refused.
ASSUME LimitsAssumption ==
  /\ TopLimit \in [Types -> Nat]
  /\ Limit \in [Plans -> [Types -> Int]]
  /\ \A p \in Plans, t \in Types : Limit[p][t] <= TopLimit[t]

ASSUME MonthAssumption == LastMonth \in Nat \ {0}

\* SubscriptionStatus; an instance may leave out some that are not "active".
ASSUME StatusesAssumption ==
  /\ "active" \in Statuses
  /\ Statuses \subseteq {"active", "cancelled", "past_due", "trialing"}

SubRow   == [tenant: Tenants, plan: Plans, status: Statuses]

ASSUME NoSubAssumption == NoSub \notin SubRow

Months == 1..LastMonth

\* A row of usage_events, as far as quota, dedup and answers depend on it.
UsageRow == [sub: Subs, type: Types, qty: 0..MaxQty, key: Keys, month: Months]

Answers == [sub: Subs, row: Nat]

Pcs == {"idle", "owner", "key", "load", "clock", "quota", "flush", "insert",
        "commit", "refresh", "reread"}

\* HTTP answers: 200, 404, 403, 402, 429, and 500 (any database error).
Replies == {"none", "ok", "not_found", "not_owner", "not_active",
            "over_quota", "error"}

VARIABLES
  events,   \* the committed rows of usage_events, in commit order
  subs,     \* the subscriptions table
  month,    \* the wall clock, as a calendar month
  pc, req, reply,    \* each handler's position, request and last answer
  period,   \* the month whose bounds record_usage computed (0: none yet)
  limit,    \* the limit of the plan the subscription had when it was read
  stamp,    \* the month of the new row's created_at (0: none yet)
  rowid,    \* the row the handler inserted (0: none yet)
  answered  \* history: the rows that each key's 200 answers named, and the
            \* subscription whose request was answered

handlerVars == <<pc, req, reply, period, limit, stamp, rowid>>
vars == <<events, subs, month, pc, req, reply, period, limit, stamp, rowid,
          answered>>

TypeOK ==
  /\ events \in Seq(UsageRow)
  /\ subs \in [Subs -> SubRow \cup {NoSub}]
  /\ month \in Months
  /\ pc \in [Handlers -> Pcs]
  /\ req \in [Handlers -> Requests]
  /\ reply \in [Handlers -> Replies]
  /\ period \in [Handlers -> 0..LastMonth]
  /\ limit \in [Handlers -> Int]
  /\ stamp \in [Handlers -> 0..LastMonth]
  /\ rowid \in [Handlers -> Nat]
  /\ answered \in [Keys -> SUBSET Answers]

Init ==
  /\ events = <<>>
  /\ subs = [s \in Subs |-> NoSub]
  /\ month = 1
  /\ pc = [h \in Handlers |-> "idle"]
  /\ req = [h \in Handlers |-> CHOOSE r \in Requests : TRUE]
  /\ reply = [h \in Handlers |-> "none"]
  /\ period = [h \in Handlers |-> 0]
  /\ limit = [h \in Handlers |-> 0]
  /\ stamp = [h \in Handlers |-> 0]
  /\ rowid = [h \in Handlers |-> 0]
  /\ answered = [k \in Keys |-> {}]

-----------------------------------------------------------------------------
(* What the statements see *)

RowsWithKey(k) == {i \in DOMAIN events : events[i].key = k}

UsedIn(s, t, m) == TotalByType(events, s, t, m)

\* The row h is inserting.
NewRow(h) ==
  [sub |-> req[h].sub, type |-> req[h].type, qty |-> req[h].qty,
   key |-> req[h].key, month |-> stamp[h]]

(* How a handler moves *)

Goto(h, label) == pc' = [pc EXCEPT ![h] = label]

\* A step that reads and decides, and changes nothing else.
Move(h, label) ==
  /\ Goto(h, label)
  /\ UNCHANGED <<events, subs, month, req, reply, period, limit, stamp, rowid,
                 answered>>

\* The handler answers and drops its session (get_db closes it).
Finish(h, code) ==
  /\ Goto(h, "idle")
  /\ reply' = [reply EXCEPT ![h] = code]
  /\ period' = [period EXCEPT ![h] = 0]
  /\ limit' = [limit EXCEPT ![h] = 0]
  /\ stamp' = [stamp EXCEPT ![h] = 0]
  /\ rowid' = [rowid EXCEPT ![h] = 0]
  /\ UNCHANGED <<events, subs, month, req>>

Refuse(h, code) == Finish(h, code) /\ UNCHANGED answered

\* 200 with row i.
Answer(h, i) ==
  /\ Finish(h, "ok")
  /\ answered' = [answered EXCEPT
                    ![req[h].key] = @ \cup {[sub |-> req[h].sub, row |-> i]}]

-----------------------------------------------------------------------------
(* The request handler *)

\* A client sends r, for the first time or again after any answer or none.
Start(h, r) ==
  /\ pc[h] = "idle"
  /\ Goto(h, "owner")
  /\ req' = [req EXCEPT ![h] = r]
  /\ reply' = [reply EXCEPT ![h] = "none"]
  /\ UNCHANGED <<events, subs, month, period, limit, stamp, rowid, answered>>

\* get_owned_subscription
CheckOwner(h) ==
  /\ pc[h] = "owner"
  /\ LET sub == subs[req[h].sub]
     IN  \/ sub = NoSub /\ Refuse(h, "not_found")
         \/ sub # NoSub /\ sub.tenant # req[h].tenant /\ Refuse(h, "not_owner")
         \/ sub # NoSub /\ sub.tenant = req[h].tenant /\ Move(h, "key")

\* A committed row with this key is the answer: no quota check, no new row.
CheckKey(h) ==
  /\ pc[h] = "key"
  /\ \/ \E i \in RowsWithKey(req[h].key) : Answer(h, i)
     \/ RowsWithKey(req[h].key) = {} /\ Move(h, "load")

\* get_by_id, the status check and the plan's limit.
LoadSubscription(h) ==
  /\ pc[h] = "load"
  /\ LET sub == subs[req[h].sub]
         usable == sub # NoSub /\ sub.status = "active"
     IN  \/ /\ ~usable
            /\ Refuse(h, IF sub = NoSub THEN "not_found" ELSE "not_active")
         \/ /\ usable
            /\ Goto(h, "clock")
            /\ limit' = [limit EXCEPT ![h] = Limit[sub.plan][req[h].type]]
            /\ UNCHANGED <<events, subs, month, req, reply, period, stamp, rowid,
                           answered>>

\* month_bounds()
ReadClock(h) ==
  /\ pc[h] = "clock"
  /\ Goto(h, "quota")
  /\ period' = [period EXCEPT ![h] = month]
  /\ UNCHANGED <<events, subs, month, req, reply, limit, stamp, rowid, answered>>

\* [planted bug] compares what is used already, not what it would become.
FitsBeforeAdding(h) ==
  UsedIn(req[h].sub, req[h].type, period[h]) <= limit[h]

\* Whether h's request fits in what it reads of the period.
Fits(h) ==
  UsedIn(req[h].sub, req[h].type, period[h]) + req[h].qty <= limit[h]

CheckQuota(h) ==
  /\ pc[h] = "quota"
  /\ \/ ~Fits(h) /\ Refuse(h, "over_quota")
     \/ Fits(h) /\ Move(h, "flush")

\* [planted bug] created_at has no default.
FlushWithoutStamp(h) == pc[h] = "flush" /\ Move(h, "insert")

\* [planted bug] created_at is the end of the period.
FlushAtPeriodEnd(h) ==
  /\ pc[h] = "flush"
  /\ Goto(h, "insert")
  /\ stamp' = [stamp EXCEPT ![h] = period[h] + 1]
  /\ UNCHANGED <<events, subs, month, req, reply, period, limit, rowid,
                 answered>>

\* The unit of work evaluates created_at's default, then sends the INSERT.
Flush(h) ==
  /\ pc[h] = "flush"
  /\ Goto(h, "insert")
  /\ stamp' = [stamp EXCEPT ![h] = month]
  /\ UNCHANGED <<events, subs, month, req, reply, period, limit, rowid,
                 answered>>

\* An uncommitted row with the same key makes the INSERT wait.
KeyIsLocked(h) ==
  \E g \in Handlers \ {h} : pc[g] = "commit" /\ req[g].key = req[h].key

\* [planted bug] the index on the key is not unique.
InsertWithoutIndex(h) == pc[h] = "insert" /\ Move(h, "commit")

\* [planted bug] uniqueness looks at committed rows only and never waits.
InsertWithoutLock(h) ==
  /\ pc[h] = "insert"
  /\ Move(h, IF RowsWithKey(req[h].key) = {} THEN "commit" ELSE "reread")

Insert(h) ==
  /\ pc[h] = "insert"
  /\ ~KeyIsLocked(h)
  /\ Move(h, IF RowsWithKey(req[h].key) = {} THEN "commit" ELSE "reread")

Commit(h) ==
  /\ pc[h] = "commit"
  /\ Goto(h, "refresh")
  /\ events' = Append(events, NewRow(h))
  /\ rowid' = [rowid EXCEPT ![h] = Len(events) + 1]
  /\ UNCHANGED <<subs, month, req, reply, period, limit, stamp, answered>>

\* db.refresh reads the row back by primary key; the endpoint returns it.
Refresh(h) == pc[h] = "refresh" /\ Answer(h, rowid[h])

\* [planted bug] the loser answers with the newest row.
RereadNewest(h) == pc[h] = "reread" /\ Answer(h, Len(events))

\* [planted bug] the loser tries the INSERT again.
RereadRetriesInsert(h) == pc[h] = "reread" /\ Move(h, "insert")

\* After IntegrityError and rollback.  A row is always found: the one that
\* made the INSERT fail is committed, and nothing deletes rows.
Reread(h) ==
  /\ pc[h] = "reread"
  /\ \E i \in RowsWithKey(req[h].key) : Answer(h, i)

\* A statement fails, or the worker dies: the open transaction is rolled
\* back, the client gets a 500 or no answer.  A row already committed stays.
Fail(h) == pc[h] # "idle" /\ Refuse(h, "error")

\* The handler's own steps, without clients and failures.
Step(h) ==
  \/ CheckOwner(h) \/ CheckKey(h) \/ LoadSubscription(h) \/ ReadClock(h)
  \/ CheckQuota(h) \/ Flush(h) \/ Insert(h) \/ Commit(h) \/ Refresh(h) \/ Reread(h)

-----------------------------------------------------------------------------
(* What the rest of the engine does to the tables the handler reads *)

Table == INSTANCE SubscriptionTable WITH Ids <- Subs

\* POST /subscriptions, or the first checkout webhook of a tenant.
CreateSubscription(s, n, p) ==
  Table!Create(s, n, p) /\ UNCHANGED <<events, month, handlerVars, answered>>

\* A webhook commits a new status and plan.
SyncSubscription(s, st, p) ==
  Table!Sync(s, st, p) /\ UNCHANGED <<events, month, handlerVars, answered>>

\* The reconciliation commits the statuses of a whole run.
Reconcile ==
  Table!Reconcile /\ UNCHANGED <<events, month, handlerVars, answered>>

NextMonth ==
  /\ month < LastMonth
  /\ month' = month + 1
  /\ UNCHANGED <<events, subs, handlerVars, answered>>

Next ==
  \/ \E h \in Handlers : Step(h) \/ Fail(h) \/ \E r \in Requests : Start(h, r)
  \/ \E s \in Subs, n \in Tenants, p \in Plans : CreateSubscription(s, n, p)
  \/ \E s \in Subs, st \in Statuses, p \in Plans : SyncSubscription(s, st, p)
  \/ Reconcile
  \/ NextMonth

Spec == Init /\ [][Next]_vars

\* The event loop and the thread pool run every handler that can move (WF);
\* the database wakes a waiting INSERT whenever the lock holder ends, and
\* serves a waiter that keeps being woken (SF).
FairSpec ==
  /\ Spec
  /\ \A h \in Handlers : WF_vars(Step(h)) /\ SF_vars(Insert(h))

-----------------------------------------------------------------------------
(* Properties *)

\* An idempotency key is never counted twice, whatever retries, races,
\* failed statements and crashed workers do (usage_service.py:20-25,
\* usage_repository.py:25-28).
OneRowPerKey ==
  \A i, j \in DOMAIN events : events[i].key = events[j].key => i = j

\* An acknowledged event is not lost: a key that was answered 200 has a row.
\* And when the row is of the subscription that was answered, that is the row
\* it was given, to the first request and to every retry
\* (usage_service.py:20-25, usage_repository.py:41-47).  Of a subscription
\* that uses the key of another one nothing is said: it is answered 200 with
\* the other's row, which README.md:50 and :697 exclude between tenants.
AnswersAgree ==
  \A k \in Keys : \A a \in answered[k] : \E i \in RowsWithKey(k) :
    events[i].sub = a.sub => a.row = i

\* Nobody is answered with another subscription's row.  It holds where no two
\* subscriptions use one key.
AnswersTheirOwn ==
  \A k \in Keys : \A a \in answered[k] :
    a.row \in RowsWithKey(k) /\ events[a.row].sub = a.sub

\* The quota check and the INSERT are separate statements, so requests in
\* flight can pass on one another's stale sums; but no subscription's usage
\* of a type in a month exceeds the largest limit its plans give that type
\* by more than the quantities of the other handlers' requests, although the
\* plan may change and the month may end between the check and the INSERT
\* (usage_service.py:43-66).
OvershootBounded ==
  \A s \in Subs, t \in Types, m \in Months :
    UsedIn(s, t, m) <= TopLimit[t] + (Cardinality(Handlers) - 1) * MaxQty

\* What README.md:74 promises: a request that exceeds the limit is rejected,
\* so the usage recorded in a month stays within the limit.  It holds for a
\* single handler and fails for two.
QuotaNeverExceeded ==
  \A s \in Subs, t \in Types, m \in Months : UsedIn(s, t, m) <= TopLimit[t]

\* What README.md:627 promises of a retried request: it gets the original
\* event.  No handler answers 429 or 402 for a key that is already recorded.
RetryGetsOriginal ==
  [][\A h \in Handlers :
       reply'[h] \in {"over_quota", "not_active"} /\ reply[h] = "none"
         => RowsWithKey(req[h].key) = {}]_vars

\* Every request is answered: handlers that wait for one another's key locks
\* do not wait forever.
EveryRequestAnswered ==
  \A h \in Handlers : pc[h] # "idle" ~> pc[h] = "idle"

\* The exactly-once ledger this path implements: a key's rows, and the rows
\* its answers named.
Ledger == INSTANCE UsageLedger WITH
            recorded <- [k \in Keys |-> RowsWithKey(k)],
            answered <- [k \in Keys |-> {a.row : a \in answered[k]}]

LedgerSpec == Ledger!Spec
=============================================================================
