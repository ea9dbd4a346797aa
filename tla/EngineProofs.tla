---------------------------- MODULE EngineProofs ----------------------------
(***************************************************************************)
(* Proofs about the composition of metering and billing, for any number of *)
(* handlers, subscriptions, plans, keys, requests and months, and about    *)
(* the calendar.                                                           *)
(***************************************************************************)
EXTENDS Engine, UsageTotalsProofs, FiniteSetTheorems, TLAPS

\* What is proved of the components, over the tables and clock they share.
MP == INSTANCE MeteringProofs

BP == INSTANCE BillingProofs WITH
        events <- BilledRows, plan <- PlanOf,
        Quantities <- 0..MaxQty, MaxEvents <- Cardinality(Keys),
        pc <- bpc, sub <- bsub, seen <- bseen, period <- bperiod,
        total <- btotal, stored <- bstored, since <- bsince

-----------------------------------------------------------------------------
(* The calendar *)

\* A datetime is in the window of a datetime's month if and only if it is of
\* that month of that year: so every row falls in one period, and each
\* period begins where the one before it ends.
THEOREM PeriodIsTheMonth ==
  ASSUME NEW d \in DateTime, NEW ref \in DateTime
  PROVE  InPeriod(d, MonthBounds(ref)) <=> d.year = ref.year /\ d.month = ref.month
BY DEF DateTime, InPeriod, MonthBounds, FirstOf, Before

LEMMA DateOfType ==
  ASSUME NEW m \in Nat
  PROVE  /\ DateOf(m) \in DateTime
         /\ 12 * DateOf(m).year + DateOf(m).month
              = 12 * First.year + First.month + m - 1
<1> DEFINE n == First.month + m - 2
           y == n \div 12
           r == n % 12
<1>1. First.year \in Int /\ First.month \in 1..12 /\ n \in Int
  BY ClockAssumption DEF DateTime
<1>2. y \in Int /\ r \in 0..11 /\ n = 12 * y + r
  BY <1>1
<1>3. DateOf(m) = [year |-> First.year + y, month |-> r + 1, at |-> 0]
  BY DEF DateOf, FirstOf
<1>4. n = First.month + m - 2
  OBVIOUS
<1> HIDE DEF n, y, r
<1>5. /\ DateOf(m) \in DateTime
      /\ DateOf(m).year = First.year + y /\ DateOf(m).month = r + 1
  BY <1>1, <1>2, <1>3 DEF DateTime
<1>6. QED
  BY <1>1, <1>2, <1>4, <1>5

LEMMA MonthsApart ==
  ASSUME NEW m \in Nat, NEW n \in Nat
  PROVE  InPeriod(DateOf(m), MonthBounds(DateOf(n))) <=> m = n
<1>1. DateOf(m) \in DateTime /\ DateOf(n) \in DateTime
  BY DateOfType
<1>2. /\ DateOf(m).year \in Int /\ DateOf(n).year \in Int
      /\ DateOf(m).month \in 1..12 /\ DateOf(n).month \in 1..12
  BY <1>1 DEF DateTime
<1>3. First.year \in Int /\ First.month \in Int
  BY ClockAssumption DEF DateTime
<1>4. /\ 12 * DateOf(m).year + DateOf(m).month
           = 12 * First.year + First.month + m - 1
      /\ 12 * DateOf(n).year + DateOf(n).month
           = 12 * First.year + First.month + n - 1
  BY DateOfType
<1>5. DateOf(m).year = DateOf(n).year /\ DateOf(m).month = DateOf(n).month => m = n
  BY <1>2, <1>3, <1>4
<1>6. QED
  BY <1>1, <1>5, PeriodIsTheMonth

-----------------------------------------------------------------------------
(* Metering *)

LEMMA MeteringInit == Init => Meter!Init
BY DEF Init

LEMMA MeteringStep == [Next]_vars => [Meter!Next]_(Meter!vars)
<1> SUFFICES ASSUME [Next]_vars PROVE [Meter!Next]_(Meter!vars)
  OBVIOUS
<1>1. ASSUME NEW h \in Handlers, MeterStep(h)
      PROVE  Meter!Next
  BY <1>1 DEF MeterStep, Meter!Next
<1>2. ASSUME UNCHANGED <<shared, meterVars>>
      PROVE  UNCHANGED Meter!vars
  BY <1>2 DEF shared, meterVars, Meter!vars
<1>3. CASE Subscriptions
  BY <1>3 DEF Subscriptions, Meter!Next
<1>4. CASE NextMonth
  BY <1>4 DEF NextMonth, Meter!Next
<1>5. CASE UNCHANGED vars
  BY <1>2, <1>5 DEF vars
<1>6. QED
  BY <1>1, <1>2, <1>3, <1>4, <1>5 DEF Next, BillStep, AskForBill

\* The engine's metering steps are those of the module whose theorems are
\* used below.
LEMMA SameMetering == Spec => MP!Spec
<1>1. Meter!Init => MP!Init
  BY DEF Meter!Init, MP!Init
<1>2. [Meter!Next]_(Meter!vars) => [MP!Next]_(MP!vars)
  <2>1. ASSUME NEW h \in Handlers, NEW code
        PROVE  /\ Meter!Refuse(h, code) <=> MP!Refuse(h, code)
               /\ Meter!Move(h, code) <=> MP!Move(h, code)
               /\ Meter!Answer(h, code) <=> MP!Answer(h, code)
    BY DEF Meter!Refuse, MP!Refuse, Meter!Move, MP!Move, Meter!Answer,
           MP!Answer, Meter!Finish, MP!Finish, Meter!Goto, MP!Goto
  <2>2. ASSUME NEW h \in Handlers, NEW r \in Requests, Meter!Start(h, r)
        PROVE  MP!Start(h, r)
    BY <2>2 DEF Meter!Start, MP!Start, Meter!Goto, MP!Goto
  <2>3. ASSUME NEW h \in Handlers, Meter!CheckOwner(h)
        PROVE  MP!CheckOwner(h)
    BY <2>1, <2>3 DEF Meter!CheckOwner, MP!CheckOwner
  <2>4. ASSUME NEW h \in Handlers, Meter!CheckKey(h)
        PROVE  MP!CheckKey(h)
    BY <2>1, <2>4 DEF Meter!CheckKey, MP!CheckKey, Meter!RowsWithKey,
                      MP!RowsWithKey
  <2>5. ASSUME NEW h \in Handlers, Meter!LoadSubscription(h)
        PROVE  MP!LoadSubscription(h)
    BY <2>1, <2>5 DEF Meter!LoadSubscription, MP!LoadSubscription, Meter!Goto,
                      MP!Goto
  <2>16. ASSUME NEW h \in Handlers, Meter!ReadClock(h)
         PROVE  MP!ReadClock(h)
    BY <2>16 DEF Meter!ReadClock, MP!ReadClock, Meter!Goto, MP!Goto
  <2>6. ASSUME NEW h \in Handlers, Meter!CheckQuota(h)
        PROVE  MP!CheckQuota(h)
    <3>1. Meter!Fits(h) <=> MP!Fits(h)
      BY DEF Meter!Fits, MP!Fits, Meter!UsedIn, MP!UsedIn, Meter!TotalByType,
             MP!TotalByType, Meter!TypeWeights, MP!TypeWeights, Meter!SeqSum,
             MP!SeqSum
    <3>2. QED
      BY <2>1, <2>6, <3>1 DEF Meter!CheckQuota, MP!CheckQuota
  <2>7. ASSUME NEW h \in Handlers, Meter!Flush(h)
        PROVE  MP!Flush(h)
    BY <2>7 DEF Meter!Flush, MP!Flush, Meter!Goto, MP!Goto
  <2>8. ASSUME NEW h \in Handlers, Meter!Insert(h)
        PROVE  MP!Insert(h)
    BY <2>1, <2>8 DEF Meter!Insert, MP!Insert, Meter!KeyIsLocked,
                      MP!KeyIsLocked, Meter!RowsWithKey, MP!RowsWithKey
  <2>9. ASSUME NEW h \in Handlers, Meter!Commit(h)
        PROVE  MP!Commit(h)
    BY <2>9 DEF Meter!Commit, MP!Commit, Meter!Goto, MP!Goto, Meter!NewRow,
                MP!NewRow
  <2>10. ASSUME NEW h \in Handlers,
                Meter!Refresh(h) \/ Meter!Reread(h) \/ Meter!Fail(h)
         PROVE  MP!Refresh(h) \/ MP!Reread(h) \/ MP!Fail(h)
    BY <2>1, <2>10 DEF Meter!Refresh, MP!Refresh, Meter!Reread, MP!Reread,
                       Meter!Fail, MP!Fail, Meter!RowsWithKey, MP!RowsWithKey
  <2>11. ASSUME NEW s \in Subs, NEW n \in Tenants, NEW p \in Plans,
                Meter!CreateSubscription(s, n, p)
         PROVE  MP!CreateSubscription(s, n, p)
    BY <2>11 DEF Meter!CreateSubscription, MP!CreateSubscription,
                 Meter!Table!Create, MP!Table!Create,
                 Meter!handlerVars, MP!handlerVars
  <2>12. ASSUME NEW s \in Subs, NEW st \in Statuses, NEW p \in Plans,
                Meter!SyncSubscription(s, st, p)
         PROVE  MP!SyncSubscription(s, st, p)
    BY <2>12 DEF Meter!SyncSubscription, MP!SyncSubscription,
                 Meter!Table!Sync, MP!Table!Sync,
                 Meter!handlerVars, MP!handlerVars
  <2>13. Meter!Reconcile => MP!Reconcile
    BY DEF Meter!Reconcile, MP!Reconcile, Meter!Table!Reconcile,
           MP!Table!Reconcile, Meter!Table!Row, MP!Table!Row,
           Meter!handlerVars, MP!handlerVars
  <2>14. Meter!NextMonth => MP!NextMonth
    BY DEF Meter!NextMonth, MP!NextMonth, Meter!handlerVars, MP!handlerVars
  <2>15. QED
    BY <2>2, <2>3, <2>4, <2>5, <2>6, <2>7, <2>8, <2>9, <2>10, <2>11, <2>12,
       <2>13, <2>14, <2>16
       DEF Meter!Next, MP!Next, Meter!Step, MP!Step, Meter!vars, MP!vars
<1>3. QED
  BY <1>1, <1>2, MeteringInit, MeteringStep, PTL DEF Spec, MP!Spec

\* The rows and the handlers of the engine, as Metering's invariants have
\* them: the key of a row that is being committed is new, and its created_at
\* is not in the future.
UsageRows == [sub: Subs, type: Types, qty: 0..MaxQty, key: Keys,
              month: 1..LastMonth]

Metered ==
  /\ events \in Seq(UsageRows) /\ month \in 1..LastMonth
  /\ req \in [Handlers -> Requests]
  /\ subs \in [Subs -> [tenant: Tenants, plan: Plans, status: Statuses]
                         \cup {NoSub}]
  /\ \A i, j \in DOMAIN events : events[i].key = events[j].key => i = j
  /\ \A h \in Handlers : pc[h] = "commit" =>
       /\ stamp[h] \in 1..month
       /\ \A i \in DOMAIN events : events[i].key # req[h].key
  /\ \A s \in Subs, t \in Types, m \in 1..LastMonth :
       TotalByType(events, s, t, m) <= QuotaBound(t)

LEMMA MeteredAlways == Spec => []Metered
<1>1. MP!IsFiniteSet(Handlers) /\ Handlers # {}
  BY RequestersAssumption DEF IsFiniteSet, MP!IsFiniteSet
<1>2. /\ MaxQty \in Nat
      /\ Requests \subseteq
           [tenant: Tenants, sub: Subs, type: Types, qty: 0..MaxQty, key: Keys]
      /\ Requests # {}
  BY RequestersAssumption
<1>3. /\ TopLimit \in [Types -> Nat]
      /\ Limit \in [Plans -> [Types -> Int]]
      /\ \A p \in Plans, t \in Types : Limit[p][t] <= TopLimit[t]
  BY PlansAssumption
<1>4. LastMonth \in Nat \ {0}
  BY ClockAssumption
<1>5. /\ "active" \in Statuses
      /\ Statuses \subseteq {"active", "cancelled", "past_due", "trialing"}
  BY RequestersAssumption
<1>6. NoSub \notin MP!SubRow
  BY RequestersAssumption DEF MP!SubRow
<1>7. MP!TypeInv /\ MP!KeyInv /\ MP!QuotaInv /\ MP!OvershootBounded => Metered
  <2> SUFFICES ASSUME MP!TypeInv, MP!KeyInv, MP!QuotaInv, MP!OvershootBounded
               PROVE  Metered
    OBVIOUS
  <2>1. /\ events \in Seq(UsageRows) /\ month \in 1..LastMonth
        /\ req \in [Handlers -> Requests]
        /\ subs \in [Subs -> [tenant: Tenants, plan: Plans, status: Statuses]
                               \cup {NoSub}]
    BY DEF MP!TypeInv, MP!TypeOK, MP!UsageRow, MP!Months, MP!SubRow, UsageRows
  <2>2. \A i, j \in DOMAIN events : events[i].key = events[j].key => i = j
    BY DEF MP!KeyInv, MP!OneRowPerKey
  <2>3. ASSUME NEW h \in Handlers, pc[h] = "commit"
        PROVE  /\ stamp[h] \in 1..month
               /\ \A i \in DOMAIN events : events[i].key # req[h].key
    BY <2>3 DEF MP!KeyInv, MP!LockedIsNew, MP!RowsWithKey, MP!QuotaInv,
                MP!LocalsAgree
  <2>4. ASSUME NEW s \in Subs, NEW t \in Types, NEW m \in 1..LastMonth
        PROVE  TotalByType(events, s, t, m) <= QuotaBound(t)
    <3>1. MP!UsedIn(s, t, m) = TotalByType(events, s, t, m)
      BY DEF MP!UsedIn, MP!TotalByType, TotalByType, MP!TypeWeights,
             TypeWeights, MP!SeqSum, SeqSum
    <3>2. MP!Cardinality(Handlers) = Cardinality(Handlers)
      BY DEF MP!Cardinality, Cardinality
    <3>3. m \in MP!Months
      BY DEF MP!Months
    <3>4. QED
      BY <3>1, <3>2, <3>3 DEF MP!OvershootBounded, QuotaBound
  <2>5. QED
    BY <2>1, <2>2, <2>3, <2>4 DEF Metered
<1>8. QED
  BY <1>1, <1>2, <1>3, <1>4, <1>5, <1>6, <1>7, SameMetering, MP!KeyInvariant,
     MP!QuotaInvariant, MP!QuotaOvershoot, PTL

-----------------------------------------------------------------------------
(* Billing *)

\* A key whose row is not there yet leaves room for it.
LEMMA RoomForRow ==
  ASSUME Metered, NEW k \in Keys, \A i \in DOMAIN events : events[i].key # k
  PROVE  Len(events) < Cardinality(Keys)
<1> DEFINE n == Len(events)
           f == [i \in 1..n |-> events[i].key]
<1>1. n \in Nat /\ DOMAIN events = 1..n
  BY DEF Metered
<1>2. f \in Injection(1..n, Keys \ {k})
  <2>1. \A i \in 1..n : events[i] \in UsageRows
    BY <1>1 DEF Metered
  <2>2. \A i \in 1..n : events[i].key \in Keys \ {k}
    BY <1>1, <2>1 DEF UsageRows
  <2>3. f \in [1..n -> Keys \ {k}]
    BY <2>2
  <2>4. \A i, j \in 1..n : f[i] = f[j] => i = j
    BY <1>1 DEF Metered
  <2>5. QED
    BY <2>3, <2>4 DEF Injection, IsInjective
<1>3. /\ IsFiniteSet(Keys \ {k}) /\ Cardinality(Keys) \in Nat
      /\ Cardinality(Keys \ {k}) = Cardinality(Keys) - 1
  BY RequestersAssumption, FS_RemoveElement, FS_CardinalityType
<1>4. Cardinality(1..n) <= Cardinality(Keys \ {k})
  BY <1>2, <1>3, FS_Injection
<1>5. Cardinality(1..n) = n
  BY <1>1, FS_Interval
<1>6. QED
  BY <1>1, <1>3, <1>4, <1>5

LEMMA BillingInit == Init => Bills!Init
<1> SUFFICES ASSUME Init PROVE Bills!Init
  OBVIOUS
<1>1. events = <<>> /\ subs = [s \in Subs |-> NoSub] /\ month = 1
  BY DEF Init, Meter!Init
<1>2. BilledRows = <<>>
  BY <1>1 DEF BilledRows
<1>3. PlanOf \in [Subs -> Plans]
  BY <1>1, RequestersAssumption DEF PlanOf
<1>4. QED
  BY <1>1, <1>2, <1>3 DEF Init, Bills!Init, Bills!Months

\* The tables Billing reads change only with usage_events and subscriptions.
LEMMA SharedUnchanged ==
  ASSUME UNCHANGED <<shared, billVars>>
  PROVE  UNCHANGED Bills!vars
<1>1. UNCHANGED <<events, subs, month>>
  BY DEF shared
<1>2. BilledRows' = BilledRows /\ PlanOf' = PlanOf
  BY <1>1 DEF BilledRows, PlanOf
<1>3. QED
  BY <1>1, <1>2 DEF billVars, Bills!vars

\* A commit is the recording of one usage event, in no later month.
LEMMA CommitIsRecordUsage ==
  ASSUME Metered, NEW h \in Handlers, Meter!Commit(h), UNCHANGED billVars
  PROVE  Bills!Next
<1> DEFINE e == Meter!NewRow(h)
<1>1. /\ pc[h] = "commit" /\ events' = Append(events, e)
      /\ UNCHANGED <<subs, month>>
  BY DEF Meter!Commit
<1>2. /\ req[h].sub \in Subs /\ req[h].type \in Types
      /\ req[h].qty \in 0..MaxQty /\ req[h].key \in Keys
  BY RequestersAssumption DEF Metered
<1>3. /\ stamp[h] \in 1..month /\ month \in 1..LastMonth
      /\ Len(events) < Cardinality(Keys)
  BY <1>1, <1>2, RoomForRow DEF Metered
<1>4. stamp[h] \in Bills!Months /\ stamp[h] <= month
  BY <1>3, ClockAssumption DEF Bills!Months
<1>5. events \in Seq(UsageRows) /\ Len(events) \in Nat
      /\ DOMAIN events = 1..Len(events)
  BY DEF Metered
<1>6. BilledRows \in Seq([sub: Subs, type: Types, qty: 0..MaxQty,
                          month: 1..LastMonth])
      /\ Len(BilledRows) = Len(events)
  <2>1. \A i \in 1..Len(events) : events[i] \in UsageRows
    BY <1>5
  <2>2. QED
    BY <1>5, <2>1 DEF BilledRows, UsageRows
<1>7. BilledRows' = Append(BilledRows, [sub |-> req[h].sub, type |-> req[h].type,
                                        qty |-> req[h].qty, month |-> stamp[h]])
  <2> DEFINE row == [sub |-> req[h].sub, type |-> req[h].type,
                     qty |-> req[h].qty, month |-> stamp[h]]
             n == Len(events)
  <2>1. /\ DOMAIN events' = 1..(n + 1) /\ events'[n + 1] = e
        /\ \A i \in 1..n : events'[i] = events[i]
    BY <1>1, <1>5
  <2>2. /\ e.sub = req[h].sub /\ e.type = req[h].type
        /\ e.qty = req[h].qty /\ e.month = stamp[h]
    BY DEF Meter!NewRow
  <2>3. /\ BilledRows' = [i \in 1..(n + 1) |->
             [sub |-> events'[i].sub, type |-> events'[i].type,
              qty |-> events'[i].qty, month |-> events'[i].month]]
        /\ BilledRows = [i \in 1..n |->
             [sub |-> events[i].sub, type |-> events[i].type,
              qty |-> events[i].qty, month |-> events[i].month]]
    BY <1>5, <2>1 DEF BilledRows
  <2>4. Append(BilledRows, row)
          = [i \in 1..(n + 1) |-> IF i = n + 1 THEN row ELSE BilledRows[i]]
    BY <1>5, <1>6
  <2>5. \A i \in 1..(n + 1) :
          BilledRows'[i] = IF i = n + 1 THEN row ELSE BilledRows[i]
    BY <1>5, <2>1, <2>2, <2>3
  <2>6. QED
    BY <2>3, <2>4, <2>5
<1>8. PlanOf' = PlanOf
  BY <1>1 DEF PlanOf
<1>9. Bills!RecordUsage(req[h].sub, req[h].type, req[h].qty, stamp[h])
  BY <1>1, <1>3, <1>4, <1>6, <1>7, <1>8
     DEF Bills!RecordUsage, Bills!billerVars, billVars
<1>10. QED
  BY <1>2, <1>4, <1>9 DEF Bills!Next

\* A new subscription or a new plan of one is a change of plan, if anything;
\* a new status is nothing to a bill.
LEMMA SubscriptionsChangePlan ==
  ASSUME Metered, Subscriptions
  PROVE  [Bills!Next]_(Bills!vars)
<1> DEFINE SubRows == [tenant: Tenants, plan: Plans, status: Statuses]
           NewPlan(s, p) ==
             /\ subs'[s] # NoSub /\ subs'[s].plan = p
             /\ \A r \in Subs \ {s} : subs'[r] = subs[r]
<1>1. subs \in [Subs -> SubRows \cup {NoSub}] /\ NoSub \notin SubRows
  BY RequestersAssumption DEF Metered
<1>2. UNCHANGED <<events, month, billVars>>
  BY DEF Subscriptions, Meter!CreateSubscription, Meter!SyncSubscription,
         Meter!Reconcile
<1>3. BilledRows' = BilledRows
  BY <1>2 DEF BilledRows
<1>4. ASSUME NEW s \in Subs, NEW n \in Tenants, NEW p \in Plans,
             Meter!CreateSubscription(s, n, p)
      PROVE  NewPlan(s, p)
  <2>1. subs' = [subs EXCEPT
                   ![s] = [tenant |-> n, plan |-> p, status |-> "active"]]
    BY <1>4 DEF Meter!CreateSubscription, Meter!Table!Create
  <2>2. subs'[s] = [tenant |-> n, plan |-> p, status |-> "active"]
    BY <1>1, <2>1
  <2>3. subs'[s] \in SubRows
    BY <2>2, RequestersAssumption
  <2>4. QED
    BY <1>1, <2>1, <2>2, <2>3
<1>5. ASSUME NEW s \in Subs, NEW st \in Statuses, NEW p \in Plans,
             Meter!SyncSubscription(s, st, p)
      PROVE  NewPlan(s, p)
  <2>1. /\ subs[s] # NoSub
        /\ subs' = [subs EXCEPT ![s].status = st, ![s].plan = p]
    BY <1>5 DEF Meter!SyncSubscription, Meter!Table!Sync
  <2>2. subs[s] \in SubRows
    BY <1>1, <2>1
  <2>3. subs'[s] = [[subs[s] EXCEPT !.status = st] EXCEPT !.plan = p]
    BY <1>1, <2>1
  <2>4. subs'[s] \in SubRows /\ subs'[s].plan = p
    BY <2>2, <2>3
  <2>5. QED
    BY <1>1, <2>1, <2>4
<1>6. ASSUME NEW s \in Subs, NEW p \in Plans, NewPlan(s, p)
      PROVE  Bills!Next
  <2>1. PlanOf' = [PlanOf EXCEPT ![s] = p]
    BY <1>6 DEF PlanOf
  <2>2. Bills!ChangePlan(s, p)
    BY <1>2, <1>3, <2>1 DEF Bills!ChangePlan, Bills!billerVars, billVars
  <2>3. QED
    BY <2>2 DEF Bills!Next
<1>7. CASE Meter!Reconcile
  <2>1. \A s \in Subs :
          IF subs[s] = NoSub THEN subs'[s] = NoSub
          ELSE \E st \in Statuses : subs'[s] = [subs[s] EXCEPT !.status = st]
    BY <1>7 DEF Meter!Reconcile, Meter!Table!Reconcile
  <2>2. ASSUME NEW s \in Subs, subs[s] # NoSub
        PROVE  subs'[s] # NoSub /\ subs'[s].plan = subs[s].plan
    <3>1. PICK st \in Statuses : subs'[s] = [subs[s] EXCEPT !.status = st]
      BY <2>1, <2>2
    <3>2. subs[s] \in SubRows
      BY <1>1, <2>2
    <3>3. subs'[s] \in SubRows /\ subs'[s].plan = subs[s].plan
      BY <3>1, <3>2
    <3>4. QED
      BY <1>1, <3>3
  <2>3. PlanOf' = PlanOf
    BY <2>1, <2>2 DEF PlanOf
  <2>4. QED
    BY <1>2, <1>3, <2>3 DEF Bills!vars, Bills!billerVars, billVars
<1>8. QED
  BY <1>4, <1>5, <1>6, <1>7 DEF Subscriptions

LEMMA BillingStep == Metered /\ [Next]_vars => [Bills!Next]_(Bills!vars)
<1> SUFFICES ASSUME Metered, [Next]_vars PROVE [Bills!Next]_(Bills!vars)
  OBVIOUS
<1>1. ASSUME NEW h \in Handlers, MeterStep(h)
      PROVE  [Bills!Next]_(Bills!vars)
  <2>1. UNCHANGED billVars
    BY <1>1 DEF MeterStep
  <2>2. CASE Meter!Commit(h)
    BY <2>1, <2>2, CommitIsRecordUsage
  <2>3. CASE ~Meter!Commit(h)
    <3>1. UNCHANGED shared
      BY <1>1, <2>3
         DEF MeterStep, Meter!Step, Meter!Fail, Meter!Start, Meter!CheckOwner,
             Meter!CheckKey, Meter!LoadSubscription, Meter!ReadClock,
             Meter!CheckQuota,
             Meter!Flush, Meter!Insert, Meter!Refresh, Meter!Reread,
             Meter!Refuse, Meter!Answer, Meter!Finish, Meter!Move, shared
    <3>2. QED
      BY <2>1, <3>1, SharedUnchanged
  <2>4. QED
    BY <2>2, <2>3
<1>2. ASSUME NEW b \in Billers, BillStep(b)
      PROVE  Bills!Next
  BY <1>2 DEF BillStep, Bills!Next
<1>3. ASSUME NEW b \in Billers, NEW s \in Subs, AskForBill(b, s)
      PROVE  Bills!Next
  BY <1>3 DEF AskForBill, Bills!Next
<1>4. CASE Subscriptions
  BY <1>4, SubscriptionsChangePlan
<1>5. CASE NextMonth
  <2>1. /\ month < LastMonth /\ month' = month + 1
        /\ UNCHANGED <<events, subs, billVars>>
    BY <1>5 DEF NextMonth, Meter!NextMonth
  <2>2. BilledRows' = BilledRows /\ PlanOf' = PlanOf
    BY <2>1 DEF BilledRows, PlanOf
  <2>3. Bills!NextMonth
    BY <2>1, <2>2 DEF Bills!NextMonth, Bills!billerVars, billVars
  <2>4. QED
    BY <2>3 DEF Bills!Next
<1>6. CASE UNCHANGED vars
  BY <1>6, SharedUnchanged DEF vars
<1>7. QED
  BY <1>1, <1>2, <1>3, <1>4, <1>5, <1>6 DEF Next

\* The engine's other steps happen to a bill as the usage, plan changes and
\* month ends that Billing allows for: never more events than keys, none in
\* the future.
THEOREM BillingInEngine == Spec => BillingSpec
BY BillingInit, BillingStep, MeteredAlways, PTL
   DEF Spec, BillingSpec, Bills!Spec

LEMMA SameBilling == Spec => BP!Spec
<1>1. Bills!Init => BP!Init
  BY DEF Bills!Init, BP!Init, Bills!Months, BP!Months
<1>2. [Bills!Next]_(Bills!vars) => [BP!Next]_(BP!vars)
  <2>1. ASSUME NEW s, NEW m
        PROVE  Bills!TotalUsage(BilledRows, s, m) = BP!TotalUsage(BilledRows, s, m)
    BY DEF Bills!TotalUsage, BP!TotalUsage, Bills!PeriodWeights,
           BP!PeriodWeights, Bills!SeqSum, BP!SeqSum
  <2>2. ASSUME NEW b \in Billers, NEW i
        PROVE  /\ Bills!Refuse(b) <=> BP!Refuse(b)
               /\ Bills!Answer(b, i) <=> BP!Answer(b, i)
    BY DEF Bills!Refuse, BP!Refuse, Bills!Answer, BP!Answer, Bills!Finish,
           BP!Finish
  <2>3. ASSUME NEW b \in Billers, NEW s \in Subs, Bills!Request(b, s)
        PROVE  BP!Request(b, s)
    BY <2>3 DEF Bills!Request, BP!Request
  <2>4. ASSUME NEW b \in Billers, Bills!Load(b)
        PROVE  BP!Load(b)
    BY <2>4 DEF Bills!Load, BP!Load
  <2>14. ASSUME NEW b \in Billers, Bills!ReadClock(b)
         PROVE  BP!ReadClock(b)
    BY <2>1, <2>14 DEF Bills!ReadClock, BP!ReadClock
  <2>5. ASSUME NEW b \in Billers, Bills!SumUsage(b)
        PROVE  BP!SumUsage(b)
    BY <2>1, <2>5 DEF Bills!SumUsage, BP!SumUsage
  <2>6. ASSUME NEW b \in Billers, Bills!LookUp(b)
        PROVE  BP!LookUp(b)
    BY <2>2, <2>6 DEF Bills!LookUp, BP!LookUp, Bills!AnswerOrStore,
                      BP!AnswerOrStore, Bills!InvoicesOf, BP!InvoicesOf
  <2>7. ASSUME NEW b \in Billers, Bills!Store(b)
        PROVE  BP!Store(b)
    <3>1. Bills!Bill(b) = BP!Bill(b)
      BY DEF Bills!Bill, BP!Bill, Bills!OveragePrice, BP!OveragePrice
    <3>2. Bills!Storable(Bills!Bill(b)) <=> BP!Storable(BP!Bill(b))
      BY <3>1 DEF Bills!Storable, BP!Storable
    <3>3. QED
      BY <2>2, <2>7, <3>1, <3>2 DEF Bills!Store, BP!Store
  <2>8. ASSUME NEW b \in Billers, Bills!Refresh(b) \/ Bills!Fail(b)
        PROVE  BP!Refresh(b) \/ BP!Fail(b)
    BY <2>2, <2>8 DEF Bills!Refresh, BP!Refresh, Bills!Fail, BP!Fail
  <2>9. ASSUME NEW s \in Subs, NEW t \in Types, NEW q \in 0..MaxQty, NEW m,
               Bills!RecordUsage(s, t, q, m)
        PROVE  BP!RecordUsage(s, t, q, m)
    BY <2>9 DEF Bills!RecordUsage, BP!RecordUsage, Bills!billerVars,
                BP!billerVars
  <2>10. ASSUME NEW s \in Subs, NEW p \in Plans, Bills!ChangePlan(s, p)
         PROVE  BP!ChangePlan(s, p)
    BY <2>10 DEF Bills!ChangePlan, BP!ChangePlan, Bills!billerVars,
                 BP!billerVars
  <2>11. Bills!NextMonth => BP!NextMonth
    BY DEF Bills!NextMonth, BP!NextMonth, Bills!billerVars, BP!billerVars
  <2>12. Bills!Months = BP!Months
    BY DEF Bills!Months, BP!Months
  <2>13. QED
    BY <2>3, <2>4, <2>5, <2>6, <2>7, <2>8, <2>9, <2>10, <2>11, <2>12, <2>14
       DEF Bills!Next, BP!Next, Bills!vars, BP!vars
<1>3. QED
  BY <1>1, <1>2, BillingInit, BillingStep, MeteredAlways, PTL
     DEF Spec, BP!Spec

\* The invoices and the bills being made, as Billing's invariants have them.
Billed ==
  /\ \A i \in DOMAIN invoices :
       /\ invoices[i].sub \in Subs /\ invoices[i].month \in 1..LastMonth
       /\ invoices[i].total \in Int
       /\ invoices[i].total
            <= TotalUsage(BilledRows, invoices[i].sub, invoices[i].month)
  /\ \A b \in Billers : bpc[b] \in {"sum", "look", "store", "refresh"} =>
       bperiod[b] \in 1..LastMonth

LEMMA BilledAlways == Spec => []Billed
<1>1. BP!IsFiniteSet(Billers) /\ Billers # {}
  BY RequestersAssumption DEF IsFiniteSet, BP!IsFiniteSet
<1>2. /\ Subs # {} /\ Plans # {}
      /\ 0..MaxQty \subseteq Nat
      /\ Cardinality(Keys) \in Nat /\ LastMonth \in Nat \ {0}
  BY RequestersAssumption, ClockAssumption, FS_CardinalityType
<1>3. /\ MaxInt \in Nat
      /\ Price \in [Plans -> BP!Column]
      /\ UsageLimit \in [Plans -> BP!Column]
  BY PlansAssumption DEF BP!Column
<1>4. BP!TypeOK /\ BP!BillInv => Billed
  <2> SUFFICES ASSUME BP!TypeOK, BP!BillInv PROVE Billed
    OBVIOUS
  <2>1. ASSUME NEW i \in DOMAIN invoices
        PROVE  /\ invoices[i].sub \in Subs /\ invoices[i].month \in 1..LastMonth
               /\ invoices[i].total \in Int
    <3>1. invoices \in Seq(BP!Invoice)
      BY DEF BP!TypeOK
    <3>2. invoices[i] \in BP!Invoice
      BY <3>1
    <3>3. QED
      BY <3>2, <1>3 DEF BP!Invoice, BP!Months
  <2>2. ASSUME NEW i \in DOMAIN invoices
        PROVE  invoices[i].total
                 <= TotalUsage(BilledRows, invoices[i].sub, invoices[i].month)
    <3>1. invoices[i].total
            <= BP!TotalUsage(BilledRows, invoices[i].sub, invoices[i].month)
      BY DEF BP!BillInv, BP!InvoiceConsistent
    <3>2. QED
      BY <3>1 DEF TotalUsage, BP!TotalUsage, PeriodWeights, BP!PeriodWeights,
                  SeqSum, BP!SeqSum
  <2>3. ASSUME NEW b \in Billers,
               bpc[b] \in {"sum", "look", "store", "refresh"}
        PROVE  bperiod[b] \in 1..LastMonth
    BY <2>3 DEF BP!TypeOK, BP!Months
  <2>4. QED
    BY <2>1, <2>2, <2>3 DEF Billed
<1>5. QED
  BY <1>1, <1>2, <1>3, <1>4, SameBilling, BP!BillInvariant, PTL

-----------------------------------------------------------------------------
(* Both *)

\* The usage a bill sums is that of the two quotas.
LEMMA BilledUsageIsMetered ==
  ASSUME Metered, NEW s \in Subs, NEW m \in 1..LastMonth
  PROVE  /\ TotalUsage(BilledRows, s, m)
              <= QuotaBound("API_CALL") + QuotaBound("TOKENS")
         /\ TotalUsage(BilledRows, s, m) \in Nat
         /\ QuotaBound("API_CALL") \in Int /\ QuotaBound("TOKENS") \in Int
<1>1. /\ DOMAIN events = 1..Len(events) /\ Len(events) \in Nat
      /\ \A i \in DOMAIN events : events[i] \in UsageRows
  BY DEF Metered
<1>2. events \in Seq(UsageRows) /\ QtyRow(events)
  BY <1>1, RequestersAssumption DEF QtyRow, UsageRows, Metered
<1>3. TotalUsage(BilledRows, s, m) = TotalUsage(events, s, m)
  <2>1. PeriodWeights(BilledRows, s, m) = PeriodWeights(events, s, m)
    BY DEF PeriodWeights, BilledRows
  <2>2. QED
    BY <2>1 DEF TotalUsage
<1>4. TotalUsage(events, s, m)
        = TotalByType(events, s, "API_CALL", m) + TotalByType(events, s, "TOKENS", m)
  <2>1. \A i \in DOMAIN events : events[i].type \in {"API_CALL", "TOKENS"}
    BY <1>1, PlansAssumption DEF UsageRows
  <2>2. QED
    BY <1>2, <2>1, TotalUsageOfTypes
<1>5. /\ TotalByType(events, s, "API_CALL", m) <= QuotaBound("API_CALL")
      /\ TotalByType(events, s, "TOKENS", m) <= QuotaBound("TOKENS")
  BY PlansAssumption DEF Metered
<1>6. /\ TotalByType(events, s, "API_CALL", m) \in Nat
      /\ TotalByType(events, s, "TOKENS", m) \in Nat
  BY <1>2, TotalByTypeNat
<1>7. QuotaBound("API_CALL") \in Int /\ QuotaBound("TOKENS") \in Int
  <2>1. Cardinality(Handlers) \in Int /\ MaxQty \in Int
    BY RequestersAssumption, FS_CardinalityType
  <2>2. QED
    BY <2>1, PlansAssumption DEF QuotaBound
<1>8. QED
  BY <1>3, <1>4, <1>5, <1>6, <1>7

\* No invoice charges for more than the quotas let in.
THEOREM BillsWithinQuotas == Spec => []BilledWithinQuotas
<1>1. Metered /\ Billed => BilledWithinQuotas
  <2> SUFFICES ASSUME Metered, Billed, NEW i \in DOMAIN invoices
               PROVE  invoices[i].total
                        <= QuotaBound("API_CALL") + QuotaBound("TOKENS")
    BY DEF BilledWithinQuotas
  <2> DEFINE s == invoices[i].sub
             m == invoices[i].month
  <2>1. /\ s \in Subs /\ m \in 1..LastMonth /\ invoices[i].total \in Int
        /\ invoices[i].total <= TotalUsage(BilledRows, s, m)
    BY DEF Billed
  <2>2. /\ TotalUsage(BilledRows, s, m)
             <= QuotaBound("API_CALL") + QuotaBound("TOKENS")
        /\ TotalUsage(BilledRows, s, m) \in Nat
        /\ QuotaBound("API_CALL") \in Int /\ QuotaBound("TOKENS") \in Int
    BY <2>1, BilledUsageIsMetered
  <2>3. QED
    BY <2>1, <2>2
<1>2. QED
  BY <1>1, MeteredAlways, BilledAlways, PTL

\* The window of a bill holds the rows of its month and no others, for any
\* first month and any number of months.
THEOREM PeriodsPartitionUsage == Spec => []PeriodsHoldTheirRows
<1>1. Metered /\ Billed => PeriodsHoldTheirRows
  <2> SUFFICES ASSUME Metered, Billed, NEW b \in Billers,
                      bpc[b] \in {"sum", "look", "store", "refresh"},
                      NEW i \in DOMAIN events
               PROVE  InPeriod(DateOf(events[i].month),
                               MonthBounds(DateOf(bperiod[b])))
                        <=> events[i].month = bperiod[b]
    BY DEF PeriodsHoldTheirRows
  <2>1. events[i].month \in Nat
    <3>1. events[i] \in UsageRows
      BY DEF Metered
    <3>2. QED
      BY <3>1, ClockAssumption DEF UsageRows
  <2>2. bperiod[b] \in Nat
    BY ClockAssumption DEF Billed
  <2>3. QED
    BY <2>1, <2>2, MonthsApart
<1>2. QED
  BY <1>1, MeteredAlways, BilledAlways, PTL
=============================================================================
