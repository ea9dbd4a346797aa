--------------------------- MODULE BillingProofs ---------------------------
(***************************************************************************)
(* What holds of Billing for every number of handlers, subscriptions,      *)
(* plans, prices and events: its type invariant, that invoices and answers *)
(* are right whatever runs in between, the bound on duplicates, and that   *)
(* it implements InvoiceRegister.                                          *)
(***************************************************************************)
EXTENDS Billing, UsageTotalsProofs, FiniteSetTheorems, TLAPS

-----------------------------------------------------------------------------
(* Types *)

USE RowsAssumption, PlansAssumption

LEMMA EventsHaveQuantities ==
  ASSUME TypeOK
  PROVE  events \in Seq(UsageRow) /\ QtyRow(events)
<1>1. events \in Seq(UsageRow)
  BY DEF TypeOK
<1>2. \A i \in DOMAIN events : events[i] \in UsageRow
  BY <1>1
<1>3. \A e \in UsageRow : e.qty \in Nat
  BY DEF UsageRow
<1> QED BY <1>1, <1>2, <1>3 DEF QtyRow

LEMMA UsageIsNat ==
  ASSUME TypeOK, NEW s, NEW m
  PROVE  TotalUsage(events, s, m) \in Nat
BY EventsHaveQuantities, TotalUsageNat

\* A bill that fits the columns is an invoice.
LEMMA BillType ==
  ASSUME TypeOK, NEW b \in Billers, period[b] \in Months, Storable(Bill(b))
  PROVE  Bill(b) \in Invoice
<1>1. /\ sub[b] \in Subs /\ seen[b] \in Plans /\ total[b] \in Nat
      /\ Price[seen[b]] \in Column /\ UsageLimit[seen[b]] \in Column
  BY DEF TypeOK
<1> DEFINE limit == UsageLimit[seen[b]]
           price == Price[seen[b]]
           over  == IF total[b] > limit THEN total[b] - limit ELSE 0
<1>2. limit \in Int /\ price \in Int
  BY <1>1 DEF Column
<1>3. over \in Nat
  BY <1>1, <1>2
<1>4. Bill(b) = [sub |-> sub[b], month |-> period[b], price |-> price,
                 limit |-> limit, total |-> total[b], overage |-> over,
                 amount |-> price + over * OveragePrice]
  BY DEF Bill
<1>5. limit \in Column /\ price \in Column
  BY <1>1
<1> HIDE DEF over, limit, price
<1>6. total[b] <= MaxInt /\ over <= MaxInt /\ price + over * OveragePrice <= MaxInt
  BY <1>4 DEF Storable
<1>7. price <= price + over * OveragePrice
  BY <1>2, <1>3 DEF OveragePrice
<1>8. /\ total[b] \in 0..MaxInt /\ over \in 0..MaxInt
      /\ price + over * OveragePrice \in Column
  BY <1>1, <1>2, <1>3, <1>5, <1>6, <1>7 DEF Column, OveragePrice
<1> QED BY <1>1, <1>4, <1>5, <1>8 DEF Invoice

LEMMA TypeInit == Init => TypeOK
<1>1. (CHOOSE p \in Plans : TRUE) \in Plans /\ (CHOOSE s \in Subs : TRUE) \in Subs
  OBVIOUS
<1> QED BY <1>1 DEF Init, TypeOK, Pcs, Months

LEMMA FinishType ==
  ASSUME TypeOK, NEW b \in Billers, Finish(b),
         given' \in [Subs -> [Months -> SUBSET Nat]]
  PROVE  TypeOK'
<1>1. (CHOOSE p \in Plans : TRUE) \in Plans
  OBVIOUS
<1>2. /\ pc' \in [Billers -> Pcs] /\ period' \in [Billers -> 0..LastMonth]
      /\ total' \in [Billers -> Nat] /\ stored' \in [Billers -> Nat]
      /\ since' \in [Billers -> Nat] /\ seen' \in [Billers -> Plans]
  <2>1. pc' \in [Billers -> Pcs] /\ seen' \in [Billers -> Plans]
    BY <1>1 DEF TypeOK, Finish, Pcs
  <2>2. /\ period' \in [Billers -> 0..LastMonth] /\ total' \in [Billers -> Nat]
        /\ stored' \in [Billers -> Nat] /\ since' \in [Billers -> Nat]
    <3>1. 0 \in 0..LastMonth /\ 0 \in Nat
      OBVIOUS
    <3>2. /\ period' = [period EXCEPT ![b] = 0] /\ total' = [total EXCEPT ![b] = 0]
          /\ stored' = [stored EXCEPT ![b] = 0] /\ since' = [since EXCEPT ![b] = 0]
      BY DEF Finish
    <3>3. /\ period \in [Billers -> 0..LastMonth] /\ total \in [Billers -> Nat]
          /\ stored \in [Billers -> Nat] /\ since \in [Billers -> Nat]
      BY DEF TypeOK
    <3> QED BY <3>1, <3>2, <3>3
  <2> QED BY <2>1, <2>2
<1>3. /\ UNCHANGED <<events, plan, month, invoices, sub>>
      /\ pc'[b] = "idle"
      /\ \A c \in Billers \ {b} : pc'[c] = pc[c] /\ period'[c] = period[c]
  BY DEF TypeOK, Finish
<1>4. \A c \in Billers :
        pc'[c] \in {"sum", "look", "store", "refresh"} => period'[c] \in Months
  BY <1>3 DEF TypeOK
<1> QED BY <1>2, <1>3, <1>4 DEF TypeOK

LEMMA AnswerType ==
  ASSUME TypeOK, NEW b \in Billers, period[b] \in Months, NEW i \in Nat, Answer(b, i)
  PROVE  TypeOK'
<1>1. given' = [given EXCEPT ![sub[b]][period[b]] = @ \cup {i}] /\ Finish(b)
  BY DEF Answer
<1>2. given' \in [Subs -> [Months -> SUBSET Nat]]
  BY <1>1 DEF TypeOK
<1> QED BY <1>1, <1>2, FinishType

LEMMA RefuseType ==
  ASSUME TypeOK, NEW b \in Billers, Refuse(b)
  PROVE  TypeOK'
<1>1. given' \in [Subs -> [Months -> SUBSET Nat]]
  BY DEF Refuse, TypeOK
<1> QED BY <1>1, FinishType DEF Refuse

LEMMA TypeStep == TypeOK /\ [Next]_vars => TypeOK'
<1> SUFFICES ASSUME TypeOK, [Next]_vars PROVE TypeOK'
  OBVIOUS
<1>1. ASSUME NEW b \in Billers, NEW s \in Subs, Request(b, s) PROVE TypeOK'
  BY <1>1 DEF Request, TypeOK, Pcs
<1>12. ASSUME NEW b \in Billers, Load(b) PROVE TypeOK'
  <2>1. plan[sub[b]] \in Plans
    BY DEF TypeOK
  <2> QED BY <1>12, <2>1 DEF Load, TypeOK, Pcs
<1>2. ASSUME NEW b \in Billers, ReadClock(b) PROVE TypeOK'
  <2>1. TotalUsage(events, sub[b], month) \in Nat
    BY UsageIsNat
  <2>2. /\ pc' = [pc EXCEPT ![b] = "sum"]
        /\ period' = [period EXCEPT ![b] = month]
        /\ since' = [since EXCEPT ![b] = TotalUsage(events, sub[b], month)]
        /\ UNCHANGED <<events, plan, month, invoices, given, sub, seen, total, stored>>
    BY <1>2 DEF ReadClock
  <2>3. /\ pc' \in [Billers -> Pcs]
        /\ period' \in [Billers -> 0..LastMonth] /\ since' \in [Billers -> Nat]
    <3>1. month \in 0..LastMonth
      BY DEF TypeOK, Months
    <3>2. pc' \in [Billers -> Pcs]
      BY <2>2 DEF TypeOK, Pcs
    <3>3. period' \in [Billers -> 0..LastMonth] /\ since' \in [Billers -> Nat]
      BY <2>1, <2>2, <3>1 DEF TypeOK
    <3> QED BY <3>2, <3>3
  <2>4. \A c \in Billers :
          pc'[c] \in {"sum", "look", "store", "refresh"} => period'[c] \in Months
    BY <2>2 DEF TypeOK
  <2> QED BY <2>2, <2>3, <2>4 DEF TypeOK
<1>3. ASSUME NEW b \in Billers, SumUsage(b) PROVE TypeOK'
  <2>1. TotalUsage(events, sub[b], period[b]) \in Nat
    BY UsageIsNat
  <2> QED BY <1>3, <2>1 DEF SumUsage, TypeOK, Pcs
<1>4. ASSUME NEW b \in Billers, LookUp(b) PROVE TypeOK'
  <2>1. period[b] \in Months /\ InvoicesOf(sub[b], period[b]) \subseteq Nat
    BY <1>4 DEF LookUp, AnswerOrStore, TypeOK, InvoicesOf
  <2>2. CASE \E i \in InvoicesOf(sub[b], period[b]) : Answer(b, i)
    BY <2>1, <2>2, AnswerType
  <2>3. CASE ~ \E i \in InvoicesOf(sub[b], period[b]) : Answer(b, i)
    BY <1>4, <2>1, <2>3 DEF LookUp, AnswerOrStore, TypeOK, Pcs
  <2> QED BY <2>2, <2>3
<1>5. ASSUME NEW b \in Billers, Store(b) PROVE TypeOK'
  <2>1. CASE Refuse(b)
    BY <2>1, RefuseType
  <2>2. CASE ~Refuse(b)
    <3>1. /\ Storable(Bill(b)) /\ pc[b] = "store"
          /\ pc' = [pc EXCEPT ![b] = "refresh"]
          /\ invoices' = Append(invoices, Bill(b))
          /\ stored' = [stored EXCEPT ![b] = Len(invoices) + 1]
          /\ UNCHANGED <<events, plan, month, given, sub, seen, period, total, since>>
      BY <1>5, <2>2 DEF Store
    <3>2. period[b] \in Months
      BY <3>1 DEF TypeOK
    <3>3. Bill(b) \in Invoice /\ invoices \in Seq(Invoice)
      BY <3>1, <3>2, BillType DEF TypeOK
    <3>4. invoices' \in Seq(Invoice) /\ Len(invoices) + 1 \in Nat
      BY <3>1, <3>3
    <3> QED BY <3>1, <3>2, <3>4 DEF TypeOK, Pcs
  <2> QED BY <2>1, <2>2
<1>6. ASSUME NEW b \in Billers, Refresh(b) PROVE TypeOK'
  <2>1. period[b] \in Months /\ stored[b] \in Nat
    BY <1>6 DEF Refresh, TypeOK
  <2> QED BY <1>6, <2>1, AnswerType DEF Refresh
<1>7. ASSUME NEW b \in Billers, Fail(b) PROVE TypeOK'
  BY <1>7, RefuseType DEF Fail
<1>8. ASSUME NEW s \in Subs, NEW t \in Types, NEW q \in Quantities, NEW m \in Months,
             RecordUsage(s, t, q, m)
      PROVE  TypeOK'
  <2>1. [sub |-> s, type |-> t, qty |-> q, month |-> m] \in UsageRow
    BY DEF UsageRow
  <2> QED BY <1>8, <2>1 DEF RecordUsage, TypeOK, billerVars
<1>9. ASSUME NEW s \in Subs, NEW p \in Plans, ChangePlan(s, p) PROVE TypeOK'
  BY <1>9 DEF ChangePlan, TypeOK, billerVars
<1>10. CASE NextMonth
  BY <1>10 DEF NextMonth, TypeOK, billerVars, Months
<1>11. CASE UNCHANGED vars
  BY <1>11 DEF vars, TypeOK
<1> QED BY <1>1, <1>2, <1>3, <1>4, <1>5, <1>6, <1>7, <1>8, <1>9, <1>10, <1>11, <1>12
        DEF Next

\* The variables keep their types; above all, no stored amount is outside its
\* integer column (billing_service.py:43-65, models/invoice.py).
THEOREM TypeCorrect == Spec => []TypeOK
BY TypeInit, TypeStep, PTL DEF Spec

-----------------------------------------------------------------------------
(* What a bill is made of *)

\* Usage of a period only grows, and invoices are only added.
LEMMA UsageGrows ==
  ASSUME TypeOK, [Next]_vars, NEW s, NEW m
  PROVE  /\ TotalUsage(events', s, m) \in Nat
         /\ TotalUsage(events, s, m) <= TotalUsage(events', s, m)
<1>1. TotalUsage(events, s, m) \in Nat
  BY UsageIsNat
<1>2. CASE events' = events
  BY <1>1, <1>2
<1>3. CASE events' # events
  <2>1. PICK z \in Subs, t \in Types, q \in Quantities, n \in Months :
          events' = Append(events, [sub |-> z, type |-> t, qty |-> q, month |-> n])
    BY <1>3 DEF Next, vars, Request, Load, ReadClock, SumUsage, LookUp, AnswerOrStore, Store,
         Refresh, Fail, Answer, Refuse, Finish, RecordUsage, ChangePlan, NextMonth
  <2> DEFINE e == [sub |-> z, type |-> t, qty |-> q, month |-> n]
             more == IF e.sub = s /\ e.month = m THEN e.qty ELSE 0
  <2>2. e \in UsageRow /\ e.qty \in Nat
    BY DEF UsageRow
  <2>3. more \in Nat
    BY <2>2
  <2> HIDE DEF e
  <2>4. TotalUsage(Append(events, e), s, m) = TotalUsage(events, s, m) + more
    BY <2>2, EventsHaveQuantities, TotalUsageAppend
  <2>5. events' = Append(events, e)
    BY <2>1 DEF e
  <2> HIDE DEF more
  <2> QED BY <1>1, <2>3, <2>4, <2>5
<1> QED BY <1>2, <1>3

LEMMA InvoicesGrow ==
  ASSUME TypeOK, [Next]_vars
  PROVE  \/ invoices' = invoices
         \/ \E b \in Billers : /\ pc[b] = "store" /\ Storable(Bill(b))
                              /\ invoices' = Append(invoices, Bill(b))
                              /\ pc' = [pc EXCEPT ![b] = "refresh"]
BY DEF Next, vars, Request, Load, ReadClock, SumUsage, LookUp, AnswerOrStore, Store, Refresh,
       Fail, Answer, Refuse, Finish, RecordUsage, ChangePlan, NextMonth

LEMMA FoundStaysFound ==
  ASSUME TypeOK, [Next]_vars, NEW s, NEW m
  PROVE  \A i \in InvoicesOf(s, m) :
           i \in DOMAIN invoices' /\ invoices'[i].sub = s /\ invoices'[i].month = m
<1>1. invoices \in Seq(Invoice)
  BY DEF TypeOK
<1>2. /\ DOMAIN invoices \subseteq DOMAIN invoices'
      /\ \A i \in DOMAIN invoices : invoices'[i] = invoices[i]
  <2>1. CASE invoices' = invoices
    BY <2>1
  <2>2. ASSUME NEW v, invoices' = Append(invoices, v)
        PROVE  /\ DOMAIN invoices \subseteq DOMAIN invoices'
               /\ \A i \in DOMAIN invoices : invoices'[i] = invoices[i]
    BY <1>1, <2>2
  <2> QED BY <2>1, <2>2, InvoicesGrow
<1> QED BY <1>2 DEF InvoicesOf

\* What a handler has read is true of its period: the usage it will bill is
\* recorded and was not recorded later than it summed, and the invoice it
\* stored is one of the period.
ReadInv(b) ==
  /\ pc[b] \in {"sum", "look", "store"} =>
       since[b] <= TotalUsage(events, sub[b], period[b])
  /\ pc[b] \in {"look", "store"} =>
       since[b] <= total[b] /\ total[b] <= TotalUsage(events, sub[b], period[b])
  /\ pc[b] = "refresh" => stored[b] \in InvoicesOf(sub[b], period[b])

\* A handler whose variables a step does not touch.
Untouched(b) ==
  /\ pc'[b] = pc[b] /\ sub'[b] = sub[b] /\ period'[b] = period[b]
  /\ total'[b] = total[b] /\ stored'[b] = stored[b] /\ since'[b] = since[b]

LEMMA ReadKept ==
  ASSUME TypeOK, TypeOK', [Next]_vars, NEW b \in Billers, ReadInv(b), Untouched(b)
  PROVE  ReadInv(b)'
<1> DEFINE old == TotalUsage(events, sub[b], period[b])
           new == TotalUsage(events', sub[b], period[b])
<1>1. old <= new
  BY UsageGrows
<1>2. old \in Nat /\ new \in Nat /\ since[b] \in Nat /\ total[b] \in Nat
  BY UsageIsNat, UsageGrows DEF TypeOK
<1>3. pc[b] = "refresh" => stored'[b] \in InvoicesOf(sub[b], period[b])'
  <2> SUFFICES ASSUME pc[b] = "refresh"
               PROVE  stored'[b] \in InvoicesOf(sub[b], period[b])'
    OBVIOUS
  <2>1. stored[b] \in InvoicesOf(sub[b], period[b])
    BY DEF ReadInv
  <2>2. /\ stored[b] \in DOMAIN invoices'
        /\ invoices'[stored[b]].sub = sub[b] /\ invoices'[stored[b]].month = period[b]
    BY <2>1, FoundStaysFound
  <2> QED BY <2>2 DEF InvoicesOf, Untouched
<1>4. /\ pc[b] \in {"sum", "look", "store"} => since[b] <= old
      /\ pc[b] \in {"look", "store"} => since[b] <= total[b] /\ total[b] <= old
  BY DEF ReadInv
<1>5. TotalUsage(events', sub'[b], period'[b]) = new
  BY DEF Untouched
<1> HIDE DEF old, new
<1>7. /\ pc[b] \in {"sum", "look", "store"} => since[b] <= new
      /\ pc[b] \in {"look", "store"} => since[b] <= total[b] /\ total[b] <= new
  BY <1>1, <1>2, <1>4
<1> QED BY <1>3, <1>5, <1>7 DEF ReadInv, Untouched

LEMMA OthersUntouched ==
  ASSUME TypeOK, NEW b \in Billers, NEW c \in Billers, b # c,
         \/ \E s \in Subs : Request(b, s)
         \/ Load(b) \/ ReadClock(b) \/ SumUsage(b) \/ LookUp(b) \/ Store(b) \/ Refresh(b) \/ Fail(b)
  PROVE  Untouched(c)
<1> USE DEF TypeOK, Untouched
<1>1. CASE Finish(b)
  BY <1>1 DEF Finish
<1>2. CASE (\E s \in Subs : Request(b, s)) \/ Load(b) \/ ReadClock(b) \/ SumUsage(b)
  BY <1>2 DEF Request, Load, ReadClock, SumUsage
<1>3. CASE LookUp(b) \/ Store(b)
  BY <1>1, <1>3 DEF LookUp, AnswerOrStore, Answer, Store, Refuse
<1>4. CASE Refresh(b) \/ Fail(b)
  BY <1>1, <1>4 DEF Refresh, Answer, Fail, Refuse
<1> QED BY <1>2, <1>3, <1>4

LEMMA ReadActs ==
  ASSUME TypeOK, NEW b \in Billers, ReadInv(b),
         \/ \E s \in Subs : Request(b, s)
         \/ Load(b) \/ ReadClock(b) \/ SumUsage(b) \/ LookUp(b) \/ Store(b) \/ Refresh(b) \/ Fail(b)
  PROVE  ReadInv(b)'
<1>1. CASE Finish(b)
  BY <1>1 DEF Finish, TypeOK, ReadInv
<1>2. CASE \E s \in Subs : Request(b, s)
  BY <1>2 DEF Request, TypeOK, ReadInv
<1>8. CASE Load(b)
  BY <1>8 DEF Load, TypeOK, ReadInv
<1>3. CASE ReadClock(b)
  <2>1. /\ pc'[b] = "sum" /\ sub'[b] = sub[b] /\ period'[b] = month
        /\ since'[b] = TotalUsage(events, sub[b], month) /\ events' = events
    BY <1>3 DEF ReadClock, TypeOK
  <2>2. TotalUsage(events, sub[b], month) \in Nat
    BY UsageIsNat
  <2> QED BY <2>1, <2>2 DEF ReadInv
<1>4. CASE SumUsage(b)
  <2>1. /\ pc[b] = "sum" /\ pc'[b] = "look" /\ sub'[b] = sub[b]
        /\ period'[b] = period[b] /\ since'[b] = since[b] /\ events' = events
        /\ total'[b] = TotalUsage(events, sub[b], period[b])
    BY <1>4 DEF SumUsage, TypeOK
  <2>2. TotalUsage(events, sub[b], period[b]) \in Nat
    BY UsageIsNat
  <2> QED BY <2>1, <2>2 DEF ReadInv
<1>5. CASE LookUp(b)
  <2>1. CASE ~Finish(b)
    <3>1. /\ pc[b] = "look" /\ pc'[b] = "store"
          /\ UNCHANGED <<events, sub, period, total, since>>
      BY <1>5, <2>1 DEF LookUp, AnswerOrStore, Answer, TypeOK
    <3> QED BY <3>1 DEF ReadInv
  <2> QED BY <1>1, <2>1
<1>6. CASE Store(b)
  <2>1. CASE ~Finish(b)
    <3>1. /\ invoices' = Append(invoices, Bill(b)) /\ pc[b] = "store"
          /\ stored'[b] = Len(invoices) + 1 /\ pc'[b] = "refresh"
          /\ sub' = sub /\ period' = period
      BY <1>6, <2>1 DEF Store, Refuse, TypeOK
    <3>2. Bill(b).sub = sub[b] /\ Bill(b).month = period[b]
      BY DEF Bill
    <3>3. invoices \in Seq(Invoice)
      BY DEF TypeOK
    <3>4. stored'[b] \in DOMAIN invoices' /\ invoices'[stored'[b]] = Bill(b)
      BY <3>1, <3>3
    <3> QED BY <3>1, <3>2, <3>4 DEF ReadInv, InvoicesOf
  <2> QED BY <1>1, <2>1
<1>7. CASE Refresh(b) \/ Fail(b)
  BY <1>1, <1>7 DEF Refresh, Fail, Answer, Refuse
<1> QED BY <1>2, <1>3, <1>4, <1>5, <1>6, <1>7, <1>8

LEMMA ReadStep ==
  ASSUME TypeOK, [Next]_vars, \A b \in Billers : ReadInv(b)
  PROVE  \A b \in Billers : ReadInv(b)'
<1>1. TypeOK'
  BY TypeStep
<1>2. ASSUME NEW b \in Billers,
             \/ \E s \in Subs : Request(b, s)
             \/ Load(b) \/ ReadClock(b) \/ SumUsage(b)
             \/ LookUp(b) \/ Store(b) \/ Refresh(b) \/ Fail(b)
      PROVE  \A c \in Billers : ReadInv(c)'
  <2>1. ReadInv(b)'
    BY <1>2, ReadActs
  <2>2. ASSUME NEW c \in Billers, c # b PROVE ReadInv(c)'
    BY <1>1, <1>2, <2>2, OthersUntouched, ReadKept
  <2> QED BY <2>1, <2>2
<1>3. CASE UNCHANGED billerVars
  <2>1. \A b \in Billers : Untouched(b)
    BY <1>3 DEF billerVars, Untouched
  <2> QED BY <1>1, <2>1, ReadKept
<1> QED BY <1>2, <1>3 DEF Next, vars, billerVars, RecordUsage, ChangePlan, NextMonth

\* The answers given so far, and one more.
LEMMA AnswersStep ==
  ASSUME TypeOK, [Next]_vars, AnswersOfPeriod, \A b \in Billers : ReadInv(b)
  PROVE  AnswersOfPeriod'
<1>1. ASSUME NEW s \in Subs, NEW m \in Months, NEW i \in given'[s][m]
      PROVE  i \in InvoicesOf(s, m)
             \/ \E b \in Billers : i \in InvoicesOf(sub[b], period[b])
                                 /\ sub[b] = s /\ period[b] = m
  <2>1. CASE i \in given[s][m]
    BY <2>1 DEF AnswersOfPeriod
  <2>2. CASE i \notin given[s][m]
    <3>1. PICK b \in Billers, j \in Nat :
            /\ Answer(b, j)
            /\ \/ pc[b] = "look" /\ j \in InvoicesOf(sub[b], period[b])
               \/ pc[b] = "refresh" /\ j = stored[b]
      <4>1. given' # given
        BY <2>2
      <4>2. PICK b \in Billers : LookUp(b) \/ Refresh(b)
        BY <4>1 DEF Next, vars, Request, Load, ReadClock, SumUsage, Store, Fail, Refuse,
             RecordUsage, ChangePlan, NextMonth
      <4>3. InvoicesOf(sub[b], period[b]) \subseteq Nat /\ stored[b] \in Nat
        <5>1. invoices \in Seq(Invoice) /\ stored[b] \in Nat
          BY DEF TypeOK
        <5> QED BY <5>1 DEF InvoicesOf
      <4> QED BY <4>1, <4>2, <4>3 DEF LookUp, AnswerOrStore, Refresh
    <3>2. j \in InvoicesOf(sub[b], period[b])
      BY <3>1 DEF ReadInv
    <3>3. given' = [given EXCEPT ![sub[b]][period[b]] = @ \cup {j}]
      BY <3>1 DEF Answer
    <3>4. sub[b] = s /\ period[b] = m /\ i = j
      BY <2>2, <3>3 DEF TypeOK
    <3> QED BY <3>2, <3>4
  <2> QED BY <2>1, <2>2
<1>2. ASSUME NEW s \in Subs, NEW m \in Months, NEW i \in given'[s][m]
      PROVE  i \in InvoicesOf(s, m)'
  <2>1. i \in InvoicesOf(s, m)
    BY <1>1, <1>2
  <2> QED BY <2>1, FoundStaysFound DEF InvoicesOf
<1> QED BY <1>2 DEF AnswersOfPeriod

\* What InvoiceConsistent says of one invoice.
Consistent(v) ==
  /\ \E p \in Plans : v.price = Price[p] /\ v.limit = UsageLimit[p]
  /\ v.total <= TotalUsage(events, v.sub, v.month)
  /\ v.total <= v.limit + v.overage
  /\ v.overage > 0 => v.total = v.limit + v.overage
  /\ v.amount = v.price + v.overage * OveragePrice

LEMMA BillConsistent ==
  ASSUME TypeOK, NEW b \in Billers, ReadInv(b), pc[b] = "store"
  PROVE  Consistent(Bill(b))
<1> DEFINE limit == UsageLimit[seen[b]]
           over  == IF total[b] > limit THEN total[b] - limit ELSE 0
<1>1. seen[b] \in Plans /\ limit \in Int /\ total[b] \in Nat
  BY DEF TypeOK, Column
<1>2. total[b] <= TotalUsage(events, sub[b], period[b])
  BY DEF ReadInv
<1>3. total[b] <= limit + over /\ (over > 0 => total[b] = limit + over)
  BY <1>1
<1>4. Bill(b) = [sub |-> sub[b], month |-> period[b], price |-> Price[seen[b]],
                 limit |-> limit, total |-> total[b], overage |-> over,
                 amount |-> Price[seen[b]] + over * OveragePrice]
  BY DEF Bill
<1>5. limit = UsageLimit[seen[b]]
  OBVIOUS
<1> HIDE DEF over, limit
<1> QED BY <1>1, <1>2, <1>3, <1>4, <1>5 DEF Consistent

LEMMA ConsistentStep ==
  ASSUME TypeOK, [Next]_vars, \A b \in Billers : ReadInv(b), InvoiceConsistent
  PROVE  InvoiceConsistent'
<1>1. \A i \in DOMAIN invoices : Consistent(invoices[i])
  BY DEF InvoiceConsistent, Consistent
<1>2. invoices \in Seq(Invoice)
  BY DEF TypeOK
<1>3. ASSUME NEW i \in DOMAIN invoices' PROVE Consistent(invoices'[i])
  <2>1. CASE i \in DOMAIN invoices /\ invoices'[i] = invoices[i]
    BY <1>1, <2>1
  <2>2. CASE ~(i \in DOMAIN invoices /\ invoices'[i] = invoices[i])
    <3>1. PICK b \in Billers : pc[b] = "store" /\ invoices' = Append(invoices, Bill(b))
      BY <2>2, <1>3, InvoicesGrow
    <3>2. invoices'[i] = Bill(b)
      BY <1>2, <1>3, <2>2, <3>1
    <3> QED BY <3>1, <3>2, BillConsistent
  <2> QED BY <2>1, <2>2
<1>4. TypeOK'
  BY TypeStep
<1>5. ASSUME NEW i \in DOMAIN invoices'
      PROVE  invoices'[i].total <= TotalUsage(events', invoices'[i].sub, invoices'[i].month)
  <2> DEFINE v == invoices'[i]
  <2>1. v.total \in Nat
    <3>1. invoices' \in Seq(Invoice)
      BY <1>4 DEF TypeOK
    <3>2. v \in Invoice
      BY <1>5, <3>1
    <3> QED BY <3>2 DEF Invoice
  <2>2. v.total <= TotalUsage(events, v.sub, v.month)
    BY <1>3, <1>5 DEF Consistent
  <2>3. /\ TotalUsage(events, v.sub, v.month) \in Nat
        /\ TotalUsage(events', v.sub, v.month) \in Nat
        /\ TotalUsage(events, v.sub, v.month) <= TotalUsage(events', v.sub, v.month)
    BY UsageIsNat, UsageGrows
  <2> HIDE DEF v
  <2>4. v.total <= TotalUsage(events', v.sub, v.month)
    BY <2>1, <2>2, <2>3
  <2> QED BY <2>4 DEF v
<1> QED BY <1>3, <1>5 DEF InvoiceConsistent, Consistent

BillInv == (\A b \in Billers : ReadInv(b)) /\ InvoiceConsistent /\ AnswersOfPeriod

LEMMA BillInvariant == Spec => [](TypeOK /\ BillInv)
<1>1. Init => BillInv
  BY DEF Init, BillInv, ReadInv, InvoiceConsistent, AnswersOfPeriod
<1>2. TypeOK /\ BillInv /\ [Next]_vars => BillInv'
  BY ReadStep, AnswersStep, ConsistentStep DEF BillInv
<1> QED BY <1>1, <1>2, TypeInit, TypeStep, PTL DEF Spec

\* However plan changes and usage interleave with the statements of a bill,
\* an invoice charges one plan and adds up (billing_service.py:43-65).
THEOREM InvoicesConsistent == Spec => []InvoiceConsistent
BY BillInvariant, PTL DEF BillInv

\* Every bill answered is a committed invoice of the period asked for, although
\* the month may end while it is made (billing_service.py:39-54).
THEOREM AnswersAreOfPeriod == Spec => []AnswersOfPeriod
BY BillInvariant, PTL DEF BillInv

\* A new invoice counts what was recorded before it was asked for, and nothing
\* that is not recorded (billing_service.py:43).
THEOREM BillsCountUsage == Spec => BillCountsUsage
<1>1. ASSUME TypeOK, BillInv, [Next]_vars, NEW b \in Billers,
             Len(invoices') > Len(invoices), pc[b] = "store", pc'[b] = "refresh"
      PROVE  LET v == invoices'[Len(invoices')]
             IN  since[b] <= v.total /\ v.total <= TotalUsage(events, v.sub, v.month)
  <2>1. invoices \in Seq(Invoice) /\ pc \in [Billers -> Pcs]
    BY <1>1 DEF TypeOK
  <2>2. PICK c \in Billers : /\ invoices' = Append(invoices, Bill(c))
                             /\ pc' = [pc EXCEPT ![c] = "refresh"]
    BY <1>1, <2>1, InvoicesGrow
  <2>3. c = b
    BY <1>1, <2>1, <2>2
  <2>4. invoices'[Len(invoices')] = Bill(b)
    BY <2>1, <2>2, <2>3
  <2>5. Bill(b).total = total[b] /\ Bill(b).sub = sub[b] /\ Bill(b).month = period[b]
    BY DEF Bill
  <2>6. since[b] <= total[b] /\ total[b] <= TotalUsage(events, sub[b], period[b])
    BY <1>1 DEF BillInv, ReadInv
  <2> QED BY <2>4, <2>5, <2>6
<1>2. TypeOK /\ BillInv /\ [Next]_vars =>
        [\A b \in Billers :
           Len(invoices') > Len(invoices) /\ pc[b] = "store" /\ pc'[b] = "refresh"
             => LET v == invoices'[Len(invoices')]
                IN  /\ since[b] <= v.total
                    /\ v.total <= TotalUsage(events, v.sub, v.month)]_vars
  BY <1>1
<1> QED BY <1>2, BillInvariant, PTL DEF Spec, BillCountsUsage

-----------------------------------------------------------------------------
(* Duplicates *)

\* The handlers that have looked and found nothing of the period.
Storing(s, m) ==
  {b \in Billers : pc[b] = "store" /\ sub[b] = s /\ period[b] = m}

\* Once a period has an invoice, no handler begins to store one: those that
\* already do are all that can still add one.
StoresLeft(s, m) ==
  \/ InvoicesOf(s, m) = {}
  \/ Cardinality(InvoicesOf(s, m)) + Cardinality(Storing(s, m)) <= Cardinality(Billers)

LEMMA SetsFinite ==
  ASSUME TypeOK, NEW s, NEW m
  PROVE  /\ IsFiniteSet(InvoicesOf(s, m)) /\ IsFiniteSet(Storing(s, m))
         /\ Cardinality(InvoicesOf(s, m)) \in Nat
         /\ Cardinality(Storing(s, m)) \in Nat /\ Cardinality(Billers) \in Nat
         /\ Cardinality(Storing(s, m)) <= Cardinality(Billers)
<1>1. IsFiniteSet(Billers)
  BY BillersAssumption
<1>2. Storing(s, m) \subseteq Billers
  BY DEF Storing
<1>3. InvoicesOf(s, m) \subseteq 1..Len(invoices) /\ Len(invoices) \in Nat
  BY DEF InvoicesOf, TypeOK
<1>4. IsFiniteSet(1..Len(invoices))
  BY <1>3, FS_Interval
<1>5. IsFiniteSet(InvoicesOf(s, m))
  BY <1>3, <1>4, FS_Subset
<1>6. /\ IsFiniteSet(Storing(s, m))
      /\ Cardinality(Storing(s, m)) <= Cardinality(Billers)
  BY <1>1, <1>2, FS_Subset
<1> QED BY <1>1, <1>5, <1>6, FS_CardinalityType

\* A step that adds no invoice of the period.
LEMMA StoresLeftKept ==
  ASSUME TypeOK, NEW s, NEW m, StoresLeft(s, m),
         InvoicesOf(s, m)' = InvoicesOf(s, m),
         InvoicesOf(s, m) # {} => Storing(s, m)' \subseteq Storing(s, m)
  PROVE  StoresLeft(s, m)'
<1> DEFINE S == Storing(s, m)
           T == Storing(s, m)'
           I == InvoicesOf(s, m)
<1>1. CASE I = {}
  BY <1>1 DEF StoresLeft
<1>2. CASE I # {}
  <2>1. T \subseteq S /\ IsFiniteSet(S)
    BY <1>2, SetsFinite
  <2>2. /\ Cardinality(T) \in Nat /\ Cardinality(S) \in Nat
        /\ Cardinality(T) <= Cardinality(S)
    BY <2>1, FS_Subset, FS_CardinalityType
  <2>3. Cardinality(I) + Cardinality(S) <= Cardinality(Billers)
    BY <1>2 DEF StoresLeft
  <2>4. Cardinality(I) \in Nat /\ Cardinality(Billers) \in Nat
    BY SetsFinite
  <2> HIDE DEF S, T, I
  <2>5. Cardinality(I) + Cardinality(T) <= Cardinality(Billers)
    BY <2>2, <2>3, <2>4
  <2> QED BY <2>5 DEF StoresLeft, S, T, I
<1> QED BY <1>1, <1>2

\* One invoice more, one storing handler less.
LEMMA StoresLeftStored ==
  ASSUME TypeOK, NEW b \in Billers, pc[b] = "store", Storable(Bill(b)),
         invoices' = Append(invoices, Bill(b)),
         pc' = [pc EXCEPT ![b] = "refresh"], UNCHANGED <<sub, period>>,
         NEW s, NEW m, s = sub[b], m = period[b], StoresLeft(s, m)
  PROVE  StoresLeft(s, m)'
<1> DEFINE S == Storing(s, m)
           T == Storing(s, m)'
           I == InvoicesOf(s, m)
           J == InvoicesOf(s, m)'
           n == Len(invoices) + 1
<1>1. invoices \in Seq(Invoice) /\ pc \in [Billers -> Pcs]
  BY DEF TypeOK
<1>2. Bill(b).sub = s /\ Bill(b).month = m
  BY DEF Bill
<1>3. /\ DOMAIN invoices' = 1..n /\ DOMAIN invoices = 1..(n-1) /\ n \in Nat
      /\ invoices'[n] = Bill(b) /\ \A i \in 1..(n-1) : invoices'[i] = invoices[i]
  BY <1>1
<1>4. J = I \cup {n} /\ n \notin I
  BY <1>2, <1>3 DEF InvoicesOf
<1>5. T = S \ {b} /\ b \in S
  BY <1>1 DEF Storing
<1>6. /\ IsFiniteSet(I) /\ IsFiniteSet(S) /\ Cardinality(I) \in Nat
      /\ Cardinality(S) \in Nat /\ Cardinality(Billers) \in Nat
      /\ Cardinality(S) <= Cardinality(Billers)
  BY SetsFinite
<1>7. I = {} \/ Cardinality(I) + Cardinality(S) <= Cardinality(Billers)
  BY DEF StoresLeft
<1> HIDE DEF S, T, I, J, n
<1>8. Cardinality(J) = Cardinality(I) + 1
  BY <1>4, <1>6, FS_AddElement
<1>9. Cardinality(T) = Cardinality(S) - 1
  BY <1>5, <1>6, FS_RemoveElement
<1>10. I = {} => Cardinality(I) = 0
  BY FS_EmptySet
<1>11. Cardinality(J) + Cardinality(T) <= Cardinality(Billers)
  BY <1>6, <1>7, <1>8, <1>9, <1>10
<1> QED BY <1>11 DEF StoresLeft, J, T

LEMMA StoresLeftStep ==
  ASSUME TypeOK, [Next]_vars, NEW s, NEW m, StoresLeft(s, m)
  PROVE  StoresLeft(s, m)'
<1>1. ASSUME NEW b \in Billers, Store(b), ~Finish(b) PROVE StoresLeft(s, m)'
  <2>1. /\ pc[b] = "store" /\ Storable(Bill(b))
        /\ pc' = [pc EXCEPT ![b] = "refresh"]
        /\ invoices' = Append(invoices, Bill(b))
        /\ UNCHANGED <<sub, period>>
    BY <1>1 DEF Store, Refuse
  <2>2. CASE s = sub[b] /\ m = period[b]
    BY <2>1, <2>2, StoresLeftStored
  <2>3. CASE ~(s = sub[b] /\ m = period[b])
    <3>1. Storing(s, m)' \subseteq Storing(s, m)
      BY <2>1 DEF Storing, TypeOK
    <3>2. Bill(b).sub = sub[b] /\ Bill(b).month = period[b]
      BY DEF Bill
    <3>3. /\ DOMAIN invoices' = DOMAIN invoices \cup {Len(invoices) + 1}
          /\ invoices'[Len(invoices) + 1] = Bill(b)
          /\ \A i \in DOMAIN invoices : invoices'[i] = invoices[i]
      <4>1. invoices \in Seq(Invoice)
        BY DEF TypeOK
      <4> QED BY <2>1, <4>1
    <3>4. InvoicesOf(s, m)' = InvoicesOf(s, m)
      BY <2>3, <3>2, <3>3 DEF InvoicesOf
    <3> QED BY <3>1, <3>4, StoresLeftKept
  <2> QED BY <2>2, <2>3
<1>2. ASSUME NEW b \in Billers, LookUp(b), ~Finish(b) PROVE StoresLeft(s, m)'
  <2>1. /\ InvoicesOf(sub[b], period[b]) = {}
        /\ pc' = [pc EXCEPT ![b] = "store"]
        /\ UNCHANGED <<invoices, sub, period>>
    BY <1>2 DEF LookUp, AnswerOrStore, Answer
  <2>2. InvoicesOf(s, m)' = InvoicesOf(s, m)
    BY <2>1 DEF InvoicesOf
  <2>3. InvoicesOf(s, m) # {} => Storing(s, m)' \subseteq Storing(s, m)
    BY <2>1 DEF Storing, TypeOK
  <2> QED BY <2>2, <2>3, StoresLeftKept
<1>3. ASSUME NEW b \in Billers, UNCHANGED invoices, pc'[b] # "store",
             \A c \in Billers \ {b} : Untouched(c)
      PROVE  StoresLeft(s, m)'
  <2>1. InvoicesOf(s, m)' = InvoicesOf(s, m)
    BY <1>3 DEF InvoicesOf
  <2>2. Storing(s, m)' \subseteq Storing(s, m)
    BY <1>3 DEF Storing, Untouched
  <2> QED BY <2>1, <2>2, StoresLeftKept
<1>4. ASSUME NEW b \in Billers, Finish(b) PROVE StoresLeft(s, m)'
  <2>1. /\ UNCHANGED invoices /\ pc'[b] # "store"
        /\ \A c \in Billers \ {b} : Untouched(c)
    BY <1>4 DEF Finish, TypeOK, Untouched
  <2> QED BY <1>3, <2>1
<1>5. ASSUME NEW b \in Billers,
             (\E z \in Subs : Request(b, z)) \/ Load(b) \/ ReadClock(b) \/ SumUsage(b)
      PROVE  StoresLeft(s, m)'
  <2>1. UNCHANGED invoices /\ pc'[b] # "store"
    BY <1>5 DEF Request, Load, ReadClock, SumUsage, TypeOK
  <2>2. \A c \in Billers \ {b} : Untouched(c)
    BY <1>5, OthersUntouched
  <2> QED BY <1>3, <2>1, <2>2
<1>6. CASE UNCHANGED <<invoices, billerVars>>
  BY <1>6, StoresLeftKept DEF InvoicesOf, Storing, billerVars
<1>7. ASSUME NEW b \in Billers, Refresh(b) \/ Fail(b) PROVE StoresLeft(s, m)'
  BY <1>4, <1>7 DEF Refresh, Fail, Answer, Refuse
<1>8. CASE UNCHANGED vars \/ NextMonth
           \/ \E z \in Subs, p \in Plans : ChangePlan(z, p)
           \/ \E y \in Subs, t \in Types, q \in Quantities, n \in Months :
                RecordUsage(y, t, q, n)
  BY <1>6, <1>8 DEF vars, billerVars, NextMonth, ChangePlan, RecordUsage
<1> QED BY <1>1, <1>2, <1>4, <1>5, <1>7, <1>8 DEF Next

StoresInv == \A s \in Subs, m \in Months : StoresLeft(s, m)

\* Concurrent requests may each store an invoice of a period, but there are
\* never more invoices than handlers: each duplicate is of a handler that looked
\* before the first was stored, and none looks in vain after it
\* (billing_service.py:48-67).
THEOREM DuplicatesAreBounded == Spec => []DuplicatesBounded
<1>1. Init => StoresInv
  BY DEF Init, StoresInv, StoresLeft, InvoicesOf
<1>2. TypeOK /\ StoresInv /\ [Next]_vars => StoresInv'
  BY StoresLeftStep DEF StoresInv
<1>3. ASSUME TypeOK, StoresInv, NEW s \in Subs, NEW m \in Months
      PROVE  Cardinality(InvoicesOf(s, m)) <= Cardinality(Billers)
  <2>1. /\ Cardinality(InvoicesOf(s, m)) \in Nat
        /\ Cardinality(Storing(s, m)) \in Nat /\ Cardinality(Billers) \in Nat
    BY <1>3, SetsFinite
  <2>2. \/ Cardinality(InvoicesOf(s, m)) = 0
        \/ Cardinality(InvoicesOf(s, m)) + Cardinality(Storing(s, m))
              <= Cardinality(Billers)
    BY <1>3, FS_EmptySet DEF StoresInv, StoresLeft
  <2> QED BY <2>1, <2>2
<1>4. TypeOK /\ StoresInv => DuplicatesBounded
  BY <1>3 DEF DuplicatesBounded
<1> QED BY <1>1, <1>2, <1>4, TypeInit, TypeStep, PTL DEF Spec

\* One handler at a time keeps README.md:84's promise.
THEOREM OneInvoiceAlone ==
  ASSUME Cardinality(Billers) = 1
  PROVE  Spec => []OneInvoicePerPeriod
<1>1. DuplicatesBounded => OneInvoicePerPeriod
  BY DEF DuplicatesBounded, OneInvoicePerPeriod
<1> QED BY <1>1, DuplicatesAreBounded, PTL

-----------------------------------------------------------------------------
(* The register of invoices *)

\* A stored bill is one invoice more, of a period that had fewer than there
\* are handlers.
LEMMA StoreIssues ==
  ASSUME TypeOK, DuplicatesBounded', NEW b \in Billers, Store(b), ~Refuse(b)
  PROVE  Register!Issue
<1>1. /\ pc[b] = "store" /\ invoices' = Append(invoices, Bill(b))
      /\ UNCHANGED given
  BY DEF Store
<1>2. /\ invoices \in Seq(Invoice) /\ sub[b] \in Subs /\ period[b] \in Months
      /\ Bill(b).sub = sub[b] /\ Bill(b).month = period[b]
  BY <1>1 DEF TypeOK, Bill
<1> DEFINE n == Len(invoices) + 1
           I == InvoicesOf(sub[b], period[b])
           J == {i \in DOMAIN invoices' :
                   invoices'[i].sub = sub[b] /\ invoices'[i].month = period[b]}
<1>3. /\ n \in Nat /\ Len(invoices') = n /\ Len(invoices) < n
      /\ DOMAIN invoices' = DOMAIN invoices \cup {n} /\ n \notin DOMAIN invoices
      /\ invoices'[n] = Bill(b)
      /\ \A i \in DOMAIN invoices : invoices'[i] = invoices[i]
  BY <1>1, <1>2
<1>4. J = I \cup {n} /\ n \notin I
  BY <1>2, <1>3 DEF InvoicesOf
<1>5. Cardinality(J) <= Cardinality(Billers)
  BY <1>2 DEF DuplicatesBounded, InvoicesOf
<1>6. /\ IsFiniteSet(I) /\ Cardinality(I) \in Nat
      /\ Cardinality(Billers) \in Nat
  BY SetsFinite
<1>7. Register!IssuedFor(sub[b], period[b]) = I
  BY DEF Register!IssuedFor, InvoicesOf
<1> HIDE DEF n, I, J
<1>8. Cardinality(J) = Cardinality(I) + 1
  BY <1>4, <1>6, FS_AddElement
<1>9. Cardinality(I) < Cardinality(Billers)
  BY <1>5, <1>6, <1>8
<1>10. /\ Len(invoices') > Len(invoices)
       /\ invoices' = Append(invoices, invoices'[Len(invoices')])
       /\ invoices'[Len(invoices')].sub = sub[b]
       /\ invoices'[Len(invoices')].month = period[b]
  BY <1>1, <1>2, <1>3
<1> DEFINE bill == invoices'[Len(invoices')]
<1>11. Cardinality(Register!IssuedFor(bill.sub, bill.month)) < Cardinality(Billers)
  BY <1>7, <1>9, <1>10, Zenon
<1>12. bill.sub \in Subs /\ bill.month \in Months
  BY <1>2, <1>10
<1>13. ASSUME NEW S PROVE Register!Cardinality(S) = Cardinality(S)
  BY DEF Register!Cardinality, Cardinality
<1> QED BY <1>1, <1>10, <1>11, <1>12, <1>13 DEF Register!Issue

\* An answer is an invoice of the period it is for.
LEMMA AnswerIsIssued ==
  ASSUME TypeOK, BillInv, NEW b \in Billers, LookUp(b) \/ Refresh(b)
  PROVE  (\E s \in Subs, m \in Months : Register!Answer(s, m))
         \/ UNCHANGED <<invoices, given>>
<1>1. CASE UNCHANGED <<invoices, given>>
  BY <1>1
<1>2. CASE ~UNCHANGED <<invoices, given>>
  <2>1. PICK i : /\ Answer(b, i)
                 /\ \/ pc[b] = "look" /\ i \in InvoicesOf(sub[b], period[b])
                    \/ pc[b] = "refresh" /\ i = stored[b]
    BY <1>2 DEF LookUp, AnswerOrStore, Refresh
  <2>2. i \in InvoicesOf(sub[b], period[b])
    BY <2>1 DEF BillInv, ReadInv
  <2>3. sub[b] \in Subs /\ period[b] \in Months
    BY <2>1 DEF TypeOK
  <2>4. /\ given' = [given EXCEPT ![sub[b]][period[b]] = @ \cup {i}]
        /\ UNCHANGED invoices
    BY <2>1 DEF Answer, Finish
  <2>5. Register!Answer(sub[b], period[b])
    BY <2>2, <2>4 DEF Register!Answer, Register!IssuedFor, InvoicesOf
  <2> QED BY <2>3, <2>5
<1> QED BY <1>1, <1>2

LEMMA RegisterStep ==
  ASSUME TypeOK, BillInv, DuplicatesBounded', [Next]_vars
  PROVE  [Register!Next]_(Register!registerVars)
<1> USE DEF Register!Next, Register!registerVars
<1>1. CASE UNCHANGED <<invoices, given>>
  BY <1>1
<1>2. ASSUME NEW b \in Billers, Store(b)
      PROVE  [Register!Next]_(Register!registerVars)
  BY <1>1, <1>2, StoreIssues DEF Refuse, Finish
<1>3. ASSUME NEW b \in Billers, LookUp(b) \/ Refresh(b)
      PROVE  [Register!Next]_(Register!registerVars)
  BY <1>1, <1>3, AnswerIsIssued
<1>4. ASSUME NEW b \in Billers,
             (\E s \in Subs : Request(b, s)) \/ Load(b) \/ ReadClock(b) \/ SumUsage(b) \/ Fail(b)
      PROVE  UNCHANGED <<invoices, given>>
  BY <1>4 DEF Request, Load, ReadClock, SumUsage, Fail, Refuse, Finish
<1>5. CASE \/ UNCHANGED vars
           \/ NextMonth
           \/ \E s \in Subs, p \in Plans : ChangePlan(s, p)
           \/ \E s \in Subs, t \in Types, q \in Quantities, m \in Months :
                RecordUsage(s, t, q, m)
  BY <1>1, <1>5 DEF vars, NextMonth, ChangePlan, RecordUsage
<1> QED BY <1>1, <1>2, <1>3, <1>4, <1>5 DEF Next

\* Billing implements the register of invoices: however requests of any number
\* of handlers race, repeat and fail, no stored invoice is changed or withdrawn
\* and every answer is an invoice of its period (billing_service.py:48-67,
\* invoice_repository.py:11-16).
THEOREM ImplementsRegister == Spec => RegisterSpec
<1>1. Init => Register!Init
  BY DEF Init, Register!Init
<1>2. TypeOK /\ BillInv /\ DuplicatesBounded' /\ [Next]_vars
        => [Register!Next]_(Register!registerVars)
  BY RegisterStep
<1> QED BY <1>1, <1>2, BillInvariant, DuplicatesAreBounded, PTL
        DEF Spec, RegisterSpec, Register!Spec
=============================================================================
