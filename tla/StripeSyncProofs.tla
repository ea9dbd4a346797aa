-------------------------- MODULE StripeSyncProofs --------------------------
(***************************************************************************)
(* What holds of StripeSync for every number of workers, tenants, plans,   *)
(* events and crashes: its type invariant, and that an event is applied    *)
(* once and answered only when it is applied.                              *)
(***************************************************************************)
EXTENDS StripeSync, SequenceTheorems, TLAPS

-----------------------------------------------------------------------------
(* Types *)

USE ConstantsAssumption

\* A checkout was of a plan and by a customer, and so is a subscription.
CheckoutsOfPlans ==
  /\ \A e \in DOMAIN sent : sent[e].kind = "checkout" => sent[e].plan \in Plans
  /\ \A x \in StripeSubs :
       /\ stripe[x].status = "open" => stripe[x].plan \in Plans
       /\ stripe[x].status \notin {"none", "open"} => stripe[x].customer # NotLinked

TypeInv == TypeOK /\ Len(sent) <= MaxEvents /\ CheckoutsOfPlans

LEMMA FromStripeType ==
  ASSUME NEW st
  PROVE  FromStripe(st) \in {"active", "cancelled", "past_due", "trialing"}
BY DEF FromStripe

\* One element more, the others as they were.
LEMMA AppendKeeps ==
  ASSUME NEW S, NEW seq \in Seq(S), NEW e
  PROVE  /\ DOMAIN seq = 1..Len(seq) /\ Len(seq) \in Nat
         /\ DOMAIN Append(seq, e) = DOMAIN seq \cup {Len(seq) + 1}
         /\ Len(seq) + 1 \notin DOMAIN seq
         /\ \A i \in DOMAIN seq : Append(seq, e)[i] = seq[i]
         /\ Append(seq, e)[Len(seq) + 1] = e
         /\ e \in S => Append(seq, e) \in Seq(S)
OBVIOUS

\* A flush leaves a table of rows, with as many rows as before.
LEMMA FlushedType ==
  ASSUME TypeInv, NEW w \in Workers
  PROVE  Flushed(w) \in Seq(Row) /\ DOMAIN Flushed(w) = DOMAIN rows
<1>1. /\ DOMAIN rows = 1..Len(rows) /\ Len(rows) \in Nat
      /\ \A r \in DOMAIN rows : rows[r] \in Row
  BY DEF TypeInv, TypeOK
<1>2. \A r \in DOMAIN seen[w] : seen[w][r] \in Row /\ obj[w][r] \in Row
  BY DEF TypeInv, TypeOK, SessionOK
<1>3. ASSUME NEW a \in Row, NEW b \in Row, NEW c \in Row
      PROVE  [f \in Fields |-> IF a[f] # b[f] THEN a[f] ELSE c[f]] \in Row
  BY DEF Fields, Row
<1>4. ASSUME NEW r \in DOMAIN rows PROVE Flushed(w)[r] \in Row
  <2>1. CASE r \notin DOMAIN seen[w]
    BY <1>1, <2>1 DEF Flushed
  <2>2. CASE r \in DOMAIN seen[w]
    <3>1. [f \in Fields |-> IF obj[w][r][f] # seen[w][r][f]
                          THEN obj[w][r][f] ELSE rows[r][f]] \in Row
      BY <1>1, <1>2, <1>3, <2>2
    <3> QED BY <2>2, <3>1 DEF Flushed
  <2> QED BY <2>1, <2>2
<1>5. Flushed(w) \in [1..Len(rows) -> Row] /\ DOMAIN Flushed(w) = DOMAIN rows
  BY <1>1, <1>4 DEF Flushed
<1> QED BY <1>1, <1>5

LEMMA TypeInit == Init => TypeInv
BY DEF Init, TypeInv, TypeOK, StripeSub, SessionOK, CheckoutsOfPlans

\* A step of one worker leaves the sessions of the others as they are: no row
\* and no event goes away.
LEMMA OthersKept ==
  ASSUME TypeInv, NEW w \in Workers, SessionOK(w)',
         DOMAIN rows \subseteq DOMAIN rows', DOMAIN sent \subseteq DOMAIN sent',
         \A v \in Workers \ {w} :
           /\ seen'[v] = seen[v] /\ obj'[v] = obj[v] /\ todo'[v] = todo[v]
           /\ pc'[v] = pc[v] /\ event'[v] = event[v]
  PROVE  \A v \in Workers : SessionOK(v)'
<1>1. ASSUME NEW v \in Workers, v # w PROVE SessionOK(v)'
  BY <1>1 DEF TypeInv, TypeOK, SessionOK
<1> QED BY <1>1

\* A session that ends leaves no objects.
LEMMA CloseType ==
  ASSUME TypeInv, NEW w \in Workers, Close(w), UNCHANGED sent,
         DOMAIN rows \subseteq DOMAIN rows'
  PROVE  /\ pc' \in [Workers -> {"idle", "read", "save", "fetch"}]
         /\ event' \in [Workers -> 0..MaxEvents]
         /\ fresh' \in [Workers -> SUBSET Row]
         /\ DOMAIN seen' = Workers /\ DOMAIN obj' = Workers
         /\ DOMAIN todo' = Workers
         /\ \A v \in Workers : SessionOK(v)'
<1>1. /\ pc' \in [Workers -> {"idle", "read", "save", "fetch"}]
      /\ event' \in [Workers -> 0..MaxEvents]
      /\ fresh' \in [Workers -> SUBSET Row]
      /\ DOMAIN seen' = Workers /\ DOMAIN obj' = Workers
      /\ DOMAIN todo' = Workers
  BY DEF TypeInv, TypeOK, Close
<1>2. /\ seen'[w] = <<>> /\ obj'[w] = <<>> /\ todo'[w] = {}
      /\ pc'[w] = "idle" /\ DOMAIN <<>> = {}
  BY DEF TypeInv, TypeOK, Close
<1>3. ASSUME NEW v \in Workers \ {w}
      PROVE  /\ seen'[v] = seen[v] /\ obj'[v] = obj[v] /\ todo'[v] = todo[v]
             /\ pc'[v] = pc[v] /\ event'[v] = event[v]
  BY <1>3 DEF TypeInv, TypeOK, Close
<1>4. SessionOK(w)'
  BY <1>2 DEF SessionOK
<1> QED BY <1>1, <1>3, <1>4, OthersKept

LEMMA RollbackType ==
  ASSUME TypeInv, NEW w \in Workers, Rollback(w), crashes' \in 0..MaxCrashes
  PROVE  TypeInv'
<1>1. /\ Close(w)
      /\ UNCHANGED <<rows, marked, stripe, sent, log, acked>>
  BY DEF Rollback
<1> QED BY <1>1, CloseType DEF TypeInv, TypeOK, CheckoutsOfPlans

LEMMA DeliverType ==
  ASSUME TypeInv, NEW w \in Workers, NEW e \in DOMAIN sent, Deliver(w, e)
  PROVE  TypeInv'
<1>1. e \in 1..MaxEvents
  BY DEF TypeInv, TypeOK
<1>2. /\ pc' \in [Workers -> {"idle", "read", "save", "fetch"}]
      /\ event' \in [Workers -> 0..MaxEvents]
      /\ acked' \subseteq 1..MaxEvents
  <2>1. CASE e \in marked
    BY <1>1, <2>1 DEF Deliver, TypeInv, TypeOK
  <2>2. CASE e \notin marked
    <3>1. /\ pc' = [pc EXCEPT ![w] = "read"]
          /\ event' = [event EXCEPT ![w] = e]
          /\ UNCHANGED acked
      BY <2>2 DEF Deliver
    <3> QED BY <1>1, <3>1 DEF TypeInv, TypeOK
  <2> QED BY <2>1, <2>2
<1>3. UNCHANGED <<rows, marked, stripe, sent, seen, obj, fresh, todo, log, crashes>>
  BY DEF Deliver
<1>4. pc'[w] \in {"read", "save"} => event'[w] \in DOMAIN sent
  BY DEF Deliver, TypeInv, TypeOK
<1>5. SessionOK(w)'
  <2>1. todo[w] = {} /\ SessionOK(w)
    BY DEF Deliver, TypeInv, TypeOK, SessionOK
  <2> QED BY <1>3, <1>4, <2>1 DEF SessionOK
<1>6. ASSUME NEW v \in Workers \ {w}
      PROVE  pc'[v] = pc[v] /\ event'[v] = event[v]
  BY <1>6 DEF Deliver, TypeInv, TypeOK
<1>7. \A v \in Workers : SessionOK(v)'
  BY <1>3, <1>5, <1>6, OthersKept
<1> QED BY <1>2, <1>3, <1>7 DEF TypeInv, TypeOK, CheckoutsOfPlans

\* A handler loads at most one row and makes a row of it, or a new one.
LoadsRow(w) ==
  \/ ChangeNothing
  \/ \E r \in DOMAIN rows, new \in Row : Change(w, r, new)
  \/ \E new \in Row : /\ fresh' = [fresh EXCEPT ![w] = {new}]
                      /\ UNCHANGED <<seen, obj>>

LEMMA HandlerLoads ==
  ASSUME TypeInv, NEW w \in Workers, ProcessEvent(w)
  PROVE  LoadsRow(w)
<1> DEFINE v == sent[event[w]]
<1>1. event[w] \in DOMAIN sent
  BY DEF TypeInv, TypeOK, SessionOK, ProcessEvent
<1>2. /\ v \in Event
      /\ v.kind = "checkout" => v.plan \in Plans
  BY <1>1 DEF TypeInv, TypeOK, CheckoutsOfPlans
<1>3. \A r \in DOMAIN rows : rows[r] \in Row
  BY DEF TypeInv, TypeOK
<1>4. /\ LinkedTo(v.sub) \subseteq DOMAIN rows
      /\ RowsOf(v.tenant) \subseteq DOMAIN rows
  BY DEF LinkedTo, RowsOf
<1>5. \/ v.kind = "checkout" /\ SyncFromCheckout(w, v)
      \/ SyncSubscriptionStatus(w, v)
      \/ CancelSubscription(w, v)
      \/ ChangeNothing
  BY DEF ProcessEvent
<1> HIDE DEF v
<1>6. CASE v.kind = "checkout" /\ SyncFromCheckout(w, v)
  <2>1. ASSUME NEW r \in RowsOf(v.tenant)
        PROVE  [rows[r] EXCEPT !.plan = v.plan, !.status = "active",
                               !.link = v.sub, !.customer = v.customer] \in Row
    BY <1>2, <1>3, <1>4, <1>6 DEF Event, Row, RowStatuses
  <2>2. NewRow(v) \in Row
    BY <1>2, <1>6 DEF Event, Row, RowStatuses, NewRow
  <2> QED BY <1>4, <1>6, <2>1, <2>2 DEF SyncFromCheckout, LoadsRow
<1>7. CASE SyncSubscriptionStatus(w, v)
  <2>1. ASSUME NEW r \in LinkedTo(v.sub), NEW p \in PlansAfter(v, rows[r].plan)
        PROVE  [rows[r] EXCEPT !.status = FromStripe(v.status), !.plan = p] \in Row
    <3>1. rows[r] \in Row
      BY <1>3, <1>4
    <3>2. p \in Plans
      BY <3>1 DEF PlansAfter, AtPriceOf, Row
    <3> QED BY <3>1, <3>2, FromStripeType DEF Row, RowStatuses
  <2> QED BY <1>4, <1>7, <2>1 DEF SyncSubscriptionStatus, LoadsRow
<1>8. CASE CancelSubscription(w, v)
  <2>1. ASSUME NEW r \in LinkedTo(v.sub)
        PROVE  [rows[r] EXCEPT !.status = "cancelled"] \in Row
    BY <1>3, <1>4 DEF Row, RowStatuses
  <2> QED BY <1>4, <1>8, <2>1 DEF CancelSubscription, LoadsRow
<1> QED BY <1>5, <1>6, <1>7, <1>8 DEF LoadsRow

LEMMA ProcessType ==
  ASSUME TypeInv, NEW w \in Workers, ProcessEvent(w)
  PROVE  TypeInv'
<1>1. /\ pc[w] = "read" /\ pc' = [pc EXCEPT ![w] = "save"]
      /\ UNCHANGED <<rows, marked, stripe, sent, event, todo, log, acked, crashes>>
  BY DEF ProcessEvent
<1>2. LoadsRow(w)
  BY HandlerLoads
<1>3. \A r \in DOMAIN rows : rows[r] \in Row
  BY DEF TypeInv, TypeOK
<1>4. pc' \in [Workers -> {"idle", "read", "save", "fetch"}]
  BY <1>1 DEF TypeInv, TypeOK
<1>5. /\ DOMAIN seen' = Workers /\ DOMAIN obj' = Workers
      /\ fresh' \in [Workers -> SUBSET Row]
  <2>1. CASE UNCHANGED <<seen, obj, fresh>>
    BY <2>1 DEF TypeInv, TypeOK
  <2>2. CASE \E r \in DOMAIN rows, new \in Row : Change(w, r, new)
    BY <2>2 DEF Change, TypeInv, TypeOK
  <2>3. CASE \E new \in Row : /\ fresh' = [fresh EXCEPT ![w] = {new}]
                              /\ UNCHANGED <<seen, obj>>
    BY <2>3 DEF TypeInv, TypeOK
  <2> QED BY <1>2, <2>1, <2>2, <2>3 DEF LoadsRow, ChangeNothing
<1>6. /\ DOMAIN seen'[w] \subseteq DOMAIN rows
      /\ DOMAIN obj'[w] = DOMAIN seen'[w]
      /\ \A r \in DOMAIN seen'[w] : seen'[w][r] \in Row /\ obj'[w][r] \in Row
  <2>1. CASE UNCHANGED <<seen, obj>>
    BY <2>1 DEF TypeInv, TypeOK, SessionOK
  <2>2. CASE \E r \in DOMAIN rows, new \in Row : Change(w, r, new)
    BY <1>3, <2>2 DEF Change, TypeInv, TypeOK
  <2> QED BY <1>2, <2>1, <2>2 DEF LoadsRow, ChangeNothing
<1>7. pc'[w] = "save" /\ event[w] \in DOMAIN sent /\ todo[w] = {}
  BY <1>1 DEF TypeInv, TypeOK, SessionOK
<1>8. SessionOK(w)'
  BY <1>1, <1>6, <1>7 DEF SessionOK
<1>9. ASSUME NEW v \in Workers \ {w}
      PROVE  seen'[v] = seen[v] /\ obj'[v] = obj[v] /\ pc'[v] = pc[v]
  BY <1>1, <1>2, <1>9 DEF LoadsRow, Change, ChangeNothing, TypeInv, TypeOK
<1>10. \A v \in Workers : SessionOK(v)'
  BY <1>1, <1>8, <1>9, OthersKept
<1> QED BY <1>1, <1>4, <1>5, <1>10 DEF TypeInv, TypeOK, CheckoutsOfPlans

LEMMA SaveEventType ==
  ASSUME TypeInv, NEW w \in Workers, SaveEvent(w)
  PROVE  TypeInv'
<1>1. crashes' \in 0..MaxCrashes
  BY DEF SaveEvent, TypeInv, TypeOK
<1>2. CASE Rollback(w)
  BY <1>1, <1>2, RollbackType
<1>3. CASE ~Rollback(w)
  <2>1. /\ marked' = marked \cup {event[w]}
        /\ \/ fresh[w] = {} /\ rows' = Flushed(w)
           \/ \E new \in fresh[w] : rows' = Append(Flushed(w), new)
        /\ log' = Append(log, event[w])
        /\ acked' = acked \cup {event[w]}
        /\ Close(w)
        /\ UNCHANGED <<stripe, sent>>
    BY <1>3 DEF SaveEvent
  <2>2. event[w] \in 1..MaxEvents
    <3>1. event[w] \in DOMAIN sent
      BY DEF SaveEvent, TypeInv, TypeOK, SessionOK
    <3> QED BY <3>1 DEF TypeInv, TypeOK
  <2>3. marked' \subseteq 1..MaxEvents /\ acked' \subseteq 1..MaxEvents
    BY <2>1, <2>2 DEF TypeInv, TypeOK
  <2>5. log' \in Seq(1..MaxEvents)
    <3>1. log \in Seq(1..MaxEvents)
      BY DEF TypeInv, TypeOK
    <3> QED BY <2>1, <2>2, <3>1
  <2>4. rows' \in Seq(Row) /\ DOMAIN rows \subseteq DOMAIN rows'
    <3>1. fresh[w] \subseteq Row
      BY DEF TypeInv, TypeOK
    <3>2. Flushed(w) \in Seq(Row) /\ DOMAIN Flushed(w) = DOMAIN rows
      BY FlushedType
    <3> HIDE DEF Row
    <3> QED BY <2>1, <3>1, <3>2, AppendKeeps
  <2> QED BY <1>1, <2>1, <2>3, <2>4, <2>5, CloseType
          DEF TypeInv, TypeOK, CheckoutsOfPlans
<1> QED BY <1>2, <1>3

LEMMA StartReconcileType ==
  ASSUME TypeInv, NEW w \in Workers, StartReconcile(w)
  PROVE  TypeInv'
<1> DEFINE linked == {r \in DOMAIN rows : rows[r].link # NotLinked}
<1>1. /\ pc' = [pc EXCEPT ![w] = "fetch"]
      /\ todo' = [todo EXCEPT ![w] = linked]
      /\ seen' = [seen EXCEPT ![w] = [r \in linked |-> rows[r]]]
      /\ obj' = [obj EXCEPT ![w] = [r \in linked |-> rows[r]]]
      /\ UNCHANGED <<rows, marked, stripe, sent, event, fresh, log, acked, crashes>>
  BY DEF StartReconcile
<1>2. linked \subseteq DOMAIN rows /\ \A r \in DOMAIN rows : rows[r] \in Row
  BY DEF TypeInv, TypeOK
<1> HIDE DEF linked
<1>3. /\ pc' \in [Workers -> {"idle", "read", "save", "fetch"}]
      /\ DOMAIN seen' = Workers /\ DOMAIN obj' = Workers
      /\ DOMAIN todo' = Workers
  BY <1>1 DEF TypeInv, TypeOK
<1>4. SessionOK(w)'
  <2>1. /\ pc'[w] = "fetch" /\ todo'[w] = linked
        /\ seen'[w] = [r \in linked |-> rows[r]] /\ obj'[w] = seen'[w]
    BY <1>1 DEF TypeInv, TypeOK
  <2> QED BY <1>1, <1>2, <2>1 DEF SessionOK
<1>5. ASSUME NEW v \in Workers \ {w}
      PROVE  /\ seen'[v] = seen[v] /\ obj'[v] = obj[v] /\ todo'[v] = todo[v]
             /\ pc'[v] = pc[v]
  BY <1>1, <1>5 DEF TypeInv, TypeOK
<1>6. \A v \in Workers : SessionOK(v)'
  BY <1>1, <1>4, <1>5, OthersKept
<1> QED BY <1>1, <1>3, <1>6 DEF TypeInv, TypeOK, CheckoutsOfPlans

LEMMA LookedAtType ==
  ASSUME TypeInv, NEW w \in Workers, NEW r \in DOMAIN rows,
         Retrieve(w, r) \/ GiveUp(w, r)
  PROVE  TypeInv'
<1>1. /\ pc[w] = "fetch" /\ r \in todo[w]
      /\ todo' = [todo EXCEPT ![w] = @ \ {r}]
      /\ UNCHANGED <<rows, marked, stripe, sent, pc, event, seen, fresh, log, acked, crashes>>
      /\ \/ obj' = obj
         \/ \E x : obj' = [obj EXCEPT ![w][r].status = FromStripe(x)]
  BY DEF Retrieve, GiveUp
<1>2. SessionOK(w)
  BY DEF TypeInv, TypeOK
<1>3. /\ DOMAIN obj' = Workers /\ DOMAIN obj'[w] = DOMAIN obj[w]
      /\ \A q \in DOMAIN seen[w] : obj'[w][q] \in Row
      /\ \A v \in Workers \ {w} : obj'[v] = obj[v]
  <2>1. CASE obj' = obj
    BY <1>2, <2>1 DEF TypeInv, TypeOK, SessionOK
  <2>2. CASE obj' # obj
    <3>1. PICK x : obj' = [obj EXCEPT ![w][r].status = FromStripe(x)]
      BY <1>1, <2>2
    <3>2. /\ DOMAIN obj' = Workers /\ \A v \in Workers \ {w} : obj'[v] = obj[v]
          /\ obj'[w] = [obj[w] EXCEPT ![r].status = FromStripe(x)]
      BY <3>1 DEF TypeInv, TypeOK
    <3>3. r \in DOMAIN obj[w] /\ \A q \in DOMAIN obj[w] : obj[w][q] \in Row
      BY <1>1, <1>2 DEF SessionOK
    <3>4. [obj[w][r] EXCEPT !.status = FromStripe(x)] \in Row
      BY <3>3, FromStripeType DEF Row, RowStatuses
    <3>5. /\ DOMAIN obj'[w] = DOMAIN obj[w]
          /\ \A q \in DOMAIN obj[w] : obj'[w][q] \in Row
      BY <3>2, <3>3, <3>4
    <3> QED BY <1>2, <3>2, <3>5 DEF SessionOK
  <2> QED BY <2>1, <2>2
<1>4. /\ DOMAIN todo' = Workers /\ todo'[w] \subseteq todo[w]
      /\ \A v \in Workers \ {w} : todo'[v] = todo[v]
  BY <1>1 DEF TypeInv, TypeOK
<1>5. SessionOK(w)'
  BY <1>1, <1>2, <1>3, <1>4 DEF SessionOK
<1>6. \A v \in Workers : SessionOK(v)'
  BY <1>1, <1>3, <1>4, <1>5, OthersKept
<1> QED BY <1>1, <1>3, <1>4, <1>6 DEF TypeInv, TypeOK, CheckoutsOfPlans

LEMMA SaveReconcileType ==
  ASSUME TypeInv, NEW w \in Workers, SaveReconcile(w)
  PROVE  TypeInv'
<1>1. /\ rows' = Flushed(w) /\ Close(w)
      /\ UNCHANGED <<marked, stripe, sent, log, acked, crashes>>
  BY DEF SaveReconcile
<1>2. rows' \in Seq(Row) /\ DOMAIN rows \subseteq DOMAIN rows'
  BY <1>1, FlushedType
<1> QED BY <1>1, <1>2, CloseType DEF TypeInv, TypeOK, CheckoutsOfPlans

LEMMA CreateType ==
  ASSUME TypeInv, NEW n \in Tenants, NEW p \in Plans, CreateSubscription(n, p)
  PROVE  TypeInv'
<1> DEFINE new == [tenant |-> n, plan |-> p, status |-> "active",
                  link |-> NotLinked, customer |-> NotLinked]
<1>1. /\ rows' = Append(rows, new)
      /\ UNCHANGED <<marked, stripe, sent, workerVars, log, acked, crashes>>
  BY DEF CreateSubscription
<1>2. new \in Row
  BY DEF Row, RowStatuses
<1>3. rows' \in Seq(Row) /\ DOMAIN rows \subseteq DOMAIN rows'
  BY <1>1, <1>2 DEF TypeInv, TypeOK
<1>4. \A w \in Workers : SessionOK(w)'
  BY <1>1, <1>3 DEF TypeInv, TypeOK, SessionOK, workerVars
<1> QED BY <1>1, <1>3, <1>4 DEF TypeInv, TypeOK, CheckoutsOfPlans, workerVars

\* A step of Stripe sends an event of a subscription as it is then.
LEMMA SendType ==
  ASSUME TypeInv, NEW kind \in Kinds, NEW x \in StripeSubs, Send(kind, x),
         stripe' \in [StripeSubs -> StripeSub],
         \A y \in StripeSubs \ {x} : stripe'[y] = stripe[y],
         stripe'[x].status \in StripeStatuses, stripe'[x].customer # NotLinked,
         kind = "checkout" => stripe'[x].plan \in Plans
  PROVE  TypeInv'
<1> DEFINE e == [kind |-> kind, sub |-> x, tenant |-> stripe'[x].tenant,
                 plan |-> stripe'[x].plan, status |-> stripe'[x].status,
                 customer |-> stripe'[x].customer]
<1>1. /\ Len(sent) < MaxEvents
      /\ sent' = Append(sent, e)
      /\ UNCHANGED <<rows, marked, workerVars, log, acked, crashes>>
  BY DEF Send
<1>2. e \in Event /\ (e.kind = "checkout" => e.plan \in Plans)
  BY DEF Event, StripeSub
<1> HIDE DEF e
<1>3. sent \in Seq(Event) /\ Len(sent) \in Nat
  BY DEF TypeInv, TypeOK
<1>4. /\ sent' \in Seq(Event) /\ Len(sent') <= MaxEvents
      /\ DOMAIN sent \subseteq DOMAIN sent'
  BY <1>1, <1>2, <1>3
<1>5. CheckoutsOfPlans'
  <2>1. \A i \in DOMAIN sent' : sent'[i].kind = "checkout" => sent'[i].plan \in Plans
    BY <1>1, <1>2, <1>3 DEF CheckoutsOfPlans, TypeInv
  <2>2. stripe'[x].status \notin {"none", "open"}
    BY DEF StripeStatuses
  <2> QED BY <2>1, <2>2 DEF CheckoutsOfPlans, TypeInv
<1>6. \A w \in Workers : SessionOK(w)'
  BY <1>1, <1>4 DEF TypeInv, TypeOK, SessionOK, workerVars
<1> QED BY <1>1, <1>4, <1>5, <1>6 DEF TypeInv, TypeOK, workerVars

\* A step that changes x at Stripe and sends an event of it.
LEMMA SentType ==
  ASSUME TypeInv, NEW x \in StripeSubs, NEW kind \in Kinds, Send(kind, x),
         NEW new \in StripeSub, stripe' = [stripe EXCEPT ![x] = new],
         new.status \in StripeStatuses, new.customer # NotLinked,
         kind = "checkout" => new.plan \in Plans
  PROVE  TypeInv'
<1>1. stripe \in [StripeSubs -> StripeSub]
  BY DEF TypeInv, TypeOK
<1>2. /\ stripe' \in [StripeSubs -> StripeSub] /\ stripe'[x] = new
      /\ \A y \in StripeSubs \ {x} : stripe'[y] = stripe[y]
  BY <1>1
<1> QED BY <1>2, SendType

LEMMA StripeType ==
  ASSUME TypeInv, NEW x \in StripeSubs,
         \/ \E p \in Plans : CreateCheckoutSession(x, p)
         \/ \E st \in Statuses : Subscribe(x, st)
         \/ \E p \in Plans \cup {OtherPrice}, st \in Statuses : Update(x, p, st)
         \/ Cancel(x) \/ Notify(x)
  PROVE  TypeInv'
<1>1. /\ stripe \in [StripeSubs -> StripeSub] /\ stripe[x] \in StripeSub
      /\ Live(x) => stripe[x].customer # NotLinked
      /\ stripe[x].status = "open" => stripe[x].plan \in Plans
  BY DEF TypeInv, TypeOK, CheckoutsOfPlans, Live
<1>2. ASSUME NEW st \in Statuses, Subscribe(x, st)
      PROVE  TypeInv'
  <2> DEFINE new == [stripe[x] EXCEPT !.status = st,
                       !.customer = IF @ = NotLinked THEN x ELSE @]
  <2>1. stripe' = [stripe EXCEPT ![x] = new] /\ Send("checkout", x)
    BY <1>1, <1>2 DEF Subscribe, StripeSub
  <2>2. /\ new \in StripeSub /\ new.status \in StripeStatuses
        /\ new.customer # NotLinked /\ new.plan \in Plans
    BY <1>1, <1>2 DEF Subscribe, StripeSub, StripeStatuses
  <2> HIDE DEF new
  <2> QED BY <2>1, <2>2, SentType DEF Kinds
<1>3. ASSUME NEW p \in Plans \cup {OtherPrice}, NEW st \in Statuses,
             Update(x, p, st)
      PROVE  TypeInv'
  <2> DEFINE new == [stripe[x] EXCEPT !.plan = p, !.status = st]
  <2>1. stripe' = [stripe EXCEPT ![x] = new] /\ Send("updated", x)
    BY <1>1, <1>3 DEF Update, StripeSub
  <2>2. /\ new \in StripeSub /\ new.status \in StripeStatuses
        /\ new.customer # NotLinked
    BY <1>1, <1>3 DEF Update, StripeSub, StripeStatuses
  <2> HIDE DEF new
  <2> QED BY <2>1, <2>2, SentType DEF Kinds
<1>4. CASE Cancel(x)
  <2> DEFINE new == [stripe[x] EXCEPT !.status = "canceled"]
  <2>1. stripe' = [stripe EXCEPT ![x] = new] /\ Send("deleted", x)
    BY <1>1, <1>4 DEF Cancel, StripeSub
  <2>2. /\ new \in StripeSub /\ new.status \in StripeStatuses
        /\ new.customer # NotLinked
    BY <1>1, <1>4 DEF Cancel, StripeSub, StripeStatuses
  <2> HIDE DEF new
  <2> QED BY <2>1, <2>2, SentType DEF Kinds
<1>5. CASE Notify(x)
  <2>1. /\ stripe' = [stripe EXCEPT ![x] = stripe[x]] /\ Send("other", x)
        /\ stripe[x].status \in StripeStatuses /\ stripe[x].customer # NotLinked
    BY <1>1, <1>5 DEF Notify, Live, StripeSub
  <2> QED BY <1>1, <2>1, SentType DEF Kinds
<1>6. ASSUME NEW p \in Plans, CreateCheckoutSession(x, p)
      PROVE  TypeInv'
  <2>1. \A c \in CustomersOf(stripe[x].tenant) : c \in StripeSubs \cup {NotLinked}
    <3>1. \A r \in DOMAIN rows : rows[r] \in Row
      BY DEF TypeInv, TypeOK
    <3> QED BY <3>1 DEF CustomersOf, RowsOf, Row
  <2>2. PICK c \in CustomersOf(stripe[x].tenant) :
          stripe' = [stripe EXCEPT ![x].status = "open", ![x].plan = p,
                                   ![x].customer = c]
    BY <1>6 DEF CreateCheckoutSession
  <2> DEFINE new == [stripe[x] EXCEPT !.status = "open", !.plan = p, !.customer = c]
  <2>3. stripe' = [stripe EXCEPT ![x] = new]
    BY <1>1, <2>2 DEF StripeSub
  <2>4. new \in StripeSub /\ new.status = "open" /\ new.plan \in Plans
    BY <1>1, <2>1 DEF StripeSub
  <2> HIDE DEF new
  <2>5. /\ stripe' \in [StripeSubs -> StripeSub] /\ stripe'[x] = new
        /\ \A y \in StripeSubs \ {x} : stripe'[y] = stripe[y]
    BY <1>1, <2>3, <2>4
  <2>6. UNCHANGED <<rows, marked, sent, workerVars, log, acked, crashes>>
    BY <1>6 DEF CreateCheckoutSession
  <2>7. CheckoutsOfPlans'
    BY <2>4, <2>5, <2>6 DEF CheckoutsOfPlans, TypeInv
  <2>8. \A w \in Workers : SessionOK(w)'
    BY <2>6 DEF TypeInv, TypeOK, SessionOK, workerVars
  <2> QED BY <2>5, <2>6, <2>7, <2>8 DEF TypeInv, TypeOK, workerVars
<1> QED BY <1>2, <1>3, <1>4, <1>5, <1>6

LEMMA TypeStep == TypeInv /\ [Next]_vars => TypeInv'
<1> SUFFICES ASSUME TypeInv, [Next]_vars PROVE TypeInv'
  OBVIOUS
<1>1. ASSUME NEW w \in Workers, Fail(w) PROVE TypeInv'
  <2>1. crashes' \in 0..MaxCrashes
    BY <1>1 DEF Fail, TypeInv, TypeOK
  <2> QED BY <1>1, <2>1, RollbackType DEF Fail
<1>2. CASE UNCHANGED vars
  BY <1>2 DEF vars, TypeInv, TypeOK, SessionOK, CheckoutsOfPlans
<1> QED BY <1>1, <1>2, DeliverType, ProcessType, SaveEventType,
           StartReconcileType, SaveReconcileType, LookedAtType, CreateType,
           StripeType
        DEF Next

LEMMA TypeInvariant == Spec => []TypeInv
BY TypeInit, TypeStep, PTL DEF Spec

\* The variables keep their types: whatever is retrieved, lost or rolled back,
\* a session refers only to rows and events there are, and a row gets only a
\* status of the engine's own (subscription.py, stripe.py:19-30).
THEOREM TypeCorrect == Spec => []TypeOK
BY TypeInvariant, PTL DEF TypeInv

-----------------------------------------------------------------------------
(* Once *)

\* What is logged is what is marked, and what is answered was logged.
OnceInv ==
  /\ EventAppliedOnce
  /\ \A i \in DOMAIN log : log[i] \in marked
  /\ \A e \in marked : \E i \in DOMAIN log : log[i] = e

LEMMA OnceKept ==
  ASSUME OnceInv, UNCHANGED <<marked, log, acked>>
  PROVE  OnceInv'
BY DEF OnceInv, EventAppliedOnce

LEMMA OnceDeliver ==
  ASSUME TypeInv, OnceInv, NEW w \in Workers, NEW e \in DOMAIN sent, Deliver(w, e)
  PROVE  OnceInv'
BY DEF OnceInv, EventAppliedOnce, Deliver

\* The unique index on event_id: an event that is committed was not marked, so
\* its log entry is the first.
LEMMA OnceSaved ==
  ASSUME TypeInv, OnceInv, NEW w \in Workers, SaveEvent(w)
  PROVE  OnceInv'
<1>1. CASE UNCHANGED <<marked, log, acked>>
  BY <1>1, OnceKept
<1>2. CASE ~ UNCHANGED <<marked, log, acked>>
  <2>1. /\ event[w] \notin marked
        /\ marked' = marked \cup {event[w]}
        /\ log' = Append(log, event[w])
        /\ acked' = acked \cup {event[w]}
    BY <1>2 DEF SaveEvent, Rollback, AlreadyMarked
  <2>2. log \in Seq(1..MaxEvents) /\ Len(log) \in Nat
    BY DEF TypeInv, TypeOK
  <2>3. /\ DOMAIN log = 1..Len(log) /\ DOMAIN log' = 1..(Len(log) + 1)
        /\ \A i \in DOMAIN log : log'[i] = log[i]
        /\ log'[Len(log) + 1] = event[w]
    BY <2>1, <2>2
  <2>4. \A i \in DOMAIN log' : i \in DOMAIN log \/ i = Len(log) + 1
    BY <2>2, <2>3
  <2>5. DOMAIN log \subseteq DOMAIN log' /\ Len(log) + 1 \in DOMAIN log'
    BY <2>2, <2>3
  <2> QED BY <2>1, <2>3, <2>4, <2>5 DEF OnceInv, EventAppliedOnce
<1> QED BY <1>1, <1>2

LEMMA OnceStep == TypeInv /\ OnceInv /\ [Next]_vars => OnceInv'
<1> SUFFICES ASSUME TypeInv, OnceInv, [Next]_vars PROVE OnceInv'
  OBVIOUS
<1>1. CASE \E w \in Workers : SaveEvent(w)
  BY <1>1, OnceSaved
<1>2. CASE \E w \in Workers, e \in DOMAIN sent : Deliver(w, e)
  BY <1>2, OnceDeliver
<1>3. CASE \E w \in Workers : \/ ProcessEvent(w) \/ StartReconcile(w)
                             \/ SaveReconcile(w) \/ Fail(w)
                             \/ \E r \in DOMAIN rows : Retrieve(w, r) \/ GiveUp(w, r)
  BY <1>3, OnceKept DEF ProcessEvent, StartReconcile, SaveReconcile, Fail,
       Rollback, Retrieve, GiveUp
<1>4. CASE \E n \in Tenants, p \in Plans : CreateSubscription(n, p)
  BY <1>4, OnceKept DEF CreateSubscription
<1>5. CASE \E x \in StripeSubs :
             \/ \E p \in Plans : CreateCheckoutSession(x, p)
             \/ \E st \in Statuses : Subscribe(x, st)
             \/ \E p \in Plans \cup {OtherPrice}, st \in Statuses : Update(x, p, st)
             \/ Cancel(x) \/ Notify(x)
  BY <1>5, OnceKept DEF CreateCheckoutSession, Subscribe, Update, Cancel, Notify, Send
<1>6. CASE UNCHANGED vars
  BY <1>6, OnceKept DEF vars
<1> QED BY <1>1, <1>2, <1>3, <1>4, <1>5, <1>6 DEF Next

\* Any number of workers that process the deliveries of an event at once, fail
\* and are sent it again commit its changes once, and never answer 200 for one
\* that is not committed (stripe_service.py:92-94, 112-130).
THEOREM EventsAppliedOnce == Spec => []EventAppliedOnce
<1>1. Init => OnceInv
  BY DEF Init, OnceInv, EventAppliedOnce
<1>2. Spec => []OnceInv
  BY <1>1, TypeInvariant, OnceStep, PTL DEF Spec
<1> QED BY <1>2, PTL DEF OnceInv

-----------------------------------------------------------------------------
(* One worker *)

\* The new row a worker is about to insert is of a tenant without a row that
\* is linked to Stripe: it found no row of the tenant, and since then only
\* POST /subscriptions added rows, which are not linked.
FreshInv ==
  \A w \in Workers :
    /\ fresh[w] # {} => pc[w] = "save"
    /\ \A new \in fresh[w], q \in DOMAIN rows :
         rows[q].tenant = new.tenant => rows[q].link = NotLinked

LEMMA FreshInit == Init => FreshInv
BY DEF Init, FreshInv

LEMMA FreshClosed ==
  ASSUME TypeInv, FreshInv, NEW w \in Workers, Workers = {w}, Close(w)
  PROVE  FreshInv'
BY DEF FreshInv, Close, TypeInv, TypeOK

LEMMA FreshProcess ==
  ASSUME TypeInv, FreshInv, NEW w \in Workers, Workers = {w}, ProcessEvent(w)
  PROVE  FreshInv'
<1> DEFINE v == sent[event[w]]
<1>1. /\ pc[w] = "read" /\ pc'[w] = "save" /\ rows' = rows /\ fresh[w] = {}
      /\ fresh \in [Workers -> SUBSET Row]
  BY DEF ProcessEvent, TypeInv, TypeOK, FreshInv
<1>2. \/ fresh' = fresh
      \/ /\ RowsOf(v.tenant) = {}
         /\ fresh' = [fresh EXCEPT ![w] = {NewRow(v)}]
  BY DEF ProcessEvent, SyncFromCheckout, SyncSubscriptionStatus,
         CancelSubscription, Change, ChangeNothing
<1> HIDE DEF v
<1>3. CASE fresh' = fresh
  BY <1>1, <1>3 DEF FreshInv
<1>4. CASE fresh' # fresh
  <2>1. \A new \in fresh'[w] : new.tenant = v.tenant
    BY <1>1, <1>2, <1>4 DEF NewRow
  <2>2. \A q \in DOMAIN rows : rows[q].tenant # v.tenant
    BY <1>2, <1>4 DEF RowsOf
  <2> QED BY <1>1, <2>1, <2>2 DEF FreshInv
<1> QED BY <1>3, <1>4

LEMMA FreshCreate ==
  ASSUME TypeInv, FreshInv, NEW n \in Tenants, NEW p \in Plans,
         CreateSubscription(n, p)
  PROVE  FreshInv'
<1> DEFINE row == [tenant |-> n, plan |-> p, status |-> "active",
                  link |-> NotLinked, customer |-> NotLinked]
<1>1. rows' = Append(rows, row) /\ UNCHANGED <<pc, fresh>>
  BY DEF CreateSubscription, workerVars
<1>2. row.link = NotLinked
  OBVIOUS
<1> HIDE DEF row
<1>3. \A q \in DOMAIN rows' : rows'[q] = row \/ (q \in DOMAIN rows /\ rows'[q] = rows[q])
  <2>1. rows \in Seq(Row)
    BY DEF TypeInv, TypeOK
  <2> QED BY <1>1, <2>1, AppendKeeps
<1> QED BY <1>1, <1>2, <1>3 DEF FreshInv

LEMMA FreshStep ==
  ASSUME TypeInv, FreshInv, NEW w \in Workers, Workers = {w}, [Next]_vars
  PROVE  FreshInv'
<1>1. CASE SaveEvent(w) \/ SaveReconcile(w) \/ Fail(w)
  BY <1>1, FreshClosed DEF SaveEvent, SaveReconcile, Fail, Rollback
<1>2. CASE ProcessEvent(w)
  BY <1>2, FreshProcess
<1>3. CASE \E e \in DOMAIN sent : Deliver(w, e)
  BY <1>3 DEF Deliver, FreshInv, TypeInv, TypeOK
<1>4. CASE StartReconcile(w)
  BY <1>4 DEF StartReconcile, FreshInv, TypeInv, TypeOK
<1>5. CASE \E r \in DOMAIN rows : Retrieve(w, r) \/ GiveUp(w, r)
  BY <1>5 DEF Retrieve, GiveUp, FreshInv
<1>6. CASE \E n \in Tenants, p \in Plans : CreateSubscription(n, p)
  BY <1>6, FreshCreate
<1>7. CASE \E x \in StripeSubs :
             \/ \E p \in Plans : CreateCheckoutSession(x, p)
             \/ \E st \in Statuses : Subscribe(x, st)
             \/ \E p \in Plans \cup {OtherPrice}, st \in Statuses : Update(x, p, st)
             \/ Cancel(x) \/ Notify(x)
  <2>1. UNCHANGED <<rows, pc, fresh>>
    BY <1>7 DEF CreateCheckoutSession, Subscribe, Update, Cancel, Notify, Send, workerVars
  <2> QED BY <2>1 DEF FreshInv
<1>8. CASE UNCHANGED vars
  BY <1>8 DEF vars, FreshInv
<1> QED BY <1>1, <1>2, <1>3, <1>4, <1>5, <1>6, <1>7, <1>8 DEF Next

\* What CheckoutReusesRow says of a step, from the invariants.
LEMMA CheckoutStep ==
  ASSUME TypeInv, FreshInv, [Next]_vars,
         NEW r \in DOMAIN rows' \ DOMAIN rows, rows'[r].link # NotLinked,
         NEW q \in DOMAIN rows, rows[q].tenant = rows'[r].tenant
  PROVE  rows[q].link = NotLinked
<1>1. ASSUME NEW w \in Workers, SaveEvent(w) PROVE rows[q].link = NotLinked
  <2>1. /\ DOMAIN Flushed(w) = DOMAIN rows
        /\ Flushed(w) \in Seq(Row)
    BY FlushedType
  <2>2. PICK new \in fresh[w] : rows' = Append(Flushed(w), new)
    BY <1>1, <2>1 DEF SaveEvent, Rollback
  <2>3. rows'[r] = new
    BY <2>1, <2>2
  <2> QED BY <2>2, <2>3 DEF FreshInv
<1>2. ASSUME NEW n \in Tenants, NEW p \in Plans, CreateSubscription(n, p)
      PROVE  FALSE
  <2> DEFINE row == [tenant |-> n, plan |-> p, status |-> "active",
                  link |-> NotLinked, customer |-> NotLinked]
  <2>1. rows' = Append(rows, row) /\ row.link = NotLinked
    BY <1>2 DEF CreateSubscription
  <2> HIDE DEF row
  <2>2. rows'[r] = row
    BY <2>1 DEF TypeInv, TypeOK
  <2> QED BY <2>1, <2>2
<1>3. ASSUME NEW w \in Workers, SaveReconcile(w) PROVE FALSE
  BY <1>3, FlushedType DEF SaveReconcile
<1>4. CASE rows' = rows
  BY <1>4
<1>5. CASE \E w \in Workers :
             \/ \E e \in DOMAIN sent : Deliver(w, e)
             \/ ProcessEvent(w) \/ StartReconcile(w) \/ Fail(w)
             \/ \E i \in DOMAIN rows : Retrieve(w, i) \/ GiveUp(w, i)
  BY <1>4, <1>5 DEF Deliver, ProcessEvent, StartReconcile, Fail, Rollback,
       Retrieve, GiveUp
<1>6. CASE \E x \in StripeSubs :
             \/ \E p \in Plans : CreateCheckoutSession(x, p)
             \/ \E st \in Statuses : Subscribe(x, st)
             \/ \E p \in Plans \cup {OtherPrice}, st \in Statuses : Update(x, p, st)
             \/ Cancel(x) \/ Notify(x)
  BY <1>4, <1>6 DEF CreateCheckoutSession, Subscribe, Update, Cancel, Notify, Send
<1> QED BY <1>1, <1>2, <1>3, <1>4, <1>5, <1>6 DEF Next, vars

\* With one worker a checkout never adds a second linked row for a tenant,
\* however POST /subscriptions, failures and redeliveries come in between
\* (stripe_service.py:137-159).
THEOREM CheckoutReusesRowAlone ==
  ASSUME NEW w \in Workers, Workers = {w}
  PROVE  Spec => CheckoutReusesRow
<1>1. TypeInv /\ FreshInv /\ [Next]_vars => FreshInv'
  BY FreshStep
<1>2. TypeInv /\ FreshInv /\ [Next]_vars =>
        [\A r \in DOMAIN rows' \ DOMAIN rows :
           rows'[r].link # NotLinked =>
             \A q \in DOMAIN rows :
               rows[q].tenant = rows'[r].tenant => rows[q].link = NotLinked]_vars
  BY CheckoutStep
<1> QED BY <1>1, <1>2, FreshInit, TypeInvariant, PTL DEF Spec, CheckoutReusesRow
=============================================================================
