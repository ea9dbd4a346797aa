------------------------ MODULE StripeMirrorProofs ------------------------
(***************************************************************************)
(* What the rows of StripeSync have to do with Stripe.  Whatever the       *)
(* number of workers, no two rows follow one subscription, no row follows  *)
(* one of another tenant, and every commit is one that the readers of the  *)
(* table allow for.  With one worker a row has the customer of its         *)
(* subscription, shows a plan and status that Stripe sent for it, and      *)
(* mirrors them once the events were applied in the order they were sent.  *)
(***************************************************************************)
EXTENDS StripeSyncProofs, FiniteSetTheorems

USE ConstantsAssumption

-----------------------------------------------------------------------------
(* Steps of Stripe *)

\* The id of the next event.
Newest == Len(sent) + 1

\* The events of a step: one more, of x, and x is not new any more.
OneMore(kind, x) ==
  /\ DOMAIN sent' = DOMAIN sent \cup {Newest} /\ Newest \notin DOMAIN sent
  /\ \A i \in DOMAIN sent : i \in Int /\ i < Newest /\ sent'[i] = sent[i]
  /\ sent'[Newest].kind = kind /\ sent'[Newest].sub = x
  /\ sent'[Newest].plan = stripe'[x].plan
  /\ sent'[Newest].status = stripe'[x].status
  /\ sent'[Newest].customer = stripe'[x].customer
  /\ stripe'[x].status \notin {"none", "open"}

\* What the steps of Stripe may do to x.
StripeMoves(x) ==
  \/ /\ sent' = sent
     /\ stripe[x].status = "none" /\ stripe'[x].status = "open"
  \/ OneMore("checkout", x) /\ stripe[x].status = "open"
  \/ /\ OneMore("updated", x) /\ Live(x)
     /\ stripe'[x].customer = stripe[x].customer
  \/ /\ OneMore("deleted", x) /\ Live(x)
     /\ stripe'[x].customer = stripe[x].customer
     /\ stripe'[x].plan = stripe[x].plan
     /\ stripe'[x].status = "canceled"
  \/ OneMore("other", x) /\ Live(x) /\ stripe' = stripe

OfStripe(x) ==
  \/ \E p \in Plans : CreateCheckoutSession(x, p)
  \/ \E st \in Statuses : Subscribe(x, st)
  \/ \E p \in Plans \cup {OtherPrice}, st \in Statuses : Update(x, p, st)
  \/ Cancel(x) \/ Notify(x)

LEMMA SendIsOneMore ==
  ASSUME TypeInv, NEW kind, NEW x, Send(kind, x),
         stripe'[x].status \notin {"none", "open"}
  PROVE  OneMore(kind, x)
<1> DEFINE e == [kind |-> kind, sub |-> x, tenant |-> stripe'[x].tenant,
                 plan |-> stripe'[x].plan, status |-> stripe'[x].status,
                 customer |-> stripe'[x].customer]
<1>1. sent' = Append(sent, e) /\ sent \in Seq(Event)
  BY DEF Send, TypeInv, TypeOK
<1>2. /\ e.kind = kind /\ e.sub = x /\ e.plan = stripe'[x].plan
      /\ e.status = stripe'[x].status /\ e.customer = stripe'[x].customer
  OBVIOUS
<1> HIDE DEF e
<1>3. /\ DOMAIN sent = 1..Len(sent) /\ Len(sent) \in Nat
      /\ DOMAIN sent' = DOMAIN sent \cup {Len(sent) + 1}
      /\ Len(sent) + 1 \notin DOMAIN sent
      /\ \A i \in DOMAIN sent : sent'[i] = sent[i]
      /\ sent'[Len(sent) + 1] = e
  BY <1>1, AppendKeeps
<1> QED BY <1>2, <1>3 DEF OneMore, Newest

LEMMA StripeStep ==
  ASSUME TypeInv, NEW x \in StripeSubs, OfStripe(x)
  PROVE  /\ UNCHANGED <<rows, marked, workerVars, log, acked, crashes>>
         /\ \A y \in StripeSubs \ {x} : stripe'[y] = stripe[y]
         /\ StripeMoves(x)
<1>1. stripe \in [StripeSubs -> StripeSub] /\ stripe[x] \in StripeSub
  BY DEF TypeInv, TypeOK
<1>2. ASSUME NEW p \in Plans, CreateCheckoutSession(x, p)
      PROVE  /\ UNCHANGED <<rows, marked, workerVars, log, acked, crashes>>
             /\ \A y \in StripeSubs \ {x} : stripe'[y] = stripe[y]
             /\ StripeMoves(x)
  BY <1>1, <1>2 DEF CreateCheckoutSession, StripeMoves, StripeSub
<1>3. ASSUME NEW st \in Statuses, Subscribe(x, st)
      PROVE  /\ UNCHANGED <<rows, marked, workerVars, log, acked, crashes>>
             /\ \A y \in StripeSubs \ {x} : stripe'[y] = stripe[y]
             /\ StripeMoves(x)
  <2>1. /\ Send("checkout", x) /\ stripe[x].status = "open"
        /\ stripe'[x].status = st
        /\ \A y \in StripeSubs \ {x} : stripe'[y] = stripe[y]
    BY <1>1, <1>3 DEF Subscribe, StripeSub
  <2>2. OneMore("checkout", x)
    BY <2>1, SendIsOneMore
  <2> QED BY <2>1, <2>2 DEF StripeMoves, Send
<1>4. ASSUME NEW p \in Plans \cup {OtherPrice}, NEW st \in Statuses,
             Update(x, p, st)
      PROVE  /\ UNCHANGED <<rows, marked, workerVars, log, acked, crashes>>
             /\ \A y \in StripeSubs \ {x} : stripe'[y] = stripe[y]
             /\ StripeMoves(x)
  <2>1. /\ Send("updated", x) /\ Live(x)
        /\ stripe'[x].status = st /\ stripe'[x].customer = stripe[x].customer
        /\ \A y \in StripeSubs \ {x} : stripe'[y] = stripe[y]
    BY <1>1, <1>4 DEF Update, StripeSub
  <2>2. OneMore("updated", x)
    BY <2>1, SendIsOneMore
  <2> QED BY <2>1, <2>2 DEF StripeMoves, Send
<1>5. ASSUME Cancel(x)
      PROVE  /\ UNCHANGED <<rows, marked, workerVars, log, acked, crashes>>
             /\ \A y \in StripeSubs \ {x} : stripe'[y] = stripe[y]
             /\ StripeMoves(x)
  <2>1. /\ Send("deleted", x) /\ Live(x)
        /\ stripe'[x].status = "canceled"
        /\ stripe'[x].customer = stripe[x].customer
        /\ stripe'[x].plan = stripe[x].plan
        /\ \A y \in StripeSubs \ {x} : stripe'[y] = stripe[y]
    BY <1>1, <1>5 DEF Cancel, StripeSub
  <2>2. OneMore("deleted", x)
    BY <2>1, SendIsOneMore
  <2> QED BY <2>1, <2>2 DEF StripeMoves, Send
<1>6. ASSUME Notify(x)
      PROVE  /\ UNCHANGED <<rows, marked, workerVars, log, acked, crashes>>
             /\ \A y \in StripeSubs \ {x} : stripe'[y] = stripe[y]
             /\ StripeMoves(x)
  <2>1. Send("other", x) /\ Live(x) /\ stripe' = stripe
    BY <1>6 DEF Notify
  <2>2. OneMore("other", x)
    BY <2>1, SendIsOneMore DEF Live
  <2> QED BY <2>1, <2>2 DEF StripeMoves, Send
<1> QED BY <1>2, <1>3, <1>4, <1>5, <1>6 DEF OfStripe

-----------------------------------------------------------------------------
(* What Stripe sends *)

\* The checkout is the first event of its subscription.
CheckoutFirst ==
  \A e, f \in DOMAIN sent :
    sent[e].kind = "checkout" /\ sent[f].sub = sent[e].sub => e <= f

\* Events are of subscriptions that are made, and a subscription keeps its
\* customer.
OfTheirCustomer ==
  \A e \in DOMAIN sent :
    /\ stripe[sent[e].sub].status \notin {"none", "open"}
    /\ sent[e].customer = stripe[sent[e].sub].customer

\* The newest event of a subscription says what it is now.
LastOf(x, j) == j \in EventsOf(x) /\ \A i \in EventsOf(x) : i <= j

LastSaysHow ==
  \A x \in StripeSubs : stripe[x].status \notin {"none", "open"} =>
    \E j \in DOMAIN sent : /\ LastOf(x, j)
                           /\ sent[j].plan = stripe[x].plan
                           /\ sent[j].status = stripe[x].status

\* A cancellation has the plan of the event before it.
CancelKeepsPlan ==
  \A e \in DOMAIN sent : sent[e].kind = "deleted" =>
    /\ sent[e].status = "canceled"
    /\ \E j \in EventsOf(sent[e].sub) :
         /\ j < e /\ sent[j].plan = sent[e].plan
         /\ \A i \in EventsOf(sent[e].sub) : i < e => i <= j

SentInv == CheckoutFirst /\ OfTheirCustomer /\ LastSaysHow /\ CancelKeepsPlan

LEMMA SentTypes ==
  ASSUME TypeInv, NEW e \in DOMAIN sent
  PROVE  /\ sent[e] \in Event /\ sent[e].sub \in StripeSubs
         /\ sent[e].status \in StripeStatuses /\ sent[e].tenant \in Tenants
         /\ sent[e].customer \in StripeSubs /\ e \in Int
<1>1. sent \in Seq(Event)
  BY DEF TypeInv, TypeOK
<1>2. sent[e] \in Event /\ e \in Int
  BY <1>1
<1> QED BY <1>2 DEF Event

LEMMA SentInit == Init => SentInv
<1> SUFFICES ASSUME Init PROVE SentInv
  OBVIOUS
<1>1. DOMAIN sent = {} /\ \A x \in StripeSubs : stripe[x].status = "none"
  BY DEF Init
<1> QED BY <1>1 DEF SentInv, CheckoutFirst, OfTheirCustomer, LastSaysHow,
             CancelKeepsPlan

LEMMA SentKept ==
  ASSUME SentInv, UNCHANGED <<sent, stripe>>
  PROVE  SentInv'
BY DEF SentInv, CheckoutFirst, OfTheirCustomer, LastSaysHow, CancelKeepsPlan,
       LastOf, EventsOf

\* Which events are of whom after a step of Stripe.
LEMMA EventsAfter ==
  ASSUME TypeInv, NEW x \in StripeSubs, NEW kind, OneMore(kind, x),
         NEW y \in StripeSubs
  PROVE  /\ y # x \/ kind = "other" => EventsOf(y)' = EventsOf(y)
         /\ y = x /\ kind # "other" => EventsOf(y)' = EventsOf(y) \cup {Newest}
BY DEF OneMore, EventsOf

LEMMA SentOneMore ==
  ASSUME TypeInv, SentInv, NEW x \in StripeSubs, NEW kind, OneMore(kind, x),
         StripeMoves(x), sent' # sent,
         \A y \in StripeSubs \ {x} : stripe'[y] = stripe[y]
  PROVE  SentInv'
<1>1. /\ \/ kind = "checkout" /\ stripe[x].status = "open"
         \/ /\ kind = "updated" /\ Live(x)
            /\ stripe'[x].customer = stripe[x].customer
         \/ /\ kind = "deleted" /\ Live(x)
            /\ stripe'[x].customer = stripe[x].customer
            /\ stripe'[x].plan = stripe[x].plan
            /\ stripe'[x].status = "canceled"
         \/ kind = "other" /\ Live(x) /\ stripe' = stripe
  BY DEF StripeMoves, OneMore
<1>2. \A e \in DOMAIN sent : sent[e].sub \in StripeSubs
  BY SentTypes
<1>3. /\ \A i \in DOMAIN sent : sent'[i] = sent[i] /\ i < Newest /\ i \in Int
      /\ DOMAIN sent' = DOMAIN sent \cup {Newest} /\ Newest \notin DOMAIN sent
      /\ sent'[Newest].kind = kind /\ sent'[Newest].sub = x
      /\ sent'[Newest].plan = stripe'[x].plan
      /\ sent'[Newest].status = stripe'[x].status
      /\ sent'[Newest].customer = stripe'[x].customer
      /\ stripe'[x].status \notin {"none", "open"}
  BY DEF OneMore
<1>4. Newest \in Int
  BY DEF Newest, TypeInv, TypeOK
<1>5. CheckoutFirst'
  <2>1. kind = "checkout" => \A f \in DOMAIN sent : sent[f].sub # x
    BY <1>1 DEF SentInv, OfTheirCustomer, Live
  <2> QED BY <1>3, <1>4, <2>1 DEF SentInv, CheckoutFirst
<1>6. OfTheirCustomer'
  <2>1. ASSUME NEW e \in DOMAIN sent
        PROVE  /\ stripe'[sent[e].sub].status \notin {"none", "open"}
               /\ sent[e].customer = stripe'[sent[e].sub].customer
    BY <1>1, <1>2, <1>3 DEF SentInv, OfTheirCustomer
  <2> QED BY <1>3, <2>1 DEF OfTheirCustomer
<1>7. LastSaysHow'
  <2> SUFFICES ASSUME NEW y \in StripeSubs, stripe'[y].status \notin {"none", "open"}
               PROVE  \E j \in DOMAIN sent' : /\ LastOf(y, j)'
                                              /\ sent'[j].plan = stripe'[y].plan
                                              /\ sent'[j].status = stripe'[y].status
    BY DEF LastSaysHow
  <2>1. CASE y = x /\ kind # "other"
    <3>1. EventsOf(x)' = EventsOf(x) \cup {Newest}
      BY <2>1, EventsAfter
    <3>2. \A i \in EventsOf(x)' : i <= Newest
      BY <1>3, <1>4, <3>1 DEF EventsOf
    <3> QED BY <1>3, <2>1, <3>1, <3>2 DEF LastOf
  <2>2. CASE y # x \/ kind = "other"
    <3>1. EventsOf(y)' = EventsOf(y) /\ stripe'[y] = stripe[y]
      BY <1>1, <2>2, EventsAfter
    <3>2. PICK j \in DOMAIN sent : /\ LastOf(y, j)
                                   /\ sent[j].plan = stripe[y].plan
                                   /\ sent[j].status = stripe[y].status
      BY <3>1 DEF SentInv, LastSaysHow
    <3> QED BY <1>3, <3>1, <3>2 DEF LastOf
  <2> QED BY <2>1, <2>2
<1>8. CancelKeepsPlan'
  <2>1. ASSUME NEW e \in DOMAIN sent, sent[e].kind = "deleted"
        PROVE  /\ sent[e].status = "canceled"
               /\ \E j \in EventsOf(sent[e].sub)' :
                    /\ j < e /\ sent'[j].plan = sent[e].plan
                    /\ \A i \in EventsOf(sent[e].sub)' : i < e => i <= j
    <3> DEFINE y == sent[e].sub
    <3>1. PICK j \in EventsOf(y) : /\ j < e /\ sent[j].plan = sent[e].plan
                                   /\ \A i \in EventsOf(y) : i < e => i <= j
      BY <2>1 DEF SentInv, CancelKeepsPlan
    <3>2. EventsOf(y)' = EventsOf(y) \/ EventsOf(y)' = EventsOf(y) \cup {Newest}
      <4>1. ASSUME NEW z \in StripeSubs
            PROVE  \/ EventsOf(z)' = EventsOf(z)
                   \/ EventsOf(z)' = EventsOf(z) \cup {Newest}
        BY EventsAfter
      <4>2. sent'[e].sub = sent[e].sub
        BY <1>3
      <4> QED BY <1>2, <1>3, <2>1, <4>1, <4>2 DEF EventsOf
    <3>3. e < Newest /\ e \in Int /\ ~(Newest < e)
      BY <1>3, <1>4
    <3>4. \A i \in EventsOf(y)' : i < e => i <= j
      BY <3>1, <3>2, <3>3
    <3>5. j \in EventsOf(y)' /\ sent'[j] = sent[j]
      BY <1>3, <3>1, <3>2 DEF EventsOf
    <3> QED BY <2>1, <3>1, <3>4, <3>5 DEF SentInv, CancelKeepsPlan
  <2>2. ASSUME kind = "deleted"
        PROVE  /\ sent'[Newest].status = "canceled"
               /\ \E j \in EventsOf(x)' :
                    /\ j < Newest /\ sent'[j].plan = sent'[Newest].plan
                    /\ \A i \in EventsOf(x)' : i < Newest => i <= j
    <3>1. PICK j \in DOMAIN sent : LastOf(x, j) /\ sent[j].plan = stripe[x].plan
      BY <1>1, <2>2 DEF SentInv, LastSaysHow, Live
    <3>2. EventsOf(x)' = EventsOf(x) \cup {Newest}
      BY <2>2, EventsAfter
    <3>3. \A i \in EventsOf(x)' : i < Newest => i <= j
      BY <1>4, <3>1, <3>2 DEF LastOf
    <3>4. j \in EventsOf(x)' /\ j < Newest /\ sent'[j].plan = sent'[Newest].plan
      BY <1>1, <1>3, <2>2, <3>1, <3>2 DEF LastOf
    <3> QED BY <1>1, <1>3, <2>2, <3>3, <3>4
  <2> QED BY <1>3, <2>1, <2>2 DEF CancelKeepsPlan
<1> QED BY <1>5, <1>6, <1>7, <1>8 DEF SentInv

LEMMA SentStripe ==
  ASSUME TypeInv, SentInv, NEW x \in StripeSubs, OfStripe(x)
  PROVE  SentInv'
<1>1. /\ \A y \in StripeSubs \ {x} : stripe'[y] = stripe[y]
      /\ StripeMoves(x)
  BY StripeStep
<1>2. CASE sent' = sent /\ stripe[x].status = "none" /\ stripe'[x].status = "open"
  <2>1. \A e \in DOMAIN sent : sent[e].sub # x /\ sent[e].sub \in StripeSubs
    BY <1>2, SentTypes DEF SentInv, OfTheirCustomer
  <2>2. \A y \in StripeSubs : EventsOf(y)' = EventsOf(y)
    BY <1>2 DEF EventsOf
  <2>4. CheckoutFirst' /\ CancelKeepsPlan'
    BY <1>2 DEF SentInv, CheckoutFirst, CancelKeepsPlan, EventsOf
  <2>5. OfTheirCustomer'
    BY <1>1, <1>2, <2>1 DEF SentInv, OfTheirCustomer
  <2>6. LastSaysHow'
    BY <1>1, <1>2, <2>2 DEF SentInv, LastSaysHow, LastOf
  <2> QED BY <2>4, <2>5, <2>6 DEF SentInv
<1>3. CASE ~(sent' = sent /\ stripe[x].status = "none" /\ stripe'[x].status = "open")
  <2>1. PICK kind \in Kinds : OneMore(kind, x)
    BY <1>1, <1>3 DEF StripeMoves, Kinds
  <2>2. sent' # sent
    BY <2>1 DEF OneMore
  <2> QED BY <1>1, <2>1, <2>2, SentOneMore
<1> QED BY <1>2, <1>3

LEMMA SentStep == TypeInv /\ SentInv /\ [Next]_vars => SentInv'
<1> SUFFICES ASSUME TypeInv, SentInv, [Next]_vars PROVE SentInv'
  OBVIOUS
<1>1. CASE \E w \in Workers :
             \/ \E e \in DOMAIN sent : Deliver(w, e)
             \/ ProcessEvent(w) \/ SaveEvent(w) \/ StartReconcile(w)
             \/ SaveReconcile(w) \/ Fail(w)
             \/ \E r \in DOMAIN rows : Retrieve(w, r) \/ GiveUp(w, r)
  <2>1. UNCHANGED <<sent, stripe>>
    BY <1>1 DEF Deliver, ProcessEvent, SaveEvent, StartReconcile, SaveReconcile,
         Fail, Rollback, Retrieve, GiveUp
  <2> QED BY <2>1, SentKept
<1>2. CASE \E n \in Tenants, p \in Plans : CreateSubscription(n, p)
  BY <1>2, SentKept DEF CreateSubscription
<1>3. CASE \E x \in StripeSubs : OfStripe(x)
  BY <1>3, SentStripe
<1>4. CASE UNCHANGED vars
  BY <1>4, SentKept DEF vars
<1> QED BY <1>1, <1>2, <1>3, <1>4 DEF Next, OfStripe

LEMMA SentAlways == Spec => []SentInv
BY SentInit, SentStep, TypeInvariant, PTL DEF Spec

-----------------------------------------------------------------------------
(* What a session holds *)

\* The row that event v makes of the row it finds.
MadeOf(v, row, new) ==
  \/ /\ v.kind = "checkout"
     /\ new = [row EXCEPT !.plan = v.plan, !.status = "active",
                          !.link = v.sub, !.customer = v.customer]
  \/ /\ v.kind = "updated" /\ row.link = v.sub
     /\ \E p \in PlansAfter(v, row.plan) :
          new = [row EXCEPT !.status = FromStripe(v.status), !.plan = p]
  \/ /\ v.kind = "deleted" /\ row.link = v.sub
     /\ new = [row EXCEPT !.status = "cancelled"]

\* A session about to save event v has a new row, one changed row, or none.
Inserts(w, v) ==
  v.kind = "checkout" /\ DOMAIN seen[w] = {} /\ fresh[w] = {NewRow(v)}
Changes(w, v, r) ==
  fresh[w] = {} /\ DOMAIN seen[w] = {r} /\ MadeOf(v, seen[w][r], obj[w][r])
HasNone(w, v) == v.kind # "checkout" /\ DOMAIN seen[w] = {} /\ fresh[w] = {}

Prepared(w, v) == Inserts(w, v) \/ HasNone(w, v) \/ \E r : Changes(w, v, r)

\* A reconciliation changes nothing but statuses.
StatusOnly(w) ==
  \A r \in DOMAIN seen[w] :
    /\ obj[w][r].tenant = seen[w][r].tenant
    /\ obj[w][r].plan = seen[w][r].plan
    /\ obj[w][r].link = seen[w][r].link
    /\ obj[w][r].customer = seen[w][r].customer

HoldsOK(w) ==
  /\ pc[w] \in {"idle", "read"} => DOMAIN seen[w] = {} /\ fresh[w] = {}
  /\ pc[w] = "save" => Prepared(w, sent[event[w]])
  /\ pc[w] = "fetch" => StatusOnly(w) /\ fresh[w] = {}

HoldsInv == \A w \in Workers : HoldsOK(w)

LEMMA HoldsInit == Init => HoldsInv
BY DEF Init, HoldsInv, HoldsOK

\* A session is as it was when its own variables and its event are.
LEMMA HoldsKept ==
  ASSUME TypeInv, HoldsInv, NEW w \in Workers,
         pc'[w] = pc[w], seen'[w] = seen[w], obj'[w] = obj[w],
         fresh'[w] = fresh[w], event'[w] = event[w],
         \A i \in DOMAIN sent : sent'[i] = sent[i]
  PROVE  HoldsOK(w)'
<1>1. pc[w] = "save" => sent'[event'[w]] = sent[event[w]]
  BY DEF TypeInv, TypeOK, SessionOK
<1> QED BY <1>1 DEF HoldsInv, HoldsOK, Prepared, Inserts, Changes, HasNone,
             StatusOnly

LEMMA HoldsClosed ==
  ASSUME TypeInv, HoldsInv, NEW w \in Workers, Close(w), UNCHANGED sent
  PROVE  HoldsInv'
<1>1. HoldsOK(w)'
  <2>1. pc'[w] = "idle" /\ seen'[w] = <<>> /\ fresh'[w] = {} /\ DOMAIN <<>> = {}
    BY DEF Close, TypeInv, TypeOK
  <2> QED BY <2>1 DEF HoldsOK
<1>2. ASSUME NEW v \in Workers \ {w} PROVE HoldsOK(v)'
  <2>1. /\ pc'[v] = pc[v] /\ seen'[v] = seen[v] /\ obj'[v] = obj[v]
        /\ fresh'[v] = fresh[v] /\ event'[v] = event[v]
    BY <1>2 DEF Close, TypeInv, TypeOK
  <2> QED BY <2>1, HoldsKept
<1> QED BY <1>1, <1>2 DEF HoldsInv

\* What the handler of event v finds and makes of it.
LEMMA ProcessPrepares ==
  ASSUME TypeInv, HoldsInv, NEW w \in Workers, ProcessEvent(w),
         NEW v, v = sent[event[w]]
  PROVE  /\ Prepared(w, v)'
         /\ DOMAIN seen'[w] \subseteq DOMAIN rows
         /\ \A r \in DOMAIN seen'[w] : seen'[w][r] = rows[r]
         /\ DOMAIN seen'[w] = {} /\ v.kind \in {"updated", "deleted"}
              => LinkedTo(v.sub) = {}
<1>1. /\ pc[w] = "read"
      /\ \/ v.kind = "checkout" /\ SyncFromCheckout(w, v)
         \/ v.kind = "updated" /\ SyncSubscriptionStatus(w, v)
         \/ v.kind = "deleted" /\ CancelSubscription(w, v)
         \/ v.kind = "other" /\ ChangeNothing
  BY DEF ProcessEvent
<1>2. DOMAIN seen[w] = {} /\ fresh[w] = {}
  BY <1>1 DEF HoldsInv, HoldsOK
<1>3. ASSUME NEW r \in DOMAIN rows, NEW new, Change(w, r, new),
             MadeOf(v, rows[r], new)
      PROVE  /\ Changes(w, v, r)'
             /\ DOMAIN seen'[w] = {r} /\ seen'[w][r] = rows[r]
  <2>1. /\ seen'[w] = [i \in {r} |-> rows[r]] /\ obj'[w] = [i \in {r} |-> new]
        /\ fresh'[w] = fresh[w]
    BY <1>3 DEF Change, TypeInv, TypeOK
  <2>2. DOMAIN seen'[w] = {r} /\ seen'[w][r] = rows[r] /\ obj'[w][r] = new
    BY <2>1
  <2>3. MadeOf(v, seen'[w][r], obj'[w][r])
    BY <1>3, <2>2
  <2> QED BY <1>2, <2>1, <2>2, <2>3 DEF Changes, MadeOf
<1>4. ASSUME NEW r \in DOMAIN rows, NEW new, Change(w, r, new),
             MadeOf(v, rows[r], new)
      PROVE  /\ Prepared(w, v)'
             /\ DOMAIN seen'[w] \subseteq DOMAIN rows
             /\ \A q \in DOMAIN seen'[w] : seen'[w][q] = rows[q]
             /\ DOMAIN seen'[w] # {}
  BY <1>3, <1>4 DEF Prepared
<1>5. ASSUME UNCHANGED <<seen, obj>>,
             \/ v.kind # "checkout" /\ fresh' = fresh
             \/ v.kind = "checkout" /\ fresh' = [fresh EXCEPT ![w] = {NewRow(v)}]
      PROVE  Prepared(w, v)' /\ DOMAIN seen'[w] = {}
  <2>1. fresh \in [Workers -> SUBSET Row]
    BY DEF TypeInv, TypeOK
  <2> QED BY <1>2, <1>5, <2>1 DEF Prepared, Inserts, HasNone, NewRow
<1>6. CASE v.kind = "checkout" /\ SyncFromCheckout(w, v)
  <2>1. CASE \E r \in RowsOf(v.tenant) :
          Change(w, r, [rows[r] EXCEPT !.plan = v.plan, !.status = "active",
                                       !.link = v.sub, !.customer = v.customer])
    BY <1>4, <1>6, <2>1 DEF MadeOf, RowsOf
  <2>2. CASE fresh' = [fresh EXCEPT ![w] = {NewRow(v)}] /\ UNCHANGED <<seen, obj>>
    BY <1>5, <1>6, <2>2
  <2> QED BY <1>6, <2>1, <2>2 DEF SyncFromCheckout
<1>7. CASE v.kind = "updated" /\ SyncSubscriptionStatus(w, v)
  <2>1. CASE \E r \in LinkedTo(v.sub) : \E p \in PlansAfter(v, rows[r].plan) :
          Change(w, r, [rows[r] EXCEPT !.status = FromStripe(v.status), !.plan = p])
    BY <1>4, <1>7, <2>1 DEF MadeOf, LinkedTo
  <2>2. CASE LinkedTo(v.sub) = {} /\ ChangeNothing
    BY <1>5, <1>7, <2>2 DEF ChangeNothing
  <2> QED BY <1>7, <2>1, <2>2 DEF SyncSubscriptionStatus
<1>8. CASE v.kind = "deleted" /\ CancelSubscription(w, v)
  <2>1. CASE \E r \in LinkedTo(v.sub) :
          Change(w, r, [rows[r] EXCEPT !.status = "cancelled"])
    BY <1>4, <1>8, <2>1 DEF MadeOf, LinkedTo
  <2>2. CASE LinkedTo(v.sub) = {} /\ ChangeNothing
    BY <1>5, <1>8, <2>2 DEF ChangeNothing
  <2> QED BY <1>8, <2>1, <2>2 DEF CancelSubscription
<1>9. CASE v.kind = "other" /\ ChangeNothing
  BY <1>5, <1>9 DEF ChangeNothing
<1> QED BY <1>1, <1>6, <1>7, <1>8, <1>9

LEMMA HoldsProcess ==
  ASSUME TypeInv, HoldsInv, NEW w \in Workers, ProcessEvent(w)
  PROVE  HoldsInv'
<1>1. /\ UNCHANGED <<sent, event>> /\ pc' = [pc EXCEPT ![w] = "save"]
      /\ LoadsRow(w)
  BY HandlerLoads DEF ProcessEvent
<1>2. HoldsOK(w)'
  <2>1. PICK v : v = sent[event[w]]
    OBVIOUS
  <2>2. Prepared(w, v)'
    BY <2>1, ProcessPrepares
  <2>3. Prepared(w, sent[event[w]])' /\ pc'[w] = "save"
    BY <1>1, <2>1, <2>2 DEF Prepared, Inserts, HasNone, Changes, TypeInv, TypeOK
  <2> QED BY <2>3 DEF HoldsOK
<1>3. ASSUME NEW v \in Workers \ {w} PROVE HoldsOK(v)'
  <2>1. /\ pc'[v] = pc[v] /\ seen'[v] = seen[v] /\ obj'[v] = obj[v]
        /\ fresh'[v] = fresh[v] /\ event'[v] = event[v]
    BY <1>1, <1>3 DEF LoadsRow, Change, ChangeNothing, TypeInv, TypeOK
  <2> QED BY <1>1, <2>1, HoldsKept
<1> QED BY <1>2, <1>3 DEF HoldsInv

LEMMA HoldsDeliver ==
  ASSUME TypeInv, HoldsInv, NEW w \in Workers, NEW e \in DOMAIN sent, Deliver(w, e)
  PROVE  HoldsInv'
<1>1. /\ pc[w] = "idle" /\ UNCHANGED <<sent, seen, obj, fresh>>
      /\ pc'[w] \in {"idle", "read"}
      /\ \A v \in Workers \ {w} : pc'[v] = pc[v] /\ event'[v] = event[v]
  BY DEF Deliver, TypeInv, TypeOK
<1>2. HoldsOK(w)'
  BY <1>1 DEF HoldsInv, HoldsOK
<1>3. ASSUME NEW v \in Workers \ {w} PROVE HoldsOK(v)'
  BY <1>1, <1>3, HoldsKept
<1> QED BY <1>2, <1>3 DEF HoldsInv

LEMMA HoldsReconcile ==
  ASSUME TypeInv, HoldsInv, NEW w \in Workers,
         \/ StartReconcile(w)
         \/ \E r \in DOMAIN rows : Retrieve(w, r) \/ GiveUp(w, r)
  PROVE  HoldsInv'
<1>1. /\ UNCHANGED <<sent, fresh, event>> /\ pc'[w] = "fetch"
      /\ pc[w] \in {"idle", "fetch"}
      /\ \A v \in Workers \ {w} :
           pc'[v] = pc[v] /\ seen'[v] = seen[v] /\ obj'[v] = obj[v]
  BY DEF StartReconcile, Retrieve, GiveUp, TypeInv, TypeOK
<1>2. StatusOnly(w)'
  <2>1. CASE StartReconcile(w)
    <3>1. seen'[w] = obj'[w]
      BY <2>1 DEF StartReconcile, TypeInv, TypeOK
    <3> QED BY <3>1 DEF StatusOnly
  <2>2. ASSUME NEW r \in DOMAIN rows, Retrieve(w, r) PROVE StatusOnly(w)'
    <3>1. PICK st : obj' = [obj EXCEPT ![w][r].status = st]
      BY <2>2 DEF Retrieve
    <3>2. /\ seen'[w] = seen[w] /\ StatusOnly(w)
          /\ obj'[w] = [obj[w] EXCEPT ![r].status = st]
      BY <2>2, <3>1 DEF Retrieve, HoldsInv, HoldsOK, TypeInv, TypeOK
    <3>3. \A q \in DOMAIN seen[w] : q \in DOMAIN obj[w] /\ obj[w][q] \in Row
      BY DEF TypeInv, TypeOK, SessionOK
    <3>4. \A q \in DOMAIN seen[w] :
            /\ obj'[w][q].tenant = obj[w][q].tenant
            /\ obj'[w][q].plan = obj[w][q].plan
            /\ obj'[w][q].link = obj[w][q].link
            /\ obj'[w][q].customer = obj[w][q].customer
      BY <3>2, <3>3 DEF Row
    <3> QED BY <3>2, <3>4 DEF StatusOnly
  <2>3. ASSUME NEW r \in DOMAIN rows, GiveUp(w, r) PROVE StatusOnly(w)'
    BY <2>3 DEF GiveUp, StatusOnly, HoldsInv, HoldsOK
  <2> QED BY <2>1, <2>2, <2>3
<1>3. fresh'[w] = {}
  BY <1>1 DEF HoldsInv, HoldsOK
<1>4. HoldsOK(w)'
  BY <1>1, <1>2, <1>3 DEF HoldsOK
<1>5. ASSUME NEW v \in Workers \ {w} PROVE HoldsOK(v)'
  BY <1>1, <1>5, HoldsKept
<1> QED BY <1>4, <1>5 DEF HoldsInv

LEMMA HoldsStep == TypeInv /\ HoldsInv /\ [Next]_vars => HoldsInv'
<1> SUFFICES ASSUME TypeInv, HoldsInv, [Next]_vars PROVE HoldsInv'
  OBVIOUS
<1>1. CASE \E w \in Workers : SaveEvent(w) \/ SaveReconcile(w) \/ Fail(w)
  BY <1>1, HoldsClosed DEF SaveEvent, SaveReconcile, Fail, Rollback
<1>2. CASE \E w \in Workers : \/ StartReconcile(w)
                             \/ \E r \in DOMAIN rows : Retrieve(w, r) \/ GiveUp(w, r)
  BY <1>2, HoldsReconcile
<1>3. CASE \E w \in Workers : ProcessEvent(w)
  BY <1>3, HoldsProcess
<1>4. CASE \E w \in Workers, e \in DOMAIN sent : Deliver(w, e)
  BY <1>4, HoldsDeliver
<1>5. CASE \/ UNCHANGED vars
           \/ \E n \in Tenants, p \in Plans : CreateSubscription(n, p)
  BY <1>5, HoldsKept DEF CreateSubscription, HoldsInv, vars, workerVars
<1>6. CASE \E x \in StripeSubs : OfStripe(x)
  <2>1. UNCHANGED workerVars /\ \A i \in DOMAIN sent : sent'[i] = sent[i]
    BY <1>6, StripeStep DEF StripeMoves, OneMore
  <2> QED BY <2>1, HoldsKept DEF HoldsInv, workerVars
<1> QED BY <1>1, <1>2, <1>3, <1>4, <1>5, <1>6 DEF Next, OfStripe

LEMMA HoldsAlways == Spec => []HoldsInv
BY HoldsInit, HoldsStep, TypeInvariant, PTL DEF Spec

-----------------------------------------------------------------------------
(* One row for a subscription *)

\* A commit of event v.
Saves(w, v) ==
  /\ pc[w] = "save" /\ v = sent[event[w]] /\ event[w] \notin marked
  /\ event[w] \in DOMAIN sent
  /\ marked' = marked \cup {event[w]}
  /\ \/ fresh[w] = {} /\ rows' = Flushed(w)
     \/ \E new \in fresh[w] : rows' = Append(Flushed(w), new)
  /\ log' = Append(log, event[w])
  /\ Close(w)
  /\ UNCHANGED <<stripe, sent>>

LEMMA SaveOrRollback ==
  ASSUME TypeInv, NEW w \in Workers, SaveEvent(w)
  PROVE  Rollback(w) \/ \E v : Saves(w, v)
<1>1. event[w] \in DOMAIN sent
  BY DEF SaveEvent, TypeInv, TypeOK, SessionOK
<1> QED BY <1>1 DEF SaveEvent, AlreadyMarked, Saves

\* A flush changes the loaded rows only, column by column.
LEMMA FlushedColumns ==
  ASSUME TypeInv, NEW w \in Workers, NEW r \in DOMAIN rows
  PROVE  /\ r \notin DOMAIN seen[w] => Flushed(w)[r] = rows[r]
         /\ r \in DOMAIN seen[w] =>
              \A f \in Fields :
                Flushed(w)[r][f] = IF obj[w][r][f] # seen[w][r][f]
                                   THEN obj[w][r][f] ELSE rows[r][f]
BY DEF Flushed

\* The rows after the commit of event v: one row of them, t, may be linked to
\* v's subscription now, when v is its checkout.
LEMMA SavedLinks ==
  ASSUME TypeInv, HoldsInv, NEW w \in Workers, NEW v, Saves(w, v)
  PROVE  \E t : \A q \in DOMAIN rows' :
           \/ q \in DOMAIN rows /\ rows'[q].link = rows[q].link
           \/ q = t /\ v.kind = "checkout" /\ rows'[q].link = v.sub
<1>1. Prepared(w, v)
  BY DEF Saves, HoldsInv, HoldsOK
<1>2. Flushed(w) \in Seq(Row) /\ DOMAIN Flushed(w) = DOMAIN rows
  BY FlushedType
<1>3. CASE Inserts(w, v)
  <2>1. rows' = Append(Flushed(w), NewRow(v))
    BY <1>3 DEF Inserts, Saves
  <2>2. /\ DOMAIN rows' = DOMAIN rows \cup {Len(Flushed(w)) + 1}
        /\ \A q \in DOMAIN rows : rows'[q] = Flushed(w)[q]
        /\ rows'[Len(Flushed(w)) + 1] = NewRow(v)
    BY <1>2, <2>1, AppendKeeps
  <2>3. \A q \in DOMAIN rows : Flushed(w)[q] = rows[q]
    BY <1>3, FlushedColumns DEF Inserts
  <2>4. NewRow(v).link = v.sub
    BY DEF NewRow
  <2> QED BY <1>3, <2>2, <2>3, <2>4 DEF Inserts
<1>4. CASE HasNone(w, v)
  <2>1. rows' = Flushed(w)
    BY <1>4 DEF HasNone, Saves
  <2> QED BY <1>2, <1>4, <2>1, FlushedColumns DEF HasNone
<1>5. ASSUME NEW t, Changes(w, v, t)
      PROVE  \A q \in DOMAIN rows' :
               \/ q \in DOMAIN rows /\ rows'[q].link = rows[q].link
               \/ q = t /\ v.kind = "checkout" /\ rows'[q].link = v.sub
  <2>1. rows' = Flushed(w) /\ DOMAIN seen[w] = {t}
    BY <1>5 DEF Changes, Saves
  <2>2. \A q \in DOMAIN rows : q # t => rows'[q] = rows[q]
    BY <2>1, FlushedColumns
  <2>3. t \in DOMAIN rows /\ seen[w][t] \in Row
    BY <2>1 DEF TypeInv, TypeOK, SessionOK
  <2>4. rows'[t].link = IF obj[w][t].link # seen[w][t].link
                        THEN obj[w][t].link ELSE rows[t].link
    <3>1. \A f \in Fields :
            Flushed(w)[t][f] = IF obj[w][t][f] # seen[w][t][f]
                               THEN obj[w][t][f] ELSE rows[t][f]
      BY <2>1, <2>3, FlushedColumns
    <3> QED BY <2>1, <3>1 DEF Fields
  <2>5. \/ obj[w][t].link = seen[w][t].link
        \/ v.kind = "checkout" /\ obj[w][t].link = v.sub
    BY <1>5, <2>3 DEF Changes, MadeOf, Row
  <2> QED BY <1>2, <2>1, <2>2, <2>3, <2>4, <2>5
<1> QED BY <1>1, <1>3, <1>4, <1>5 DEF Prepared

\* A reconciliation changes statuses only and adds no row.
LEMMA ReconciledLinks ==
  ASSUME TypeInv, HoldsInv, NEW w \in Workers, SaveReconcile(w)
  PROVE  /\ DOMAIN rows' = DOMAIN rows
         /\ \A q \in DOMAIN rows : /\ rows'[q].link = rows[q].link
                                  /\ rows'[q].customer = rows[q].customer
                                  /\ rows'[q].plan = rows[q].plan
                                  /\ rows'[q].tenant = rows[q].tenant
<1>1. rows' = Flushed(w) /\ pc[w] = "fetch"
  BY DEF SaveReconcile
<1>2. StatusOnly(w)
  BY <1>1 DEF HoldsInv, HoldsOK
<1>3. DOMAIN rows' = DOMAIN rows
  BY <1>1, FlushedType
<1>4. ASSUME NEW q \in DOMAIN rows
      PROVE  /\ rows'[q].link = rows[q].link /\ rows'[q].customer = rows[q].customer
             /\ rows'[q].plan = rows[q].plan /\ rows'[q].tenant = rows[q].tenant
  <2>1. CASE q \notin DOMAIN seen[w]
    BY <1>1, <2>1, FlushedColumns
  <2>2. CASE q \in DOMAIN seen[w]
    BY <1>1, <1>2, <2>2, FlushedColumns DEF StatusOnly, Fields
  <2> QED BY <2>1, <2>2
<1> QED BY <1>3, <1>4

\* A linked row's checkout is marked, and every marked event was sent.
LinkedByCheckout ==
  /\ marked \subseteq DOMAIN sent
  /\ \A r \in Linked : \E e \in marked :
       sent[e].kind = "checkout" /\ sent[e].sub = rows[r].link

LinkInv == LinksUnique /\ LinkedByCheckout

LEMMA LinkKept ==
  ASSUME LinkInv, TypeInv, marked \subseteq marked', marked' \subseteq DOMAIN sent',
         \A i \in DOMAIN sent : sent'[i] = sent[i],
         \A q \in DOMAIN rows' : rows'[q].link # NotLinked =>
           q \in DOMAIN rows /\ rows'[q].link = rows[q].link
  PROVE  LinkInv'
BY DEF LinkInv, LinksUnique, LinkedByCheckout, Linked

LEMMA LinkSaved ==
  ASSUME TypeInv, HoldsInv, SentInv, LinkInv,
         NEW w \in Workers, NEW v, Saves(w, v)
  PROVE  LinkInv'
<1>1. PICK t : \A q \in DOMAIN rows' :
        \/ q \in DOMAIN rows /\ rows'[q].link = rows[q].link
        \/ q = t /\ v.kind = "checkout" /\ rows'[q].link = v.sub
  BY SavedLinks
<1>2. /\ event[w] \notin marked /\ event[w] \in DOMAIN sent
      /\ v = sent[event[w]] /\ marked' = marked \cup {event[w]} /\ sent' = sent
  BY DEF Saves
<1>3. v.kind = "checkout" =>
        \A q \in DOMAIN rows : rows[q].link # v.sub
  <2> SUFFICES ASSUME v.kind = "checkout", NEW q \in DOMAIN rows, rows[q].link = v.sub
               PROVE  FALSE
    OBVIOUS
  <2>1. v.sub # NotLinked
    BY <1>2, SentTypes
  <2>2. PICK e \in marked : sent[e].kind = "checkout" /\ sent[e].sub = v.sub
    BY <2>1 DEF LinkInv, LinkedByCheckout, Linked
  <2>3. e \in DOMAIN sent /\ e \in Int /\ event[w] \in Int
    BY <1>2, SentTypes DEF LinkInv, LinkedByCheckout
  <2>4. e <= event[w] /\ event[w] <= e
    BY <1>2, <2>2, <2>3 DEF SentInv, CheckoutFirst
  <2> QED BY <1>2, <2>3, <2>4
<1>4. LinksUnique'
  <2> SUFFICES ASSUME NEW q \in DOMAIN rows', NEW r \in DOMAIN rows',
                      rows'[q].link # NotLinked, rows'[q].link = rows'[r].link
               PROVE  q = r
    BY DEF LinksUnique, Linked
  <2>1. \/ q \in DOMAIN rows /\ rows'[q].link = rows[q].link
        \/ q = t /\ v.kind = "checkout" /\ rows'[q].link = v.sub
    BY <1>1
  <2>2. \/ r \in DOMAIN rows /\ rows'[r].link = rows[r].link
        \/ r = t /\ v.kind = "checkout" /\ rows'[r].link = v.sub
    BY <1>1
  <2> QED BY <1>3, <2>1, <2>2 DEF LinkInv, LinksUnique, Linked
<1>5. LinkedByCheckout'
  <2>1. marked' \subseteq DOMAIN sent'
    BY <1>2 DEF LinkInv, LinkedByCheckout
  <2>2. ASSUME NEW r \in DOMAIN rows', rows'[r].link # NotLinked
        PROVE  \E e \in marked' : sent'[e].kind = "checkout" /\ sent'[e].sub = rows'[r].link
    <3>1. CASE r \in DOMAIN rows /\ rows'[r].link = rows[r].link
      BY <1>2, <2>2, <3>1 DEF LinkInv, LinkedByCheckout, Linked
    <3>2. CASE v.kind = "checkout" /\ rows'[r].link = v.sub
      BY <1>2, <3>2
    <3> QED BY <1>1, <3>1, <3>2
  <2> QED BY <2>1, <2>2 DEF LinkedByCheckout, Linked
<1> QED BY <1>4, <1>5 DEF LinkInv

LEMMA CreatedRow ==
  ASSUME TypeInv, NEW n \in Tenants, NEW p \in Plans, CreateSubscription(n, p)
  PROVE  /\ DOMAIN rows' = DOMAIN rows \cup {Len(rows) + 1}
         /\ Len(rows) + 1 \notin DOMAIN rows
         /\ \A q \in DOMAIN rows : rows'[q] = rows[q]
         /\ rows'[Len(rows) + 1].link = NotLinked
         /\ rows'[Len(rows) + 1].status = "active"
<1> DEFINE new == [tenant |-> n, plan |-> p, status |-> "active",
                  link |-> NotLinked, customer |-> NotLinked]
<1>1. /\ rows' = Append(rows, new)
      /\ new.link = NotLinked /\ new.status = "active"
  BY DEF CreateSubscription
<1> HIDE DEF new
<1>2. rows \in Seq(Row)
  BY DEF TypeInv, TypeOK
<1> QED BY <1>1, <1>2, AppendKeeps

LEMMA LinkStep ==
  TypeInv /\ HoldsInv /\ SentInv /\ LinkInv /\ [Next]_vars => LinkInv'
<1> SUFFICES ASSUME TypeInv, HoldsInv, SentInv, LinkInv, [Next]_vars PROVE LinkInv'
  OBVIOUS
<1>0. marked \subseteq DOMAIN sent
  BY DEF LinkInv, LinkedByCheckout
<1>1. ASSUME UNCHANGED <<rows, marked>>, DOMAIN sent \subseteq DOMAIN sent',
             \A i \in DOMAIN sent : sent'[i] = sent[i]
      PROVE  LinkInv'
  BY <1>0, <1>1, LinkKept
<1>2. ASSUME NEW w \in Workers, SaveEvent(w) PROVE LinkInv'
  <2>1. CASE Rollback(w)
    BY <1>1, <2>1 DEF Rollback
  <2> QED BY <1>2, <2>1, SaveOrRollback, LinkSaved
<1>3. ASSUME NEW w \in Workers, SaveReconcile(w) PROVE LinkInv'
  <2>1. UNCHANGED <<marked, sent>>
    BY <1>3 DEF SaveReconcile
  <2> QED BY <1>0, <1>3, <2>1, ReconciledLinks, LinkKept
<1>4. ASSUME NEW w \in Workers,
             \/ \E e \in DOMAIN sent : Deliver(w, e)
             \/ ProcessEvent(w) \/ StartReconcile(w) \/ Fail(w)
             \/ \E r \in DOMAIN rows : Retrieve(w, r) \/ GiveUp(w, r)
      PROVE  LinkInv'
  <2>1. UNCHANGED <<rows, marked, sent>>
    BY <1>4 DEF Deliver, ProcessEvent, StartReconcile, Fail, Rollback,
         Retrieve, GiveUp
  <2> QED BY <1>1, <2>1
<1>5. ASSUME NEW n \in Tenants, NEW p \in Plans, CreateSubscription(n, p)
      PROVE  LinkInv'
  <2>1. UNCHANGED <<marked, sent>>
    BY <1>5 DEF CreateSubscription
  <2> QED BY <1>0, <1>5, <2>1, CreatedRow, LinkKept
<1>6. ASSUME NEW x \in StripeSubs, OfStripe(x) PROVE LinkInv'
  BY <1>1, <1>6, StripeStep DEF StripeMoves, OneMore
<1>7. CASE UNCHANGED vars
  BY <1>1, <1>7 DEF vars
<1> QED BY <1>2, <1>3, <1>4, <1>5, <1>6, <1>7 DEF Next, OfStripe

LEMMA LinkAlways == Spec => []LinkInv
<1>1. Init => LinkInv
  BY DEF Init, LinkInv, LinksUnique, LinkedByCheckout, Linked
<1> QED BY <1>1, LinkStep, TypeInvariant, HoldsAlways, SentAlways, PTL DEF Spec

\* However many workers process the deliveries of a checkout at once, at most
\* one row is ever linked to its subscription: the commit that links a row is
\* the one that marks the checkout, and that happens once
\* (stripe_service.py:112-122, 154).
THEOREM OneRowPerSubscription == Spec => []LinksUnique
BY LinkAlways, PTL DEF LinkInv

-----------------------------------------------------------------------------
(* One worker *)

\* The loaded rows are as they are in the table: nobody else writes them.  An
\* update or a deletion that found no row of its subscription finds none when
\* it is saved.
AloneInv ==
  \A w \in Workers :
    /\ \A r \in DOMAIN seen[w] : seen[w][r] = rows[r]
    /\ pc[w] = "save" /\ DOMAIN seen[w] = {}
         /\ sent[event[w]].kind \in {"updated", "deleted"}
       => LinkedTo(sent[event[w]].sub) = {}

LEMMA AloneStep ==
  ASSUME TypeInv, HoldsInv, AloneInv, NEW w \in Workers, Workers = {w}, [Next]_vars
  PROVE  AloneInv'
<1>1. CASE Close(w)
  <2>1. pc'[w] = "idle" /\ seen'[w] = <<>> /\ DOMAIN <<>> = {}
    BY <1>1 DEF Close, TypeInv, TypeOK
  <2> QED BY <2>1 DEF AloneInv
<1>2. CASE SaveEvent(w) \/ SaveReconcile(w) \/ Fail(w)
  BY <1>1, <1>2 DEF SaveEvent, SaveReconcile, Fail, Rollback
<1>3. CASE ProcessEvent(w)
  <2>1. UNCHANGED <<rows, sent, event>>
    BY <1>3 DEF ProcessEvent
  <2>2. PICK v : v = sent[event[w]]
    OBVIOUS
  <2>3. /\ \A r \in DOMAIN seen'[w] : seen'[w][r] = rows[r]
        /\ DOMAIN seen'[w] = {} /\ v.kind \in {"updated", "deleted"}
             => LinkedTo(v.sub) = {}
    BY <1>3, <2>2, ProcessPrepares
  <2> QED BY <2>1, <2>2, <2>3 DEF AloneInv, LinkedTo
<1>4. CASE \E e \in DOMAIN sent : Deliver(w, e)
  <2>1. UNCHANGED <<rows, sent, seen>> /\ pc'[w] # "save"
    BY <1>4 DEF Deliver, TypeInv, TypeOK
  <2> QED BY <2>1 DEF AloneInv
<1>5. CASE StartReconcile(w)
  <2>1. /\ rows' = rows /\ pc'[w] = "fetch"
        /\ \E rs : seen'[w] = [r \in rs |-> rows[r]]
    BY <1>5 DEF StartReconcile, TypeInv, TypeOK
  <2> QED BY <2>1 DEF AloneInv
<1>6. CASE \E r \in DOMAIN rows : Retrieve(w, r) \/ GiveUp(w, r)
  <2>1. UNCHANGED <<rows, sent, seen, pc>> /\ pc[w] = "fetch"
    BY <1>6 DEF Retrieve, GiveUp
  <2> QED BY <2>1 DEF AloneInv
<1>7. ASSUME UNCHANGED workerVars, \A i \in DOMAIN sent : sent'[i] = sent[i],
             \A q \in DOMAIN rows : rows'[q] = rows[q],
             \A q \in DOMAIN rows' : q \in DOMAIN rows \/ rows'[q].link = NotLinked
      PROVE  AloneInv'
  <2>1. DOMAIN seen[w] \subseteq DOMAIN rows
    BY DEF TypeInv, TypeOK, SessionOK
  <2>2. \A r \in DOMAIN seen'[w] : seen'[w][r] = rows'[r]
    BY <1>7, <2>1 DEF AloneInv, workerVars
  <2>3. ASSUME pc[w] = "save"
        PROVE  /\ sent'[event'[w]] = sent[event[w]]
               /\ sent[event[w]].sub # NotLinked
    <3>1. event[w] \in DOMAIN sent
      BY <2>3 DEF TypeInv, TypeOK, SessionOK
    <3> QED BY <1>7, <3>1, SentTypes DEF workerVars
  <2>4. \A x : x # NotLinked /\ LinkedTo(x) = {} => LinkedTo(x)' = {}
    BY <1>7 DEF LinkedTo
  <2> QED BY <1>7, <2>2, <2>3, <2>4 DEF AloneInv, workerVars, LinkedTo
<1>8. CASE \E n \in Tenants, p \in Plans : CreateSubscription(n, p)
  <2>1. UNCHANGED <<workerVars, sent>>
    BY <1>8 DEF CreateSubscription
  <2> QED BY <1>7, <1>8, <2>1, CreatedRow
<1>9. CASE \E x \in StripeSubs : OfStripe(x)
  <2>1. /\ UNCHANGED <<rows, workerVars>>
        /\ \A i \in DOMAIN sent : sent'[i] = sent[i]
    BY <1>9, StripeStep DEF StripeMoves, OneMore
  <2> QED BY <1>7, <2>1
<1>10. CASE UNCHANGED vars
  BY <1>7, <1>10 DEF vars, workerVars
<1> QED BY <1>2, <1>3, <1>4, <1>5, <1>6, <1>8, <1>9, <1>10 DEF Next, OfStripe

\* The commit of event v by the only worker: it adds v's new row, or replaces
\* one row by what v makes of it, or changes none.
Replaces(v, t) ==
  /\ t \in DOMAIN rows /\ DOMAIN rows' = DOMAIN rows
  /\ \A q \in DOMAIN rows : q # t => rows'[q] = rows[q]
  /\ MadeOf(v, rows[t], rows'[t])

Adds(v) ==
  \E t : /\ v.kind = "checkout" /\ t \notin DOMAIN rows
         /\ DOMAIN rows' = DOMAIN rows \cup {t}
         /\ \A q \in DOMAIN rows : rows'[q] = rows[q]
         /\ rows'[t] = NewRow(v)

Leaves(v) ==
  /\ v.kind # "checkout" /\ DOMAIN rows' = DOMAIN rows
  /\ \A q \in DOMAIN rows : rows'[q] = rows[q]
  /\ v.kind \in {"updated", "deleted"} => LinkedTo(v.sub) = {}

LEMMA SavedAlone ==
  ASSUME TypeInv, HoldsInv, AloneInv, NEW w \in Workers, NEW v, Saves(w, v)
  PROVE  Adds(v) \/ Leaves(v) \/ \E t : Replaces(v, t)
<1>1. Prepared(w, v)
  BY DEF Saves, HoldsInv, HoldsOK
<1>2. Flushed(w) \in Seq(Row) /\ DOMAIN Flushed(w) = DOMAIN rows
  BY FlushedType
<1>3. CASE Inserts(w, v)
  <2>1. rows' = Append(Flushed(w), NewRow(v))
    BY <1>3 DEF Inserts, Saves
  <2>2. /\ DOMAIN rows' = DOMAIN rows \cup {Len(Flushed(w)) + 1}
        /\ Len(Flushed(w)) + 1 \notin DOMAIN rows
        /\ \A q \in DOMAIN rows : rows'[q] = Flushed(w)[q]
        /\ rows'[Len(Flushed(w)) + 1] = NewRow(v)
    BY <1>2, <2>1, AppendKeeps
  <2>3. \A q \in DOMAIN rows : Flushed(w)[q] = rows[q]
    BY <1>3, FlushedColumns DEF Inserts
  <2> QED BY <1>3, <2>2, <2>3 DEF Inserts, Adds
<1>4. CASE HasNone(w, v)
  <2>1. rows' = Flushed(w)
    BY <1>4 DEF HasNone, Saves
  <2>2. v.kind \in {"updated", "deleted"} => LinkedTo(v.sub) = {}
    BY <1>4 DEF HasNone, Saves, AloneInv
  <2> QED BY <1>2, <1>4, <2>1, <2>2, FlushedColumns DEF HasNone, Leaves
<1>5. ASSUME NEW t, Changes(w, v, t)
      PROVE  Replaces(v, t)
  <2>1. rows' = Flushed(w) /\ DOMAIN seen[w] = {t}
    BY <1>5 DEF Changes, Saves
  <2>2. \A q \in DOMAIN rows : q # t => rows'[q] = rows[q]
    BY <2>1, FlushedColumns
  <2>3. /\ t \in DOMAIN rows /\ seen[w][t] = rows[t]
        /\ seen[w][t] \in Row /\ obj[w][t] \in Row
    BY <2>1 DEF TypeInv, TypeOK, SessionOK, AloneInv
  <2>4. rows'[t] = obj[w][t]
    <3>1. /\ rows'[t] \in Row
          /\ \A f \in Fields : rows'[t][f] = obj[w][t][f]
      BY <1>2, <2>1, <2>3, FlushedColumns
    <3>2. \A f \in {"tenant", "plan", "status", "link", "customer"} :
            rows'[t][f] = obj[w][t][f]
      BY <3>1 DEF Fields
    <3> HIDE DEF Saves
    <3> QED BY <2>3, <3>1, <3>2 DEF Row
  <2> QED BY <1>2, <1>5, <2>1, <2>2, <2>3, <2>4 DEF Changes, Replaces
<1> QED BY <1>1, <1>3, <1>4, <1>5 DEF Prepared

-----------------------------------------------------------------------------
(* Customers *)

\* A linked row is of a subscription that is made, and has its customer.
OwnInv ==
  \A r \in Linked :
    /\ rows[r].link \in StripeSubs
    /\ rows[r].customer = stripe[rows[r].link].customer
    /\ stripe[rows[r].link].status \notin {"none", "open"}

\* Rows keep their pairs of subscription and customer, or get that of an event.
LEMMA OwnKept ==
  ASSUME TypeInv, SentInv, OwnInv, UNCHANGED <<stripe, sent>>, NEW e \in DOMAIN sent,
         \A q \in DOMAIN rows' : rows'[q].link # NotLinked =>
           \/ /\ q \in DOMAIN rows /\ rows'[q].link = rows[q].link
              /\ rows'[q].customer = rows[q].customer
           \/ rows'[q].link = sent[e].sub /\ rows'[q].customer = sent[e].customer
  PROVE  OwnInv'
<1>1. /\ sent[e].sub \in StripeSubs
      /\ sent[e].customer = stripe[sent[e].sub].customer
      /\ stripe[sent[e].sub].status \notin {"none", "open"}
  BY SentTypes DEF SentInv, OfTheirCustomer
<1> QED BY <1>1 DEF OwnInv, Linked

LEMMA OwnSame ==
  ASSUME OwnInv, UNCHANGED stripe,
         \A q \in DOMAIN rows' : rows'[q].link # NotLinked =>
           /\ q \in DOMAIN rows /\ rows'[q].link = rows[q].link
           /\ rows'[q].customer = rows[q].customer
  PROVE  OwnInv'
BY DEF OwnInv, Linked

LEMMA OwnSaved ==
  ASSUME TypeInv, HoldsInv, AloneInv, SentInv, OwnInv,
         NEW w \in Workers, NEW v, Saves(w, v)
  PROVE  OwnInv'
<1>1. event[w] \in DOMAIN sent /\ v = sent[event[w]] /\ UNCHANGED <<stripe, sent>>
  BY DEF Saves
<1>2. \A q \in DOMAIN rows : rows[q] \in Row
  BY DEF TypeInv, TypeOK
<1>3. \A q \in DOMAIN rows' :
        \/ /\ q \in DOMAIN rows /\ rows'[q].link = rows[q].link
           /\ rows'[q].customer = rows[q].customer
        \/ rows'[q].link = v.sub /\ rows'[q].customer = v.customer
  <2>1. CASE Adds(v)
    BY <2>1 DEF Adds, NewRow
  <2>2. CASE Leaves(v)
    BY <2>2 DEF Leaves
  <2>3. ASSUME NEW t, Replaces(v, t)
        PROVE  \/ /\ rows'[t].link = rows[t].link
                  /\ rows'[t].customer = rows[t].customer
               \/ rows'[t].link = v.sub /\ rows'[t].customer = v.customer
    BY <1>2, <2>3 DEF Replaces, MadeOf, Row
  <2> QED BY <2>1, <2>2, <2>3, SavedAlone DEF Replaces
<1> QED BY <1>1, <1>3, OwnKept

LEMMA OwnStripe ==
  ASSUME TypeInv, OwnInv, NEW x \in StripeSubs, OfStripe(x)
  PROVE  OwnInv'
<1>1. /\ rows' = rows
      /\ \A y \in StripeSubs \ {x} : stripe'[y] = stripe[y]
      /\ StripeMoves(x)
  BY StripeStep
<1>2. CASE Live(x)
  <2>1. /\ stripe'[x].customer = stripe[x].customer
        /\ stripe'[x].status \notin {"none", "open"}
    BY <1>1, <1>2 DEF StripeMoves, OneMore, Live
  <2> QED BY <1>1, <2>1 DEF OwnInv, Linked
<1>3. CASE stripe[x].status \in {"none", "open"}
  BY <1>1, <1>3 DEF OwnInv, Linked
<1> QED BY <1>1, <1>2, <1>3 DEF StripeMoves

LEMMA OwnStep ==
  ASSUME TypeInv, HoldsInv, AloneInv, SentInv, OwnInv, [Next]_vars
  PROVE  OwnInv'
<1>1. CASE UNCHANGED <<rows, stripe>>
  BY <1>1, OwnSame
<1>2. ASSUME NEW w \in Workers, SaveEvent(w) PROVE OwnInv'
  <2>1. CASE Rollback(w)
    BY <1>1, <2>1 DEF Rollback
  <2> QED BY <1>2, <2>1, SaveOrRollback, OwnSaved
<1>3. ASSUME NEW w \in Workers, SaveReconcile(w) PROVE OwnInv'
  BY <1>3, ReconciledLinks, OwnSame DEF SaveReconcile
<1>4. CASE \E w \in Workers :
             \/ \E e \in DOMAIN sent : Deliver(w, e)
             \/ ProcessEvent(w) \/ StartReconcile(w) \/ Fail(w)
             \/ \E r \in DOMAIN rows : Retrieve(w, r) \/ GiveUp(w, r)
  BY <1>1, <1>4 DEF Deliver, ProcessEvent, StartReconcile, Fail, Rollback,
       Retrieve, GiveUp
<1>5. CASE \E n \in Tenants, p \in Plans : CreateSubscription(n, p)
  <2>1. UNCHANGED stripe
    BY <1>5 DEF CreateSubscription
  <2> QED BY <1>5, <2>1, CreatedRow, OwnSame
<1>6. CASE \E x \in StripeSubs : OfStripe(x)
  BY <1>6, OwnStripe
<1>7. CASE UNCHANGED vars
  BY <1>1, <1>7 DEF vars
<1> QED BY <1>2, <1>3, <1>4, <1>5, <1>6, <1>7 DEF Next, OfStripe

LEMMA AloneAlways ==
  ASSUME NEW w \in Workers, Workers = {w}
  PROVE  Spec => []AloneInv
<1>1. Init => AloneInv
  BY DEF Init, AloneInv
<1>2. TypeInv /\ HoldsInv /\ AloneInv /\ [Next]_vars => AloneInv'
  BY AloneStep
<1> QED BY <1>1, <1>2, TypeInvariant, HoldsAlways, PTL DEF Spec

\* With one worker, a linked row always has the customer of its subscription,
\* whichever of a tenant's sessions were completed, and in whatever order their
\* events arrive (stripe_service.py:151-154).
THEOREM CustomersOwnTheirs ==
  ASSUME NEW w \in Workers, Workers = {w}
  PROVE  Spec => []CustomerOwnsSubscription
<1>1. Init => OwnInv
  BY DEF Init, OwnInv, Linked
<1>2. TypeInv /\ HoldsInv /\ AloneInv /\ SentInv /\ OwnInv /\ [Next]_vars => OwnInv'
  BY OwnStep
<1>3. OwnInv => CustomerOwnsSubscription
  BY DEF OwnInv, CustomerOwnsSubscription
<1> QED BY <1>1, <1>2, <1>3, AloneAlways, TypeInvariant, HoldsAlways, SentAlways,
           PTL DEF Spec

-----------------------------------------------------------------------------
(* Plan and status *)

\* The events of x were committed in the order they were sent.
InOrder(x) ==
  \A i, j \in DOMAIN log :
    i < j /\ log[i] \in EventsOf(x) /\ log[j] \in EventsOf(x) => log[i] < log[j]

\* They were committed in that order up to event k, and no later one was.
UpTo(x, k) ==
  /\ k \in EventsOf(x) /\ InOrder(x)
  /\ \A e \in EventsOf(x) : e \in marked <=> e <= k

\* A row has a plan at the price of the event that its subscription has come to.
PlanOK(x) ==
  \A k : UpTo(x, k) => \A r \in LinkedTo(x) :
    sent[k].plan \in Plans => rows[r].plan \in AtPriceOf(sent[k].plan)

\* Every event of x was committed in order, one of them with a status.
Told(x) ==
  AppliedInOrder(x) /\ \E e \in EventsOf(x) : sent[e].kind # "checkout"

\* Then the row has the status of x, and a reconciliation gives it no other.
StatusOK(x) ==
  Told(x) => \A r \in LinkedTo(x) :
    /\ rows[r].status = FromStripe(stripe[x].status)
    /\ \A w \in Workers : pc[w] = "fetch" /\ r \in DOMAIN seen[w]
         => obj[w][r].status = FromStripe(stripe[x].status)

MirrorInv == \A x \in StripeSubs : PlanOK(x) /\ StatusOK(x)

LEMMA AtItsOwnPrice == \A p \in Plans : p \in AtPriceOf(p)
BY DEF AtPriceOf

\* The plan is as it should be when the rows of x keep theirs and no event of
\* x is committed.
LEMMA PlanKept ==
  ASSUME NEW x, PlanOK(x),
         \A i \in EventsOf(x) : /\ i \in EventsOf(x)' /\ sent'[i] = sent[i]
                                /\ i \in marked' <=> i \in marked,
         \A i \in EventsOf(x)' : i \in marked' => i \in EventsOf(x),
         \A i \in DOMAIN sent' : i \in Int,
         InOrder(x)' => InOrder(x),
         \A r \in LinkedTo(x)' : r \in LinkedTo(x) /\ rows'[r].plan = rows[r].plan
  PROVE  PlanOK(x)'
<1> SUFFICES ASSUME NEW k, UpTo(x, k)', NEW r \in LinkedTo(x)'
             PROVE  sent'[k].plan \in Plans => rows'[r].plan \in AtPriceOf(sent'[k].plan)
  BY DEF PlanOK
<1>1. k \in EventsOf(x)' /\ k \in Int
  BY DEF UpTo, EventsOf
<1>2. k \in marked'
  BY <1>1 DEF UpTo
<1>3. k \in EventsOf(x)
  BY <1>1, <1>2
<1>4. UpTo(x, k)
  BY <1>3 DEF UpTo
<1> QED BY <1>3, <1>4 DEF PlanOK

\* The status is as it should be when x and its rows keep theirs.
LEMMA StatusKept ==
  ASSUME NEW x, StatusOK(x), Told(x)' => Told(x) /\ stripe'[x] = stripe[x],
         \A r \in LinkedTo(x)' :
           /\ r \in LinkedTo(x)
           /\ \/ rows'[r].status = rows[r].status
              \/ \E w \in Workers : /\ pc[w] = "fetch" /\ r \in DOMAIN seen[w]
                                    /\ rows'[r].status = obj[w][r].status
           /\ \A w \in Workers : pc'[w] = "fetch" /\ r \in DOMAIN seen'[w] =>
                \/ obj'[w][r].status = rows[r].status
                \/ obj'[w][r].status = FromStripe(stripe[x].status)
                \/ /\ pc[w] = "fetch" /\ r \in DOMAIN seen[w]
                   /\ obj'[w][r].status = obj[w][r].status
  PROVE  StatusOK(x)'
<1> SUFFICES ASSUME Told(x)', NEW r \in LinkedTo(x)'
             PROVE  /\ rows'[r].status = FromStripe(stripe'[x].status)
                    /\ \A w \in Workers : pc'[w] = "fetch" /\ r \in DOMAIN seen'[w]
                         => obj'[w][r].status = FromStripe(stripe'[x].status)
  BY DEF StatusOK
<1> DEFINE st == FromStripe(stripe[x].status)
<1>1. Told(x) /\ stripe'[x] = stripe[x] /\ FromStripe(stripe'[x].status) = st
  OBVIOUS
<1>2. /\ rows[r].status = st
      /\ \A w \in Workers : pc[w] = "fetch" /\ r \in DOMAIN seen[w]
           => obj[w][r].status = st
  BY <1>1 DEF StatusOK
<1> HIDE DEF st
<1> QED BY <1>1, <1>2 DEF st

\* The end of the log: what is committed before the newest event.
LEMMA Committed ==
  ASSUME TypeInv, OnceInv, NEW n \in 1..MaxEvents, log' = Append(log, n), NEW x,
         EventsOf(x)' = EventsOf(x), InOrder(x)'
  PROVE  /\ InOrder(x)
         /\ n \in EventsOf(x) => \A k \in EventsOf(x) \cap marked : k < n
<1>1. log \in Seq(1..MaxEvents)
  BY DEF TypeInv, TypeOK
<1>2. /\ DOMAIN log = 1..Len(log) /\ Len(log) \in Nat
      /\ DOMAIN log' = DOMAIN log \cup {Len(log) + 1}
      /\ \A i \in DOMAIN log : log'[i] = log[i]
      /\ log'[Len(log) + 1] = n
  BY <1>1, AppendKeeps
<1>3. InOrder(x)
  BY <1>2 DEF InOrder
<1>4. ASSUME n \in EventsOf(x), NEW k \in EventsOf(x) \cap marked
      PROVE  k < n
  <2>1. PICK i \in DOMAIN log : log[i] = k
    BY DEF OnceInv
  <2>2. i < Len(log) + 1
    BY <1>2
  <2> QED BY <1>2, <1>4, <2>1, <2>2 DEF InOrder
<1> QED BY <1>3, <1>4


\* The commit of an event of x: no row of x but the one that it changed, which
\* was x's before unless the event is the checkout of x.
LEMMA SavedOwnRow ==
  ASSUME TypeInv, HoldsInv, AloneInv, SentInv, LinkInv,
         NEW w \in Workers, NEW v, Saves(w, v), v.sub \in StripeSubs,
         NEW r \in LinkedTo(v.sub)', v.kind # "other"
  PROVE  \/ /\ v.kind = "checkout"
            /\ rows'[r].plan = v.plan
         \/ /\ v.kind \in {"updated", "deleted"} /\ r \in LinkedTo(v.sub)
            /\ rows[r] \in Row /\ MadeOf(v, rows[r], rows'[r])
<1>1. /\ event[w] \in DOMAIN sent /\ v = sent[event[w]] /\ event[w] \notin marked
      /\ event[w] \in Int
  BY SentTypes DEF Saves
<1>2. v.sub # NotLinked
  BY ConstantsAssumption
<1>3. ASSUME v.kind = "checkout" PROVE LinkedTo(v.sub) = {}
  <2> SUFFICES ASSUME NEW q \in LinkedTo(v.sub) PROVE FALSE
    OBVIOUS
  <2>1. PICK e \in marked : /\ e \in DOMAIN sent /\ sent[e].kind = "checkout"
                            /\ sent[e].sub = v.sub
    BY <1>2 DEF LinkInv, LinkedByCheckout, Linked, LinkedTo
  <2>2. e \in Int /\ e <= event[w] /\ event[w] <= e
    BY <1>1, <1>3, <2>1, SentTypes DEF SentInv, CheckoutFirst
  <2> QED BY <1>1, <2>1, <2>2
<1>4. r \in DOMAIN rows' /\ rows'[r].link = v.sub
  BY DEF LinkedTo
<1>5. CASE Adds(v)
  <2>1. PICK t : /\ v.kind = "checkout" /\ DOMAIN rows' = DOMAIN rows \cup {t}
                 /\ \A q \in DOMAIN rows : rows'[q] = rows[q]
                 /\ rows'[t] = NewRow(v)
    BY <1>5 DEF Adds
  <2>2. r = t
    BY <1>3, <1>4, <2>1 DEF LinkedTo
  <2> QED BY <2>1, <2>2 DEF NewRow
<1>6. CASE Leaves(v)
  <2>1. LinkedTo(v.sub) = {} \/ v.kind \notin {"updated", "deleted"}
    BY <1>6 DEF Leaves
  <2>2. v.kind \in {"checkout", "updated", "deleted", "other"}
    BY <1>1, SentTypes DEF Event, Kinds
  <2>3. r \in LinkedTo(v.sub)
    BY <1>4, <1>6 DEF Leaves, LinkedTo
  <2> QED BY <1>6, <2>1, <2>2, <2>3 DEF Leaves
<1>7. ASSUME NEW t, Replaces(v, t)
      PROVE  \/ v.kind = "checkout" /\ rows'[r].plan = v.plan
             \/ /\ v.kind \in {"updated", "deleted"} /\ r \in LinkedTo(v.sub)
                /\ rows[r] \in Row /\ MadeOf(v, rows[r], rows'[r])
  <2>1. /\ t \in DOMAIN rows /\ DOMAIN rows' = DOMAIN rows /\ rows[t] \in Row
        /\ \A q \in DOMAIN rows : q # t => rows'[q] = rows[q]
        /\ MadeOf(v, rows[t], rows'[t])
    BY <1>7 DEF Replaces, TypeInv, TypeOK
  <2>2. CASE v.kind = "checkout"
    <3>1. r = t
      BY <1>3, <1>4, <2>1, <2>2 DEF LinkedTo
    <3> QED BY <2>1, <2>2, <3>1 DEF MadeOf, Row
  <2>3. CASE v.kind # "checkout"
    <3>1. v.kind \in {"updated", "deleted"} /\ rows[t].link = v.sub
      BY <2>1, <2>3 DEF MadeOf
    <3>2. rows[r].link = v.sub
      BY <1>4, <2>1, <3>1
    <3>3. r = t
      BY <1>2, <1>4, <2>1, <3>1, <3>2 DEF LinkInv, LinksUnique, Linked
    <3> QED BY <2>1, <3>1, <3>3 DEF LinkedTo
  <2> QED BY <2>2, <2>3
<1> QED BY <1>5, <1>6, <1>7, SavedAlone

\* The rows of another subscription, or after an event that is not handled.
LEMMA SavedOtherRow ==
  ASSUME TypeInv, HoldsInv, AloneInv, NEW w \in Workers, NEW v, Saves(w, v),
         NEW x, x # v.sub \/ v.kind = "other", NEW r \in LinkedTo(x)'
  PROVE  /\ r \in LinkedTo(x) /\ rows'[r].plan = rows[r].plan
         /\ rows'[r].status = rows[r].status
<1>1. \A q \in DOMAIN rows : rows[q] \in Row
  BY DEF TypeInv, TypeOK
<1>2. CASE Adds(v)
  <2>1. NewRow(v).link = v.sub
    BY DEF NewRow
  <2> QED BY <1>2, <2>1 DEF Adds, LinkedTo
<1>3. CASE Leaves(v)
  BY <1>3 DEF Leaves, LinkedTo
<1>4. ASSUME NEW t, Replaces(v, t)
      PROVE  /\ r \in LinkedTo(x) /\ rows'[r].plan = rows[r].plan
             /\ rows'[r].status = rows[r].status
  <2>1. /\ t \in DOMAIN rows /\ DOMAIN rows' = DOMAIN rows /\ rows[t] \in Row
        /\ \A q \in DOMAIN rows : q # t => rows'[q] = rows[q]
        /\ MadeOf(v, rows[t], rows'[t])
    BY <1>1, <1>4 DEF Replaces
  <2>2. v.kind # "other" /\ rows'[t].link = v.sub
    BY <2>1 DEF MadeOf, Row
  <2>3. r # t
    BY <2>2 DEF LinkedTo
  <2> QED BY <2>1, <2>3 DEF LinkedTo
<1> QED BY <1>2, <1>3, <1>4, SavedAlone

LEMMA MirrorSaved ==
  ASSUME TypeInv, HoldsInv, AloneInv, SentInv, LinkInv, OnceInv, MirrorInv,
         NEW w \in Workers, Workers = {w}, NEW v, Saves(w, v)
  PROVE  MirrorInv'
<1> DEFINE n == event[w]
<1>1. /\ n \in DOMAIN sent /\ v = sent[n] /\ n \notin marked
      /\ marked' = marked \cup {n} /\ log' = Append(log, n) /\ UNCHANGED <<stripe, sent>>
  BY DEF Saves
<1>2. /\ n \in 1..MaxEvents /\ n \in Int /\ v.sub \in StripeSubs
      /\ \A i \in DOMAIN sent : i \in Int
  <2>1. Len(sent) <= MaxEvents /\ sent \in Seq(Event)
    BY DEF TypeInv, TypeOK
  <2>2. DOMAIN sent = 1..Len(sent) /\ Len(sent) \in Nat
    BY <2>1
  <2>3. n \in 1..MaxEvents
    BY <1>1, <2>1, <2>2, ConstantsAssumption
  <2> QED BY <1>1, <2>3, SentTypes
<1>3. pc'[w] = "idle"
  BY DEF Saves, Close, TypeInv, TypeOK
<1>4. \A x : EventsOf(x)' = EventsOf(x)
  BY <1>1 DEF EventsOf
<1> HIDE DEF n
<1>5. ASSUME NEW x \in StripeSubs, x # v.sub \/ v.kind = "other"
      PROVE  PlanOK(x)' /\ StatusOK(x)'
  <2>1. PlanOK(x) /\ StatusOK(x)
    BY DEF MirrorInv
  <2>2. n \notin EventsOf(x)
    BY <1>1, <1>5 DEF EventsOf
  <2>3. InOrder(x)' => InOrder(x)
    BY <1>1, <1>2, <1>4, Committed
  <2>4. \A r \in LinkedTo(x)' : /\ r \in LinkedTo(x) /\ rows'[r].plan = rows[r].plan
                                /\ rows'[r].status = rows[r].status
    BY <1>5, SavedOtherRow
  <2>5. PlanOK(x)'
    BY <1>1, <1>2, <1>4, <2>1, <2>2, <2>3, <2>4, PlanKept
  <2>6. Told(x)' => Told(x) /\ stripe'[x] = stripe[x]
    BY <1>1, <1>4, <2>2, <2>3 DEF Told, AppliedInOrder, InOrder
  <2> QED BY <1>3, <2>1, <2>4, <2>5, <2>6, StatusKept
<1>6. ASSUME v.kind # "other" PROVE PlanOK(v.sub)' /\ StatusOK(v.sub)'
  <2> DEFINE x == v.sub
  <2>1. n \in EventsOf(x)
    BY <1>1, <1>6 DEF EventsOf
  <2>2. InOrder(x)' => InOrder(x) /\ \A k \in EventsOf(x) \cap marked : k < n
    BY <1>1, <1>2, <1>4, <2>1, Committed
  <2>3. ASSUME NEW r \in LinkedTo(x)'
        PROVE  \/ v.kind = "checkout" /\ rows'[r].plan = v.plan
               \/ /\ v.kind \in {"updated", "deleted"} /\ r \in LinkedTo(x)
                  /\ rows[r] \in Row /\ MadeOf(v, rows[r], rows'[r])
    BY <1>2, <1>6, <2>3, SavedOwnRow
  <2>4. ASSUME NEW k, UpTo(x, k)'
        PROVE  k = n /\ \A i \in EventsOf(x) : i \in marked \cup {n} <=> i <= n
    <3>1. /\ k \in EventsOf(x)
          /\ \A i \in EventsOf(x) : i \in marked \cup {n} <=> i <= k
          /\ \A i \in EventsOf(x) \cap marked : i < n
      BY <1>1, <1>4, <2>2, <2>4 DEF UpTo
    <3>2. k \in Int
      BY <1>2, <3>1 DEF EventsOf
    <3>3. n <= k /\ k \in marked \cup {n}
      BY <1>2, <2>1, <3>1, <3>2
    <3>4. k = n
      BY <1>2, <3>1, <3>2, <3>3
    <3> QED BY <3>1, <3>4
  <2>5. PlanOK(x)'
    <3> SUFFICES ASSUME NEW k, UpTo(x, k)', NEW r \in LinkedTo(x)', v.plan \in Plans
                 PROVE  rows'[r].plan \in AtPriceOf(v.plan)
      BY <1>1, <2>4 DEF PlanOK
    <3>1. CASE v.kind = "checkout"
      BY <2>3, <3>1, AtItsOwnPrice
    <3>2. CASE v.kind = "updated"
      BY <2>3, <3>2 DEF MadeOf, Row, PlansAfter
    <3>3. CASE v.kind = "deleted"
      <4>1. PICK j \in EventsOf(x) : /\ j < n /\ sent[j].plan = v.plan
                                     /\ \A i \in EventsOf(x) : i < n => i <= j
        BY <1>1, <3>3 DEF SentInv, CancelKeepsPlan
      <4>2. \A i \in EventsOf(x) : i \in Int
        BY <1>2 DEF EventsOf
      <4>3. \A i \in EventsOf(x) : i \in marked <=> i <= j
        <5>1. \A i \in EventsOf(x) : i \in marked \cup {n} <=> i <= n
          BY <2>4
        <5> QED BY <1>1, <1>2, <4>1, <4>2, <5>1
      <4>4. UpTo(x, j)
        <5>1. InOrder(x)
          BY <2>2 DEF UpTo
        <5> QED BY <4>1, <4>3, <5>1 DEF UpTo
      <4>5. /\ r \in LinkedTo(x) /\ rows[r] \in Row
            /\ rows'[r] = [rows[r] EXCEPT !.status = "cancelled"]
        BY <2>3, <3>3 DEF MadeOf
      <4>6. PlanOK(x)
        BY <1>2 DEF MirrorInv
      <4> QED BY <4>1, <4>4, <4>5, <4>6 DEF PlanOK, Row
    <3> QED BY <2>3, <3>1, <3>2, <3>3
  <2>6. StatusOK(x)'
    <3> SUFFICES ASSUME Told(x)', NEW r \in LinkedTo(x)'
                 PROVE  rows'[r].status = FromStripe(stripe[x].status)
      BY <1>1, <1>3 DEF StatusOK
    <3>1. \A i \in EventsOf(x) : i \in marked \cup {n}
      BY <1>1, <1>4 DEF Told, AppliedInOrder
    <3>2. InOrder(x)'
      BY DEF Told, AppliedInOrder, InOrder
    <3>3. \A i \in EventsOf(x) : i <= n /\ i \in Int
      BY <1>2, <2>2, <3>1, <3>2 DEF EventsOf
    <3>4. stripe[x].status \notin {"none", "open"}
      BY <1>1 DEF SentInv, OfTheirCustomer
    <3>5. PICK j \in DOMAIN sent : LastOf(x, j) /\ sent[j].status = stripe[x].status
      BY <1>2, <3>4 DEF SentInv, LastSaysHow
    <3>6. j = n
      BY <1>2, <2>1, <3>3, <3>5 DEF LastOf
    <3>7. v.status = stripe[x].status
      BY <1>1, <3>5, <3>6
    <3>8. v.kind # "checkout"
      <4> SUFFICES ASSUME v.kind = "checkout" PROVE FALSE
        OBVIOUS
      <4>1. PICK i \in EventsOf(x) : sent[i].kind # "checkout"
        BY <1>1, <1>4 DEF Told
      <4>2. n <= i
        BY <1>1, <4>1 DEF SentInv, CheckoutFirst, EventsOf
      <4> QED BY <1>1, <1>2, <3>3, <4>1, <4>2
    <3>9. CASE v.kind = "updated"
      <4>1. PICK new : /\ new = FromStripe(v.status)
                       /\ rows[r] \in Row
                       /\ \E p : rows'[r] = [rows[r] EXCEPT !.status = new, !.plan = p]
        BY <2>3, <3>9 DEF MadeOf
      <4>2. rows'[r].status = new
        BY <4>1 DEF Row
      <4> QED BY <3>7, <4>1, <4>2
    <3>10. CASE v.kind = "deleted"
      <4>1. v.status = "canceled"
        BY <1>1, <3>10 DEF SentInv, CancelKeepsPlan
      <4>2. rows[r] \in Row /\ rows'[r] = [rows[r] EXCEPT !.status = "cancelled"]
        BY <2>3, <3>10 DEF MadeOf
      <4>3. rows'[r].status = "cancelled"
        BY <4>2 DEF Row
      <4> QED BY <3>7, <4>1, <4>3 DEF FromStripe
    <3> QED BY <2>3, <3>8, <3>9, <3>10
  <2> QED BY <2>5, <2>6
<1>7. ASSUME NEW x \in StripeSubs PROVE PlanOK(x)' /\ StatusOK(x)'
  BY <1>5, <1>6, <1>7
<1> QED BY <1>7 DEF MirrorInv

LEMMA MirrorReconciled ==
  ASSUME TypeInv, HoldsInv, MirrorInv, NEW w \in Workers, Workers = {w},
         SaveReconcile(w)
  PROVE  MirrorInv'
<1>1. /\ pc[w] = "fetch" /\ rows' = Flushed(w) /\ pc'[w] = "idle"
      /\ UNCHANGED <<marked, stripe, sent, log>>
  BY DEF SaveReconcile, Close, TypeInv, TypeOK
<1>2. ASSUME NEW q \in DOMAIN rows
      PROVE  \/ rows'[q].status = rows[q].status
             \/ q \in DOMAIN seen[w] /\ rows'[q].status = obj[w][q].status
  BY <1>1, FlushedColumns DEF Fields
<1>3. SUFFICES ASSUME NEW x \in StripeSubs PROVE PlanOK(x)' /\ StatusOK(x)'
  BY DEF MirrorInv
<1>4. /\ EventsOf(x)' = EventsOf(x) /\ InOrder(x)' = InOrder(x) /\ Told(x)' = Told(x)
      /\ \A i \in DOMAIN sent : i \in Int
  BY <1>1, SentTypes DEF EventsOf, InOrder, Told, AppliedInOrder
<1>5. \A r \in LinkedTo(x)' : r \in LinkedTo(x) /\ rows'[r].plan = rows[r].plan
  BY ReconciledLinks DEF LinkedTo
<1>6. PlanOK(x)'
  BY <1>1, <1>4, <1>5, PlanKept DEF MirrorInv
<1>7. \A r \in LinkedTo(x)' : r \in DOMAIN rows
  BY <1>5 DEF LinkedTo
<1>8. StatusOK(x)'
  BY <1>1, <1>2, <1>4, <1>5, <1>7, StatusKept DEF MirrorInv
<1> QED BY <1>6, <1>8

LEMMA MirrorFetch ==
  ASSUME TypeInv, AloneInv, MirrorInv, NEW w \in Workers, Workers = {w},
         \/ StartReconcile(w)
         \/ \E r \in DOMAIN rows : Retrieve(w, r) \/ GiveUp(w, r)
  PROVE  MirrorInv'
<1>1. UNCHANGED <<rows, marked, stripe, sent, log>>
  BY DEF StartReconcile, Retrieve, GiveUp
<1>2. SUFFICES ASSUME NEW x \in StripeSubs PROVE PlanOK(x)' /\ StatusOK(x)'
  BY DEF MirrorInv
<1>3. /\ EventsOf(x)' = EventsOf(x) /\ InOrder(x)' = InOrder(x) /\ Told(x)' = Told(x)
      /\ LinkedTo(x)' = LinkedTo(x) /\ \A i \in DOMAIN sent : i \in Int
  BY <1>1, SentTypes DEF EventsOf, InOrder, Told, AppliedInOrder, LinkedTo
<1>4. PlanOK(x)'
  BY <1>1, <1>3, PlanKept DEF MirrorInv
<1>5. ASSUME NEW r \in LinkedTo(x), r \in DOMAIN seen'[w]
      PROVE  \/ obj'[w][r].status = rows[r].status
             \/ obj'[w][r].status = FromStripe(stripe[x].status)
             \/ /\ pc[w] = "fetch" /\ r \in DOMAIN seen[w]
                /\ obj'[w][r].status = obj[w][r].status
  <2>1. CASE StartReconcile(w)
    <3>1. seen'[w] = obj'[w] /\ \E rs : seen'[w] = [q \in rs |-> rows[q]]
      BY <2>1 DEF StartReconcile, TypeInv, TypeOK
    <3> QED BY <1>5, <3>1
  <2>2. ASSUME NEW q \in DOMAIN rows, Retrieve(w, q)
        PROVE  \/ obj'[w][r].status = FromStripe(stripe[x].status)
               \/ /\ pc[w] = "fetch" /\ r \in DOMAIN seen[w]
                  /\ obj'[w][r].status = obj[w][r].status
    <3>1. PICK st : /\ st = FromStripe(stripe[seen[w][q].link].status)
                    /\ obj' = [obj EXCEPT ![w][q].status = st]
      BY <2>2 DEF Retrieve
    <3>2. /\ seen' = seen /\ pc[w] = "fetch" /\ q \in todo[w]
          /\ obj'[w] = [obj[w] EXCEPT ![q].status = st]
      BY <2>2, <3>1 DEF Retrieve, TypeInv, TypeOK
    <3>3. /\ r \in DOMAIN seen[w] /\ r \in DOMAIN obj[w] /\ obj[w][r] \in Row
          /\ seen[w][r] = rows[r] /\ rows[r].link = x
      BY <1>5, <3>2 DEF TypeInv, TypeOK, SessionOK, AloneInv, LinkedTo
    <3>4. CASE r = q
      <4>1. obj'[w][r].status = st
        BY <3>2, <3>3, <3>4 DEF Row
      <4>2. seen[w][q].link = x
        BY <3>3, <3>4
      <4> QED BY <3>1, <4>1, <4>2
    <3>5. CASE r # q
      BY <3>2, <3>3, <3>5
    <3> QED BY <3>4, <3>5
  <2>3. ASSUME NEW q \in DOMAIN rows, GiveUp(w, q)
        PROVE  /\ pc[w] = "fetch" /\ r \in DOMAIN seen[w]
               /\ obj'[w][r].status = obj[w][r].status
    BY <1>5, <2>3 DEF GiveUp
  <2> QED BY <2>1, <2>2, <2>3
<1>6. StatusOK(x)'
  BY <1>1, <1>3, <1>5, StatusKept DEF MirrorInv
<1> QED BY <1>4, <1>6

\* Nothing is mirrored anew while no commit is made and no run is going on.
LEMMA MirrorSame ==
  ASSUME TypeInv, MirrorInv, UNCHANGED <<marked, log, sent, stripe>>,
         \A r \in DOMAIN rows' : rows'[r].link # NotLinked =>
           r \in DOMAIN rows /\ rows'[r] = rows[r],
         \A w \in Workers : pc'[w] = "fetch" =>
           pc[w] = "fetch" /\ seen'[w] = seen[w] /\ obj'[w] = obj[w]
  PROVE  MirrorInv'
<1>1. SUFFICES ASSUME NEW x \in StripeSubs PROVE PlanOK(x)' /\ StatusOK(x)'
  BY DEF MirrorInv
<1>2. /\ EventsOf(x)' = EventsOf(x) /\ InOrder(x)' = InOrder(x) /\ Told(x)' = Told(x)
      /\ \A i \in DOMAIN sent : i \in Int
  BY SentTypes DEF EventsOf, InOrder, Told, AppliedInOrder
<1>3. \A r \in LinkedTo(x)' : r \in LinkedTo(x) /\ rows'[r] = rows[r]
  BY ConstantsAssumption DEF LinkedTo
<1>4. PlanOK(x)'
  BY <1>2, <1>3, PlanKept DEF MirrorInv
<1>5. StatusOK(x)'
  BY <1>2, <1>3, StatusKept DEF MirrorInv
<1> QED BY <1>4, <1>5

LEMMA MirrorStripe ==
  ASSUME TypeInv, SentInv, LinkInv, MirrorInv, NEW x \in StripeSubs, OfStripe(x)
  PROVE  MirrorInv'
<1>1. /\ UNCHANGED <<rows, marked, workerVars, log>>
      /\ \A y \in StripeSubs \ {x} : stripe'[y] = stripe[y]
      /\ StripeMoves(x)
  BY StripeStep
<1>2. /\ UNCHANGED <<pc, seen, obj>> /\ marked \subseteq DOMAIN sent
      /\ \A i \in DOMAIN sent : i \in Int /\ sent'[i] = sent[i]
  BY <1>1, SentTypes DEF workerVars, StripeMoves, OneMore, LinkInv, LinkedByCheckout
<1>3. SUFFICES ASSUME NEW y \in StripeSubs PROVE PlanOK(y)' /\ StatusOK(y)'
  BY DEF MirrorInv
<1>4. LinkedTo(y)' = LinkedTo(y) /\ PlanOK(y) /\ StatusOK(y)
  BY <1>1 DEF LinkedTo, MirrorInv
<1>5. \/ /\ EventsOf(y)' = EventsOf(y)
         /\ \/ stripe'[y] = stripe[y]
            \/ EventsOf(y) = {}
      \/ EventsOf(y)' = EventsOf(y) \cup {Newest} /\ Newest \notin DOMAIN sent
  <2>1. CASE sent' = sent /\ stripe[x].status = "none"
    <3>1. EventsOf(y)' = EventsOf(y)
      BY <2>1 DEF EventsOf
    <3>2. y = x => EventsOf(y) = {}
      BY <2>1 DEF EventsOf, SentInv, OfTheirCustomer
    <3> QED BY <1>1, <3>1, <3>2
  <2>2. ASSUME NEW kind, OneMore(kind, x), kind = "other" => stripe' = stripe
        PROVE  \/ EventsOf(y)' = EventsOf(y) /\ stripe'[y] = stripe[y]
               \/ EventsOf(y)' = EventsOf(y) \cup {Newest} /\ Newest \notin DOMAIN sent
    BY <1>1, <2>2, EventsAfter DEF OneMore
  <2> QED BY <1>1, <2>1, <2>2 DEF StripeMoves
<1>6. /\ EventsOf(y) \subseteq EventsOf(y)'
      /\ \A i \in EventsOf(y)' : i \in marked => i \in EventsOf(y)
      /\ \A i \in EventsOf(y) : sent'[i] = sent[i]
      /\ \A i \in DOMAIN sent' : i \in Int
  <2>1. \A i \in DOMAIN sent' : i \in Int
    BY <1>1, <1>2 DEF StripeMoves, OneMore, Newest, TypeInv, TypeOK
  <2> QED BY <1>2, <1>5, <2>1 DEF EventsOf
<1>7. InOrder(y)' => InOrder(y)
  BY <1>1, <1>6 DEF InOrder
<1>8. PlanOK(y)'
  BY <1>1, <1>4, <1>6, <1>7, PlanKept
<1>9. Told(y)' => Told(y) /\ stripe'[y] = stripe[y]
  BY <1>1, <1>2, <1>5, <1>6, <1>7 DEF Told, AppliedInOrder, InOrder
<1>10. StatusOK(y)'
  BY <1>1, <1>2, <1>4, <1>9, StatusKept
<1> QED BY <1>8, <1>10

LEMMA MirrorStep ==
  ASSUME TypeInv, HoldsInv, AloneInv, SentInv, LinkInv, OnceInv, MirrorInv,
         NEW w \in Workers, Workers = {w}, [Next]_vars
  PROVE  MirrorInv'
<1>1. CASE SaveEvent(w)
  <2>1. CASE Rollback(w)
    <3>1. pc'[w] = "idle" /\ UNCHANGED <<rows, marked, stripe, sent, log>>
      BY <2>1 DEF Rollback, Close, TypeInv, TypeOK
    <3> QED BY <3>1, MirrorSame
  <2> QED BY <1>1, <2>1, SaveOrRollback, MirrorSaved
<1>2. CASE SaveReconcile(w)
  BY <1>2, MirrorReconciled
<1>3. CASE \/ StartReconcile(w)
           \/ \E r \in DOMAIN rows : Retrieve(w, r) \/ GiveUp(w, r)
  BY <1>3, MirrorFetch
<1>4. CASE \/ \E e \in DOMAIN sent : Deliver(w, e)
           \/ ProcessEvent(w) \/ Fail(w)
  <2>1. pc'[w] # "fetch" /\ UNCHANGED <<rows, marked, stripe, sent, log>>
    BY <1>4 DEF Deliver, ProcessEvent, Fail, Rollback, Close, TypeInv, TypeOK
  <2> QED BY <2>1, MirrorSame
<1>5. CASE \E n \in Tenants, p \in Plans : CreateSubscription(n, p)
  <2>1. UNCHANGED <<marked, stripe, sent, log, workerVars>>
    BY <1>5 DEF CreateSubscription
  <2> QED BY <1>5, <2>1, CreatedRow, MirrorSame DEF workerVars
<1>6. CASE \E x \in StripeSubs : OfStripe(x)
  BY <1>6, MirrorStripe
<1>7. CASE UNCHANGED vars
  BY <1>7, MirrorSame DEF vars
<1> QED BY <1>1, <1>2, <1>3, <1>4, <1>5, <1>6, <1>7 DEF Next, OfStripe

LEMMA MirrorShows ==
  ASSUME TypeInv, SentInv, LinkInv, MirrorInv
  PROVE  MirrorsInOrder
<1> SUFFICES ASSUME NEW x \in StripeSubs, AppliedInOrder(x), NEW r \in LinkedTo(x)
             PROVE  /\ stripe[x].plan \in Plans => rows[r].plan \in AtPriceOf(stripe[x].plan)
                    /\ (\E e \in EventsOf(x) : sent[e].kind # "checkout")
                         => rows[r].status = FromStripe(stripe[x].status)
  BY DEF MirrorsInOrder
<1>1. PICK e \in DOMAIN sent : sent[e].sub = x
  BY ConstantsAssumption DEF LinkInv, LinkedByCheckout, Linked, LinkedTo
<1>2. PICK j \in DOMAIN sent : LastOf(x, j) /\ sent[j].plan = stripe[x].plan
  BY <1>1 DEF SentInv, OfTheirCustomer, LastSaysHow
<1>3. UpTo(x, j)
  BY <1>2 DEF LastOf, UpTo, AppliedInOrder, InOrder
<1> QED BY <1>2, <1>3 DEF MirrorInv, PlanOK, StatusOK, Told

\* With one worker, a row whose subscription's events were all committed in the
\* order they were sent has its plan, and its status after the checkout,
\* whatever reconciliation runs, replays, failures and events of others came in
\* between (stripe_service.py:135-182, reconciliation_service.py:46-68).
THEOREM RowsMirrorStripe ==
  ASSUME NEW w \in Workers, Workers = {w}
  PROVE  Spec => []MirrorsInOrder
<1>1. Init => MirrorInv
  BY DEF Init, MirrorInv, PlanOK, StatusOK, LinkedTo
<1>2. Init => OnceInv
  BY DEF Init, OnceInv, EventAppliedOnce
<1>3. TypeInv /\ HoldsInv /\ AloneInv /\ SentInv /\ LinkInv /\ OnceInv /\ MirrorInv
        /\ [Next]_vars => MirrorInv'
  BY MirrorStep
<1>4. TypeInv /\ SentInv /\ LinkInv /\ MirrorInv => MirrorsInOrder
  BY MirrorShows
<1> QED BY <1>1, <1>2, <1>3, <1>4, OnceStep, AloneAlways, TypeInvariant, HoldsAlways,
           SentAlways, LinkAlways, PTL DEF Spec

-----------------------------------------------------------------------------
(* Tenants *)

\* What a row names at Stripe is of the row's tenant.
RowApart(row) ==
  \A x \in {row.link, row.customer} : x # NotLinked => stripe[x].tenant = row.tenant

\* A customer pays for its own tenant, and events say whose they are.
StripeApart ==
  /\ \A x \in StripeSubs : stripe[x].customer # NotLinked =>
       stripe[stripe[x].customer].tenant = stripe[x].tenant
  /\ \A e \in DOMAIN sent : /\ stripe[sent[e].sub].tenant = sent[e].tenant
                            /\ stripe[sent[e].customer].tenant = sent[e].tenant

\* A session leaves every row to its tenant.
SessionApart(w) ==
  /\ \A r \in DOMAIN seen[w] : /\ seen[w][r].tenant = rows[r].tenant
                               /\ obj[w][r].tenant = rows[r].tenant
                               /\ RowApart(obj[w][r])
  /\ \A new \in fresh[w] : RowApart(new)

TenantInv ==
  /\ StripeApart
  /\ \A r \in DOMAIN rows : RowApart(rows[r])
  /\ \A w \in Workers : SessionApart(w)

\* Nobody moves to another tenant at Stripe.
LEMMA TenantsFixed ==
  ASSUME TypeInv, [Next]_vars
  PROVE  \A x \in StripeSubs : stripe'[x].tenant = stripe[x].tenant
<1>1. ASSUME NEW x \in StripeSubs, OfStripe(x)
      PROVE  \A y \in StripeSubs : stripe'[y].tenant = stripe[y].tenant
  <2>1. stripe \in [StripeSubs -> StripeSub]
    BY DEF TypeInv, TypeOK
  <2>2. ASSUME NEW p \in Plans, CreateCheckoutSession(x, p)
        PROVE  \A y \in StripeSubs : stripe'[y].tenant = stripe[y].tenant
    BY <2>1, <2>2 DEF CreateCheckoutSession, StripeSub
  <2>3. ASSUME NEW st \in Statuses, Subscribe(x, st)
        PROVE  \A y \in StripeSubs : stripe'[y].tenant = stripe[y].tenant
    BY <2>1, <2>3 DEF Subscribe, StripeSub
  <2>4. ASSUME NEW p, NEW st \in Statuses, Update(x, p, st)
        PROVE  \A y \in StripeSubs : stripe'[y].tenant = stripe[y].tenant
    BY <2>1, <2>4 DEF Update, StripeSub
  <2>5. CASE Cancel(x)
    BY <2>1, <2>5 DEF Cancel, StripeSub
  <2>6. CASE Notify(x)
    BY <2>6 DEF Notify
  <2> QED BY <1>1, <2>2, <2>3, <2>4, <2>5, <2>6 DEF OfStripe
<1>2. (\A x \in StripeSubs : ~OfStripe(x)) => UNCHANGED stripe
  BY DEF Next, OfStripe, vars, Deliver, ProcessEvent, SaveEvent, StartReconcile,
       SaveReconcile, Fail, Rollback, Retrieve, GiveUp, CreateSubscription
<1> QED BY <1>1, <1>2

LEMMA SameRowApart ==
  ASSUME \A x \in StripeSubs : stripe'[x].tenant = stripe[x].tenant,
         NEW row \in Row, RowApart(row)
  PROVE  RowApart(row)'
BY DEF RowApart, Row

\* The sessions that a step leaves alone.
LEMMA SessionsKept ==
  ASSUME TypeInv, TenantInv, NEW w \in Workers,
         \A x \in StripeSubs : stripe'[x].tenant = stripe[x].tenant,
         \A r \in DOMAIN rows : rows'[r].tenant = rows[r].tenant,
         seen'[w] = seen[w], obj'[w] = obj[w], fresh'[w] = fresh[w]
  PROVE  SessionApart(w)'
<1>1. /\ SessionApart(w) /\ SessionOK(w) /\ fresh[w] \subseteq Row
  BY DEF TenantInv, TypeInv, TypeOK
<1>2. \A r \in DOMAIN seen[w] : r \in DOMAIN rows /\ obj[w][r] \in Row
  BY <1>1 DEF SessionOK
<1> QED BY <1>1, <1>2, SameRowApart DEF SessionApart

LEMMA SessionClosed ==
  ASSUME TypeInv, TenantInv, NEW w \in Workers, Close(w),
         \A x \in StripeSubs : stripe'[x].tenant = stripe[x].tenant,
         \A r \in DOMAIN rows : rows'[r].tenant = rows[r].tenant
  PROVE  \A v \in Workers : SessionApart(v)'
<1>1. SessionApart(w)'
  <2>1. seen'[w] = <<>> /\ fresh'[w] = {} /\ DOMAIN <<>> = {}
    BY DEF Close, TypeInv, TypeOK
  <2> QED BY <2>1 DEF SessionApart
<1>2. ASSUME NEW v \in Workers \ {w} PROVE SessionApart(v)'
  <2>1. seen'[v] = seen[v] /\ obj'[v] = obj[v] /\ fresh'[v] = fresh[v]
    BY <1>2 DEF Close, TypeInv, TypeOK
  <2> QED BY <2>1, SessionsKept
<1> QED BY <1>1, <1>2

\* Whatever others have made of a row by then, a flush leaves it to its tenant.
LEMMA FlushedApart ==
  ASSUME TypeInv, TenantInv, NEW w \in Workers, NEW r \in DOMAIN rows
  PROVE  Flushed(w)[r].tenant = rows[r].tenant /\ RowApart(Flushed(w)[r])
<1>1. RowApart(rows[r]) /\ SessionApart(w)
  BY DEF TenantInv
<1>2. CASE r \notin DOMAIN seen[w]
  BY <1>1, <1>2, FlushedColumns
<1>3. CASE r \in DOMAIN seen[w]
  <2>1. /\ seen[w][r].tenant = rows[r].tenant /\ obj[w][r].tenant = rows[r].tenant
        /\ RowApart(obj[w][r])
    BY <1>1, <1>3 DEF SessionApart
  <2>2. /\ Flushed(w)[r].tenant = rows[r].tenant
        /\ Flushed(w)[r].link \in {obj[w][r].link, rows[r].link}
        /\ Flushed(w)[r].customer \in {obj[w][r].customer, rows[r].customer}
    BY <1>3, <2>1, FlushedColumns DEF Fields
  <2> HIDE DEF Flushed
  <2> QED BY <1>1, <2>1, <2>2 DEF RowApart
<1> QED BY <1>2, <1>3

\* A handler takes a row of its event's tenant.
LEMMA HandlersApart ==
  ASSUME TypeInv, HoldsInv, TenantInv, NEW w \in Workers, ProcessEvent(w)
  PROVE  SessionApart(w)'
<1>1. PICK v : v = sent[event[w]]
  OBVIOUS
<1>2. /\ UNCHANGED <<rows, stripe, sent>> /\ pc[w] = "read"
      /\ \/ SyncFromCheckout(w, v)
         \/ SyncSubscriptionStatus(w, v)
         \/ CancelSubscription(w, v)
         \/ ChangeNothing
  BY <1>1 DEF ProcessEvent
<1>3. /\ v.sub \in StripeSubs /\ v.customer \in StripeSubs
      /\ stripe[v.sub].tenant = v.tenant /\ stripe[v.customer].tenant = v.tenant
  <2>1. event[w] \in DOMAIN sent
    BY <1>2 DEF TypeInv, TypeOK, SessionOK
  <2> QED BY <1>1, <2>1, SentTypes DEF TenantInv, StripeApart
<1>4. \A r \in DOMAIN rows : rows[r] \in Row /\ RowApart(rows[r])
  BY DEF TypeInv, TypeOK, TenantInv
<1>5. DOMAIN seen[w] = {} /\ fresh[w] = {} /\ \A new \in fresh[w] : FALSE
  BY <1>2 DEF HoldsInv, HoldsOK
<1>6. CASE ChangeNothing
  BY <1>5, <1>6 DEF ChangeNothing, SessionApart
<1>7. ASSUME NEW r \in DOMAIN rows, NEW new, Change(w, r, new),
             new.tenant = rows[r].tenant, RowApart(new)
      PROVE  SessionApart(w)'
  <2>1. /\ seen'[w] = [i \in {r} |-> rows[r]] /\ obj'[w] = [i \in {r} |-> new]
        /\ fresh'[w] = {}
    BY <1>5, <1>7 DEF Change, TypeInv, TypeOK
  <2> QED BY <1>2, <1>7, <2>1 DEF SessionApart, RowApart
<1>8. CASE SyncFromCheckout(w, v)
  <2>1. ASSUME NEW r \in RowsOf(v.tenant)
        PROVE  LET new == [rows[r] EXCEPT !.plan = v.plan, !.status = "active",
                                          !.link = v.sub, !.customer = v.customer]
               IN  new.tenant = rows[r].tenant /\ RowApart(new)
    BY <1>3, <1>4 DEF RowsOf, Row, RowApart
  <2>2. ASSUME fresh' = [fresh EXCEPT ![w] = {NewRow(v)}], UNCHANGED <<seen, obj>>
        PROVE  SessionApart(w)'
    <3>1. fresh'[w] = {NewRow(v)} /\ DOMAIN seen'[w] = {}
      BY <1>5, <2>2 DEF TypeInv, TypeOK
    <3> QED BY <1>2, <1>3, <3>1 DEF SessionApart, RowApart, NewRow
  <2>3. RowsOf(v.tenant) \subseteq DOMAIN rows
    BY DEF RowsOf
  <2> QED BY <1>7, <1>8, <2>1, <2>2, <2>3 DEF SyncFromCheckout
<1>9. CASE SyncSubscriptionStatus(w, v)
  <2>1. ASSUME NEW r \in LinkedTo(v.sub), NEW p
        PROVE  LET new == [rows[r] EXCEPT !.status = FromStripe(v.status), !.plan = p]
               IN  new.tenant = rows[r].tenant /\ RowApart(new)
    BY <1>4 DEF LinkedTo, Row, RowApart
  <2>2. LinkedTo(v.sub) \subseteq DOMAIN rows
    BY DEF LinkedTo
  <2> QED BY <1>6, <1>7, <1>9, <2>1, <2>2 DEF SyncSubscriptionStatus
<1>10. CASE CancelSubscription(w, v)
  <2>1. ASSUME NEW r \in LinkedTo(v.sub)
        PROVE  LET new == [rows[r] EXCEPT !.status = "cancelled"]
               IN  new.tenant = rows[r].tenant /\ RowApart(new)
    BY <1>4 DEF LinkedTo, Row, RowApart
  <2>2. LinkedTo(v.sub) \subseteq DOMAIN rows
    BY DEF LinkedTo
  <2> QED BY <1>6, <1>7, <1>10, <2>1, <2>2 DEF CancelSubscription
<1> QED BY <1>2, <1>6, <1>8, <1>9, <1>10

\* So does a reconciliation.
LEMMA FetchesApart ==
  ASSUME TypeInv, TenantInv, NEW w \in Workers,
         \/ StartReconcile(w)
         \/ \E r \in DOMAIN rows : Retrieve(w, r) \/ GiveUp(w, r)
  PROVE  SessionApart(w)'
<1>1. UNCHANGED <<rows, stripe, fresh>> /\ SessionApart(w)
  BY DEF StartReconcile, Retrieve, GiveUp, TenantInv
<1>2. CASE StartReconcile(w)
  <2> DEFINE linked == {r \in DOMAIN rows : rows[r].link # NotLinked}
  <2>1. /\ seen' = [seen EXCEPT ![w] = [r \in linked |-> rows[r]]]
        /\ obj' = [obj EXCEPT ![w] = [r \in linked |-> rows[r]]]
    BY <1>2 DEF StartReconcile
  <2>2. /\ seen'[w] = [r \in linked |-> rows[r]]
        /\ obj'[w] = [r \in linked |-> rows[r]]
    BY <2>1 DEF TypeInv, TypeOK
  <2>3. \A r \in linked : r \in DOMAIN rows
    OBVIOUS
  <2> HIDE DEF linked
  <2> QED BY <1>1, <2>2, <2>3 DEF SessionApart, TenantInv, RowApart
<1>3. ASSUME NEW q \in DOMAIN rows, Retrieve(w, q) PROVE SessionApart(w)'
  <2>1. PICK st : obj' = [obj EXCEPT ![w][q].status = st]
    BY <1>3 DEF Retrieve
  <2>2. seen'[w] = seen[w] /\ obj'[w] = [obj[w] EXCEPT ![q].status = st]
    BY <1>3, <2>1 DEF Retrieve, TypeInv, TypeOK
  <2>3. \A r \in DOMAIN seen[w] : r \in DOMAIN obj[w] /\ obj[w][r] \in Row
    BY DEF TypeInv, TypeOK, SessionOK
  <2>4. \A r \in DOMAIN seen[w] :
          /\ obj'[w][r].tenant = obj[w][r].tenant
          /\ obj'[w][r].link = obj[w][r].link
          /\ obj'[w][r].customer = obj[w][r].customer
    BY <2>2, <2>3 DEF Row
  <2> QED BY <1>1, <2>2, <2>4 DEF SessionApart, RowApart
<1>4. ASSUME NEW q \in DOMAIN rows, GiveUp(w, q) PROVE SessionApart(w)'
  BY <1>1, <1>4 DEF GiveUp, SessionApart, RowApart
<1> QED BY <1>2, <1>3, <1>4

\* A session is for a customer of its tenant.
LEMMA StripeKeepsApart ==
  ASSUME TypeInv, TenantInv, NEW x \in StripeSubs, OfStripe(x),
         \A y \in StripeSubs : stripe'[y].tenant = stripe[y].tenant
  PROVE  StripeApart'
<1>1. /\ \A y \in StripeSubs \ {x} : stripe'[y] = stripe[y]
      /\ stripe \in [StripeSubs -> StripeSub] /\ stripe[x] \in StripeSub
      /\ \A y \in StripeSubs : stripe[y].customer \in StripeSubs \cup {NotLinked}
  BY StripeStep DEF TypeInv, TypeOK, StripeSub
<1>2. stripe'[x].customer # NotLinked =>
        /\ stripe'[x].customer \in StripeSubs
        /\ stripe[stripe'[x].customer].tenant = stripe[x].tenant
  <2>1. ASSUME NEW p \in Plans, CreateCheckoutSession(x, p)
        PROVE  stripe'[x].customer # NotLinked =>
                 /\ stripe'[x].customer \in StripeSubs
                 /\ stripe[stripe'[x].customer].tenant = stripe[x].tenant
    <3>1. PICK c \in CustomersOf(stripe[x].tenant) : stripe'[x].customer = c
      BY <1>1, <2>1 DEF CreateCheckoutSession, StripeSub
    <3>2. c = NotLinked \/ \E r \in RowsOf(stripe[x].tenant) : c = rows[r].customer
      BY DEF CustomersOf
    <3>3. \A r \in DOMAIN rows : RowApart(rows[r]) /\ rows[r] \in Row
      BY DEF TenantInv, TypeInv, TypeOK
    <3> QED BY <3>1, <3>2, <3>3 DEF RowsOf, RowApart, Row
  <2>2. stripe[x].customer # NotLinked =>
          stripe[stripe[x].customer].tenant = stripe[x].tenant
    BY DEF TenantInv, StripeApart
  <2>3. ~(\E p \in Plans : CreateCheckoutSession(x, p)) =>
          stripe'[x].customer \in {x, stripe[x].customer}
    <3>1. \A st \in Statuses : Subscribe(x, st) =>
            stripe'[x].customer \in {x, stripe[x].customer}
      BY <1>1 DEF Subscribe, StripeSub
    <3>2. \A p, st : Update(x, p, st) => stripe'[x].customer = stripe[x].customer
      BY <1>1 DEF Update, StripeSub
    <3>3. Cancel(x) => stripe'[x].customer = stripe[x].customer
      BY <1>1 DEF Cancel, StripeSub
    <3>4. Notify(x) => stripe'[x].customer = stripe[x].customer
      BY DEF Notify
    <3> QED BY <3>1, <3>2, <3>3, <3>4 DEF OfStripe
  <2> QED BY <1>1, <2>1, <2>2, <2>3
<1>3. \A y \in StripeSubs : stripe'[y].customer # NotLinked =>
        stripe'[stripe'[y].customer].tenant = stripe'[y].tenant
  BY <1>1, <1>2 DEF TenantInv, StripeApart
<1>4. CASE sent' = sent
  BY <1>3, <1>4, SentTypes DEF TenantInv, StripeApart
<1>5. ASSUME NEW kind, Send(kind, x),
             stripe'[x].status \notin {"none", "open"}, stripe'[x].customer # NotLinked
      PROVE  StripeApart'
  <2>1. OneMore(kind, x)
    BY <1>5, SendIsOneMore
  <2>2. sent'[Newest].tenant = stripe'[x].tenant
    <3> DEFINE e == [kind |-> kind, sub |-> x, tenant |-> stripe'[x].tenant,
                     plan |-> stripe'[x].plan, status |-> stripe'[x].status,
                     customer |-> stripe'[x].customer]
    <3>1. sent' = Append(sent, e) /\ e.tenant = stripe'[x].tenant /\ sent \in Seq(Event)
      BY <1>5 DEF Send, TypeInv, TypeOK
    <3> HIDE DEF e
    <3>2. sent'[Len(sent) + 1] = e
      BY <3>1, AppendKeeps
    <3> QED BY <3>1, <3>2 DEF Newest
  <2>3. \A e \in DOMAIN sent : /\ stripe'[sent[e].sub].tenant = sent[e].tenant
                               /\ stripe'[sent[e].customer].tenant = sent[e].tenant
    BY SentTypes DEF TenantInv, StripeApart
  <2> QED BY <1>2, <1>3, <1>5, <2>1, <2>2, <2>3 DEF OneMore, StripeApart
<1>6. sent' = sent \/ \E kind : /\ Send(kind, x)
                                /\ stripe'[x].status \notin {"none", "open"}
                                /\ stripe'[x].customer # NotLinked
  <2>1. \A st \in Statuses : Subscribe(x, st) =>
          /\ Send("checkout", x) /\ stripe'[x].status = st
          /\ stripe'[x].customer # NotLinked
    BY <1>1, ConstantsAssumption DEF Subscribe, StripeSub
  <2>2. Live(x) => stripe[x].customer # NotLinked
    BY DEF Live, TypeInv, CheckoutsOfPlans
  <2>3. \A p \in Plans \cup {OtherPrice}, st \in Statuses : Update(x, p, st) =>
          /\ Send("updated", x) /\ Live(x) /\ stripe'[x].status = st
          /\ stripe'[x].customer = stripe[x].customer
    BY <1>1 DEF Update, StripeSub
  <2>4. Cancel(x) =>
          /\ Send("deleted", x) /\ Live(x) /\ stripe'[x].status = "canceled"
          /\ stripe'[x].customer = stripe[x].customer
    BY <1>1 DEF Cancel, StripeSub
  <2>5. Notify(x) => Send("other", x) /\ Live(x) /\ stripe' = stripe
    BY DEF Notify
  <2>6. \A st \in Statuses : st \notin {"none", "open"}
    BY ConstantsAssumption
  <2>7. \A p \in Plans : CreateCheckoutSession(x, p) => sent' = sent
    BY DEF CreateCheckoutSession
  <2> QED BY <2>1, <2>2, <2>3, <2>4, <2>5, <2>6, <2>7 DEF OfStripe, Live
<1> QED BY <1>4, <1>5, <1>6

LEMMA TenantStep ==
  TypeInv /\ HoldsInv /\ TenantInv /\ [Next]_vars => TenantInv'
<1> SUFFICES ASSUME TypeInv, HoldsInv, TenantInv, [Next]_vars PROVE TenantInv'
  OBVIOUS
<1>1. \A x \in StripeSubs : stripe'[x].tenant = stripe[x].tenant
  BY TenantsFixed
<1>2. UNCHANGED <<stripe, sent>> => StripeApart'
  BY DEF TenantInv, StripeApart
<1>3. \A r \in DOMAIN rows : \A x \in {rows[r].link, rows[r].customer} :
        x # NotLinked => stripe'[x].tenant = rows[r].tenant
  <2>1. \A r \in DOMAIN rows : rows[r] \in Row /\ RowApart(rows[r])
    BY DEF TypeInv, TypeOK, TenantInv
  <2> QED BY <1>1, <2>1 DEF RowApart, Row
<1>4. ASSUME UNCHANGED <<rows, seen, obj, fresh>>, StripeApart' PROVE TenantInv'
  <2>1. \A w \in Workers : SessionApart(w)'
    BY <1>1, <1>4, SessionsKept
  <2> QED BY <1>3, <1>4, <2>1 DEF TenantInv, RowApart
<1>5. ASSUME NEW w \in Workers, UNCHANGED <<rows, stripe, sent>>, SessionApart(w)',
             \A v \in Workers \ {w} : /\ seen'[v] = seen[v] /\ obj'[v] = obj[v]
                                      /\ fresh'[v] = fresh[v]
      PROVE  TenantInv'
  <2>1. \A v \in Workers \ {w} : SessionApart(v)'
    BY <1>1, <1>5, SessionsKept
  <2> QED BY <1>2, <1>3, <1>5, <2>1 DEF TenantInv, RowApart
<1>6. ASSUME NEW w \in Workers, Close(w), UNCHANGED <<stripe, sent>>,
             \A r \in DOMAIN rows : rows'[r].tenant = rows[r].tenant,
             \A r \in DOMAIN rows' : RowApart(rows'[r])
      PROVE  TenantInv'
  <2>1. \A v \in Workers : SessionApart(v)'
    BY <1>1, <1>6, SessionClosed
  <2>2. (\A r \in DOMAIN rows : RowApart(rows[r]))'
    BY <1>6 DEF RowApart
  <2> QED BY <1>2, <1>6, <2>1, <2>2 DEF TenantInv
<1>7. ASSUME NEW w \in Workers, Rollback(w) PROVE TenantInv'
  <2>1. Close(w) /\ UNCHANGED <<rows, stripe, sent>>
    BY <1>7 DEF Rollback
  <2> QED BY <1>3, <1>6, <2>1 DEF RowApart
<1>8. ASSUME NEW w \in Workers, SaveEvent(w) \/ SaveReconcile(w) PROVE TenantInv'
  <2>1. CASE Rollback(w)
    BY <1>7, <2>1
  <2>2. CASE ~Rollback(w)
    <3>1. /\ Close(w) /\ UNCHANGED <<stripe, sent>>
          /\ \/ rows' = Flushed(w)
             \/ \E new \in fresh[w] : rows' = Append(Flushed(w), new)
      BY <1>8, <2>2 DEF SaveEvent, SaveReconcile
    <3>2. Flushed(w) \in Seq(Row) /\ DOMAIN Flushed(w) = DOMAIN rows
      BY FlushedType
    <3>3. \A r \in DOMAIN rows : /\ Flushed(w)[r].tenant = rows[r].tenant
                                 /\ RowApart(Flushed(w)[r])
      BY FlushedApart
    <3>4. \A new \in fresh[w] : RowApart(new)
      BY DEF TenantInv, SessionApart
    <3>5. CASE rows' = Flushed(w)
      BY <1>6, <3>1, <3>2, <3>3, <3>5
    <3>6. ASSUME NEW new \in fresh[w], rows' = Append(Flushed(w), new)
          PROVE  TenantInv'
      <4>1. /\ DOMAIN rows' = DOMAIN rows \cup {Len(Flushed(w)) + 1}
            /\ \A r \in DOMAIN rows : rows'[r] = Flushed(w)[r]
            /\ rows'[Len(Flushed(w)) + 1] = new
        BY <3>2, <3>6, AppendKeeps
      <4> QED BY <1>6, <3>1, <3>3, <3>4, <4>1
    <3> QED BY <3>1, <3>5, <3>6
  <2> QED BY <2>1, <2>2
<1>9. ASSUME NEW w \in Workers, Fail(w) PROVE TenantInv'
  BY <1>7, <1>9 DEF Fail
<1>10. ASSUME NEW w \in Workers, ProcessEvent(w) PROVE TenantInv'
  <2>1. UNCHANGED <<rows, stripe, sent>> /\ SessionApart(w)'
    BY <1>10, HandlersApart DEF ProcessEvent
  <2>2. \A v \in Workers \ {w} : /\ seen'[v] = seen[v] /\ obj'[v] = obj[v]
                                 /\ fresh'[v] = fresh[v]
    <3>1. LoadsRow(w)
      BY <1>10, HandlerLoads
    <3> QED BY <3>1 DEF LoadsRow, Change, ChangeNothing, TypeInv, TypeOK
  <2> QED BY <1>5, <2>1, <2>2
<1>11. ASSUME NEW w \in Workers,
              \/ StartReconcile(w)
              \/ \E r \in DOMAIN rows : Retrieve(w, r) \/ GiveUp(w, r)
       PROVE  TenantInv'
  <2>1. /\ UNCHANGED <<rows, stripe, sent>>
        /\ \A v \in Workers \ {w} : /\ seen'[v] = seen[v] /\ obj'[v] = obj[v]
                                    /\ fresh'[v] = fresh[v]
    BY <1>11 DEF StartReconcile, Retrieve, GiveUp, TypeInv, TypeOK
  <2> QED BY <1>5, <1>11, <2>1, FetchesApart
<1>12. ASSUME NEW w \in Workers, NEW e \in DOMAIN sent, Deliver(w, e) PROVE TenantInv'
  <2>1. UNCHANGED <<rows, stripe, sent, seen, obj, fresh>>
    BY <1>12 DEF Deliver
  <2> QED BY <1>2, <1>4, <2>1
<1>13. ASSUME NEW n \in Tenants, NEW p \in Plans, CreateSubscription(n, p)
       PROVE  TenantInv'
  <2>1. UNCHANGED <<stripe, sent, seen, obj, fresh>>
    BY <1>13 DEF CreateSubscription, workerVars
  <2> DEFINE new == [tenant |-> n, plan |-> p, status |-> "active",
                     link |-> NotLinked, customer |-> NotLinked]
  <2>2. rows' = Append(rows, new) /\ RowApart(new) /\ rows \in Seq(Row)
    BY <1>13 DEF CreateSubscription, RowApart, TypeInv, TypeOK
  <2> HIDE DEF new
  <2>3. /\ DOMAIN rows' = DOMAIN rows \cup {Len(rows) + 1}
        /\ \A r \in DOMAIN rows : rows'[r] = rows[r]
        /\ rows'[Len(rows) + 1] = new
    BY <2>2, AppendKeeps
  <2>4. \A w \in Workers : SessionApart(w)'
    BY <1>1, <2>1, <2>3, SessionsKept
  <2> QED BY <1>2, <1>3, <2>1, <2>2, <2>3, <2>4 DEF TenantInv, RowApart
<1>14. ASSUME NEW x \in StripeSubs, OfStripe(x) PROVE TenantInv'
  <2>1. UNCHANGED <<rows, seen, obj, fresh>>
    BY <1>14, StripeStep DEF workerVars
  <2> QED BY <1>1, <1>4, <1>14, <2>1, StripeKeepsApart
<1>15. CASE UNCHANGED vars
  BY <1>2, <1>4, <1>15 DEF vars
<1> QED BY <1>8, <1>9, <1>10, <1>11, <1>12, <1>13, <1>14, <1>15 DEF Next, OfStripe

\* However many workers, sessions and customers there are, what a row names at
\* Stripe is of the row's own tenant (stripe_service.py:67-81, 140-154).
THEOREM TenantsStayApart == Spec => []TenantsApart
<1>1. Init => TenantInv
  BY DEF Init, TenantInv, StripeApart, SessionApart
<1>2. TenantInv => TenantsApart
  BY DEF TenantInv, TenantsApart, RowApart
<1> QED BY <1>1, <1>2, TenantStep, TypeInvariant, HoldsAlways, PTL DEF Spec

-----------------------------------------------------------------------------
(* Rows show what their own subscription has had *)

\* Plan p is at the price some event about x says, and st is what another makes
\* of a status.
Shows(x, p, st) ==
  \E e, f \in EventsOf(x) :
    p \in AtPriceOf(sent[e].plan) /\ st \in {"active", FromStripe(sent[f].status)}

\* The rows do, and so does what a reconciliation has made of them.
ShownInv ==
  /\ \A r \in Linked : Shows(rows[r].link, rows[r].plan, rows[r].status)
  /\ \A w \in Workers : pc[w] = "fetch" =>
       \A r \in DOMAIN seen[w] :
         /\ rows[r].link # NotLinked
         /\ Shows(rows[r].link, rows[r].plan, obj[w][r].status)

\* Events stay as they were sent.
LEMMA SentStays ==
  ASSUME TypeInv, [Next]_vars
  PROVE  \A i \in DOMAIN sent : i \in DOMAIN sent' /\ sent'[i] = sent[i]
<1>1. ASSUME NEW x \in StripeSubs, OfStripe(x)
      PROVE  \A i \in DOMAIN sent : i \in DOMAIN sent' /\ sent'[i] = sent[i]
  BY <1>1, StripeStep DEF StripeMoves, OneMore
<1>2. (\A x \in StripeSubs : ~OfStripe(x)) => sent' = sent
  BY DEF Next, OfStripe, vars, Deliver, ProcessEvent, SaveEvent, StartReconcile,
       SaveReconcile, Fail, Rollback, Retrieve, GiveUp, CreateSubscription
<1> QED BY <1>1, <1>2

LEMMA ShowsStays ==
  ASSUME \A i \in DOMAIN sent : i \in DOMAIN sent' /\ sent'[i] = sent[i],
         NEW x, NEW p, NEW st, Shows(x, p, st)
  PROVE  Shows(x, p, st)'
<1>1. PICK e \in EventsOf(x), f \in EventsOf(x) :
        p \in AtPriceOf(sent[e].plan) /\ st \in {"active", FromStripe(sent[f].status)}
  BY DEF Shows
<1>2. e \in EventsOf(x)' /\ f \in EventsOf(x)' /\ sent'[e] = sent[e] /\ sent'[f] = sent[f]
  BY DEF EventsOf
<1> QED BY <1>1, <1>2 DEF Shows

\* What a step leaves of the rows, and of the runs that go on, is shown still.
LEMMA ShownKept ==
  ASSUME TypeInv, ShownInv,
         \A i \in DOMAIN sent : i \in DOMAIN sent' /\ sent'[i] = sent[i],
         \A q \in DOMAIN rows : rows'[q] = rows[q],
         \A q \in DOMAIN rows' : q \in DOMAIN rows \/ rows'[q].link = NotLinked,
         \A w \in Workers : pc'[w] = "fetch" =>
           pc[w] = "fetch" /\ seen'[w] = seen[w] /\ obj'[w] = obj[w]
  PROVE  ShownInv'
<1>1. ASSUME NEW r \in DOMAIN rows', rows'[r].link # NotLinked
      PROVE  Shows(rows[r].link, rows[r].plan, rows[r].status)' /\ r \in DOMAIN rows
  <2>1. r \in DOMAIN rows /\ Shows(rows[r].link, rows[r].plan, rows[r].status)
    BY <1>1 DEF ShownInv, Linked
  <2>2. PICK row : row = rows[r]
    OBVIOUS
  <2>3. Shows(row.link, row.plan, row.status)'
    BY <2>1, <2>2, ShowsStays
  <2>4. rows'[r] = row
    BY <2>1, <2>2
  <2> QED BY <2>1, <2>3, <2>4
<1>2. ASSUME NEW w \in Workers, pc'[w] = "fetch", NEW r \in DOMAIN seen'[w]
      PROVE  /\ rows'[r].link # NotLinked
             /\ Shows(rows[r].link, rows[r].plan, obj[w][r].status)'
  <2>1. /\ pc[w] = "fetch" /\ seen'[w] = seen[w] /\ obj'[w] = obj[w]
        /\ r \in DOMAIN seen[w] /\ r \in DOMAIN rows
    BY <1>2 DEF TypeInv, TypeOK, SessionOK
  <2>2. PICK row, st : row = rows[r] /\ st = obj[w][r].status
    OBVIOUS
  <2>3. row.link # NotLinked /\ Shows(row.link, row.plan, st)
    BY <2>1, <2>2 DEF ShownInv
  <2>4. Shows(row.link, row.plan, st)'
    BY <2>3, ShowsStays
  <2>5. rows'[r] = row /\ obj'[w][r].status = st
    BY <2>1, <2>2
  <2> QED BY <2>3, <2>4, <2>5
<1> QED BY <1>1, <1>2 DEF ShownInv, Linked

\* The row that event v leaves shows v, or v's status beside the old plan.
LEMMA ShownSaved ==
  ASSUME TypeInv, HoldsInv, AloneInv, SentInv, ShownInv,
         NEW w \in Workers, Workers = {w}, NEW v, Saves(w, v)
  PROVE  ShownInv'
<1> DEFINE n == event[w]
<1>1. /\ n \in DOMAIN sent /\ v = sent[n] /\ UNCHANGED sent
      /\ \A q \in DOMAIN rows : rows[q] \in Row
      /\ pc'[w] = "idle"
  BY DEF Saves, Close, TypeInv, TypeOK
<1> HIDE DEF n
<1>2. v.kind # "other" => n \in EventsOf(v.sub)
  BY <1>1 DEF EventsOf
<1>3. SUFFICES ASSUME NEW q \in DOMAIN rows', rows'[q].link # NotLinked
               PROVE  Shows(rows'[q].link, rows'[q].plan, rows'[q].status)
  <2>1. \A x, p, st : Shows(x, p, st) => Shows(x, p, st)'
    BY <1>1, ShowsStays
  <2>2. ASSUME \A q \in DOMAIN rows' : rows'[q].link # NotLinked =>
                 Shows(rows'[q].link, rows'[q].plan, rows'[q].status)
        PROVE  \A q \in DOMAIN rows' : rows'[q].link # NotLinked =>
                 Shows(rows[q].link, rows[q].plan, rows[q].status)'
    BY <2>1, <2>2
  <2> QED BY <1>1, <2>2, <1>3 DEF ShownInv, Linked
<1>4. CASE q \in DOMAIN rows /\ rows'[q] = rows[q]
  BY <1>3, <1>4 DEF ShownInv, Linked
<1>5. CASE /\ v.kind = "checkout" /\ rows'[q].link = v.sub
           /\ rows'[q].plan = v.plan /\ rows'[q].status = "active"
  <2>1. v.plan \in AtPriceOf(v.plan)
    BY <1>1, <1>5, AtItsOwnPrice DEF TypeInv, CheckoutsOfPlans
  <2> QED BY <1>1, <1>2, <1>5, <2>1 DEF Shows
<1>6. CASE /\ v.kind \in {"updated", "deleted"} /\ q \in DOMAIN rows
           /\ rows[q].link = v.sub /\ MadeOf(v, rows[q], rows'[q])
  <2>1. /\ rows'[q].link = v.sub
        /\ rows'[q].plan \in AtPriceOf(v.plan) \cup {rows[q].plan}
        /\ rows'[q].status = FromStripe(v.status)
    <3>1. CASE v.kind = "updated"
      BY <1>1, <1>6, <3>1 DEF MadeOf, Row, PlansAfter
    <3>2. CASE v.kind = "deleted"
      <4>1. /\ rows'[q] = [rows[q] EXCEPT !.status = "cancelled"]
            /\ v.status = "canceled"
        BY <1>1, <1>6, <3>2 DEF MadeOf, SentInv, CancelKeepsPlan
      <4>2. rows'[q].status = "cancelled" /\ rows'[q].link = v.sub
            /\ rows'[q].plan = rows[q].plan
        BY <1>1, <1>6, <4>1 DEF Row
      <4> QED BY <4>1, <4>2 DEF FromStripe
    <3> QED BY <1>6, <3>1, <3>2
  <2>2. PICK e \in EventsOf(v.sub) : rows[q].plan \in AtPriceOf(sent[e].plan)
    BY <1>3, <1>6, <2>1 DEF ShownInv, Linked, Shows
  <2> QED BY <1>1, <1>2, <1>6, <2>1, <2>2 DEF Shows
<1>7. CASE Adds(v)
  BY <1>4, <1>5, <1>7 DEF Adds, NewRow
<1>8. CASE Leaves(v)
  BY <1>4, <1>8 DEF Leaves
<1>9. ASSUME NEW t, Replaces(v, t)
      PROVE  Shows(rows'[q].link, rows'[q].plan, rows'[q].status)
  <2>1. CASE q # t
    BY <1>4, <1>9, <2>1 DEF Replaces
  <2>2. CASE q = t /\ v.kind = "checkout"
    BY <1>1, <1>5, <1>9, <2>2 DEF Replaces, MadeOf, Row
  <2>3. CASE q = t /\ v.kind # "checkout"
    BY <1>6, <1>9, <2>3 DEF Replaces, MadeOf
  <2> QED BY <2>1, <2>2, <2>3
<1> QED BY <1>7, <1>8, <1>9, SavedAlone

\* A run takes the status that the newest event of a subscription says.
LEMMA ShownFetch ==
  ASSUME TypeInv, AloneInv, SentInv, OwnInv, ShownInv,
         NEW w \in Workers, Workers = {w},
         \/ StartReconcile(w)
         \/ \E r \in DOMAIN rows : Retrieve(w, r) \/ GiveUp(w, r)
  PROVE  ShownInv'
<1>1. UNCHANGED <<rows, stripe, sent>>
  BY DEF StartReconcile, Retrieve, GiveUp
<1>2. ASSUME NEW r \in DOMAIN seen'[w]
      PROVE  /\ r \in Linked
             /\ Shows(rows[r].link, rows[r].plan, obj'[w][r].status)
  <2>1. CASE StartReconcile(w)
    <3> DEFINE linked == {q \in DOMAIN rows : rows[q].link # NotLinked}
    <3>1. /\ seen' = [seen EXCEPT ![w] = [q \in linked |-> rows[q]]]
          /\ obj' = [obj EXCEPT ![w] = [q \in linked |-> rows[q]]]
      BY <2>1 DEF StartReconcile
    <3>2. /\ seen'[w] = [q \in linked |-> rows[q]]
          /\ obj'[w] = [q \in linked |-> rows[q]]
      BY <3>1 DEF TypeInv, TypeOK
    <3>3. linked = Linked
      BY DEF Linked
    <3> HIDE DEF linked
    <3> QED BY <1>2, <3>2, <3>3 DEF ShownInv
  <2>2. ASSUME \E q \in DOMAIN rows : Retrieve(w, q) \/ GiveUp(w, q)
        PROVE  /\ pc[w] = "fetch" /\ seen'[w] = seen[w] /\ r \in DOMAIN obj[w]
               /\ r \in Linked /\ obj[w][r] \in Row /\ seen[w][r] = rows[r]
               /\ Shows(rows[r].link, rows[r].plan, obj[w][r].status)
    <3>1. pc[w] = "fetch" /\ seen'[w] = seen[w]
      BY <2>2 DEF Retrieve, GiveUp
    <3>2. /\ r \in DOMAIN obj[w] /\ r \in DOMAIN rows /\ obj[w][r] \in Row
          /\ seen[w][r] = rows[r]
      BY <1>2, <3>1 DEF TypeInv, TypeOK, SessionOK, AloneInv
    <3> QED BY <1>2, <3>1, <3>2 DEF ShownInv, Linked
  <2>3. ASSUME NEW q \in DOMAIN rows, Retrieve(w, q)
        PROVE  r \in Linked /\ Shows(rows[r].link, rows[r].plan, obj'[w][r].status)
    <3>1. PICK st : /\ st = FromStripe(stripe[seen[w][q].link].status)
                    /\ obj' = [obj EXCEPT ![w][q].status = st]
      BY <2>3 DEF Retrieve
    <3>2. obj'[w] = [obj[w] EXCEPT ![q].status = st]
      BY <3>1 DEF TypeInv, TypeOK
    <3>3. /\ r \in Linked /\ obj[w][r] \in Row /\ seen[w][r] = rows[r]
          /\ r \in DOMAIN obj[w]
          /\ Shows(rows[r].link, rows[r].plan, obj[w][r].status)
      BY <2>2, <2>3
    <3>4. CASE r # q
      BY <3>2, <3>3, <3>4
    <3>5. CASE r = q
      <4>1. obj'[w][r].status = st
        BY <3>2, <3>3, <3>5 DEF Row
      <4>2. PICK x \in StripeSubs : /\ x = rows[r].link
                                    /\ stripe[x].status \notin {"none", "open"}
        BY <3>3 DEF OwnInv
      <4>3. PICK j \in EventsOf(x) : sent[j].status = stripe[x].status
        BY <4>2 DEF SentInv, LastSaysHow, LastOf
      <4>4. PICK e \in EventsOf(x) : rows[r].plan \in AtPriceOf(sent[e].plan)
        BY <3>3, <4>2 DEF Shows
      <4>5. st = FromStripe(sent[j].status)
        BY <3>1, <3>3, <3>5, <4>2, <4>3
      <4> QED BY <3>3, <4>1, <4>2, <4>3, <4>4, <4>5 DEF Shows
    <3> QED BY <3>4, <3>5
  <2>4. ASSUME NEW q \in DOMAIN rows, GiveUp(w, q)
        PROVE  r \in Linked /\ Shows(rows[r].link, rows[r].plan, obj'[w][r].status)
    <3>1. obj' = obj
      BY <2>4 DEF GiveUp
    <3> QED BY <2>2, <2>4, <3>1
  <2> QED BY <2>1, <2>3, <2>4
<1>3. \A x, p, st : Shows(x, p, st) => Shows(x, p, st)'
  BY <1>1, ShowsStays
<1>4. \A r \in DOMAIN seen'[w] : Shows(rows[r].link, rows[r].plan, obj[w][r].status)'
  BY <1>1, <1>2, <1>3
<1>5. \A r \in Linked : Shows(rows[r].link, rows[r].plan, rows[r].status)'
  BY <1>1, <1>3 DEF ShownInv
<1> QED BY <1>1, <1>2, <1>4, <1>5 DEF ShownInv, Linked

LEMMA ShownReconciled ==
  ASSUME TypeInv, HoldsInv, ShownInv, NEW w \in Workers, Workers = {w},
         SaveReconcile(w)
  PROVE  ShownInv'
<1>1. /\ pc[w] = "fetch" /\ rows' = Flushed(w) /\ pc'[w] = "idle" /\ UNCHANGED sent
  BY DEF SaveReconcile, Close, TypeInv, TypeOK
<1>2. ASSUME NEW q \in DOMAIN rows
      PROVE  \/ rows'[q].status = rows[q].status
             \/ q \in DOMAIN seen[w] /\ rows'[q].status = obj[w][q].status
  BY <1>1, FlushedColumns DEF Fields
<1>3. /\ DOMAIN rows' = DOMAIN rows
      /\ \A q \in DOMAIN rows : rows'[q].link = rows[q].link /\ rows'[q].plan = rows[q].plan
  BY ReconciledLinks
<1>4. \A q \in DOMAIN rows : rows[q].link # NotLinked =>
        Shows(rows'[q].link, rows'[q].plan, rows'[q].status)
  BY <1>1, <1>2, <1>3 DEF ShownInv, Linked
<1>5. \A x, p, st : Shows(x, p, st) => Shows(x, p, st)'
  BY <1>1, ShowsStays
<1>6. \A q \in DOMAIN rows : rows[q].link # NotLinked =>
        Shows(rows[q].link, rows[q].plan, rows[q].status)'
  BY <1>4, <1>5
<1> QED BY <1>1, <1>3, <1>6 DEF ShownInv, Linked

LEMMA ShownStep ==
  ASSUME TypeInv, HoldsInv, AloneInv, SentInv, OwnInv, ShownInv,
         NEW w \in Workers, Workers = {w}, [Next]_vars
  PROVE  ShownInv'
<1>0. \A i \in DOMAIN sent : i \in DOMAIN sent' /\ sent'[i] = sent[i]
  BY SentStays
<1>1. ASSUME rows' = rows, pc'[w] # "fetch" PROVE ShownInv'
  BY <1>0, <1>1, ShownKept
<1>2. ASSUME UNCHANGED workerVars, \A q \in DOMAIN rows : rows'[q] = rows[q],
             \A q \in DOMAIN rows' : q \in DOMAIN rows \/ rows'[q].link = NotLinked
      PROVE  ShownInv'
  BY <1>0, <1>2, ShownKept DEF workerVars
<1>3. CASE Rollback(w)
  <2>1. pc'[w] = "idle" /\ rows' = rows
    BY <1>3 DEF Rollback, Close, TypeInv, TypeOK
  <2> QED BY <1>1, <2>1
<1>4. CASE SaveEvent(w)
  BY <1>3, <1>4, SaveOrRollback, ShownSaved
<1>5. CASE SaveReconcile(w)
  BY <1>5, ShownReconciled
<1>6. CASE \/ StartReconcile(w)
           \/ \E r \in DOMAIN rows : Retrieve(w, r) \/ GiveUp(w, r)
  BY <1>6, ShownFetch
<1>7. CASE Fail(w)
  BY <1>3, <1>7 DEF Fail
<1>8. CASE ProcessEvent(w) \/ \E e \in DOMAIN sent : Deliver(w, e)
  <2>1. rows' = rows /\ pc'[w] # "fetch"
    BY <1>8 DEF ProcessEvent, Deliver, TypeInv, TypeOK
  <2> QED BY <1>1, <2>1
<1>9. CASE \E n \in Tenants, p \in Plans : CreateSubscription(n, p)
  <2>1. UNCHANGED workerVars
    BY <1>9 DEF CreateSubscription
  <2> QED BY <1>2, <1>9, <2>1, CreatedRow
<1>10. CASE \E x \in StripeSubs : OfStripe(x)
  <2>1. UNCHANGED <<rows, workerVars>>
    BY <1>10, StripeStep
  <2> QED BY <1>2, <2>1
<1>11. CASE UNCHANGED vars
  BY <1>2, <1>11 DEF vars, workerVars
<1> QED BY <1>4, <1>5, <1>6, <1>7, <1>8, <1>9, <1>10, <1>11 DEF Next, OfStripe

\* With one worker, a row shows nothing that its own subscription has not had:
\* neither what it showed of a subscription it was linked to before, nor what a
\* run that began before the relink has fetched (stripe_service.py:149-182,
\* reconciliation_service.py:46-68).
THEOREM RowsShowTheirOwn ==
  ASSUME NEW w \in Workers, Workers = {w}
  PROVE  Spec => []MirrorsItsOwn
<1>1. Init => ShownInv
  BY DEF Init, ShownInv, Linked
<1>2. Init => OwnInv
  BY DEF Init, OwnInv, Linked
<1>3. TypeInv /\ HoldsInv /\ AloneInv /\ SentInv /\ OwnInv /\ ShownInv
        /\ [Next]_vars => ShownInv'
  BY ShownStep
<1>4. TypeInv /\ HoldsInv /\ AloneInv /\ SentInv /\ OwnInv /\ [Next]_vars => OwnInv'
  BY OwnStep
<1>5. ShownInv => MirrorsItsOwn
  BY DEF ShownInv, Shows, MirrorsItsOwn
<1> QED BY <1>1, <1>2, <1>3, <1>4, <1>5, AloneAlways, TypeInvariant, HoldsAlways,
           SentAlways, PTL DEF Spec

-----------------------------------------------------------------------------
(* The table that metering and billing read *)

\* POST /subscriptions makes rows up to its bound; every other row was made
\* by an event of its own.
RoomInv == Len(rows) <= MaxRows + Len(log)

\* An event is committed once, so there are no more commits than events.
LEMMA LogBounded ==
  ASSUME TypeInv, OnceInv
  PROVE  Len(log) \in Nat /\ Len(log) <= MaxEvents
<1>1. log \in Seq(1..MaxEvents) /\ Len(log) \in Nat /\ MaxEvents \in Nat
  BY DEF TypeInv, TypeOK
<1>2. log \in [1..Len(log) -> 1..MaxEvents] /\ DOMAIN log = 1..Len(log)
  BY <1>1
<1>3. ASSUME NEW n \in Nat PROVE IsFiniteSet(1..n) /\ Cardinality(1..n) = n
  <2>1. /\ IsFiniteSet(1..n)
        /\ Cardinality(1..n) = IF 1 > n THEN 0 ELSE n - 1 + 1
    BY FS_Interval
  <2> QED BY <2>1
<1>4. ASSUME MaxEvents < Len(log) PROVE FALSE
  <2>1. /\ IsFiniteSet(1..Len(log)) /\ IsFiniteSet(1..MaxEvents)
        /\ Cardinality(1..MaxEvents) < Cardinality(1..Len(log))
    BY <1>1, <1>3, <1>4
  <2>2. \E i, j \in 1..Len(log) : i # j /\ log[i] = log[j]
    BY <1>2, <2>1, FS_PigeonHole
  <2> QED BY <1>2, <2>2 DEF OnceInv, EventAppliedOnce
<1> QED BY <1>1, <1>4

HaveIds == DOMAIN rows \subseteq Ids

LEMMA RowsHaveIds == TypeInv /\ OnceInv /\ RoomInv => HaveIds
BY LogBounded DEF TypeInv, TypeOK, RoomInv, HaveIds, Ids

\* The rows after the commit of event v: one more, made for v; or as before but
\* for the plan and status, and what readers do not see, of one row t.
LEMMA SavedRows ==
  ASSUME TypeInv, HoldsInv, NEW w \in Workers, NEW v, Saves(w, v)
  PROVE  \/ /\ v.kind = "checkout"
            /\ DOMAIN rows' = DOMAIN rows \cup {Len(rows) + 1}
            /\ \A q \in DOMAIN rows : rows'[q] = rows[q]
            /\ rows'[Len(rows) + 1] = NewRow(v)
         \/ /\ DOMAIN rows' = DOMAIN rows
            /\ \A q \in DOMAIN rows : rows'[q] = rows[q]
         \/ /\ DOMAIN rows' = DOMAIN rows
            /\ \E t \in DOMAIN rows :
                 /\ rows'[t].tenant = rows[t].tenant
                 /\ \A q \in DOMAIN rows \ {t} : rows'[q] = rows[q]
<1>1. Prepared(w, v)
  BY DEF Saves, HoldsInv, HoldsOK
<1>2. /\ Flushed(w) \in Seq(Row) /\ DOMAIN Flushed(w) = DOMAIN rows
      /\ rows \in Seq(Row)
  BY FlushedType DEF TypeInv, TypeOK
<1>3. CASE Inserts(w, v)
  <2>1. rows' = Append(Flushed(w), NewRow(v))
    BY <1>3 DEF Inserts, Saves
  <2>2. Len(Flushed(w)) = Len(rows)
    BY <1>2
  <2>3. /\ DOMAIN rows' = DOMAIN rows \cup {Len(rows) + 1}
        /\ \A q \in DOMAIN rows : rows'[q] = Flushed(w)[q]
        /\ rows'[Len(rows) + 1] = NewRow(v)
    BY <1>2, <2>1, <2>2, AppendKeeps
  <2>4. \A q \in DOMAIN rows : Flushed(w)[q] = rows[q]
    BY <1>3, FlushedColumns DEF Inserts
  <2> QED BY <1>3, <2>3, <2>4 DEF Inserts
<1>4. CASE HasNone(w, v)
  <2>1. rows' = Flushed(w)
    BY <1>4 DEF HasNone, Saves
  <2> QED BY <1>2, <1>4, <2>1, FlushedColumns DEF HasNone
<1>5. ASSUME NEW t, Changes(w, v, t)
      PROVE  /\ DOMAIN rows' = DOMAIN rows /\ t \in DOMAIN rows
             /\ rows'[t].tenant = rows[t].tenant
             /\ \A q \in DOMAIN rows \ {t} : rows'[q] = rows[q]
  <2>1. rows' = Flushed(w) /\ DOMAIN seen[w] = {t}
    BY <1>5 DEF Changes, Saves
  <2>2. \A q \in DOMAIN rows \ {t} : rows'[q] = rows[q]
    BY <2>1, FlushedColumns
  <2>3. t \in DOMAIN rows /\ seen[w][t] \in Row
    BY <2>1 DEF TypeInv, TypeOK, SessionOK
  <2>4. \A f \in Fields :
          Flushed(w)[t][f] = IF obj[w][t][f] # seen[w][t][f]
                             THEN obj[w][t][f] ELSE rows[t][f]
    BY <2>1, <2>3, FlushedColumns
  <2>5. obj[w][t].tenant = seen[w][t].tenant
    BY <1>5, <2>3 DEF Changes, MadeOf, Row
  <2>6. rows'[t].tenant = rows[t].tenant
    BY <2>1, <2>4, <2>5 DEF Fields
  <2> QED BY <1>2, <2>1, <2>2, <2>3, <2>6
<1> QED BY <1>1, <1>3, <1>4, <1>5 DEF Prepared

LEMMA RoomStep ==
  TypeInv /\ TypeInv' /\ HoldsInv /\ RoomInv /\ [Next]_vars => RoomInv'
<1> SUFFICES ASSUME TypeInv, TypeInv', HoldsInv, RoomInv, [Next]_vars
             PROVE  RoomInv'
  OBVIOUS
<1>1. /\ rows \in Seq(Row) /\ rows' \in Seq(Row)
      /\ log \in Seq(1..MaxEvents) /\ log' \in Seq(1..MaxEvents)
      /\ MaxRows \in Nat
  BY DEF TypeInv, TypeOK
<1>2. CASE UNCHANGED <<rows, log>>
  BY <1>2 DEF RoomInv
<1>3. ASSUME NEW w \in Workers, SaveEvent(w) PROVE RoomInv'
  <2>1. CASE Rollback(w)
    BY <1>2, <2>1 DEF Rollback
  <2>2. ASSUME NEW v, Saves(w, v) PROVE RoomInv'
    <3>1. log' = Append(log, event[w]) /\ event[w] \in DOMAIN sent
      BY <2>2 DEF Saves
    <3>2. Len(log') = Len(log) + 1
      BY <1>1, <3>1
    <3>3. Len(rows') <= Len(rows) + 1
      <4>1. \/ DOMAIN rows' = DOMAIN rows \cup {Len(rows) + 1}
            \/ DOMAIN rows' = DOMAIN rows
        BY <2>2, SavedRows
      <4>2. DOMAIN rows = 1..Len(rows) /\ DOMAIN rows' = 1..Len(rows')
        BY <1>1
      <4>3. Len(rows') \in Nat /\ Len(rows) \in Nat
        BY <1>1
      <4>4. ASSUME Len(rows') > Len(rows) + 1 PROVE FALSE
        <5>1. Len(rows') \in DOMAIN rows'
          BY <4>2, <4>3, <4>4
        <5>2. Len(rows') \in 1..Len(rows) \/ Len(rows') = Len(rows) + 1
          <6>1. Len(rows') \in DOMAIN rows \cup {Len(rows) + 1}
            BY <4>1, <5>1
          <6> QED BY <4>2, <6>1
        <5> QED BY <4>3, <4>4, <5>2
      <4> QED BY <4>3, <4>4
    <3> QED BY <1>1, <3>2, <3>3 DEF RoomInv
  <2> QED BY <1>3, <2>1, <2>2, SaveOrRollback
<1>4. ASSUME NEW w \in Workers, SaveReconcile(w) PROVE RoomInv'
  <2>1. DOMAIN rows' = DOMAIN rows /\ UNCHANGED log
    BY <1>4, ReconciledLinks DEF SaveReconcile
  <2>2. Len(rows') = Len(rows)
    BY <1>1, <2>1
  <2> QED BY <2>1, <2>2 DEF RoomInv
<1>5. ASSUME NEW n \in Tenants, NEW p \in Plans, CreateSubscription(n, p)
      PROVE  RoomInv'
  <2>1. DOMAIN rows' = DOMAIN rows \cup {Len(rows) + 1}
    BY <1>5, CreatedRow
  <2>2. Len(rows) < MaxRows /\ UNCHANGED log
    BY <1>5 DEF CreateSubscription
  <2>3. Len(rows') = Len(rows) + 1
    BY <1>1, <2>1
  <2>4. Len(rows) \in Nat /\ Len(log) \in Nat
    BY <1>1
  <2> QED BY <1>1, <2>2, <2>3, <2>4 DEF RoomInv
<1>6. ASSUME NEW w \in Workers,
             \/ \E e \in DOMAIN sent : Deliver(w, e)
             \/ ProcessEvent(w) \/ StartReconcile(w) \/ Fail(w)
             \/ \E r \in DOMAIN rows : Retrieve(w, r) \/ GiveUp(w, r)
      PROVE  RoomInv'
  BY <1>2, <1>6 DEF Deliver, ProcessEvent, StartReconcile, Fail, Rollback,
     Retrieve, GiveUp
<1>7. ASSUME NEW x \in StripeSubs, OfStripe(x) PROVE RoomInv'
  BY <1>2, <1>7, StripeStep
<1>8. CASE UNCHANGED vars
  BY <1>2, <1>8 DEF vars
<1> QED BY <1>3, <1>4, <1>5, <1>6, <1>7, <1>8 DEF Next, OfStripe

LEMMA IdsAlways == Spec => [](TypeInv /\ HoldsInv /\ HaveIds)
<1>1. Init => OnceInv /\ RoomInv
  BY DEF Init, OnceInv, EventAppliedOnce, RoomInv
<1>2. Spec => []OnceInv
  BY <1>1, TypeInvariant, OnceStep, PTL DEF Spec
<1>3. Spec => []RoomInv
  BY <1>1, TypeInvariant, HoldsAlways, RoomStep, PTL DEF Spec
<1> QED BY <1>2, <1>3, TypeInvariant, HoldsAlways, RowsHaveIds, PTL

\* A reader finds the rows that exist, and none of them is NoSub.
LEMMA ReadRows ==
  ASSUME TypeInv
  PROVE  /\ DOMAIN AsRead = Ids
         /\ \A i \in Ids \ DOMAIN rows : AsRead[i] = NoSub
         /\ \A i \in Ids \cap DOMAIN rows :
              /\ AsRead[i] = [tenant |-> rows[i].tenant, plan |-> rows[i].plan,
                              status |-> rows[i].status]
              /\ AsRead[i] # NoSub
              /\ rows[i].tenant \in Tenants /\ rows[i].plan \in Plans
              /\ rows[i].status \in RowStatuses
<1>1. \A i \in DOMAIN rows : rows[i] \in Row
  BY DEF TypeInv, TypeOK
<1> QED BY <1>1, NoSubAssumption DEF AsRead, Row

LEMMA SameRowsRead ==
  ASSUME DOMAIN rows' = DOMAIN rows, \A q \in DOMAIN rows : rows'[q] = rows[q]
  PROVE  AsRead' = AsRead
BY DEF AsRead, Ids

\* One row more, active, is a creation to the readers.
LEMMA OneRowMore ==
  ASSUME TypeInv, TypeInv', HaveIds',
         DOMAIN rows' = DOMAIN rows \cup {Len(rows) + 1},
         \A q \in DOMAIN rows : rows'[q] = rows[q],
         rows'[Len(rows) + 1].status = "active"
  PROVE  Table!Next
<1> DEFINE i == Len(rows) + 1
<1>1. DOMAIN rows = 1..Len(rows) /\ Len(rows) \in Nat
  BY DEF TypeInv, TypeOK
<1>2. i \in Ids /\ i \notin DOMAIN rows
  BY <1>1 DEF HaveIds, Ids
<1>3. rows'[i] \in Row
  <2>1. rows' \in Seq(Row) /\ i \in DOMAIN rows'
    BY DEF TypeInv, TypeOK
  <2> QED BY <2>1
<1>4. AsRead[i] = NoSub
  BY <1>2, ReadRows
<1> HIDE DEF i
<1>5. AsRead' = [AsRead EXCEPT
                   ![i] = [tenant |-> rows'[i].tenant, plan |-> rows'[i].plan,
                           status |-> "active"]]
  BY <1>2 DEF AsRead, Ids, i
<1>6. Table!Create(i, rows'[i].tenant, rows'[i].plan)
  BY <1>4, <1>5 DEF Table!Create
<1> QED BY <1>2, <1>3, <1>6 DEF Table!Next, Row

\* A new plan and status of one row.
LEMMA OneRowSynced ==
  ASSUME TypeInv, HaveIds, TypeInv', NEW t \in DOMAIN rows,
         DOMAIN rows' = DOMAIN rows, rows'[t].tenant = rows[t].tenant,
         \A q \in DOMAIN rows \ {t} : rows'[q] = rows[q]
  PROVE  Table!Next
<1>1. t \in Ids /\ Ids' = Ids
  BY DEF HaveIds, Ids
<1>2. rows'[t] \in Row
  BY DEF TypeInv, TypeOK
<1>3. /\ AsRead[t] # NoSub
      /\ AsRead[t] = [tenant |-> rows[t].tenant, plan |-> rows[t].plan,
                      status |-> rows[t].status]
  BY <1>1, ReadRows
<1>4. AsRead' = [AsRead EXCEPT
                   ![t] = [tenant |-> rows[t].tenant, plan |-> rows'[t].plan,
                           status |-> rows'[t].status]]
  BY <1>1 DEF AsRead
<1>5. AsRead' = [AsRead EXCEPT ![t].status = rows'[t].status,
                               ![t].plan = rows'[t].plan]
  <2>1. [[AsRead[t] EXCEPT !.status = rows'[t].status] EXCEPT !.plan = rows'[t].plan]
          = [tenant |-> rows[t].tenant, plan |-> rows'[t].plan,
             status |-> rows'[t].status]
    <3>1. [AsRead[t] EXCEPT !.status = rows'[t].status]
            = [tenant |-> rows[t].tenant, plan |-> rows[t].plan,
               status |-> rows'[t].status]
      BY <1>3
    <3>2. [[tenant |-> rows[t].tenant, plan |-> rows[t].plan,
            status |-> rows'[t].status] EXCEPT !.plan = rows'[t].plan]
            = [tenant |-> rows[t].tenant, plan |-> rows'[t].plan,
               status |-> rows'[t].status]
      OBVIOUS
    <3> QED BY <3>1, <3>2
  <2>2. DOMAIN AsRead = Ids /\ AsRead = [i \in Ids |-> AsRead[i]]
    BY DEF AsRead
  <2> QED BY <1>1, <1>4, <2>1, <2>2
<1>6. Table!Sync(t, rows'[t].status, rows'[t].plan)
  BY <1>3, <1>5 DEF Table!Sync
<1> QED BY <1>1, <1>2, <1>6 DEF Table!Next, Row

\* New statuses of any rows.
LEMMA StatusesReconciled ==
  ASSUME TypeInv, TypeInv', DOMAIN rows' = DOMAIN rows,
         \A q \in DOMAIN rows : /\ rows'[q].tenant = rows[q].tenant
                                /\ rows'[q].plan = rows[q].plan
  PROVE  Table!Next
<1>1. Ids' = Ids
  BY DEF Ids
<1>2. AsRead' \in [Ids -> Table!Row \cup {NoSub}]
  <2>1. \A i \in Ids : AsRead'[i] \in Table!Row \cup {NoSub}
    <3>1. \A i \in DOMAIN rows : rows'[i] \in Row
      BY DEF TypeInv, TypeOK
    <3> QED BY <1>1, <3>1 DEF AsRead, Table!Row, Row
  <2> QED BY <1>1, <2>1 DEF AsRead
<1>3. ASSUME NEW i \in Ids, AsRead[i] = NoSub PROVE AsRead'[i] = NoSub
  <2>1. i \notin DOMAIN rows
    BY <1>3, ReadRows
  <2> QED BY <1>1, <2>1 DEF AsRead
<1>4. ASSUME NEW i \in Ids, AsRead[i] # NoSub
      PROVE  \E st \in RowStatuses : AsRead'[i] = [AsRead[i] EXCEPT !.status = st]
  <2>1. i \in DOMAIN rows
    BY <1>4, ReadRows
  <2>2. rows'[i] \in Row
    BY <2>1 DEF TypeInv, TypeOK
  <2>3. /\ AsRead[i] = [tenant |-> rows[i].tenant, plan |-> rows[i].plan,
                        status |-> rows[i].status]
        /\ AsRead'[i] = [tenant |-> rows[i].tenant, plan |-> rows[i].plan,
                         status |-> rows'[i].status]
    BY <1>1, <2>1 DEF AsRead
  <2> QED BY <2>2, <2>3 DEF Row
<1>5. Table!Reconcile
  BY <1>2, <1>3, <1>4 DEF Table!Reconcile
<1> QED BY <1>5 DEF Table!Next

LEMMA TableStep ==
  ASSUME TypeInv, HoldsInv, HaveIds, TypeInv', HaveIds', [Next]_vars
  PROVE  [Table!Next]_AsRead
<1>1. CASE UNCHANGED rows
  BY <1>1, SameRowsRead
<1>2. ASSUME NEW w \in Workers, SaveEvent(w) PROVE [Table!Next]_AsRead
  <2>1. CASE Rollback(w)
    BY <1>1, <2>1 DEF Rollback
  <2>2. ASSUME NEW v, Saves(w, v) PROVE [Table!Next]_AsRead
    <3>1. CASE /\ DOMAIN rows' = DOMAIN rows \cup {Len(rows) + 1}
               /\ \A q \in DOMAIN rows : rows'[q] = rows[q]
               /\ rows'[Len(rows) + 1] = NewRow(v)
      BY <3>1, OneRowMore DEF NewRow
    <3>2. CASE /\ DOMAIN rows' = DOMAIN rows
               /\ \A q \in DOMAIN rows : rows'[q] = rows[q]
      BY <3>2, SameRowsRead
    <3>3. CASE /\ DOMAIN rows' = DOMAIN rows
               /\ \E t \in DOMAIN rows :
                    /\ rows'[t].tenant = rows[t].tenant
                    /\ \A q \in DOMAIN rows \ {t} : rows'[q] = rows[q]
      BY <3>3, OneRowSynced
    <3> QED BY <2>2, <3>1, <3>2, <3>3, SavedRows
  <2> QED BY <1>2, <2>1, <2>2, SaveOrRollback
<1>3. ASSUME NEW w \in Workers, SaveReconcile(w) PROVE [Table!Next]_AsRead
  BY <1>3, ReconciledLinks, StatusesReconciled
<1>4. ASSUME NEW n \in Tenants, NEW p \in Plans, CreateSubscription(n, p)
      PROVE  [Table!Next]_AsRead
  BY <1>4, CreatedRow, OneRowMore
<1>5. ASSUME NEW w \in Workers,
             \/ \E e \in DOMAIN sent : Deliver(w, e)
             \/ ProcessEvent(w) \/ StartReconcile(w) \/ Fail(w)
             \/ \E r \in DOMAIN rows : Retrieve(w, r) \/ GiveUp(w, r)
      PROVE  [Table!Next]_AsRead
  BY <1>1, <1>5 DEF Deliver, ProcessEvent, StartReconcile, Fail, Rollback,
     Retrieve, GiveUp
<1>6. ASSUME NEW x \in StripeSubs, OfStripe(x) PROVE [Table!Next]_AsRead
  BY <1>1, <1>6, StripeStep
<1>7. CASE UNCHANGED vars
  BY <1>1, <1>7 DEF vars
<1> QED BY <1>2, <1>3, <1>4, <1>5, <1>6, <1>7 DEF Next, OfStripe

\* Any number of workers keep the subscriptions table as metering and billing
\* assume it: what is proved of Metering and Engine holds of a table that
\* Stripe's events and the reconciliation write (stripe_service.py:112-187,
\* reconciliation_service.py:27-86).
THEOREM TableAsAssumed == Spec => TableSpec
<1>1. Init => Table!Init
  BY DEF Init, Table!Init, AsRead
<1>2. TypeInv /\ HoldsInv /\ HaveIds /\ TypeInv' /\ HaveIds' /\ [Next]_vars
      => [Table!Next]_AsRead
  BY TableStep
<1> QED BY <1>1, <1>2, IdsAlways, PTL DEF Spec, TableSpec, Table!Spec
=============================================================================
