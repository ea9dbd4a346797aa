--------------------------- MODULE MeteringProofs ---------------------------
(***************************************************************************)
(* What holds of Metering for every set of handlers, plans, keys and       *)
(* requests: its type invariant, exactly-once recording and answering, the *)
(* bound on quota overshoot, and that it implements UsageLedger; and what  *)
(* one handler alone has besides: no overshoot, and no retry refused.      *)
(***************************************************************************)
EXTENDS Metering, UsageTotalsProofs, FiniteSetTheorems, TLAPS

-----------------------------------------------------------------------------
(* Types *)

USE RequestsAssumption, LimitsAssumption, MonthAssumption, StatusesAssumption

\* A row that is being inserted has its created_at.
Stamped ==
  \A h \in Handlers : pc[h] \in {"insert", "commit"} => stamp[h] \in Months

TypeInv == TypeOK /\ Stamped

\* A row more, the others as they were.
LEMMA OneMoreRow ==
  ASSUME NEW S, NEW seq \in Seq(S), NEW e \in S
  PROVE  /\ DOMAIN seq = 1..Len(seq) /\ Len(seq) \in Nat
         /\ DOMAIN Append(seq, e) = 1..(Len(seq) + 1)
         /\ Append(seq, e)[Len(seq) + 1] = e
         /\ \A i \in DOMAIN seq : Append(seq, e)[i] = seq[i]
         /\ \A i \in DOMAIN Append(seq, e) \ DOMAIN seq : Append(seq, e)[i] = e
OBVIOUS

LEMMA FinishType ==
  ASSUME TypeOK, NEW h \in Handlers, NEW code \in Replies, Finish(h, code),
         answered' \in [Keys -> SUBSET Answers]
  PROVE  TypeOK'
BY DEF TypeOK, Finish, Goto, Pcs, Months

LEMMA MoveType ==
  ASSUME TypeOK, NEW h \in Handlers, NEW label \in Pcs, Move(h, label)
  PROVE  TypeOK'
BY DEF TypeOK, Move, Goto

LEMMA AnswerType ==
  ASSUME TypeOK, NEW h \in Handlers, NEW i \in Nat, Answer(h, i)
  PROVE  TypeOK'
<1>1. answered' \in [Keys -> SUBSET Answers]
  BY DEF Answer, Answers, TypeOK
<1> QED BY <1>1, FinishType DEF Answer, Replies

LEMMA RefuseType ==
  ASSUME TypeOK, NEW h \in Handlers, NEW code \in Replies, Refuse(h, code)
  PROVE  TypeOK'
<1>1. answered' \in [Keys -> SUBSET Answers]
  BY DEF Refuse, TypeOK
<1> QED BY <1>1, FinishType DEF Refuse

LEMMA TypeInit == Init => TypeInv
BY DEF Init, TypeInv, TypeOK, Stamped, Pcs, Replies, Months

LEMMA StampedStep == TypeInv /\ [Next]_vars => Stamped'
<1> SUFFICES ASSUME TypeInv, [Next]_vars PROVE Stamped'
  OBVIOUS
<1> USE DEF TypeInv, TypeOK, Stamped
<1>1. ASSUME NEW h \in Handlers, Step(h) \/ Fail(h) PROVE Stamped'
  <2>1. ASSUME NEW code, Finish(h, code) PROVE Stamped'
    BY <2>1 DEF Finish, Goto
  <2>2. ASSUME NEW label, Move(h, label),
               label \in {"key", "load", "flush", "reread"}
                 \/ pc[h] = "insert"
        PROVE  Stamped'
    BY <2>2 DEF Move, Goto
  <2>3. CASE CheckOwner(h) \/ CheckKey(h) \/ CheckQuota(h) \/ Insert(h)
             \/ Refresh(h) \/ Reread(h) \/ Fail(h)
    BY <2>1, <2>2, <2>3 DEF CheckOwner, CheckKey, CheckQuota, Insert,
         Refresh, Reread, Fail, Answer, Refuse
  <2>4. CASE LoadSubscription(h) \/ ReadClock(h)
    BY <2>1, <2>4 DEF LoadSubscription, ReadClock, Refuse, Goto
  <2>5. CASE Flush(h)
    BY <2>5 DEF Flush, Goto
  <2>6. CASE Commit(h)
    BY <2>6 DEF Commit, Goto
  <2> QED BY <1>1, <2>3, <2>4, <2>5, <2>6 DEF Step
<1>2. ASSUME NEW h \in Handlers, NEW r \in Requests, Start(h, r)
      PROVE  Stamped'
  BY <1>2 DEF Start, Goto
<1>3. CASE UNCHANGED handlerVars
  BY <1>3 DEF handlerVars
<1> QED BY <1>1, <1>2, <1>3
        DEF Next, vars, handlerVars, CreateSubscription, SyncSubscription,
            Reconcile, NextMonth

LEMMA TypeStep == TypeInv /\ [Next]_vars => TypeOK'
<1> SUFFICES ASSUME TypeInv, [Next]_vars PROVE TypeOK'
  OBVIOUS
<1> USE DEF TypeInv
<1> USE DEF TypeOK
<1>1. ASSUME NEW h \in Handlers, Step(h) PROVE TypeOK'
  <2>1. CASE CheckOwner(h)
    BY <2>1, MoveType, RefuseType DEF CheckOwner, Pcs, Replies
  <2>2. CASE CheckKey(h)
    <3>1. RowsWithKey(req[h].key) \subseteq Nat
      BY DEF RowsWithKey
    <3> QED BY <2>2, <3>1, MoveType, AnswerType DEF CheckKey, Pcs
  <2>3. CASE LoadSubscription(h)
    <3>1. CASE \E code \in Replies : Refuse(h, code)
      BY <3>1, RefuseType
    <3>2. CASE ~ \E code \in Replies : Refuse(h, code)
      <4>1. subs[req[h].sub] \in SubRow
        BY <2>3, <3>2 DEF LoadSubscription, Replies
      <4>2. Limit[subs[req[h].sub].plan][req[h].type] \in Int
        BY <4>1 DEF SubRow
      <4>3. /\ Goto(h, "clock")
            /\ limit' = [limit EXCEPT
                            ![h] = Limit[subs[req[h].sub].plan][req[h].type]]
            /\ UNCHANGED <<events, subs, month, req, reply, period, stamp, rowid,
                           answered>>
        BY <2>3, <3>2 DEF LoadSubscription, Replies
      <4> QED BY <4>2, <4>3 DEF Goto, Pcs
    <3> QED BY <3>1, <3>2
  <2>10. CASE ReadClock(h)
    BY <2>10 DEF ReadClock, Goto, Pcs, Months
  <2>4. CASE CheckQuota(h)
    BY <2>4, MoveType, RefuseType DEF CheckQuota, Pcs, Replies
  <2>5. CASE Flush(h)
    BY <2>5 DEF Flush, Goto, Pcs, Months
  <2>6. CASE Insert(h)
    BY <2>6, MoveType DEF Insert, Pcs
  <2>7. CASE Commit(h)
    <3>1. NewRow(h) \in UsageRow
      BY <2>7 DEF Commit, NewRow, UsageRow, Stamped
    <3>2. events' \in Seq(UsageRow)
      BY <2>7, <3>1 DEF Commit
    <3>3. rowid' \in [Handlers -> Nat]
      BY <2>7 DEF Commit
    <3> QED BY <2>7, <3>2, <3>3 DEF Commit, Goto, Pcs
  <2>8. CASE Refresh(h)
    BY <2>8, AnswerType DEF Refresh
  <2>9. CASE Reread(h)
    <3>1. RowsWithKey(req[h].key) \subseteq Nat
      BY DEF RowsWithKey
    <3> QED BY <2>9, <3>1, AnswerType DEF Reread
  <2> QED BY <1>1, <2>1, <2>2, <2>3, <2>4, <2>5, <2>6, <2>7, <2>8, <2>9, <2>10
          DEF Step
<1>2. ASSUME NEW h \in Handlers, Fail(h) PROVE TypeOK'
  BY <1>2, RefuseType DEF Fail, Replies
<1>3. ASSUME NEW h \in Handlers, NEW r \in Requests, Start(h, r) PROVE TypeOK'
  BY <1>3 DEF Start, Goto, Pcs, Replies
<1>4. ASSUME NEW s \in Subs, NEW n \in Tenants, NEW p \in Plans,
             CreateSubscription(s, n, p)
      PROVE  TypeOK'
  BY <1>4 DEF CreateSubscription, Table!Create, SubRow, handlerVars
<1>5. ASSUME NEW s \in Subs, NEW st \in Statuses, NEW p \in Plans,
             SyncSubscription(s, st, p)
      PROVE  TypeOK'
  BY <1>5 DEF SyncSubscription, Table!Sync, SubRow, handlerVars
<1>6. CASE NextMonth
  BY <1>6 DEF NextMonth, Months, handlerVars
<1>7. CASE Reconcile
  BY <1>7 DEF Reconcile, Table!Reconcile, Table!Row, SubRow, handlerVars
<1>8. CASE UNCHANGED vars
  BY <1>8 DEF vars
<1> QED BY <1>1, <1>2, <1>3, <1>4, <1>5, <1>6, <1>7, <1>8 DEF Next

\* The variables keep their types: in particular every committed row has the
\* month of a clock reading, whatever the handlers' interleaving.
THEOREM TypeCorrect == Spec => []TypeOK
<1>1. Spec => []TypeInv
  BY TypeInit, StampedStep, TypeStep, PTL DEF Spec, TypeInv
<1> QED BY <1>1, PTL DEF TypeInv

-----------------------------------------------------------------------------
(* Exactly once *)

\* A handler that holds the key's lock found no committed row, and a key has
\* one lock holder.
LockedIsNew ==
  \A h \in Handlers : pc[h] = "commit" => RowsWithKey(req[h].key) = {}

OneLockHolder ==
  \A g, h \in Handlers :
    pc[g] = "commit" /\ pc[h] = "commit" /\ req[g].key = req[h].key => g = h

\* A handler that has committed remembers the one row of its key.
InsertedIsTheRow ==
  \A h \in Handlers : pc[h] = "refresh" => RowsWithKey(req[h].key) = {rowid[h]}

\* Every 200 that a key got named the one row of that key, of whichever
\* subscription that row is.
AnswersNameTheKey ==
  \A k \in Keys : \A a \in answered[k] :
    a.row \in DOMAIN events /\ RowsWithKey(k) = {a.row}

KeyInv == /\ OneRowPerKey
          /\ LockedIsNew
          /\ OneLockHolder
          /\ InsertedIsTheRow
          /\ AnswersNameTheKey

LEMMA KeyInit == Init => KeyInv
BY DEF Init, KeyInv, OneRowPerKey, AnswersNameTheKey, LockedIsNew, OneLockHolder,
       InsertedIsTheRow

\* A step that adds no row, gives no answer and leaves no handler newly in
\* "commit" or "refresh" keeps the invariant.
LEMMA KeyInvMoved ==
  ASSUME KeyInv, UNCHANGED events, AnswersNameTheKey',
         \A g \in Handlers : pc'[g] \in {"commit", "refresh"}
           => pc'[g] = pc[g] /\ req'[g] = req[g] /\ rowid'[g] = rowid[g]
  PROVE  KeyInv'
<1>1. \A g \in Handlers : req'[g] = req[g]
        => RowsWithKey(req[g].key)' = RowsWithKey(req[g].key)
  BY DEF RowsWithKey
<1>2. OneRowPerKey'
  BY DEF KeyInv, OneRowPerKey
<1>3. LockedIsNew'
  BY <1>1 DEF KeyInv, LockedIsNew
<1>4. OneLockHolder'
  BY DEF KeyInv, OneLockHolder
<1>5. InsertedIsTheRow'
  BY <1>1 DEF KeyInv, InsertedIsTheRow
<1> QED BY <1>2, <1>3, <1>4, <1>5 DEF KeyInv

\* Answering with the one row of the key keeps the invariant.
LEMMA KeyInvAnswer ==
  ASSUME TypeInv, KeyInv, NEW h \in Handlers, NEW i,
         RowsWithKey(req[h].key) = {i}, Answer(h, i)
  PROVE  KeyInv'
<1> USE DEF TypeInv, TypeOK
<1>1. /\ pc' = [pc EXCEPT ![h] = "idle"]
      /\ UNCHANGED <<events, req>>
      /\ rowid' = [rowid EXCEPT ![h] = 0]
      /\ answered' = [answered EXCEPT
                        ![req[h].key] = @ \cup {[sub |-> req[h].sub, row |-> i]}]
  BY DEF Answer, Finish, Goto
<1>2. AnswersNameTheKey'
  <2> SUFFICES ASSUME NEW k \in Keys, NEW a \in answered'[k]
               PROVE  a.row \in DOMAIN events /\ RowsWithKey(k) = {a.row}
    BY <1>1 DEF AnswersNameTheKey, RowsWithKey
  <2>1. CASE a \in answered[k]
    BY <2>1 DEF KeyInv, AnswersNameTheKey
  <2>2. CASE a \notin answered[k]
    <3>1. k = req[h].key /\ a.row = i
      BY <1>1, <2>2
    <3>2. a.row \in RowsWithKey(k)
      BY <3>1
    <3> QED BY <3>1, <3>2 DEF RowsWithKey
  <2> QED BY <2>1, <2>2
<1>3. \A g \in Handlers : pc'[g] \in {"commit", "refresh"}
        => pc'[g] = pc[g] /\ req'[g] = req[g] /\ rowid'[g] = rowid[g]
  BY <1>1
<1> QED BY <1>1, <1>2, <1>3, KeyInvMoved

LEMMA KeyInvCommit ==
  ASSUME TypeInv, KeyInv, NEW h \in Handlers, Commit(h)
  PROVE  KeyInv'
<1> DEFINE n == Len(events) + 1
           k == req[h].key
           RowsIn(j) == {i \in DOMAIN events' : events'[i].key = j}
<1> USE DEF TypeInv, TypeOK
<1>1. /\ pc[h] = "commit" /\ pc' = [pc EXCEPT ![h] = "refresh"]
      /\ rowid' = [rowid EXCEPT ![h] = n]
      /\ UNCHANGED <<req, answered>>
  BY DEF Commit, Goto
<1>2. NewRow(h) \in UsageRow /\ NewRow(h).key = k
  BY <1>1 DEF NewRow, UsageRow, Stamped
<1>3. /\ DOMAIN events = 1..Len(events) /\ Len(events) \in Nat
      /\ DOMAIN events' = 1..n
      /\ events'[n] = NewRow(h)
      /\ \A i \in DOMAIN events : events'[i] = events[i]
  BY <1>2 DEF Commit
<1>4. RowsWithKey(k) = {}
  BY <1>1 DEF KeyInv, LockedIsNew
<1>5. RowsIn(k) = {n}
  <2>1. \A i \in DOMAIN events : events'[i].key # k
    BY <1>3, <1>4 DEF RowsWithKey
  <2>2. n \in DOMAIN events' /\ events'[n].key = k
    BY <1>2, <1>3
  <2>3. \A i \in DOMAIN events' : i = n \/ i \in DOMAIN events
    BY <1>3
  <2> QED BY <2>1, <2>2, <2>3
<1>6. ASSUME NEW j, j # k PROVE RowsIn(j) = RowsWithKey(j)
  <2>1. n \notin RowsIn(j)
    BY <1>2, <1>3, <1>6
  <2>2. \A i \in DOMAIN events' : i = n \/ i \in DOMAIN events
    BY <1>3
  <2>3. DOMAIN events \subseteq DOMAIN events'
    BY <1>3
  <2> QED BY <1>3, <2>1, <2>2, <2>3 DEF RowsWithKey
<1>7. OneRowPerKey'
  <2> SUFFICES ASSUME NEW i \in DOMAIN events', NEW j \in DOMAIN events',
                      events'[i].key = events'[j].key
               PROVE  i = j
    BY DEF OneRowPerKey
  <2>1. CASE events'[i].key = k
    <3>1. i \in RowsIn(k) /\ j \in RowsIn(k)
      BY <2>1
    <3> QED BY <1>5, <3>1
  <2>2. CASE events'[i].key # k
    <3>1. i \in DOMAIN events /\ j \in DOMAIN events
      BY <1>2, <1>3, <2>2
    <3> QED BY <1>3, <3>1 DEF KeyInv, OneRowPerKey
  <2> QED BY <2>1, <2>2
<1> HIDE DEF RowsIn
<1>8. \A g \in Handlers : RowsWithKey(req[g].key)' = RowsIn(req[g].key)
  BY <1>1 DEF RowsWithKey, RowsIn
<1>9. AnswersNameTheKey'
  <2> SUFFICES ASSUME NEW j \in Keys, NEW a \in answered[j]
               PROVE  a.row \in DOMAIN events' /\ RowsIn(j) = {a.row}
    BY <1>1 DEF AnswersNameTheKey, RowsWithKey, RowsIn
  <2>1. a.row \in DOMAIN events /\ RowsWithKey(j) = {a.row}
    BY DEF KeyInv, AnswersNameTheKey
  <2>2. j # k
    BY <2>1, <1>4
  <2>3. a.row \in DOMAIN events'
    BY <1>3, <2>1
  <2> QED BY <1>6, <2>1, <2>2, <2>3
<1>10. LockedIsNew'
  <2> SUFFICES ASSUME NEW g \in Handlers, pc'[g] = "commit"
               PROVE  RowsIn(req[g].key) = {}
    BY <1>8 DEF LockedIsNew
  <2>1. g # h /\ pc[g] = "commit"
    BY <1>1
  <2>2. req[g].key # k
    BY <1>1, <2>1 DEF KeyInv, OneLockHolder
  <2> QED BY <1>6, <2>1, <2>2 DEF KeyInv, LockedIsNew
<1>11. InsertedIsTheRow'
  <2> SUFFICES ASSUME NEW g \in Handlers, pc'[g] = "refresh"
               PROVE  RowsIn(req[g].key) = {rowid'[g]}
    BY <1>8 DEF InsertedIsTheRow
  <2>1. CASE g = h
    BY <1>1, <1>5, <2>1
  <2>2. CASE g # h
    <3>1. RowsWithKey(req[g].key) = {rowid[g]} /\ rowid'[g] = rowid[g]
      BY <1>1, <2>2 DEF KeyInv, InsertedIsTheRow
    <3>2. req[g].key # k
      BY <3>1, <1>4
    <3> QED BY <1>6, <3>1, <3>2
  <2> QED BY <2>1, <2>2
<1>12. OneLockHolder'
  BY <1>1 DEF KeyInv, OneLockHolder
<1> QED BY <1>7, <1>9, <1>10, <1>11, <1>12 DEF KeyInv

LEMMA KeyInvInsert ==
  ASSUME TypeInv, KeyInv, NEW h \in Handlers, Insert(h)
  PROVE  KeyInv'
<1> USE DEF TypeInv, TypeOK
<1>0. UNCHANGED <<events, answered, req, rowid>>
  BY DEF Insert, Move
<1>1. AnswersNameTheKey' /\ OneRowPerKey'
  BY <1>0 DEF KeyInv, AnswersNameTheKey, OneRowPerKey, RowsWithKey
<1>2. CASE RowsWithKey(req[h].key) # {}
  <2>1. pc' = [pc EXCEPT ![h] = "reread"]
    BY <1>2 DEF Insert, Move, Goto
  <2> QED BY <1>0, <1>1, <2>1, KeyInvMoved
<1>3. CASE RowsWithKey(req[h].key) = {}
  <2>1. /\ pc' = [pc EXCEPT ![h] = "commit"]
        /\ \A g \in Handlers \ {h} :
             ~(pc[g] = "commit" /\ req[g].key = req[h].key)
    BY <1>3 DEF Insert, Move, Goto, KeyIsLocked
  <2>2. \A g \in Handlers : RowsWithKey(req[g].key)' = RowsWithKey(req[g].key)
    BY <1>0 DEF RowsWithKey
  <2>3. LockedIsNew'
    BY <1>3, <2>1, <2>2 DEF KeyInv, LockedIsNew
  <2>4. OneLockHolder'
    BY <1>0, <2>1 DEF KeyInv, OneLockHolder
  <2>5. InsertedIsTheRow'
    BY <1>0, <2>1, <2>2 DEF KeyInv, InsertedIsTheRow
  <2> QED BY <1>1, <2>3, <2>4, <2>5 DEF KeyInv
<1> QED BY <1>2, <1>3

\* The one row of a key that a handler finds.
LEMMA FoundRowIsTheRow ==
  ASSUME KeyInv, NEW k, NEW i \in RowsWithKey(k)
  PROVE  RowsWithKey(k) = {i}
BY DEF KeyInv, OneRowPerKey, RowsWithKey

LEMMA KeyStep == TypeInv /\ KeyInv /\ [Next]_vars => KeyInv'
<1> SUFFICES ASSUME TypeInv, KeyInv, [Next]_vars PROVE KeyInv'
  OBVIOUS
<1>1. ASSUME NEW h \in Handlers, NEW label, Goto(h, label),
             label \notin {"commit", "refresh"},
             \A g \in Handlers \ {h} : req'[g] = req[g] /\ rowid'[g] = rowid[g],
             UNCHANGED <<events, answered>>
      PROVE  KeyInv'
  <2>1. AnswersNameTheKey'
    BY <1>1 DEF KeyInv, AnswersNameTheKey, RowsWithKey
  <2>2. \A g \in Handlers : pc'[g] \in {"commit", "refresh"}
          => pc'[g] = pc[g] /\ req'[g] = req[g] /\ rowid'[g] = rowid[g]
    BY <1>1 DEF Goto, TypeInv, TypeOK
  <2> QED BY <1>1, <2>1, <2>2, KeyInvMoved
<1>2. ASSUME NEW h \in Handlers, NEW code, Refuse(h, code) PROVE KeyInv'
  <2>1. \A g \in Handlers \ {h} : req'[g] = req[g] /\ rowid'[g] = rowid[g]
    BY <1>2 DEF Refuse, Finish, TypeInv, TypeOK
  <2> QED BY <1>1, <1>2, <2>1 DEF Refuse, Finish
<1>3. ASSUME NEW h \in Handlers, NEW label, Move(h, label),
             label \notin {"commit", "refresh"}
      PROVE  KeyInv'
  BY <1>1, <1>3 DEF Move
<1>4. ASSUME NEW h \in Handlers, Step(h) PROVE KeyInv'
  <2>1. CASE CheckOwner(h) \/ CheckQuota(h)
    BY <1>2, <1>3, <2>1 DEF CheckOwner, CheckQuota
  <2>2. CASE CheckKey(h)
    BY <1>3, <2>2, FoundRowIsTheRow, KeyInvAnswer DEF CheckKey
  <2>3. CASE LoadSubscription(h)
    <3>1. CASE \E code : Refuse(h, code)
      BY <1>2, <3>1
    <3>2. CASE Goto(h, "clock") /\ UNCHANGED <<events, req, rowid, answered>>
      BY <1>1, <3>2
    <3> QED BY <2>3, <3>1, <3>2 DEF LoadSubscription
  <2>9. CASE ReadClock(h)
    BY <1>1, <2>9 DEF ReadClock
  <2>4. CASE Flush(h)
    BY <1>1, <2>4 DEF Flush
  <2>5. CASE Insert(h)
    BY <2>5, KeyInvInsert
  <2>6. CASE Commit(h)
    BY <2>6, KeyInvCommit
  <2>7. CASE Refresh(h)
    BY <2>7, KeyInvAnswer DEF Refresh, KeyInv, InsertedIsTheRow
  <2>8. CASE Reread(h)
    BY <2>8, FoundRowIsTheRow, KeyInvAnswer DEF Reread
  <2> QED BY <1>4, <2>1, <2>2, <2>3, <2>4, <2>5, <2>6, <2>7, <2>8, <2>9 DEF Step
<1>5. ASSUME NEW h \in Handlers, Fail(h) PROVE KeyInv'
  BY <1>2, <1>5 DEF Fail
<1>6. ASSUME NEW h \in Handlers, NEW r \in Requests, Start(h, r) PROVE KeyInv'
  <2>1. \A g \in Handlers \ {h} : req'[g] = req[g] /\ rowid'[g] = rowid[g]
    BY <1>6 DEF Start, TypeInv, TypeOK
  <2> QED BY <1>1, <1>6, <2>1 DEF Start
<1>7. CASE UNCHANGED <<events, handlerVars, answered>>
  <2>1. AnswersNameTheKey'
    BY <1>7 DEF KeyInv, AnswersNameTheKey, RowsWithKey
  <2> QED BY <1>7, <2>1, KeyInvMoved DEF handlerVars
<1> QED BY <1>4, <1>5, <1>6, <1>7
        DEF Next, vars, handlerVars, CreateSubscription, SyncSubscription,
            Reconcile, NextMonth

LEMMA KeyInvariant == Spec => [](TypeInv /\ KeyInv)
<1>1. Init => TypeInv /\ KeyInv
  BY TypeInit, KeyInit
<1>2. TypeInv /\ KeyInv /\ [Next]_vars => (TypeInv /\ KeyInv)'
  BY StampedStep, TypeStep, KeyStep DEF TypeInv
<1> QED BY <1>1, <1>2, PTL DEF Spec

\* No interleaving of requests, retries, failed statements and crashes
\* records a key twice.
THEOREM ExactlyOnce == Spec => []OneRowPerKey
BY KeyInvariant, PTL DEF KeyInv

\* Every 200 a key gets is of a recorded event, and names that event's row
\* when it is the answered subscription's.
THEOREM AnswersNameTheRow == Spec => []AnswersAgree
<1>1. AnswersNameTheKey => AnswersAgree
  BY DEF AnswersNameTheKey, AnswersAgree
<1> QED BY <1>1, KeyInvariant, PTL DEF KeyInv

\* Every row, and every answer, is of some request with that key.
OfARequest ==
  /\ \A i \in DOMAIN events : \E r \in Requests :
       r.key = events[i].key /\ r.sub = events[i].sub
  /\ \A k \in Keys : \A a \in answered[k] : \E r \in Requests :
       r.key = k /\ r.sub = a.sub

LEMMA OfARequestInit == Init => OfARequest
BY DEF Init, OfARequest

LEMMA OfARequestStep == TypeInv /\ OfARequest /\ [Next]_vars => OfARequest'
<1> SUFFICES ASSUME TypeInv, OfARequest, [Next]_vars PROVE OfARequest'
  OBVIOUS
<1> USE DEF TypeInv, TypeOK, OfARequest
<1>1. ASSUME UNCHANGED <<events, answered>> PROVE OfARequest'
  BY <1>1
<1>2. ASSUME NEW h \in Handlers, NEW i, Answer(h, i) PROVE OfARequest'
  <2>1. /\ events' = events
        /\ answered' = [answered EXCEPT
                          ![req[h].key] = @ \cup {[sub |-> req[h].sub, row |-> i]}]
    BY <1>2 DEF Answer, Finish
  <2>2. \A k \in Keys : \A a \in answered'[k] :
          a \in answered[k] \/ (k = req[h].key /\ a.sub = req[h].sub)
    BY <2>1
  <2> QED BY <2>1, <2>2
<1>3. ASSUME NEW h \in Handlers, Commit(h) PROVE OfARequest'
  <2>1. /\ events' = Append(events, NewRow(h)) /\ answered' = answered
        /\ NewRow(h) \in UsageRow
        /\ NewRow(h).key = req[h].key /\ NewRow(h).sub = req[h].sub
    BY <1>3 DEF Commit, NewRow, UsageRow, Stamped
  <2>2. \A i \in DOMAIN events' : \/ i \in DOMAIN events /\ events'[i] = events[i]
                                 \/ events'[i] = NewRow(h)
    BY <2>1
  <2>3. req[h] \in Requests
    OBVIOUS
  <2> HIDE DEF TypeInv, TypeOK
  <2>4. ASSUME NEW i \in DOMAIN events'
        PROVE  \E r \in Requests : r.key = events'[i].key /\ r.sub = events'[i].sub
    <3>1. CASE i \in DOMAIN events /\ events'[i] = events[i]
      BY <3>1
    <3>2. CASE events'[i] = NewRow(h)
      BY <2>1, <2>3, <3>2
    <3> QED BY <2>2, <3>1, <3>2
  <2> QED BY <2>1, <2>4
<1>4. ASSUME NEW h \in Handlers, Step(h)
      PROVE  Commit(h) \/ (\E i : Answer(h, i)) \/ UNCHANGED <<events, answered>>
  BY <1>4 DEF Step, CheckOwner, CheckKey, LoadSubscription, ReadClock, CheckQuota,
       Flush, Insert, Refresh, Reread, Move, Refuse, Finish
<1>5. Next => (\E h \in Handlers : Step(h)) \/ UNCHANGED <<events, answered>>
  BY DEF Next, Fail, Start, Refuse, Finish, CreateSubscription,
         SyncSubscription, Reconcile, NextMonth
<1> QED BY <1>1, <1>2, <1>3, <1>4, <1>5 DEF vars

\* Where no two subscriptions use one key, nobody is answered with another
\* subscription's event (usage_service.py:23 alone does not see to that: it
\* looks the key up without the subscription).
THEOREM OwnKeysOwnAnswers ==
  ASSUME \A q, r \in Requests : q.key = r.key => q.sub = r.sub
  PROVE  Spec => []AnswersTheirOwn
<1>1. Spec => []OfARequest
  BY OfARequestInit, OfARequestStep, KeyInvariant, PTL DEF Spec
<1>2. TypeInv /\ KeyInv /\ OfARequest => AnswersTheirOwn
  <2> SUFFICES ASSUME TypeInv, KeyInv, OfARequest, NEW k \in Keys, NEW a \in answered[k]
               PROVE  a.row \in RowsWithKey(k) /\ events[a.row].sub = a.sub
    BY DEF AnswersTheirOwn
  <2>1. a.row \in DOMAIN events /\ events[a.row].key = k /\ a.row \in RowsWithKey(k)
    BY DEF KeyInv, AnswersNameTheKey, RowsWithKey
  <2>2. PICK q \in Requests : q.key = k /\ q.sub = a.sub
    BY DEF OfARequest
  <2>3. PICK r \in Requests : r.key = k /\ r.sub = events[a.row].sub
    BY <2>1 DEF OfARequest
  <2> QED BY <2>1, <2>2, <2>3
<1> QED BY <1>1, <1>2, KeyInvariant, PTL

-----------------------------------------------------------------------------
(* Quota *)

N == Cardinality(Handlers)

Qty == [h \in Handlers |-> req[h].qty]

\* The handlers whose row may still be added to the usage of (s, t, m): past
\* the quota check with an undecided or a fitting stamp, or still before the
\* check but bound to a period that m is after, so that the check says
\* nothing about m.
Pending(s, t, m) ==
  {h \in Handlers :
     /\ req[h].sub = s /\ req[h].type = t
     /\ \/ pc[h] = "flush" /\ month <= m
        \/ pc[h] \in {"insert", "commit"} /\ stamp[h] = m
        \/ /\ pc[h] = "quota" /\ period[h] < m /\ month <= m
           /\ req[h].qty <= TopLimit[t]}

\* With usage T, the handlers P, of quantities q, have room below B: one of
\* them fits on its own and each of the others adds at most MaxQty.
HasRoom(P, q, T, B) ==
  \/ P = {} /\ T <= B
  \/ \E h \in P : T + q[h] + (Cardinality(P) - 1) * MaxQty <= B

Bound(t) == TopLimit[t] + (N - 1) * MaxQty

Room(s, t, m) == HasRoom(Pending(s, t, m), Qty, UsedIn(s, t, m), Bound(t))

NoFutureRows == \A i \in DOMAIN events : events[i].month <= month

\* What the handlers' local values say about the clock and the limits.
LocalsAgree ==
  \A h \in Handlers :
    /\ pc[h] \in {"clock", "quota"} => limit[h] <= TopLimit[req[h].type]
    /\ pc[h] = "quota" => period[h] \in 1..month
    /\ pc[h] = "flush" => req[h].qty <= TopLimit[req[h].type]
    /\ pc[h] \in {"insert", "commit"} => stamp[h] \in 1..month

AllRoom == \A s \in Subs, t \in Types, m \in Months : Room(s, t, m)

QuotaInv == NoFutureRows /\ LocalsAgree /\ AllRoom

(* Arithmetic of room *)

LEMMA HandlersCounted ==
  /\ N \in Nat /\ N >= 1
  /\ \A P \in SUBSET Handlers :
       /\ IsFiniteSet(P) /\ Cardinality(P) \in Nat /\ Cardinality(P) <= N
       /\ Cardinality(P) = 0 <=> P = {}
<1>1. N \in Nat
  BY HandlersAssumption, FS_CardinalityType DEF N
<1>2. N # 0
  BY HandlersAssumption, FS_EmptySet DEF N
<1>3. ASSUME NEW P \in SUBSET Handlers
      PROVE  /\ IsFiniteSet(P) /\ Cardinality(P) \in Nat /\ Cardinality(P) <= N
             /\ Cardinality(P) = 0 <=> P = {}
  BY HandlersAssumption, FS_Subset, FS_CardinalityType, FS_EmptySet DEF N
<1> QED BY <1>1, <1>2, <1>3

LEMMA TimesMonotone ==
  ASSUME NEW a \in Nat, NEW b \in Nat, NEW c \in Nat, a <= b
  PROVE  a * c <= b * c
OBVIOUS

LEMMA RoomIsBelow ==
  ASSUME NEW P \in SUBSET Handlers, NEW q \in [Handlers -> 0..MaxQty],
         NEW T \in Nat, NEW B \in Int, HasRoom(P, q, T, B)
  PROVE  T <= B
<1>1. CASE P = {}
  BY <1>1 DEF HasRoom
<1>2. CASE P # {}
  <2>1. PICK h \in P : T + q[h] + (Cardinality(P) - 1) * MaxQty <= B
    BY <1>2 DEF HasRoom
  <2>2. Cardinality(P) - 1 \in Nat
    BY <1>2, HandlersCounted
  <2>3. (Cardinality(P) - 1) * MaxQty >= 0
    BY <2>2, TimesMonotone
  <2>4. q[h] \in Nat
    OBVIOUS
  <2>5. (Cardinality(P) - 1) * MaxQty \in Int
    BY <2>2
  <2> QED BY <2>1, <2>3, <2>4, <2>5
<1> QED BY <1>1, <1>2

\* When a handler leaves without adding its row, the others keep their room.
LEMMA RoomShrinks ==
  ASSUME NEW P \in SUBSET Handlers, NEW P2 \in SUBSET P,
         NEW q \in [Handlers -> 0..MaxQty], NEW q2 \in [Handlers -> 0..MaxQty],
         \A h \in P2 : q2[h] = q[h],
         NEW T \in Nat, NEW B \in Int, HasRoom(P, q, T, B)
  PROVE  HasRoom(P2, q2, T, B)
<1>1. CASE P2 = {}
  BY <1>1, RoomIsBelow DEF HasRoom
<1>2. CASE P2 # {}
  <2>1. PICK h \in P : T + q[h] + (Cardinality(P) - 1) * MaxQty <= B
    BY <1>2 DEF HasRoom
  <2>2. /\ Cardinality(P2) \in Nat /\ Cardinality(P) \in Nat
        /\ Cardinality(P2) >= 1
    BY <1>2, HandlersCounted
  <2>3. CASE h \in P2
    <3>1. Cardinality(P2) <= Cardinality(P)
      BY HandlersCounted, FS_Subset
    <3>2. (Cardinality(P2) - 1) * MaxQty <= (Cardinality(P) - 1) * MaxQty
      <4>1. /\ Cardinality(P2) - 1 \in Nat /\ Cardinality(P) - 1 \in Nat
            /\ Cardinality(P2) - 1 <= Cardinality(P) - 1
        BY <2>2, <3>1
      <4> QED BY <4>1, TimesMonotone
    <3>3. /\ (Cardinality(P2) - 1) * MaxQty \in Int
          /\ (Cardinality(P) - 1) * MaxQty \in Int
          /\ q[h] \in Nat /\ q2[h] = q[h]
      BY <2>2, <2>3
    <3> QED BY <2>1, <2>3, <3>2, <3>3 DEF HasRoom
  <2>4. CASE h \notin P2
    <3>1. PICK g \in P2 : TRUE
      BY <1>2
    <3>2. Cardinality(P2) <= Cardinality(P) - 1
      <4>1. P2 \subseteq P \ {h}
        BY <2>4
      <4>2. IsFiniteSet(P \ {h}) /\ Cardinality(P \ {h}) = Cardinality(P) - 1
        BY HandlersCounted, FS_RemoveElement
      <4> QED BY <4>1, <4>2, FS_Subset
    <3>3. Cardinality(P2) * MaxQty <= (Cardinality(P) - 1) * MaxQty
      <4>1. Cardinality(P) - 1 \in Nat
        BY <2>2, <3>2
      <4> QED BY <2>2, <3>2, <4>1, TimesMonotone
    <3>4. (Cardinality(P2) - 1) * MaxQty = Cardinality(P2) * MaxQty - MaxQty
      BY <2>2
    <3>5. /\ Cardinality(P2) * MaxQty \in Int
          /\ (Cardinality(P) - 1) * MaxQty \in Int
          /\ q[h] \in Nat /\ q2[g] \in 0..MaxQty
      BY <2>2, <3>1
    <3>6. T + q2[g] + (Cardinality(P2) - 1) * MaxQty <= B
      BY <2>1, <3>3, <3>4, <3>5
    <3> QED BY <3>1, <3>6 DEF HasRoom
  <2> QED BY <2>3, <2>4
<1> QED BY <1>1, <1>2

\* A set keeps its elements when one it lacks is taken away.
LEMMA RemoveAbsent ==
  ASSUME NEW S, NEW x, x \notin S
  PROVE  S \ {x} = S
OBVIOUS

\* When a handler leaves by adding its row, the others keep their room.
LEMMA RoomCommit ==
  ASSUME NEW P \in SUBSET Handlers, NEW h \in P,
         NEW q \in [Handlers -> 0..MaxQty],
         NEW T \in Nat, NEW B \in Int, HasRoom(P, q, T, B)
  PROVE  HasRoom(P \ {h}, q, T + q[h], B)
<1> DEFINE c == Cardinality(P)
<1>1. PICK g \in P : T + q[g] + (c - 1) * MaxQty <= B
  BY DEF HasRoom
<1>2. c \in Nat /\ c >= 1 /\ Cardinality(P \ {h}) = c - 1
  BY HandlersCounted, FS_RemoveElement
<1>3. /\ q[g] \in 0..MaxQty /\ q[h] \in 0..MaxQty
      /\ (c - 1) * MaxQty \in Int
  BY <1>2
<1>4. ((c - 1) - 1) * MaxQty = (c - 1) * MaxQty - MaxQty
  BY <1>2
<1> HIDE DEF c
<1>5. CASE P \ {h} = {}
  <2>1. c - 1 = 0
    BY <1>2, <1>5, FS_EmptySet
  <2>2. (c - 1) * MaxQty = 0
    BY <2>1
  <2>3. g = h
    BY <1>5
  <2>4. T + q[h] <= B
    BY <1>1, <1>3, <2>2, <2>3
  <2> QED BY <1>5, <2>4 DEF HasRoom
<1>6. CASE g # h
  <2>1. T + q[h] + q[g] + ((c - 1) - 1) * MaxQty <= B
    BY <1>1, <1>3, <1>4
  <2> QED BY <1>2, <1>6, <2>1 DEF HasRoom
<1>7. CASE g = h /\ P \ {h} # {}
  <2>1. PICK f \in P \ {h} : TRUE
    BY <1>7
  <2>2. q[f] \in 0..MaxQty
    BY <2>1
  <2>3. T + q[h] + q[f] + ((c - 1) - 1) * MaxQty <= B
    BY <1>1, <1>3, <1>4, <1>7, <2>2
  <2> QED BY <1>2, <2>1, <2>3 DEF HasRoom
<1> QED BY <1>5, <1>6, <1>7

\* A handler that fits below the limit makes room for all pending ones.
LEMMA RoomJoin ==
  ASSUME NEW P \in SUBSET Handlers, NEW h \in P,
         NEW q \in [Handlers -> 0..MaxQty],
         NEW T \in Nat, NEW t \in Types, T + q[h] <= TopLimit[t]
  PROVE  HasRoom(P, q, T, Bound(t))
<1>1. /\ Cardinality(P) \in Nat /\ Cardinality(P) >= 1
      /\ Cardinality(P) <= N /\ N \in Nat
  BY HandlersCounted
<1>2. (Cardinality(P) - 1) * MaxQty <= (N - 1) * MaxQty
  BY <1>1, TimesMonotone
<1>3. /\ (Cardinality(P) - 1) * MaxQty \in Int /\ (N - 1) * MaxQty \in Int
      /\ q[h] \in Nat /\ TopLimit[t] \in Nat
  BY <1>1
<1>4. T + q[h] + (Cardinality(P) - 1) * MaxQty <= Bound(t)
  BY <1>2, <1>3 DEF Bound
<1> QED BY <1>4 DEF HasRoom

(* The steps *)

LEMMA RowTypes ==
  ASSUME TypeOK
  PROVE  /\ QtyRow(events)
         /\ \A i \in DOMAIN events : events[i].month \in Int
<1>1. \A i \in DOMAIN events : events[i] \in UsageRow
  BY DEF TypeOK
<1>2. \A r \in UsageRow : r.qty \in Nat /\ r.month \in Int
  BY DEF UsageRow, Months
<1> QED BY <1>1, <1>2 DEF QtyRow

LEMMA UsageTypes ==
  ASSUME TypeOK
  PROVE  /\ Qty \in [Handlers -> 0..MaxQty]
         /\ \A t \in Types : Bound(t) \in Int /\ TopLimit[t] \in Nat
         /\ \A s, t, m : UsedIn(s, t, m) \in Nat
<1>1. Qty \in [Handlers -> 0..MaxQty]
  BY DEF Qty, TypeOK
<1>2. \A t \in Types : Bound(t) \in Int /\ TopLimit[t] \in Nat
  <2>1. (N - 1) * MaxQty \in Int
    BY HandlersCounted
  <2> QED BY <2>1 DEF Bound
<1>3. events \in Seq(UsageRow) /\ QtyRow(events)
  BY RowTypes DEF TypeOK
<1>4. \A s, t, m : UsedIn(s, t, m) \in Nat
  BY <1>3, TotalByTypeNat DEF UsedIn
<1> QED BY <1>1, <1>2, <1>4

\* Room is kept when handlers stop being pending and no row is added.
LEMMA RoomKept ==
  ASSUME TypeOK, TypeOK', NEW s \in Subs, NEW t \in Types, NEW m \in Months,
         Room(s, t, m), events' = events,
         Pending(s, t, m)' \subseteq Pending(s, t, m),
         \A g \in Pending(s, t, m)' : req'[g] = req[g]
  PROVE  Room(s, t, m)'
<1> DEFINE P == Pending(s, t, m)
           T == UsedIn(s, t, m)
<1>1. P \in SUBSET Handlers /\ P' \in SUBSET P
  BY DEF Pending
<1>2. Qty \in [Handlers -> 0..MaxQty] /\ T \in Nat /\ Bound(t) \in Int
  BY UsageTypes
<1>3. Qty' \in [Handlers -> 0..MaxQty] /\ \A g \in P' : Qty'[g] = Qty[g]
  <2>1. Qty' \in [Handlers -> 0..MaxQty]
    BY DEF TypeOK, Qty
  <2>2. ASSUME NEW g \in P' PROVE Qty'[g] = Qty[g]
    <3>1. g \in Handlers
      BY <1>1
    <3> QED BY <3>1 DEF Qty
  <2> QED BY <2>1, <2>2
<1>4. T' = T
  BY DEF UsedIn
<1>5. HasRoom(P, Qty, T, Bound(t))
  BY DEF Room
<1> HIDE DEF P, T
<1>6. HasRoom(P', Qty', T, Bound(t))
  BY <1>1, <1>2, <1>3, <1>5, RoomShrinks
<1> QED BY <1>4, <1>6 DEF Room, P, T

\* A step after which h is not between the quota check and its answer.
LEMMA QuietStep ==
  ASSUME TypeOK, TypeOK', QuotaInv, NEW h \in Handlers,
         UNCHANGED <<events, month>>,
         pc'[h] \notin {"quota", "flush", "insert", "commit"},
         pc'[h] = "clock" => limit'[h] <= TopLimit[req'[h].type],
         \A g \in Handlers \ {h} :
           /\ pc'[g] = pc[g] /\ req'[g] = req[g] /\ period'[g] = period[g]
           /\ limit'[g] = limit[g] /\ stamp'[g] = stamp[g]
  PROVE  QuotaInv'
<1>1. NoFutureRows'
  BY DEF QuotaInv, NoFutureRows
<1>2. LocalsAgree'
  BY DEF QuotaInv, LocalsAgree
<1>3. ASSUME NEW s \in Subs, NEW t \in Types, NEW m \in Months
      PROVE  Room(s, t, m)'
  <2>1. h \notin Pending(s, t, m)'
    BY DEF Pending
  <2>2. Pending(s, t, m)' \subseteq Pending(s, t, m)
    BY <2>1 DEF Pending
  <2>3. \A g \in Pending(s, t, m)' : req'[g] = req[g]
    BY <2>1 DEF Pending
  <2> QED BY <2>2, <2>3, RoomKept DEF QuotaInv, AllRoom
<1> QED BY <1>1, <1>2, <1>3 DEF QuotaInv, AllRoom

LEMMA QuotaLoad ==
  ASSUME TypeInv, TypeOK', QuotaInv, NEW h \in Handlers, LoadSubscription(h),
         pc'[h] = "clock"
  PROVE  QuotaInv'
<1> USE DEF TypeInv, TypeOK
<1> DEFINE sub == subs[req[h].sub]
<1>1. /\ pc' = [pc EXCEPT ![h] = "clock"]
      /\ sub # NoSub
      /\ limit' = [limit EXCEPT ![h] = Limit[sub.plan][req[h].type]]
      /\ UNCHANGED <<events, month, req, period, stamp>>
  BY DEF LoadSubscription, Refuse, Finish, Goto
<1>2. sub.plan \in Plans /\ req[h].type \in Types
  BY <1>1 DEF SubRow
<1>3. limit'[h] <= TopLimit[req'[h].type]
  BY <1>1, <1>2
<1>4. \A g \in Handlers \ {h} :
        /\ pc'[g] = pc[g] /\ req'[g] = req[g] /\ period'[g] = period[g]
        /\ limit'[g] = limit[g] /\ stamp'[g] = stamp[g]
  BY <1>1
<1> QED BY <1>1, <1>3, <1>4, QuietStep

LEMMA QuotaClock ==
  ASSUME TypeInv, TypeOK', QuotaInv, NEW h \in Handlers, ReadClock(h)
  PROVE  QuotaInv'
<1> USE DEF TypeInv, TypeOK
<1>1. /\ pc[h] = "clock" /\ pc' = [pc EXCEPT ![h] = "quota"]
      /\ period' = [period EXCEPT ![h] = month]
      /\ UNCHANGED <<events, month, req, limit, stamp>>
  BY DEF ReadClock, Goto
<1>3. NoFutureRows'
  BY <1>1 DEF QuotaInv, NoFutureRows
<1>4. LocalsAgree'
  <2>1. period'[h] \in 1..month /\ limit'[h] <= TopLimit[req[h].type]
    BY <1>1 DEF Months, QuotaInv, LocalsAgree
  <2> QED BY <1>1, <2>1 DEF QuotaInv, LocalsAgree
<1>5. ASSUME NEW s \in Subs, NEW t \in Types, NEW m \in Months
      PROVE  Room(s, t, m)'
  <2>1. \A g \in Handlers \ {h} : g \in Pending(s, t, m)'
                                  <=> g \in Pending(s, t, m)
    BY <1>1 DEF Pending
  <2>2. CASE h \notin Pending(s, t, m)'
    <3>1. Pending(s, t, m)' \subseteq Pending(s, t, m)
      BY <2>1, <2>2 DEF Pending
    <3> QED BY <1>1, <3>1, RoomKept DEF QuotaInv, AllRoom
  <2>3. CASE h \in Pending(s, t, m)'
    <3>1. month < m /\ req[h].qty <= TopLimit[t]
      BY <1>1, <2>3 DEF Pending
    <3>2. UsedIn(s, t, m)' = 0
      <4>1. \A i \in DOMAIN events : events[i].month # m
        <5> SUFFICES ASSUME NEW i \in DOMAIN events PROVE events[i].month # m
          OBVIOUS
        <5>1. events[i].month \in Int /\ events[i].month <= month
          BY RowTypes DEF QuotaInv, NoFutureRows
        <5>2. month \in Int /\ m \in Int
          BY DEF Months
        <5> HIDE DEF TypeOK
        <5> QED BY <3>1, <5>1, <5>2
      <4>2. QtyRow(events)
        BY RowTypes
      <4>3. UsedIn(s, t, m) = 0
        BY <4>1, <4>2, TotalByTypeZero DEF UsedIn
      <4> QED BY <1>1, <4>3 DEF UsedIn
    <3>3. Qty' \in [Handlers -> 0..MaxQty] /\ 0 + Qty'[h] <= TopLimit[t]
      BY <1>1, <3>1 DEF Qty
    <3>4. Pending(s, t, m)' \in SUBSET Handlers
      BY DEF Pending
    <3>5. HasRoom(Pending(s, t, m)', Qty', 0, Bound(t))
      BY <2>3, <3>3, <3>4, RoomJoin
    <3> QED BY <3>2, <3>5 DEF Room
  <2> QED BY <2>2, <2>3
<1> QED BY <1>3, <1>4, <1>5 DEF QuotaInv, AllRoom

LEMMA QuotaCheck ==
  ASSUME TypeInv, TypeOK', QuotaInv, NEW h \in Handlers, CheckQuota(h), Fits(h)
  PROVE  QuotaInv'
<1> USE DEF TypeInv, TypeOK
<1>1. /\ pc[h] = "quota" /\ pc' = [pc EXCEPT ![h] = "flush"]
      /\ UNCHANGED <<events, month, req, period, limit, stamp>>
  BY DEF CheckQuota, Move, Goto
<1>2. /\ period[h] \in 1..month /\ limit[h] <= TopLimit[req[h].type]
      /\ req[h].type \in Types /\ req[h].sub \in Subs /\ req[h].qty \in Nat
      /\ TopLimit[req[h].type] \in Nat /\ limit[h] \in Int
  BY <1>1 DEF QuotaInv, LocalsAgree
<1>3. UsedIn(req[h].sub, req[h].type, period[h]) \in Nat
  BY UsageTypes
<1>4. /\ UsedIn(req[h].sub, req[h].type, period[h]) + req[h].qty
           <= TopLimit[req[h].type]
      /\ req[h].qty <= TopLimit[req[h].type]
  <2>1. UsedIn(req[h].sub, req[h].type, period[h]) + req[h].qty <= limit[h]
    BY DEF Fits
  <2> HIDE DEF TypeOK
  <2> QED BY <1>2, <1>3, <2>1
<1>5. NoFutureRows'
  BY <1>1 DEF QuotaInv, NoFutureRows
<1>6. LocalsAgree'
  BY <1>1, <1>4 DEF QuotaInv, LocalsAgree
<1>7. ASSUME NEW s \in Subs, NEW t \in Types, NEW m \in Months
      PROVE  Room(s, t, m)'
  <2>1. \A g \in Handlers \ {h} : g \in Pending(s, t, m)'
                                  <=> g \in Pending(s, t, m)
    BY <1>1 DEF Pending
  <2>2. CASE h \notin Pending(s, t, m)' \/ h \in Pending(s, t, m)
    <3>1. Pending(s, t, m)' \subseteq Pending(s, t, m)
      BY <2>1, <2>2 DEF Pending
    <3> QED BY <1>1, <3>1, RoomKept DEF QuotaInv, AllRoom
  <2>3. CASE h \in Pending(s, t, m)' /\ h \notin Pending(s, t, m)
    <3>1. s = req[h].sub /\ t = req[h].type /\ m = period[h]
      BY <1>1, <1>2, <1>4, <2>3 DEF Pending, Months
    <3>2. UsedIn(s, t, m)' = UsedIn(s, t, m)
      BY <1>1 DEF UsedIn
    <3>3. /\ Qty' \in [Handlers -> 0..MaxQty]
          /\ UsedIn(s, t, m) + Qty'[h] <= TopLimit[t]
      BY <1>1, <1>4, <3>1 DEF Qty
    <3>4. Pending(s, t, m)' \in SUBSET Handlers
      BY DEF Pending
    <3>5. UsedIn(s, t, m) \in Nat
      BY <1>3, <3>1
    <3>6. HasRoom(Pending(s, t, m)', Qty', UsedIn(s, t, m), Bound(t))
      BY <2>3, <3>3, <3>4, <3>5, RoomJoin
    <3> QED BY <3>2, <3>6 DEF Room
  <2> QED BY <2>2, <2>3
<1> QED BY <1>5, <1>6, <1>7 DEF QuotaInv, AllRoom

LEMMA QuotaFlush ==
  ASSUME TypeInv, TypeOK', QuotaInv, NEW h \in Handlers, Flush(h)
  PROVE  QuotaInv'
<1> USE DEF TypeInv, TypeOK
<1>1. /\ pc[h] = "flush" /\ pc' = [pc EXCEPT ![h] = "insert"]
      /\ stamp' = [stamp EXCEPT ![h] = month]
      /\ UNCHANGED <<events, month, req, period, limit>>
  BY DEF Flush, Goto
<1>2. NoFutureRows'
  BY <1>1 DEF QuotaInv, NoFutureRows
<1>3. LocalsAgree'
  BY <1>1 DEF QuotaInv, LocalsAgree, Months
<1>4. ASSUME NEW s \in Subs, NEW t \in Types, NEW m \in Months
      PROVE  Room(s, t, m)'
  <2>1. Pending(s, t, m)' \subseteq Pending(s, t, m)
    <3> SUFFICES ASSUME NEW g \in Pending(s, t, m)' PROVE g \in Pending(s, t, m)
      OBVIOUS
    <3>1. CASE g = h
      BY <1>1, <3>1 DEF Pending, Months
    <3>2. CASE g # h
      BY <1>1, <3>2 DEF Pending
    <3> QED BY <3>1, <3>2
  <2> QED BY <1>1, <2>1, RoomKept DEF QuotaInv, AllRoom
<1> QED BY <1>2, <1>3, <1>4 DEF QuotaInv, AllRoom

LEMMA QuotaInsert ==
  ASSUME TypeInv, TypeOK', QuotaInv, NEW h \in Handlers,
         pc[h] = "insert", pc' = [pc EXCEPT ![h] = "commit"],
         UNCHANGED <<events, month, req, period, limit, stamp>>
  PROVE  QuotaInv'
<1> USE DEF TypeInv, TypeOK
<1>1. NoFutureRows' /\ LocalsAgree'
  BY DEF QuotaInv, NoFutureRows, LocalsAgree
<1>2. ASSUME NEW s \in Subs, NEW t \in Types, NEW m \in Months
      PROVE  Room(s, t, m)'
  <2>1. Pending(s, t, m)' \subseteq Pending(s, t, m)
    BY DEF Pending
  <2> QED BY <2>1, RoomKept DEF QuotaInv, AllRoom
<1> QED BY <1>1, <1>2 DEF QuotaInv, AllRoom

LEMMA QuotaCommit ==
  ASSUME TypeInv, TypeOK', QuotaInv, NEW h \in Handlers, Commit(h)
  PROVE  QuotaInv'
<1> USE DEF TypeInv, TypeOK
<1> DEFINE e == NewRow(h)
<1>1. /\ pc[h] = "commit" /\ pc' = [pc EXCEPT ![h] = "refresh"]
      /\ events' = Append(events, e)
      /\ UNCHANGED <<month, req, period, limit, stamp>>
  BY DEF Commit, Goto
<1>2. /\ e \in UsageRow /\ e.qty \in Nat
      /\ e.sub = req[h].sub /\ e.type = req[h].type /\ e.qty = req[h].qty
      /\ e.month = stamp[h] /\ stamp[h] \in 1..month
  BY <1>1 DEF NewRow, UsageRow, Stamped, QuotaInv, LocalsAgree
<1>3. QtyRow(events)
  BY RowTypes
<1> HIDE DEF e
<1>4. NoFutureRows'
  <2>1. ASSUME NEW i \in DOMAIN events' PROVE events'[i].month <= month
    <3>1. CASE i \in DOMAIN events
      BY <1>1, <1>2, <3>1 DEF QuotaInv, NoFutureRows
    <3>2. CASE i \notin DOMAIN events
      <4>1. events'[i] = e
        <5>1. events \in Seq(UsageRow)
          OBVIOUS
        <5> HIDE DEF TypeInv, TypeOK
        <5> QED BY <1>1, <1>2, <2>1, <3>2, <5>1, OneMoreRow
      <4>2. month \in Int
        BY DEF Months
      <4> HIDE DEF TypeOK
      <4> QED BY <1>2, <4>1, <4>2
    <3> QED BY <3>1, <3>2
  <2> QED BY <1>1, <2>1 DEF NoFutureRows
<1>5. LocalsAgree'
  BY <1>1 DEF QuotaInv, LocalsAgree
<1>6. ASSUME NEW s \in Subs, NEW t \in Types, NEW m \in Months
      PROVE  Room(s, t, m)'
  <2> DEFINE P == Pending(s, t, m)
             T == UsedIn(s, t, m)
  <2>1. P \in SUBSET Handlers /\ P' = P \ {h}
    BY <1>1 DEF Pending
  <2>2. Qty \in [Handlers -> 0..MaxQty] /\ T \in Nat /\ Bound(t) \in Int
    BY UsageTypes
  <2>3. Qty' = Qty
    BY <1>1 DEF Qty
  <2>4. HasRoom(P, Qty, T, Bound(t))
    BY DEF QuotaInv, AllRoom, Room
  <2>5. h \in P <=> req[h].sub = s /\ req[h].type = t /\ stamp[h] = m
    BY <1>1 DEF Pending
  <2>6. T' = T + (IF h \in P THEN Qty[h] ELSE 0)
    <3>1. T' = T + (IF e.sub = s /\ e.type = t /\ e.month = m
                    THEN e.qty ELSE 0)
      BY <1>1, <1>2, <1>3, TotalByTypeAppend DEF UsedIn
    <3> HIDE DEF T, P
    <3> QED BY <1>2, <2>5, <3>1 DEF Qty
  <2> HIDE DEF P, T
  <2>7. HasRoom(P', Qty', T', Bound(t))
    <3>1. CASE h \in P
      BY <2>1, <2>2, <2>3, <2>4, <2>6, <3>1, RoomCommit
    <3>2. CASE h \notin P
      <4>1. T' = T + 0
        BY <2>6, <3>2
      <4>2. P' = P
        BY <2>1, <3>2, RemoveAbsent, Zenon
      <4>3. T' = T
        BY <2>2, <4>1
      <4> QED BY <2>3, <2>4, <4>2, <4>3
    <3> QED BY <3>1, <3>2
  <2> QED BY <2>7 DEF Room, P, T
<1> QED BY <1>4, <1>5, <1>6 DEF QuotaInv, AllRoom

LEMMA QuotaNextMonth ==
  ASSUME TypeInv, TypeOK', QuotaInv, NextMonth
  PROVE  QuotaInv'
<1> USE DEF TypeInv, TypeOK
<1>1. /\ month' = month + 1 /\ month \in Nat
      /\ UNCHANGED <<events, pc, req, period, limit, stamp>>
  BY DEF NextMonth, handlerVars, Months
<1>2. NoFutureRows'
  <2>1. ASSUME NEW i \in DOMAIN events PROVE events[i].month <= month + 1
    <3>1. events[i].month \in Int /\ events[i].month <= month
      BY RowTypes DEF QuotaInv, NoFutureRows
    <3> QED BY <1>1, <3>1
  <2> QED BY <1>1, <2>1 DEF NoFutureRows
<1>3. LocalsAgree'
  BY <1>1 DEF QuotaInv, LocalsAgree
<1>4. ASSUME NEW s \in Subs, NEW t \in Types, NEW m \in Months
      PROVE  Room(s, t, m)'
  <2>1. Pending(s, t, m)' \subseteq Pending(s, t, m)
    BY <1>1 DEF Pending, Months
  <2> QED BY <1>1, <2>1, RoomKept DEF QuotaInv, AllRoom
<1> QED BY <1>2, <1>3, <1>4 DEF QuotaInv, AllRoom

LEMMA QuotaUntouched ==
  ASSUME TypeInv, TypeOK', QuotaInv, UNCHANGED <<events, month, handlerVars>>
  PROVE  QuotaInv'
<1>1. NoFutureRows' /\ LocalsAgree'
  BY DEF QuotaInv, NoFutureRows, LocalsAgree, handlerVars
<1>2. ASSUME NEW s \in Subs, NEW t \in Types, NEW m \in Months
      PROVE  Room(s, t, m)'
  <2>1. Pending(s, t, m)' \subseteq Pending(s, t, m)
    BY DEF Pending, handlerVars
  <2> QED BY <2>1, RoomKept DEF QuotaInv, AllRoom, handlerVars, TypeInv
<1> QED BY <1>1, <1>2 DEF QuotaInv, AllRoom

LEMMA QuotaInit == Init => QuotaInv
<1> SUFFICES ASSUME Init PROVE QuotaInv
  OBVIOUS
<1>1. TypeOK
  BY TypeInit DEF TypeInv
<1>2. NoFutureRows /\ LocalsAgree
  BY DEF Init, NoFutureRows, LocalsAgree
<1>3. ASSUME NEW s \in Subs, NEW t \in Types, NEW m \in Months
      PROVE  Room(s, t, m)
  <2>1. Pending(s, t, m) = {}
    BY DEF Pending, Init
  <2>2. UsedIn(s, t, m) = 0
    <3>1. \A i \in DOMAIN events : events[i].month # m
      BY DEF Init
    <3>2. events \in Seq(UsageRow) /\ QtyRow(events)
      BY <1>1, RowTypes DEF TypeOK
    <3> QED BY <3>1, <3>2, TotalByTypeZero DEF UsedIn
  <2>3. 0 <= Bound(t)
    <3>1. (N - 1) * MaxQty >= 0 /\ (N - 1) * MaxQty \in Int
      <4>1. N - 1 \in Nat
        BY HandlersCounted
      <4>2. 0 * MaxQty <= (N - 1) * MaxQty
        BY <4>1, TimesMonotone
      <4> QED BY <4>1, <4>2
    <3>2. TopLimit[t] \in Nat
      OBVIOUS
    <3> QED BY <3>1, <3>2 DEF Bound
  <2> QED BY <2>1, <2>2, <2>3 DEF Room, HasRoom
<1> QED BY <1>2, <1>3 DEF QuotaInv, AllRoom

LEMMA QuotaStep == TypeInv /\ QuotaInv /\ [Next]_vars => QuotaInv'
<1> SUFFICES ASSUME TypeInv, QuotaInv, [Next]_vars PROVE QuotaInv'
  OBVIOUS
<1>0. TypeOK /\ TypeOK'
  BY TypeStep DEF TypeInv
<1>1. ASSUME NEW h \in Handlers, NEW code, Finish(h, code) PROVE QuotaInv'
  <2>1. /\ UNCHANGED <<events, month>>
        /\ pc'[h] = "idle"
        /\ \A g \in Handlers \ {h} :
             /\ pc'[g] = pc[g] /\ req'[g] = req[g] /\ period'[g] = period[g]
             /\ limit'[g] = limit[g] /\ stamp'[g] = stamp[g]
    BY <1>0, <1>1 DEF Finish, Goto, TypeOK
  <2> QED BY <1>0, <2>1, QuietStep
<1>2. ASSUME NEW h \in Handlers, NEW label, Move(h, label),
             label \in {"key", "load", "reread"}
      PROVE  QuotaInv'
  <2>1. /\ UNCHANGED <<events, month>>
        /\ pc'[h] \notin {"clock", "quota", "flush", "insert", "commit"}
        /\ \A g \in Handlers \ {h} :
             /\ pc'[g] = pc[g] /\ req'[g] = req[g] /\ period'[g] = period[g]
             /\ limit'[g] = limit[g] /\ stamp'[g] = stamp[g]
    BY <1>0, <1>2 DEF Move, Goto, TypeOK
  <2> QED BY <1>0, <2>1, QuietStep
<1>3. ASSUME NEW h \in Handlers, Step(h) PROVE QuotaInv'
  <2>1. CASE CheckOwner(h) \/ CheckKey(h) \/ Refresh(h) \/ Reread(h)
    BY <1>1, <1>2, <2>1
       DEF CheckOwner, CheckKey, Refresh, Reread, Refuse, Answer
  <2>2. CASE LoadSubscription(h)
    <3>1. CASE \E code : Refuse(h, code)
      BY <1>1, <3>1 DEF Refuse
    <3>2. CASE ~ \E code : Refuse(h, code)
      <4>1. pc'[h] = "clock"
        BY <1>0, <2>2, <3>2 DEF LoadSubscription, Goto, TypeOK
      <4> QED BY <1>0, <2>2, <4>1, QuotaLoad
    <3> QED BY <3>1, <3>2
  <2>7. CASE ReadClock(h)
    BY <1>0, <2>7, QuotaClock
  <2>3. CASE CheckQuota(h)
    BY <1>0, <1>1, <2>3, QuotaCheck DEF CheckQuota, Refuse
  <2>4. CASE Flush(h)
    BY <1>0, <2>4, QuotaFlush
  <2>5. CASE Insert(h)
    <3>1. CASE RowsWithKey(req[h].key) # {}
      BY <1>2, <2>5, <3>1 DEF Insert
    <3>2. CASE RowsWithKey(req[h].key) = {}
      BY <1>0, <2>5, <3>2, QuotaInsert DEF Insert, Move, Goto
    <3> QED BY <3>1, <3>2
  <2>6. CASE Commit(h)
    BY <1>0, <2>6, QuotaCommit
  <2> QED BY <1>3, <2>1, <2>2, <2>3, <2>4, <2>5, <2>6, <2>7 DEF Step
<1>4. ASSUME NEW h \in Handlers, Fail(h) PROVE QuotaInv'
  BY <1>1, <1>4 DEF Fail, Refuse
<1>5. ASSUME NEW h \in Handlers, NEW r \in Requests, Start(h, r)
      PROVE  QuotaInv'
  <2>1. /\ UNCHANGED <<events, month>>
        /\ pc'[h] = "owner"
        /\ \A g \in Handlers \ {h} :
             /\ pc'[g] = pc[g] /\ req'[g] = req[g] /\ period'[g] = period[g]
             /\ limit'[g] = limit[g] /\ stamp'[g] = stamp[g]
    BY <1>0, <1>5 DEF Start, Goto, TypeOK
  <2> QED BY <1>0, <2>1, QuietStep
<1>6. CASE NextMonth
  BY <1>0, <1>6, QuotaNextMonth
<1>7. CASE UNCHANGED <<events, month, handlerVars>>
  BY <1>0, <1>7, QuotaUntouched
<1> QED BY <1>3, <1>4, <1>5, <1>6, <1>7
        DEF Next, vars, handlerVars, CreateSubscription, SyncSubscription, Reconcile

LEMMA QuotaInvariant == Spec => [](TypeInv /\ QuotaInv)
<1>1. Init => TypeInv /\ QuotaInv
  BY TypeInit, QuotaInit
<1>2. TypeInv /\ QuotaInv /\ [Next]_vars => (TypeInv /\ QuotaInv)'
  BY StampedStep, TypeStep, QuotaStep DEF TypeInv
<1> QED BY <1>1, <1>2, PTL DEF Spec

\* Requests in flight overshoot a monthly limit by at most the quantities of
\* the other handlers' requests, for any number of handlers, any plans and
\* any plan changes and month ends on the way.
THEOREM QuotaOvershoot == Spec => []OvershootBounded
<1>1. TypeInv /\ QuotaInv => OvershootBounded
  <2> SUFFICES ASSUME TypeInv, QuotaInv,
                      NEW s \in Subs, NEW t \in Types, NEW m \in Months
               PROVE  UsedIn(s, t, m) <= Bound(t)
    BY DEF OvershootBounded, Bound, N
  <2>1. Pending(s, t, m) \in SUBSET Handlers
    BY DEF Pending
  <2>2. HasRoom(Pending(s, t, m), Qty, UsedIn(s, t, m), Bound(t))
    BY DEF QuotaInv, AllRoom, Room
  <2> QED BY <2>1, <2>2, UsageTypes, RoomIsBelow DEF TypeInv
<1> QED BY <1>1, QuotaInvariant, PTL

\* With one handler the documented quota is exact.
THEOREM QuotaExactAlone ==
  ASSUME Cardinality(Handlers) = 1
  PROVE  Spec => []QuotaNeverExceeded
<1>1. OvershootBounded => QuotaNeverExceeded
  <2> SUFFICES ASSUME OvershootBounded,
                      NEW s \in Subs, NEW t \in Types, NEW m \in Months
               PROVE  UsedIn(s, t, m) <= TopLimit[t]
    BY DEF QuotaNeverExceeded
  <2>1. UsedIn(s, t, m) <= TopLimit[t] + (1 - 1) * MaxQty
    BY DEF OvershootBounded
  <2>2. TopLimit[t] + (1 - 1) * MaxQty = TopLimit[t]
    OBVIOUS
  <2> QED BY <2>1, <2>2
<1> QED BY <1>1, QuotaOvershoot, PTL

-----------------------------------------------------------------------------
(* Refinement *)

LEMMA LedgerStep ==
  TypeInv /\ KeyInv /\ [Next]_vars => [Ledger!Next]_(Ledger!ledgerVars)
<1> SUFFICES ASSUME TypeInv, KeyInv, [Next]_vars
             PROVE  [Ledger!Next]_(Ledger!ledgerVars)
  OBVIOUS
<1> DEFINE rec == [k \in Keys |-> RowsWithKey(k)]
           ans == [k \in Keys |-> {a.row : a \in answered[k]}]
<1>1. ASSUME UNCHANGED <<events, answered>>
      PROVE  UNCHANGED Ledger!ledgerVars
  BY <1>1 DEF Ledger!ledgerVars, RowsWithKey
<1>2. ASSUME NEW h \in Handlers, NEW i, Answer(h, i),
             RowsWithKey(req[h].key) = {i}
      PROVE  Ledger!Next
  <2>1. req[h].key \in Keys
    BY DEF TypeInv, TypeOK
  <2>2. events' = events
        /\ answered' = [answered EXCEPT
                          ![req[h].key] = @ \cup {[sub |-> req[h].sub, row |-> i]}]
    BY <1>2 DEF Answer, Finish
  <2>3. rec' = rec
    BY <2>2 DEF RowsWithKey
  <2>6. ans' = [ans EXCEPT ![req[h].key] = @ \cup {i}]
    <3>1. answered \in [Keys -> SUBSET Answers]
      BY DEF TypeInv, TypeOK
    <3>2. ASSUME NEW k \in Keys
          PROVE  {a.row : a \in answered'[k]} =
                   IF k = req[h].key THEN ans[k] \cup {i} ELSE ans[k]
      <4>1. answered'[k] = IF k = req[h].key
                             THEN answered[k] \cup {[sub |-> req[h].sub, row |-> i]}
                             ELSE answered[k]
        BY <2>2, <3>1
      <4>2. ans[k] = {a.row : a \in answered[k]}
        OBVIOUS
      <4> DEFINE e == [sub |-> req[h].sub, row |-> i]
      <4>3. e.row = i /\ answered'[k] = IF k = req[h].key THEN answered[k] \cup {e}
                                                        ELSE answered[k]
        BY <4>1
      <4> HIDE DEF e, ans
      <4>4. {a.row : a \in answered[k] \cup {e}} = {a.row : a \in answered[k]} \cup {i}
        BY <4>3
      <4> QED BY <4>2, <4>3, <4>4
    <3> QED BY <3>2
  <2>4. rec[req[h].key] = {i}
    BY <1>2, <2>1
  <2>5. PICK k \in Keys : k = req[h].key
    BY <2>1
  <2>7. Ledger!Answer(k)
    BY <2>3, <2>4, <2>5, <2>6 DEF Ledger!Answer
  <2> HIDE DEF rec, ans
  <2> QED BY <2>7 DEF Ledger!Next
<1>3. ASSUME NEW h \in Handlers, Commit(h) PROVE Ledger!Next
  <2> DEFINE k == req[h].key
             i == Len(events) + 1
  <2>1. k \in Keys /\ RowsWithKey(k) = {}
    <3>1. k \in Keys
      BY DEF TypeInv, TypeOK
    <3>2. RowsWithKey(k) = {}
      BY <1>3 DEF Commit, KeyInv, LockedIsNew
    <3> QED BY <3>1, <3>2
  <2>2. /\ NewRow(h).key = k /\ NewRow(h) \in UsageRow
        /\ events \in Seq(UsageRow) /\ events' = Append(events, NewRow(h))
        /\ answered' = answered
    BY <1>3 DEF TypeInv, TypeOK, Stamped, Commit, NewRow, UsageRow
  <2>3. /\ DOMAIN events = 1..Len(events) /\ Len(events) \in Nat
        /\ DOMAIN events' = 1..i
        /\ events'[i] = NewRow(h)
        /\ \A j \in DOMAIN events : events'[j] = events[j]
    BY <2>2, OneMoreRow
  <2>4. \A j \in Keys : i \notin RowsWithKey(j)
    BY <2>3 DEF RowsWithKey
  <2>5. ASSUME NEW j \in Keys
        PROVE  RowsWithKey(j)' = IF j = k THEN {i} ELSE RowsWithKey(j)
    <3>1. DOMAIN events' = DOMAIN events \cup {i}
      BY <2>3
    <3> HIDE DEF i, k
    <3>2. CASE j = k
      BY <2>1, <2>2, <2>3, <3>1, <3>2 DEF RowsWithKey
    <3>3. CASE j # k
      BY <2>2, <2>3, <3>1, <3>3 DEF RowsWithKey
    <3> QED BY <3>2, <3>3
  <2> HIDE DEF i, k
  <2>6. rec' = [rec EXCEPT ![k] = {i}]
    BY <2>1, <2>5
  <2>7. rec[k] = {} /\ i \in rec'[k]
    BY <2>1, <2>5
  <2>8. Ledger!Record(k)
    BY <2>2, <2>4, <2>6, <2>7 DEF Ledger!Record
  <2> QED BY <2>1, <2>8 DEF Ledger!Next
<1>4. ASSUME NEW h \in Handlers, Step(h)
      PROVE  Ledger!Next \/ UNCHANGED <<events, answered>>
  <2>1. CASE CheckKey(h)
    BY <1>2, <2>1, FoundRowIsTheRow DEF CheckKey, Move
  <2>2. CASE Commit(h)
    BY <1>3, <2>2
  <2>3. CASE Refresh(h)
    BY <1>2, <2>3 DEF Refresh, KeyInv, InsertedIsTheRow
  <2>4. CASE Reread(h)
    BY <1>2, <2>4, FoundRowIsTheRow DEF Reread
  <2>5. CASE CheckOwner(h) \/ LoadSubscription(h) \/ ReadClock(h)
             \/ CheckQuota(h) \/ Flush(h) \/ Insert(h)
    BY <2>5 DEF CheckOwner, LoadSubscription, ReadClock, CheckQuota, Flush,
                Insert, Move, Refuse, Finish
  <2> QED BY <1>4, <2>1, <2>2, <2>3, <2>4, <2>5 DEF Step
<1>5. Next => (\E h \in Handlers : Step(h)) \/ UNCHANGED <<events, answered>>
  BY DEF Next, Fail, Start, Refuse, Finish, CreateSubscription,
         SyncSubscription, Reconcile, NextMonth
<1> QED BY <1>1, <1>4, <1>5 DEF vars

\* The metering path implements the exactly-once ledger.
THEOREM ImplementsLedger == Spec => LedgerSpec
<1>1. Init => Ledger!Init
  BY DEF Init, Ledger!Init, RowsWithKey
<1> QED BY <1>1, KeyInvariant, LedgerStep, PTL DEF Spec, LedgerSpec, Ledger!Spec

-----------------------------------------------------------------------------
(* Retries with one handler *)

\* Past the look-up, no row has the handler's key.
StillNew ==
  \A h \in Handlers : pc[h] \in {"load", "clock", "quota", "flush", "insert", "commit"}
    => RowsWithKey(req[h].key) = {}

LEMMA StillNewStep ==
  ASSUME Cardinality(Handlers) = 1
  PROVE  TypeInv /\ StillNew /\ [Next]_vars => StillNew'
<1> SUFFICES ASSUME TypeInv, StillNew, [Next]_vars PROVE StillNew'
  OBVIOUS
<1> USE DEF TypeInv, TypeOK
<1>1. \A g, h \in Handlers : g = h
  BY HandlersAssumption, FS_Singleton
<1>2. ASSUME NEW h \in Handlers, NEW label, Goto(h, label),
             label \notin {"load", "clock", "quota", "flush", "insert", "commit"}
      PROVE  StillNew'
  BY <1>1, <1>2 DEF Goto, StillNew
<1>3. ASSUME NEW h \in Handlers, NEW label, Goto(h, label), UNCHANGED <<events, req>>,
             RowsWithKey(req[h].key) = {}
      PROVE  StillNew'
  BY <1>1, <1>3 DEF Goto, StillNew, RowsWithKey
<1>4. ASSUME NEW h \in Handlers, Step(h) PROVE StillNew'
  <2>1. CASE CheckOwner(h) \/ Commit(h) \/ Refresh(h) \/ Reread(h)
    BY <1>2, <2>1 DEF CheckOwner, Commit, Refresh, Reread, Answer, Refuse, Finish, Move
  <2>2. CASE CheckKey(h)
    BY <1>2, <1>3, <2>2 DEF CheckKey, Answer, Finish, Move
  <2>3. CASE LoadSubscription(h) \/ ReadClock(h) \/ CheckQuota(h) \/ Flush(h)
    <3>1. RowsWithKey(req[h].key) = {}
      BY <2>3 DEF LoadSubscription, ReadClock, CheckQuota, Flush, StillNew
    <3> QED BY <1>2, <1>3, <2>3, <3>1
          DEF LoadSubscription, ReadClock, CheckQuota, Flush, Refuse, Finish, Move
  <2>4. CASE Insert(h)
    <3>1. RowsWithKey(req[h].key) = {}
      BY <2>4 DEF Insert, StillNew
    <3> QED BY <1>3, <2>4, <3>1 DEF Insert, Move
  <2> QED BY <1>4, <2>1, <2>2, <2>3, <2>4 DEF Step
<1>5. ASSUME NEW h \in Handlers, Fail(h) PROVE StillNew'
  BY <1>2, <1>5 DEF Fail, Refuse, Finish
<1>6. ASSUME NEW h \in Handlers, NEW r \in Requests, Start(h, r) PROVE StillNew'
  BY <1>2, <1>6 DEF Start
<1>7. CASE UNCHANGED <<events, handlerVars>>
  BY <1>7 DEF StillNew, RowsWithKey, handlerVars
<1> QED BY <1>4, <1>5, <1>6, <1>7
      DEF Next, vars, handlerVars, CreateSubscription, SyncSubscription, Reconcile,
          NextMonth

\* With one handler a request for a key that is recorded is never refused for
\* its quota or its status: it gets the original, as README.md:627 promises.
THEOREM RetriesGetOriginalAlone ==
  ASSUME Cardinality(Handlers) = 1
  PROVE  Spec => RetryGetsOriginal
<1> DEFINE A == \A h \in Handlers :
                  reply'[h] \in {"over_quota", "not_active"} /\ reply[h] = "none"
                    => RowsWithKey(req[h].key) = {}
<1>1. Init => StillNew
  BY DEF Init, StillNew
<1>2. TypeInv /\ StillNew /\ [Next]_vars => [A]_vars
  <2> SUFFICES ASSUME TypeInv, StillNew, Next PROVE A
    BY DEF vars
  <2> USE DEF TypeInv, TypeOK
  <2> SUFFICES ASSUME NEW h \in Handlers,
                      reply'[h] \in {"over_quota", "not_active"}, reply[h] = "none"
               PROVE  RowsWithKey(req[h].key) = {}
    OBVIOUS
  <2>1. ASSUME NEW g \in Handlers, NEW code, Finish(g, code),
               code \notin {"over_quota", "not_active"}
        PROVE  FALSE
    BY <2>1 DEF Finish
  <2>2. ASSUME NEW g \in Handlers, Step(g) PROVE LoadSubscription(g) \/ CheckQuota(g)
    BY <2>1, <2>2 DEF Step, CheckOwner, CheckKey, ReadClock, Flush, Insert, Commit, Refresh,
         Reread, Answer, Refuse, Move
  <2>3. ASSUME NEW g \in Handlers, LoadSubscription(g) \/ CheckQuota(g)
        PROVE  g = h /\ pc[g] \in {"load", "quota"}
    BY <2>3 DEF LoadSubscription, CheckQuota, Refuse, Finish, Move
  <2>4. ~(\E g \in Handlers : Fail(g) \/ \E r \in Requests : Start(g, r))
    BY <2>1 DEF Fail, Refuse, Start
  <2>5. ~(UNCHANGED reply)
    OBVIOUS
  <2> QED BY <2>2, <2>3, <2>4, <2>5
        DEF Next, StillNew, CreateSubscription, SyncSubscription, Reconcile, NextMonth,
            handlerVars
<1>3. Spec => []TypeInv
  BY TypeInit, StampedStep, TypeStep, PTL DEF Spec, TypeInv
<1> QED BY <1>1, <1>2, <1>3, StillNewStep, PTL DEF Spec, RetryGetsOriginal
=============================================================================
