--------------------------- MODULE CatalogProofs ---------------------------
(***************************************************************************)
(* Proofs about the catalogue, for any number of clients, runs of the seed *)
(* script, plans, tenants and subscriptions.                               *)
(*                                                                         *)
(* The argument: an inserted value is held by one transaction at a time    *)
(* and is in no committed row (Held), so no COMMIT adds a second row; a    *)
(* run carries every item it has dealt with, in the tables or in its own   *)
(* transaction (Carried), so its COMMIT completes the demo data; and a run *)
(* that adds the subscription has either made the tenant or found one the  *)
(* script has not made (AddsAlone).  Nobody waits in a circle, because a   *)
(* run waits only for one that has dealt with more items than it has, and  *)
(* a request waits for nothing while it holds a value (WaitInv).           *)
(***************************************************************************)
EXTENDS Catalog, WellFoundedInduction, TLAPS

Held ==
  /\ \A j, k \in Jobs : j # k => mine[j] \cap mine[k] = {}
  /\ \A j \in Jobs : \A u \in mine[j] : rows[u] = <<>>

Values(q) == {q[i] : i \in DOMAIN q}

CarriedBy(s) ==
  \A i \in DOMAIN SeedItems :
    \/ SeedItems[i] \in Values(todo[s]) \cup mine[s]
    \/ rows[SeedItems[i]] # <<>>

RunOK(s) ==
  /\ pc[s] \in {"look", "insert", "subscribe", "commit"} => CarriedBy(s)
  /\ pc[s] \in {"subscribe", "commit"} => todo[s] = <<>>
  /\ pc[s] = "commit" => s \in adds \/ subs[DemoEmail] # <<>>
  /\ s \in adds => pc[s] = "commit"

Carried == \A s \in Seeders : RunOK(s)

TenantFirst == \A n \in Emails : subs[n] # <<>> => rows[n] # <<>>

AddsAlone ==
  \A s \in adds : DemoEmail \in mine[s] \/ "seed" \notin Values(rows[DemoEmail])

-----------------------------------------------------------------------------
(* Sequences *)

\* Every value of a nonempty sequence is its head or in its tail.
LEMMA HeadAndTail ==
  ASSUME NEW S, NEW q \in Seq(S), q # <<>>
  PROVE /\ Head(q) \in S /\ Tail(q) \in Seq(S)
        /\ Values(q) = {Head(q)} \cup Values(Tail(q))
<1>1. Head(q) \in S /\ Tail(q) \in Seq(S) /\ Head(q) = q[1]
  OBVIOUS
<1>2. ASSUME NEW i \in DOMAIN q
      PROVE  q[i] \in {Head(q)} \cup Values(Tail(q))
  <2>1. CASE i = 1
    BY <1>1, <2>1
  <2>2. CASE i # 1
    <3>1. i - 1 \in DOMAIN Tail(q) /\ Tail(q)[i - 1] = q[i]
      BY <1>2, <2>2
    <3>2. QED
      BY <3>1 DEF Values
  <2>3. QED
    BY <2>1, <2>2
<1>3. ASSUME NEW i \in DOMAIN Tail(q)
      PROVE  Tail(q)[i] \in Values(q)
  <2>1. i + 1 \in DOMAIN q /\ Tail(q)[i] = q[i + 1]
    BY <1>3
  <2>2. QED
    BY <2>1 DEF Values
<1>4. Head(q) \in Values(q)
  BY <1>1 DEF Values
<1>5. QED
  BY <1>1, <1>2, <1>3, <1>4 DEF Values

\* Appending adds one value, and nothing appended to is empty.
LEMMA Appended ==
  ASSUME NEW S, NEW q \in Seq(S), NEW x \in S
  PROVE /\ Append(q, x) \in Seq(S) /\ Append(q, x) # <<>>
        /\ Len(Append(q, x)) = Len(q) + 1
        /\ Values(Append(q, x)) = Values(q) \cup {x}
<1>1. /\ Append(q, x) \in Seq(S)
      /\ Len(Append(q, x)) = Len(q) + 1
      /\ DOMAIN Append(q, x) = 1..(Len(q) + 1) /\ DOMAIN q = 1..Len(q)
      /\ \A i \in 1..Len(q) : Append(q, x)[i] = q[i]
      /\ Append(q, x)[Len(q) + 1] = x
      /\ Len(q) \in Nat
  OBVIOUS
<1>2. Append(q, x) # <<>>
  BY <1>1
<1>3. Values(Append(q, x)) \subseteq Values(q) \cup {x}
  BY <1>1 DEF Values
<1>4. Values(q) \cup {x} \subseteq Values(Append(q, x))
  BY <1>1 DEF Values
<1>5. QED
  BY <1>1, <1>2, <1>3, <1>4

\* What the script wants are catalogue values; the tenant is one of them.
LEMMA SeedItemsType ==
  /\ SeedItems \in Seq(Names) /\ SeedItems # <<>>
  /\ \A i \in DOMAIN SeedItems : SeedItems[i] \in Names
  /\ \E i \in DOMAIN SeedItems : SeedItems[i] = DemoEmail
<1>1. SeedPlans \in Seq(Names) /\ DemoEmail \in Names
  BY SeedAssumption DEF Names
<1>2. SeedItems \in Seq(Names) /\ SeedItems # <<>>
  BY <1>1, Appended DEF SeedItems
<1>3. DemoEmail \in Values(SeedItems)
  BY <1>1, Appended DEF SeedItems
<1>4. QED
  BY <1>2, <1>3 DEF Values

-----------------------------------------------------------------------------
(* Types, uniqueness and refusals *)

Consistent == TypeOK /\ Held /\ NamesUnique /\ RefusalsAreTrue

LEMMA JobTypes ==
  ASSUME TypeOK, NEW j \in Jobs, pc[j] \in {"look", "insert"}
  PROVE  /\ Wanted(j) \in Names /\ Tail(todo[j]) \in Seq(Names)
         /\ Values(todo[j]) = {Wanted(j)} \cup Values(Tail(todo[j]))
<1>1. todo[j] \in Seq(Names) /\ todo[j] # <<>>
  BY DEF TypeOK
<1>2. QED
  BY <1>1, HeadAndTail DEF Wanted

LEMMA ConsistentInit == Init => Consistent
<1> SUFFICES ASSUME Init PROVE Consistent
  OBVIOUS
<1>1. \A u \in Names : rows[u] = <<>> /\ Len(rows[u]) = 0
  BY DEF Init
<1>2. TypeOK
  BY DEF Init, TypeOK, Pcs
<1>3. QED
  BY <1>1, <1>2 DEF Init, Consistent, Held, NamesUnique, RefusalsAreTrue

LEMMA CloseConsistent ==
  ASSUME Consistent, NEW j \in Jobs, Close(j), refused' \in SUBSET Names,
         \A u \in refused' \ refused : rows[u] # <<>>
  PROVE  Consistent'
<1>1. /\ rows' = rows /\ subs' = subs
      /\ \A k \in Jobs : mine'[k] \subseteq mine[k]
      /\ \A k \in Jobs : pc'[k] \in {"look", "insert"} =>
                           pc'[k] = pc[k] /\ todo'[k] = todo[k]
  BY DEF Consistent, TypeOK, Close, Goto, tables
<1>2. TypeOK'
  BY <1>1 DEF Consistent, TypeOK, Close, Goto, tables, Pcs
<1>3. Held'
  BY <1>1 DEF Consistent, Held
<1>4. QED
  BY <1>1, <1>2, <1>3 DEF Consistent, NamesUnique, RefusalsAreTrue

LEMMA RefuseConsistent ==
  ASSUME Consistent, NEW j \in Jobs, pc[j] \in {"look", "insert"},
         rows[Wanted(j)] # <<>>, Refuse(j)
  PROVE  Consistent'
<1>1. Wanted(j) \in Names
  BY JobTypes DEF Consistent
<1>2. refused' \in SUBSET Names /\ \A u \in refused' \ refused : rows[u] # <<>>
  BY <1>1 DEF Refuse, Consistent, TypeOK
<1>3. QED
  BY <1>2, CloseConsistent DEF Refuse

\* Advance leaves a job with something to look up, or at another step.
LEMMA AdvanceType ==
  ASSUME TypeOK, NEW j \in Jobs, pc[j] \in {"look", "insert"}, Advance(j)
  PROVE  /\ todo' \in [Jobs -> Seq(Names)] /\ pc' \in [Jobs -> Pcs]
         /\ \A k \in Jobs : pc'[k] \in {"look", "insert"} => todo'[k] # <<>>
         /\ UNCHANGED <<tables, adds, refused>>
<1>1. Tail(todo[j]) \in Seq(Names)
  BY JobTypes
<1>2. todo' = [todo EXCEPT ![j] = Tail(todo[j])]
  BY DEF Advance
<1>3. todo' \in [Jobs -> Seq(Names)] /\ todo'[j] = Tail(todo[j])
  BY <1>1, <1>2 DEF TypeOK
<1>4. pc' \in [Jobs -> Pcs]
  BY DEF Advance, Goto, TypeOK, Pcs
<1>5. pc'[j] \in {"look", "insert"} => Tail(todo[j]) # <<>>
  BY DEF Advance, Goto, TypeOK
<1>6. \A k \in Jobs \ {j} : pc'[k] = pc[k] /\ todo'[k] = todo[k]
  BY DEF Advance, Goto, TypeOK
<1>7. QED
  BY <1>3, <1>4, <1>5, <1>6 DEF Advance, TypeOK

LEMMA LookUpConsistent ==
  ASSUME Consistent, NEW j \in Jobs, LookUp(j)
  PROVE  Consistent'
<1>1. pc[j] = "look"
  BY DEF LookUp
<1>2. CASE rows[Wanted(j)] # <<>> /\ Refuse(j)
  BY <1>1, <1>2, RefuseConsistent
<1>3. CASE Advance(j) /\ UNCHANGED mine
  <2>1. TypeOK' /\ rows' = rows /\ refused' = refused /\ mine' = mine
    BY <1>1, <1>3, AdvanceType DEF Consistent, TypeOK, tables
  <2>2. QED
    BY <2>1 DEF Consistent, Held, NamesUnique, RefusalsAreTrue
<1>4. CASE Goto(j, "insert") /\ UNCHANGED <<tables, todo, mine, adds, refused>>
  <2>1. todo[j] # <<>>
    BY <1>1 DEF Consistent, TypeOK
  <2>2. TypeOK'
    BY <1>4, <2>1 DEF Consistent, TypeOK, Goto, tables, Pcs
  <2>3. QED
    BY <1>4, <2>2 DEF Consistent, Held, NamesUnique, RefusalsAreTrue, tables
<1>5. QED
  BY <1>2, <1>3, <1>4 DEF LookUp

LEMMA InsertConsistent ==
  ASSUME Consistent, NEW j \in Jobs, Insert(j)
  PROVE  Consistent'
<1>1. pc[j] = "insert" /\ \A k \in Jobs \ {j} : Wanted(j) \notin mine[k]
  BY DEF Insert, Locked
<1>2. CASE rows[Wanted(j)] # <<>> /\ Refuse(j)
  BY <1>1, <1>2, RefuseConsistent
<1>3. CASE rows[Wanted(j)] = <<>> /\ Inserted(j)
  <2>1. Wanted(j) \in Names
    BY <1>1, JobTypes DEF Consistent
  <2>2. Advance(j) /\ mine' = [mine EXCEPT ![j] = @ \cup {Wanted(j)}]
    BY <1>3 DEF Inserted
  <2>3. /\ mine' \in [Jobs -> SUBSET Names]
        /\ mine'[j] = mine[j] \cup {Wanted(j)}
        /\ \A k \in Jobs \ {j} : mine'[k] = mine[k]
    BY <2>1, <2>2 DEF Consistent, TypeOK
  <2>4. TypeOK' /\ rows' = rows /\ refused' = refused
    BY <1>1, <2>2, <2>3, AdvanceType DEF Consistent, TypeOK, tables
  <2>5. Held'
    <3>1. ASSUME NEW k \in Jobs, NEW l \in Jobs, k # l
          PROVE  mine'[k] \cap mine'[l] = {}
      BY <1>1, <2>3, <3>1 DEF Consistent, Held
    <3>2. ASSUME NEW k \in Jobs, NEW u \in mine'[k]
          PROVE  rows[u] = <<>>
      BY <1>3, <2>3, <3>2 DEF Consistent, Held
    <3>3. QED
      BY <2>4, <3>1, <3>2 DEF Held
  <2>6. QED
    BY <2>4, <2>5 DEF Consistent, NamesUnique, RefusalsAreTrue
<1>4. QED
  BY <1>2, <1>3 DEF Insert

\* What a COMMIT does to the rows with one value.
LEMMA CommitRows ==
  ASSUME Consistent, NEW j \in Jobs, Commit(j), NEW u \in Names
  PROVE  /\ rows'[u] \in Seq(Makers) /\ Len(rows'[u]) <= 1
         /\ u \in mine[j] => /\ rows[u] = <<>> /\ rows'[u] # <<>>
                             /\ Values(rows'[u]) = {Maker(j)}
         /\ u \notin mine[j] => rows'[u] = rows[u]
<1>1. rows[u] \in Seq(Makers) /\ Maker(j) \in Makers
  BY DEF Consistent, TypeOK, Maker, Makers
<1>2. CASE u \in mine[j]
  <2>1. rows[u] = <<>> /\ rows'[u] = Append(rows[u], Maker(j))
    BY <1>2 DEF Commit, Committed, Consistent, Held
  <2>2. Len(rows[u]) = 0 /\ Values(rows[u]) = {}
    BY <2>1 DEF Values
  <2>3. /\ rows'[u] \in Seq(Makers) /\ rows'[u] # <<>>
        /\ Len(rows'[u]) = 1 /\ Values(rows'[u]) = {Maker(j)}
    <3>1. /\ Append(rows[u], Maker(j)) \in Seq(Makers)
          /\ Append(rows[u], Maker(j)) # <<>>
          /\ Len(Append(rows[u], Maker(j))) = Len(rows[u]) + 1
          /\ Values(Append(rows[u], Maker(j))) = Values(rows[u]) \cup {Maker(j)}
      BY <1>1, Appended
    <3>2. QED
      BY <2>1, <2>2, <3>1
  <2>4. QED
    BY <1>2, <2>1, <2>3
<1>3. CASE u \notin mine[j]
  <2>1. rows'[u] = rows[u]
    BY <1>3 DEF Commit, Committed
  <2>2. QED
    BY <1>1, <1>3, <2>1 DEF Consistent, NamesUnique
<1>4. QED
  BY <1>2, <1>3

LEMMA CommitConsistent ==
  ASSUME Consistent, NEW j \in Jobs, Commit(j)
  PROVE  Consistent'
<1>1. /\ mine' = [mine EXCEPT ![j] = {}] /\ adds' = adds \ {j}
      /\ pc' = [pc EXCEPT ![j] = "refresh"] /\ UNCHANGED <<todo, refused>>
  BY DEF Commit, Goto
<1>2. rows' \in [Names -> Seq(Makers)]
  <2>1. \A u \in Names : rows'[u] \in Seq(Makers)
    BY CommitRows
  <2>2. QED
    BY <2>1 DEF Commit
<1>3. subs' \in [Emails -> Seq(Makers)]
  <2>1. /\ subs[DemoEmail] \in Seq(Makers) /\ Maker(j) \in Makers
        /\ DemoEmail \in Emails
    BY SeedAssumption DEF Consistent, TypeOK, Maker, Makers
  <2>2. Append(subs[DemoEmail], Maker(j)) \in Seq(Makers)
    BY <2>1, Appended
  <2>3. QED
    BY <2>2 DEF Commit, Consistent, TypeOK
<1>4. TypeOK'
  BY <1>1, <1>2, <1>3 DEF Consistent, TypeOK, Pcs
<1>5. Held'
  <2>1. \A k \in Jobs : mine'[k] \subseteq mine[k] /\ (k = j => mine'[k] = {})
    BY <1>1 DEF Consistent, TypeOK
  <2>2. ASSUME NEW k \in Jobs, NEW u \in mine'[k]
        PROVE  rows'[u] = <<>>
    <3>1. k # j /\ u \in mine[k] /\ u \in Names
      BY <2>1, <2>2 DEF Consistent, TypeOK
    <3>2. u \notin mine[j] /\ rows[u] = <<>>
      BY <3>1 DEF Consistent, Held
    <3>3. QED
      BY <3>1, <3>2, CommitRows
  <2>3. QED
    BY <2>1, <2>2 DEF Consistent, Held
<1>6. RefusalsAreTrue'
  BY <1>1, CommitRows DEF Consistent, RefusalsAreTrue, TypeOK
<1>7. NamesUnique'
  BY CommitRows DEF NamesUnique
<1>8. QED
  BY <1>4, <1>5, <1>6, <1>7 DEF Consistent

\* What requests and runs begin with.
LEMMA BeginConsistent ==
  ASSUME Consistent, NEW j \in Jobs, NEW q \in Seq(Names), q # <<>>,
         Goto(j, "look"), todo' = [todo EXCEPT ![j] = q],
         UNCHANGED <<tables, mine, adds, refused>>
  PROVE  Consistent'
<1>1. TypeOK'
  BY DEF Consistent, TypeOK, Goto, tables, Pcs
<1>2. QED
  BY <1>1 DEF Consistent, Held, NamesUnique, RefusalsAreTrue, tables

LEMMA SubscriptionConsistent ==
  ASSUME Consistent, NEW n \in Emails, CreateSubscription(n)
  PROVE  Consistent'
<1>1. subs[n] \in Seq(Makers) /\ "api" \in Makers
  BY DEF Consistent, TypeOK, Makers
<1>2. Append(subs[n], "api") \in Seq(Makers)
  BY <1>1, Appended
<1>3. TypeOK'
  BY <1>2 DEF CreateSubscription, Consistent, TypeOK
<1>4. QED
  BY <1>3 DEF CreateSubscription, Consistent, Held, NamesUnique, RefusalsAreTrue

LEMMA ConsistentStep == Consistent /\ [Next]_vars => Consistent'
<1> SUFFICES ASSUME Consistent, [Next]_vars PROVE Consistent'
  OBVIOUS
<1>1. ASSUME NEW c \in Clients, NEW u \in Names, Post(c, u)
      PROVE  Consistent'
  <2>1. c \in Jobs /\ <<u>> \in Seq(Names) /\ <<u>> # <<>>
    BY DEF Jobs
  <2>2. QED
    BY <1>1, <2>1, BeginConsistent DEF Post
<1>2. ASSUME NEW s \in Seeders, Seed(s)
      PROVE  Consistent'
  BY <1>2, SeedItemsType, BeginConsistent DEF Seed, Items, Jobs
<1>3. ASSUME NEW j \in Jobs, LookUp(j)
      PROVE  Consistent'
  BY <1>3, LookUpConsistent
<1>4. ASSUME NEW j \in Jobs, Insert(j)
      PROVE  Consistent'
  BY <1>4, InsertConsistent
<1>5. ASSUME NEW j \in Jobs, Commit(j)
      PROVE  Consistent'
  BY <1>5, CommitConsistent
<1>6. ASSUME NEW j \in Jobs, Refresh(j) \/ Fail(j)
      PROVE  Consistent'
  <2>1. refused' \in SUBSET Names /\ refused' \ refused = {} /\ Close(j)
    BY <1>6 DEF Refresh, Fail, Consistent, TypeOK
  <2>2. QED
    BY <2>1, CloseConsistent
<1>7. ASSUME NEW s \in Seeders, SeedSubscription(s)
      PROVE  Consistent'
  <2>1. TypeOK'
    BY <1>7 DEF SeedSubscription, Goto, Consistent, TypeOK, Jobs, Pcs, tables
  <2>2. QED
    BY <1>7, <2>1 DEF SeedSubscription, Consistent, Held, NamesUnique,
                      RefusalsAreTrue, tables
<1>8. ASSUME NEW n \in Emails, CreateSubscription(n)
      PROVE  Consistent'
  BY <1>8, SubscriptionConsistent
<1>9. CASE UNCHANGED vars
  BY <1>9 DEF vars, tables, Consistent, TypeOK, Held, NamesUnique,
              RefusalsAreTrue
<1>10. QED
  BY <1>1, <1>2, <1>3, <1>4, <1>5, <1>6, <1>7, <1>8, <1>9 DEF Next, Step, Jobs

LEMMA ConsistentAlways == Spec => []Consistent
BY ConsistentInit, ConsistentStep, PTL DEF Spec

\* The variables have their types: in particular a job that is about to look
\* a value up has one.
THEOREM TypeCorrect == Spec => []TypeOK
<1>1. Consistent => TypeOK
  BY DEF Consistent
<1>2. QED
  BY <1>1, ConsistentAlways, PTL

\* No email and no plan name is in the tables twice, for any number of
\* requests and runs of the script.
THEOREM UniqueNames == Spec => []NamesUnique
<1>1. Consistent => NamesUnique
  BY DEF Consistent
<1>2. QED
  BY <1>1, ConsistentAlways, PTL

\* A job is told that a value is taken only when a row with it is committed.
THEOREM TrueRefusals == Spec => []RefusalsAreTrue
<1>1. Consistent => RefusalsAreTrue
  BY DEF Consistent
<1>2. QED
  BY <1>1, ConsistentAlways, PTL
-----------------------------------------------------------------------------
(* The demo data *)

Seeded == Carried /\ SeedIsWhole /\ TenantFirst /\ AddsAlone /\ SeededOnce

LEMMA SeededInit == Init => Seeded
<1> SUFFICES ASSUME Init PROVE Seeded
  OBVIOUS
<1>1. \A u \in Names : rows[u] = <<>> /\ DOMAIN rows[u] = {}
  BY DEF Init
<1>2. DemoEmail \in Names
  BY SeedAssumption DEF Names
<1>3. Carried /\ TenantFirst /\ AddsAlone
  BY DEF Init, Carried, RunOK, TenantFirst, AddsAlone, Jobs
<1>4. SeedIsWhole /\ SeededOnce
  BY <1>1, <1>2 DEF SeedIsWhole, SeededOnce
<1>5. QED
  BY <1>3, <1>4 DEF Seeded

\* A step of job j that changes no table has to answer for j alone.
LEMMA QuietStep ==
  ASSUME Seeded, NEW j \in Jobs, UNCHANGED tables,
         \A k \in Jobs \ {j} : /\ pc'[k] = pc[k] /\ todo'[k] = todo[k]
                               /\ mine'[k] = mine[k] /\ (k \in adds' <=> k \in adds),
         adds' \in SUBSET Seeders,
         j \in Seeders => RunOK(j)',
         j \in adds' => \/ DemoEmail \in mine'[j]
                        \/ "seed" \notin Values(rows[DemoEmail])
  PROVE  Seeded'
<1>1. rows' = rows /\ subs' = subs
  BY DEF tables
<1>2. ASSUME NEW s \in Seeders, s # j
      PROVE  RunOK(s)'
  <2>1. s \in Jobs \ {j} /\ RunOK(s)
    BY <1>2 DEF Seeded, Carried, Jobs
  <2>2. QED
    BY <1>1, <2>1 DEF RunOK, CarriedBy
<1>3. Carried'
  BY <1>2 DEF Carried
<1>4. SeedIsWhole' /\ TenantFirst' /\ SeededOnce'
  BY <1>1 DEF Seeded, SeedIsWhole, TenantFirst, SeededOnce
<1>5. ASSUME NEW s \in adds'
      PROVE  DemoEmail \in mine'[s] \/ "seed" \notin Values(rows'[DemoEmail])
  <2>1. CASE s = j
    BY <1>1, <1>5, <2>1
  <2>2. CASE s # j
    <3>1. s \in Jobs \ {j} /\ s \in adds
      BY <1>5, <2>2 DEF Jobs
    <3>2. QED
      BY <1>1, <3>1 DEF Seeded, AddsAlone
  <2>3. QED
    BY <2>1, <2>2
<1>6. QED
  BY <1>3, <1>4, <1>5 DEF Seeded, AddsAlone

LEMMA BeginSeeded ==
  ASSUME Consistent, Seeded, NEW j \in Jobs, NEW q \in Seq(Names),
         pc[j] = "idle", j \in Seeders => q = SeedItems,
         Goto(j, "look"), todo' = [todo EXCEPT ![j] = q],
         UNCHANGED <<tables, mine, adds, refused>>
  PROVE  Seeded'
<1>1. /\ pc'[j] = "look" /\ todo'[j] = q
      /\ \A k \in Jobs \ {j} : pc'[k] = pc[k] /\ todo'[k] = todo[k]
  BY DEF Consistent, TypeOK, Goto
<1>2. j \notin adds /\ adds' = adds /\ adds \in SUBSET Seeders
  BY DEF Seeded, Carried, RunOK, Consistent, TypeOK
<1>3. j \in Seeders => RunOK(j)'
  BY <1>1, <1>2 DEF RunOK, CarriedBy, Values
<1>4. QED
  BY <1>1, <1>2, <1>3, QuietStep

LEMMA CloseSeeded ==
  ASSUME Consistent, Seeded, NEW j \in Jobs, Close(j)
  PROVE  Seeded'
<1>1. /\ pc'[j] = "idle" /\ adds' = adds \ {j} /\ UNCHANGED tables
      /\ \A k \in Jobs \ {j} : /\ pc'[k] = pc[k] /\ todo'[k] = todo[k]
                               /\ mine'[k] = mine[k]
  BY DEF Consistent, TypeOK, Close, Goto
<1>2. adds' \in SUBSET Seeders /\ RunOK(j)'
  BY <1>1 DEF Consistent, TypeOK, RunOK
<1>3. QED
  BY <1>1, <1>2, QuietStep

\* Advance after an item is dealt with: it is there, or in j's transaction.
LEMMA AdvanceSeeded ==
  ASSUME Consistent, Seeded, NEW j \in Jobs, pc[j] \in {"look", "insert"},
         Advance(j), NEW new \in SUBSET {Wanted(j)},
         mine' = [mine EXCEPT ![j] = @ \cup new],
         rows[Wanted(j)] # <<>> \/ Wanted(j) \in new
  PROVE  Seeded'
<1>1. /\ todo'[j] = Tail(todo[j]) /\ mine'[j] = mine[j] \cup new
      /\ UNCHANGED <<tables, adds>>
      /\ pc'[j] \in {"look", "subscribe", "commit"}
      /\ j \in Seeders => pc'[j] # "commit"
      /\ pc'[j] = "subscribe" => Tail(todo[j]) = <<>>
      /\ \A k \in Jobs \ {j} : /\ pc'[k] = pc[k] /\ todo'[k] = todo[k]
                               /\ mine'[k] = mine[k]
  BY JobsAssumption DEF Consistent, TypeOK, Advance, Goto
<1>2. adds \in SUBSET Seeders /\ j \notin adds
  BY DEF Seeded, Carried, RunOK, Consistent, TypeOK
<1>3. ASSUME j \in Seeders
      PROVE  RunOK(j)'
  <2>1. Values(todo[j]) = {Wanted(j)} \cup Values(todo'[j])
    BY <1>1, JobTypes DEF Consistent
  <2>2. CarriedBy(j)
    BY <1>3 DEF Seeded, Carried, RunOK
  <2>3. CarriedBy(j)'
    <3>1. rows' = rows
      BY <1>1 DEF tables
    <3>2. QED
      BY <1>1, <2>1, <2>2, <3>1 DEF CarriedBy
  <2>4. QED
    BY <1>1, <1>2, <1>3, <2>3 DEF RunOK
<1>4. QED
  BY <1>1, <1>2, <1>3, QuietStep

LEMMA LookUpSeeded ==
  ASSUME Consistent, Seeded, NEW j \in Jobs, LookUp(j)
  PROVE  Seeded'
<1>1. pc[j] = "look"
  BY DEF LookUp
<1>2. CASE Refuse(j)
  BY <1>2, CloseSeeded DEF Refuse
<1>3. CASE rows[Wanted(j)] # <<>> /\ Advance(j) /\ UNCHANGED mine
  <2>1. mine' = [mine EXCEPT ![j] = @ \cup {}] /\ {} \in SUBSET {Wanted(j)}
    BY <1>3 DEF Consistent, TypeOK
  <2>2. QED
    BY <1>1, <1>3, <2>1, AdvanceSeeded
<1>4. CASE Goto(j, "insert") /\ UNCHANGED <<tables, todo, mine, adds, refused>>
  <2>1. pc'[j] = "insert" /\ \A k \in Jobs \ {j} : pc'[k] = pc[k]
    BY <1>4 DEF Consistent, TypeOK, Goto
  <2>2. adds \in SUBSET Seeders /\ j \notin adds
    BY <1>1 DEF Seeded, Carried, RunOK, Consistent, TypeOK
  <2>3. j \in Seeders => RunOK(j)'
    BY <1>1, <1>4, <2>1, <2>2 DEF Seeded, Carried, RunOK, CarriedBy, tables
  <2>4. QED
    BY <1>4, <2>1, <2>2, <2>3, QuietStep
<1>5. QED
  BY <1>2, <1>3, <1>4 DEF LookUp

LEMMA InsertSeeded ==
  ASSUME Consistent, Seeded, NEW j \in Jobs, Insert(j)
  PROVE  Seeded'
<1>1. CASE Refuse(j)
  BY <1>1, CloseSeeded DEF Refuse
<1>2. CASE Inserted(j)
  <2>1. /\ mine' = [mine EXCEPT ![j] = @ \cup {Wanted(j)}] /\ Advance(j)
        /\ pc[j] = "insert" /\ {Wanted(j)} \in SUBSET {Wanted(j)}
    BY <1>2 DEF Insert, Inserted
  <2>2. QED
    BY <2>1, AdvanceSeeded
<1>3. QED
  BY <1>1, <1>2 DEF Insert

\* A run adds a subscription only to a tenant that no other run has made.
LEMMA SubscribeSeeded ==
  ASSUME Consistent, Seeded, NEW s \in Seeders, SeedSubscription(s)
  PROVE  Seeded'
<1>1. s \in Jobs /\ DemoEmail \in Emails /\ DemoEmail \in Names
  BY SeedAssumption DEF Jobs, Names
<1>2. /\ pc'[s] = "commit" /\ UNCHANGED <<tables, todo, mine>>
      /\ \A k \in Jobs \ {s} : pc'[k] = pc[k] /\ (k \in adds' <=> k \in adds)
      /\ adds' \in SUBSET Seeders
      /\ subs[DemoEmail] = <<>> => s \in adds'
  BY <1>1 DEF SeedSubscription, Goto, Consistent, TypeOK
<1>3. CarriedBy(s) /\ todo[s] = <<>> /\ s \notin adds
  BY DEF SeedSubscription, Seeded, Carried, RunOK
<1>4. RunOK(s)'
  BY <1>2, <1>3 DEF RunOK, CarriedBy, tables
<1>5. ASSUME s \in adds'
      PROVE  "seed" \notin Values(rows[DemoEmail])
  <2>1. subs[DemoEmail] = <<>>
    BY <1>3, <1>5 DEF SeedSubscription
  <2>2. QED
    BY <1>1, <2>1 DEF Seeded, SeedIsWhole, Values
<1>6. QED
  BY <1>1, <1>2, <1>4, <1>5, QuietStep

\* What a COMMIT does to the subscriptions.
LEMMA CommitSubs ==
  ASSUME Consistent, Seeded, NEW j \in Jobs, Commit(j)
  PROVE  /\ j \in adds => /\ j \in Seeders /\ subs'[DemoEmail] # <<>>
                          /\ subs'[DemoEmail] = Append(subs[DemoEmail], "seed")
         /\ \A n \in Emails : n # DemoEmail \/ j \notin adds => subs'[n] = subs[n]
         /\ \A n \in Emails : subs[n] # <<>> => subs'[n] # <<>>
         /\ DemoEmail \in Emails /\ subs[DemoEmail] \in Seq(Makers)
<1>1. DemoEmail \in Emails /\ subs[DemoEmail] \in Seq(Makers)
  BY SeedAssumption DEF Consistent, TypeOK
<1>2. CASE j \in adds
  <2>1. j \in Seeders /\ "seed" \in Makers
    BY <1>2 DEF Consistent, TypeOK, Makers
  <2>2. subs' = [subs EXCEPT ![DemoEmail] = Append(subs[DemoEmail], "seed")]
    BY <1>2, <2>1 DEF Commit, Maker
  <2>3. Append(subs[DemoEmail], "seed") # <<>>
    BY <1>1, <2>1, Appended
  <2>4. QED
    BY <1>1, <1>2, <2>1, <2>2, <2>3 DEF Consistent, TypeOK
<1>3. CASE j \notin adds
  BY <1>1, <1>3 DEF Commit
<1>4. QED
  BY <1>2, <1>3

\* What is in the tables stays, and a run that commits has all its items there.
LEMMA CommitKeeps ==
  ASSUME Consistent, Seeded, NEW j \in Jobs, Commit(j)
  PROVE  /\ \A u \in Names : rows[u] # <<>> => rows'[u] # <<>>
         /\ j \in Seeders => \A i \in DOMAIN SeedItems : rows'[SeedItems[i]] # <<>>
         /\ j \in Seeders => subs'[DemoEmail] # <<>>
<1>1. \A u \in Names : rows[u] # <<>> => rows'[u] # <<>>
  BY CommitRows
<1>2. ASSUME j \in Seeders
      PROVE  /\ \A i \in DOMAIN SeedItems : rows'[SeedItems[i]] # <<>>
             /\ subs'[DemoEmail] # <<>>
  <2>1. pc[j] = "commit" /\ RunOK(j)
    BY <1>2 DEF Commit, Seeded, Carried
  <2>2. CarriedBy(j) /\ Values(todo[j]) = {}
    BY <2>1 DEF RunOK, Values
  <2>3. ASSUME NEW i \in DOMAIN SeedItems
        PROVE  rows'[SeedItems[i]] # <<>>
    <3>1. SeedItems[i] \in Names
      BY <2>3, SeedItemsType
    <3>2. SeedItems[i] \in mine[j] \/ rows[SeedItems[i]] # <<>>
      BY <2>2, <2>3 DEF CarriedBy
    <3>3. QED
      BY <1>1, <3>1, <3>2, CommitRows
  <2>4. subs'[DemoEmail] # <<>>
    BY <2>1, CommitSubs DEF RunOK
  <2>5. QED
    BY <2>3, <2>4
<1>3. QED
  BY <1>1, <1>2

\* A row of the script in the tables is there before a COMMIT, or by it.
LEMMA CommitMakes ==
  ASSUME Consistent, NEW j \in Jobs, Commit(j), NEW u \in Names,
         "seed" \in Values(rows'[u])
  PROVE  \/ u \notin mine[j] /\ "seed" \in Values(rows[u])
         \/ u \in mine[j] /\ j \in Seeders /\ rows[u] = <<>>
<1>1. CASE u \in mine[j]
  <2>1. Values(rows'[u]) = {Maker(j)} /\ rows[u] = <<>>
    BY <1>1, CommitRows
  <2>2. QED
    BY <1>1, <2>1 DEF Maker
<1>2. CASE u \notin mine[j]
  BY <1>2, CommitRows
<1>3. QED
  BY <1>1, <1>2

LEMMA CommitRuns ==
  ASSUME Consistent, Seeded, NEW j \in Jobs, Commit(j)
  PROVE  Carried' /\ AddsAlone'
<1>1. /\ pc'[j] = "refresh" /\ todo' = todo /\ adds' = adds \ {j}
      /\ \A k \in Jobs \ {j} : pc'[k] = pc[k] /\ mine'[k] = mine[k]
  BY DEF Commit, Goto, Consistent, TypeOK
<1>2. ASSUME NEW s \in Seeders
      PROVE  RunOK(s)'
  <2>1. CASE s = j
    BY <1>1, <2>1 DEF RunOK
  <2>2. CASE s # j
    <3>1. s \in Jobs \ {j} /\ RunOK(s)
      BY <2>2 DEF Jobs, Seeded, Carried
    <3>2. CarriedBy(s) => CarriedBy(s)'
      <4>1. \A i \in DOMAIN SeedItems :
              rows[SeedItems[i]] # <<>> => rows'[SeedItems[i]] # <<>>
        BY CommitKeeps, SeedItemsType
      <4>2. QED
        BY <1>1, <3>1, <4>1 DEF CarriedBy
    <3>3. subs[DemoEmail] # <<>> => subs'[DemoEmail] # <<>>
      BY CommitSubs
    <3>4. QED
      BY <1>1, <3>1, <3>2, <3>3 DEF RunOK
  <2>3. QED
    BY <2>1, <2>2
<1>3. ASSUME NEW s \in adds'
      PROVE  DemoEmail \in mine'[s] \/ "seed" \notin Values(rows'[DemoEmail])
  <2>1. /\ s \in adds /\ s \in Seeders /\ s \in Jobs \ {j}
        /\ pc[s] = "commit" /\ RunOK(s)
    BY <1>1, <1>3 DEF Consistent, TypeOK, Jobs, Seeded, Carried, RunOK
  <2>2. DemoEmail \in mine[s] \/ rows[DemoEmail] # <<>>
    <3>1. CarriedBy(s) /\ Values(todo[s]) = {}
      BY <2>1 DEF RunOK, Values
    <3>2. QED
      BY <3>1, SeedItemsType DEF CarriedBy
  <2>3. CASE DemoEmail \in mine[s]
    BY <1>1, <2>1, <2>3
  <2>4. CASE DemoEmail \notin mine[s]
    <3>1. DemoEmail \in Names /\ DemoEmail \notin mine[j]
      BY <2>2, <2>4, SeedAssumption DEF Names, Consistent, Held
    <3>2. rows'[DemoEmail] = rows[DemoEmail]
      BY <3>1, CommitRows
    <3>3. QED
      BY <2>1, <2>4, <3>2 DEF Seeded, AddsAlone
  <2>5. QED
    BY <2>3, <2>4
<1>4. QED
  BY <1>2, <1>3 DEF Carried, AddsAlone

LEMMA CommitOnce ==
  ASSUME Consistent, Seeded, NEW j \in Jobs, Commit(j)
  PROVE  SeededOnce'
<1>1. DemoEmail \in Names /\ DemoEmail \in Emails
  BY SeedAssumption DEF Names
<1>2. SUFFICES ASSUME "seed" \in Values(rows'[DemoEmail])
               PROVE  \A i, k \in DOMAIN subs'[DemoEmail] :
                        subs'[DemoEmail][i] = "seed" /\ subs'[DemoEmail][k] = "seed"
                          => i = k
  BY DEF SeededOnce, Values
<1>3. CASE DemoEmail \in mine[j]
  <2>1. subs[DemoEmail] = <<>>
    BY <1>1, <1>3 DEF Consistent, Held, Seeded, TenantFirst
  <2>2. subs'[DemoEmail] = <<>> \/ subs'[DemoEmail] = Append(<<>>, "seed")
    BY <1>1, <2>1, CommitSubs
  <2>3. DOMAIN subs'[DemoEmail] \subseteq {1}
    BY <2>2
  <2>4. QED
    BY <2>3
<1>4. CASE DemoEmail \notin mine[j]
  <2>1. "seed" \in Values(rows[DemoEmail])
    BY <1>1, <1>2, <1>4, CommitMakes
  <2>2. j \notin adds
    BY <1>4, <2>1 DEF Seeded, AddsAlone
  <2>3. subs'[DemoEmail] = subs[DemoEmail]
    BY <1>1, <2>2, CommitSubs
  <2>4. QED
    BY <2>1, <2>3 DEF Seeded, SeededOnce, Values
<1>5. QED
  BY <1>3, <1>4

LEMMA CommitSeeded ==
  ASSUME Consistent, Seeded, NEW j \in Jobs, Commit(j)
  PROVE  Seeded'
<1>1. SeedIsWhole'
  <2>1. SUFFICES ASSUME NEW u \in Names, "seed" \in Values(rows'[u])
                 PROVE  /\ \A i \in DOMAIN SeedItems : rows'[SeedItems[i]] # <<>>
                        /\ subs'[DemoEmail] # <<>>
    BY DEF SeedIsWhole, Values
  <2>2. CASE j \in Seeders
    BY <2>2, CommitKeeps
  <2>3. CASE j \notin Seeders
    <3>1. "seed" \in Values(rows[u])
      BY <2>1, <2>3, CommitMakes
    <3>2. /\ \A i \in DOMAIN SeedItems : rows[SeedItems[i]] # <<>>
          /\ subs[DemoEmail] # <<>>
      BY <2>1, <3>1 DEF Seeded, SeedIsWhole, Values
    <3>3. QED
      BY <3>2, CommitKeeps, CommitSubs, SeedItemsType
  <2>4. QED
    BY <2>2, <2>3
<1>2. TenantFirst'
  <2>1. SUFFICES ASSUME NEW n \in Emails, subs'[n] # <<>>
                 PROVE  rows'[n] # <<>>
    BY DEF TenantFirst
  <2>2. CASE n = DemoEmail /\ j \in adds
    BY <2>2, CommitSubs, CommitKeeps, SeedItemsType
  <2>3. CASE n # DemoEmail \/ j \notin adds
    <3>1. n \in Names /\ subs[n] # <<>>
      BY <2>1, <2>3, CommitSubs DEF Names
    <3>2. QED
      BY <3>1, CommitKeeps DEF Seeded, TenantFirst
  <2>4. QED
    BY <2>2, <2>3
<1>3. QED
  BY <1>1, <1>2, CommitRuns, CommitOnce DEF Seeded

LEMMA SubscriptionSeeded ==
  ASSUME Consistent, Seeded, NEW n \in Emails, CreateSubscription(n)
  PROVE  Seeded'
<1>1. /\ UNCHANGED <<rows, pc, todo, mine, adds>> /\ rows[n] # <<>>
      /\ subs' = [subs EXCEPT ![n] = Append(@, "api")]
  BY DEF CreateSubscription
<1>2. subs \in [Emails -> Seq(Makers)] /\ "api" \in Makers
      /\ DemoEmail \in Emails
  BY SeedAssumption DEF Consistent, TypeOK, Makers
<1>3. /\ \A m \in Emails \ {n} : subs'[m] = subs[m]
      /\ subs'[n] = Append(subs[n], "api") /\ subs'[n] # <<>>
  BY <1>1, <1>2, Appended
<1>4. Carried' /\ AddsAlone'
  BY <1>1, <1>2, <1>3 DEF Seeded, Carried, RunOK, CarriedBy, AddsAlone
<1>5. SeedIsWhole' /\ TenantFirst'
  BY <1>1, <1>2, <1>3 DEF Seeded, SeedIsWhole, TenantFirst
<1>6. SeededOnce'
  <2>1. ASSUME NEW i \in DOMAIN subs'[DemoEmail], subs'[DemoEmail][i] = "seed"
        PROVE  i \in DOMAIN subs[DemoEmail] /\ subs[DemoEmail][i] = "seed"
    <3>1. CASE n = DemoEmail
      <4>1. subs[n] \in Seq(Makers) /\ subs'[n] = Append(subs[n], "api")
        BY <1>2, <1>3
      <4>2. QED
        BY <2>1, <3>1, <4>1
    <3>2. CASE n # DemoEmail
      BY <1>2, <1>3, <2>1, <3>2
    <3>3. QED
      BY <3>1, <3>2
  <2>2. QED
    BY <1>1, <2>1 DEF Seeded, SeededOnce
<1>7. QED
  BY <1>4, <1>5, <1>6 DEF Seeded

LEMMA SeededStep == Consistent /\ Seeded /\ [Next]_vars => Seeded'
<1> SUFFICES ASSUME Consistent, Seeded, [Next]_vars PROVE Seeded'
  OBVIOUS
<1>1. ASSUME NEW c \in Clients, NEW u \in Names, Post(c, u)
      PROVE  Seeded'
  <2>1. c \in Jobs /\ c \notin Seeders /\ <<u>> \in Seq(Names)
    BY JobsAssumption DEF Jobs
  <2>2. QED
    BY <1>1, <2>1, BeginSeeded DEF Post
<1>2. ASSUME NEW s \in Seeders, Seed(s)
      PROVE  Seeded'
  BY <1>2, SeedItemsType, BeginSeeded DEF Seed, Items, Jobs
<1>3. ASSUME NEW j \in Jobs, LookUp(j)
      PROVE  Seeded'
  BY <1>3, LookUpSeeded
<1>4. ASSUME NEW j \in Jobs, Insert(j)
      PROVE  Seeded'
  BY <1>4, InsertSeeded
<1>5. ASSUME NEW j \in Jobs, Commit(j)
      PROVE  Seeded'
  BY <1>5, CommitSeeded
<1>6. ASSUME NEW j \in Jobs, Refresh(j) \/ Fail(j)
      PROVE  Seeded'
  BY <1>6, CloseSeeded DEF Refresh, Fail
<1>7. ASSUME NEW s \in Seeders, SeedSubscription(s)
      PROVE  Seeded'
  BY <1>7, SubscribeSeeded
<1>8. ASSUME NEW n \in Emails, CreateSubscription(n)
      PROVE  Seeded'
  BY <1>8, SubscriptionSeeded
<1>9. CASE UNCHANGED vars
  BY <1>9 DEF vars, tables, Seeded, Carried, RunOK, CarriedBy, TenantFirst,
              AddsAlone, SeedIsWhole, SeededOnce
<1>10. QED
  BY <1>1, <1>2, <1>3, <1>4, <1>5, <1>6, <1>7, <1>8, <1>9 DEF Next, Step, Jobs

LEMMA SeededAlways == Spec => []Seeded
BY ConsistentAlways, SeededInit, SeededStep, PTL DEF Spec

\* The script makes all of its rows or none, whatever runs beside it and
\* wherever it is killed.
THEOREM WholeSeed == Spec => []SeedIsWhole
<1>1. Seeded => SeedIsWhole
  BY DEF Seeded
<1>2. QED
  BY <1>1, SeededAlways, PTL

\* A tenant made by the script has at most one subscription made by it, for
\* any number of runs in any order.
THEOREM OneDemoSubscription == Spec => []SeededOnce
<1>1. Seeded => SeededOnce
  BY DEF Seeded
<1>2. QED
  BY <1>1, SeededAlways, PTL

-----------------------------------------------------------------------------
(* No circle of waits *)

\* How many of its items run s has dealt with.
Dealt(s) == Len(SeedItems) - Len(todo[s])

\* A run goes through the items in order: those before the one it deals with
\* are in the tables or in its transaction, and nothing else is in the latter.
InItsOrder(s) ==
  pc[s] \in {"look", "insert"} =>
    /\ Dealt(s) \in 0..Len(SeedItems)
    /\ \A i \in DOMAIN todo[s] : todo[s][i] = SeedItems[Dealt(s) + i]
    /\ \A u \in mine[s] : \E i \in 1..Dealt(s) : SeedItems[i] = u
    /\ \A i \in 1..Dealt(s) : SeedItems[i] \in mine[s] \/ rows[SeedItems[i]] # <<>>

\* A request holds a value only when it is about to commit.
HoldsToCommit(c) ==
  /\ pc[c] \in {"look", "insert"} => Tail(todo[c]) = <<>>
  /\ mine[c] # {} => pc[c] = "commit"

WaitInv ==
  /\ \A s \in Seeders : InItsOrder(s)
  /\ \A c \in Clients : HoldsToCommit(c)
  /\ \A j \in Jobs : pc[j] \in {"idle", "refresh"} => mine[j] = {}

\* A job that is as it was, over tables that only grow.
LEMMA WaitKept ==
  ASSUME WaitInv, NEW j \in Jobs,
         \A k \in Jobs \ {j} : /\ pc'[k] = pc[k] /\ todo'[k] = todo[k]
                               /\ mine'[k] = mine[k],
         \A u \in Names : rows[u] # <<>> => rows'[u] # <<>>,
         j \in Seeders => InItsOrder(j)',
         j \in Clients => HoldsToCommit(j)',
         pc'[j] \in {"idle", "refresh"} => mine'[j] = {}
  PROVE  WaitInv'
<1>1. ASSUME NEW s \in Seeders, s # j PROVE InItsOrder(s)'
  <2>1. s \in Jobs \ {j} /\ InItsOrder(s)
    BY <1>1 DEF WaitInv, Jobs
  <2>2. Dealt(s)' = Dealt(s)
    BY <2>1 DEF Dealt
  <2>3. pc[s] \in {"look", "insert"} => \A i \in 1..Dealt(s) : SeedItems[i] \in Names
    BY <2>1, SeedItemsType DEF InItsOrder
  <2> QED BY <2>1, <2>2, <2>3 DEF InItsOrder
<1>2. ASSUME NEW c \in Clients, c # j PROVE HoldsToCommit(c)'
  BY <1>2 DEF WaitInv, HoldsToCommit, Jobs
<1> QED BY <1>1, <1>2 DEF WaitInv

LEMMA WaitBegins ==
  ASSUME Consistent, WaitInv, NEW j \in Jobs, NEW q \in Seq(Names), pc[j] = "idle",
         j \in Seeders => q = SeedItems, j \in Clients => Tail(q) = <<>>,
         Goto(j, "look"), todo' = [todo EXCEPT ![j] = q],
         UNCHANGED <<tables, mine, adds, refused>>
  PROVE  WaitInv'
<1>1. /\ pc'[j] = "look" /\ todo'[j] = q /\ mine' = mine /\ rows' = rows
      /\ \A k \in Jobs \ {j} : pc'[k] = pc[k] /\ todo'[k] = todo[k]
  BY DEF Consistent, TypeOK, Goto, tables
<1>2. mine[j] = {}
  BY DEF WaitInv
<1>3. j \in Seeders => InItsOrder(j)'
  <2>1. Len(SeedItems) \in Nat
    BY SeedItemsType
  <2>2. Len(SeedItems) - Len(SeedItems) = 0 /\ \A i \in DOMAIN SeedItems : 0 + i = i
    BY <2>1, SeedItemsType
  <2> QED BY <1>1, <1>2, <2>1, <2>2 DEF InItsOrder, Dealt
<1>4. j \in Clients => HoldsToCommit(j)'
  BY <1>1, <1>2 DEF HoldsToCommit
<1> QED BY <1>1, <1>3, <1>4, WaitKept

LEMMA WaitCloses ==
  ASSUME Consistent, WaitInv, NEW j \in Jobs, Close(j)
  PROVE  WaitInv'
<1>1. /\ pc'[j] = "idle" /\ mine'[j] = {} /\ rows' = rows
      /\ \A k \in Jobs \ {j} : /\ pc'[k] = pc[k] /\ todo'[k] = todo[k]
                               /\ mine'[k] = mine[k]
  BY DEF Consistent, TypeOK, Close, Goto, tables
<1> QED BY <1>1, WaitKept DEF InItsOrder, HoldsToCommit

\* The item is dealt with: it is in the tables, or in j's transaction now.
LEMMA WaitAdvances ==
  ASSUME Consistent, WaitInv, NEW j \in Jobs, pc[j] \in {"look", "insert"},
         Advance(j), NEW new \in SUBSET {Wanted(j)},
         mine' = [mine EXCEPT ![j] = @ \cup new],
         rows[Wanted(j)] # <<>> \/ Wanted(j) \in new
  PROVE  WaitInv'
<1>1. /\ todo'[j] = Tail(todo[j]) /\ mine'[j] = mine[j] \cup new /\ rows' = rows
      /\ \/ Tail(todo[j]) # <<>> /\ pc'[j] = "look"
         \/ Tail(todo[j]) = <<>> /\ j \in Seeders /\ pc'[j] = "subscribe"
         \/ Tail(todo[j]) = <<>> /\ j \in Clients /\ pc'[j] = "commit"
      /\ \A k \in Jobs \ {j} : /\ pc'[k] = pc[k] /\ todo'[k] = todo[k]
                               /\ mine'[k] = mine[k]
  BY DEF Consistent, TypeOK, Advance, Goto, tables
<1>2. /\ todo[j] \in Seq(Names) /\ todo[j] # <<>>
  BY DEF Consistent, TypeOK
<1>3. /\ Len(Tail(todo[j])) = Len(todo[j]) - 1 /\ Len(todo[j]) \in Nat \ {0}
      /\ DOMAIN todo[j] = 1..Len(todo[j])
      /\ DOMAIN Tail(todo[j]) = 1..(Len(todo[j]) - 1)
      /\ \A i \in 1..(Len(todo[j]) - 1) : Tail(todo[j])[i] = todo[j][i + 1]
      /\ Wanted(j) = todo[j][1]
  BY <1>2 DEF Wanted
<1>4. j \in Clients => HoldsToCommit(j)'
  <2>1. j \in Clients => pc'[j] = "commit"
    BY <1>1, JobsAssumption DEF WaitInv, HoldsToCommit
  <2> QED BY <2>1 DEF HoldsToCommit
<1>5. ASSUME j \in Seeders, pc'[j] = "look" PROVE InItsOrder(j)'
  <2>1. InItsOrder(j) /\ Len(SeedItems) \in Nat
    BY <1>5, SeedItemsType DEF WaitInv
  <2>2. /\ Dealt(j) \in Nat /\ Dealt(j) < Len(SeedItems)
        /\ Dealt(j)' = Dealt(j) + 1
    <3>1. Dealt(j) = Len(SeedItems) - Len(todo[j]) /\ Dealt(j) \in Nat
      BY <2>1 DEF Dealt, InItsOrder
    <3>2. Dealt(j)' = Len(SeedItems) - (Len(todo[j]) - 1)
      BY <1>1, <1>3 DEF Dealt
    <3> QED BY <1>3, <2>1, <3>1, <3>2
  <2>3. Wanted(j) = SeedItems[Dealt(j) + 1]
    BY <1>3, <2>1 DEF InItsOrder
  <2>4. \A i \in DOMAIN todo'[j] : todo'[j][i] = SeedItems[Dealt(j) + 1 + i]
    <3>1. \A i \in 1..Len(todo[j]) : todo[j][i] = SeedItems[Dealt(j) + i]
      BY <1>3, <2>1 DEF InItsOrder
    <3>2. ASSUME NEW i \in 1..(Len(todo[j]) - 1)
          PROVE  todo'[j][i] = SeedItems[Dealt(j) + 1 + i]
      <4>1. i + 1 \in 1..Len(todo[j]) /\ Dealt(j) + (i + 1) = Dealt(j) + 1 + i
        BY <1>3, <2>2
      <4> QED BY <1>1, <1>3, <3>1, <4>1
    <3> QED BY <1>1, <1>3, <3>2
  <2>5. \A u \in mine'[j] : \E i \in 1..(Dealt(j) + 1) : SeedItems[i] = u
    BY <1>1, <2>1, <2>2, <2>3 DEF InItsOrder
  <2>6. \A i \in 1..(Dealt(j) + 1) : SeedItems[i] \in mine'[j] \/ rows[SeedItems[i]] # <<>>
    <3>1. ASSUME NEW i \in 1..(Dealt(j) + 1)
          PROVE  i \in 1..Dealt(j) \/ SeedItems[i] = Wanted(j)
      BY <2>2, <2>3
    <3> QED BY <1>1, <2>1, <3>1 DEF InItsOrder
  <2> QED BY <1>1, <2>2, <2>4, <2>5, <2>6 DEF InItsOrder
<1>6. j \in Seeders => InItsOrder(j)'
  BY <1>1, <1>5 DEF InItsOrder
<1> QED BY <1>1, <1>4, <1>6, WaitKept

LEMMA WaitStep == Consistent /\ WaitInv /\ [Next]_vars => WaitInv'
<1> SUFFICES ASSUME Consistent, WaitInv, [Next]_vars PROVE WaitInv'
  OBVIOUS
<1>1. ASSUME NEW c \in Clients, NEW u \in Names, Post(c, u) PROVE WaitInv'
  <2>1. /\ c \in Jobs /\ c \notin Seeders /\ <<u>> \in Seq(Names)
        /\ Tail(<<u>>) = <<>>
    BY JobsAssumption DEF Jobs
  <2> QED BY <1>1, <2>1, WaitBegins DEF Post
<1>2. ASSUME NEW s \in Seeders, Seed(s) PROVE WaitInv'
  BY <1>2, SeedItemsType, JobsAssumption, WaitBegins DEF Seed, Items, Jobs
<1>3. ASSUME NEW j \in Jobs, Goto(j, "insert"), pc[j] = "look",
             UNCHANGED <<tables, todo, mine>>
      PROVE  WaitInv'
  <2>1. /\ pc'[j] = "insert" /\ \A k \in Jobs \ {j} : pc'[k] = pc[k]
        /\ UNCHANGED <<rows, todo, mine>>
    BY <1>3 DEF Consistent, TypeOK, Goto, tables
  <2>2. j \in Seeders => InItsOrder(j)'
    BY <1>3, <2>1 DEF WaitInv, InItsOrder, Dealt
  <2>3. j \in Clients => HoldsToCommit(j)'
    BY <1>3, <2>1 DEF WaitInv, HoldsToCommit
  <2> QED BY <2>1, <2>2, <2>3, WaitKept
<1>4. ASSUME NEW j \in Jobs, LookUp(j) \/ Insert(j) PROVE WaitInv'
  <2>1. CASE Refuse(j)
    BY <2>1, WaitCloses DEF Refuse
  <2>2. CASE LookUp(j) /\ rows[Wanted(j)] # <<>> /\ Advance(j) /\ UNCHANGED mine
    <3>1. mine' = [mine EXCEPT ![j] = @ \cup {}] /\ {} \in SUBSET {Wanted(j)}
      BY <2>2 DEF Consistent, TypeOK
    <3> QED BY <2>2, <3>1, WaitAdvances DEF LookUp
  <2>3. CASE Insert(j) /\ Inserted(j)
    <3>1. {Wanted(j)} \in SUBSET {Wanted(j)} /\ pc[j] = "insert" /\ Advance(j)
          /\ mine' = [mine EXCEPT ![j] = @ \cup {Wanted(j)}]
      BY <2>3 DEF Insert, Inserted
    <3> QED BY <3>1, WaitAdvances
  <2> QED BY <1>3, <1>4, <2>1, <2>2, <2>3 DEF LookUp, Insert
<1>5. ASSUME NEW j \in Jobs, Commit(j) PROVE WaitInv'
  <2>1. /\ pc'[j] = "refresh" /\ mine'[j] = {}
        /\ \A k \in Jobs \ {j} : /\ pc'[k] = pc[k] /\ todo'[k] = todo[k]
                                 /\ mine'[k] = mine[k]
    BY <1>5 DEF Consistent, TypeOK, Commit, Goto
  <2>2. \A u \in Names : rows[u] # <<>> => rows'[u] # <<>>
    BY <1>5, CommitRows DEF Consistent
  <2> QED BY <2>1, <2>2, WaitKept DEF InItsOrder, HoldsToCommit
<1>6. ASSUME NEW j \in Jobs, Refresh(j) \/ Fail(j) PROVE WaitInv'
  BY <1>6, WaitCloses DEF Refresh, Fail
<1>7. ASSUME NEW s \in Seeders, SeedSubscription(s) PROVE WaitInv'
  <2>1. /\ s \in Jobs /\ s \notin Clients /\ pc'[s] = "commit"
        /\ UNCHANGED <<rows, todo, mine>>
        /\ \A k \in Jobs \ {s} : pc'[k] = pc[k]
    BY <1>7, JobsAssumption DEF Jobs, Consistent, TypeOK, SeedSubscription, Goto, tables
  <2> QED BY <2>1, WaitKept DEF InItsOrder
<1>8. ASSUME UNCHANGED <<rows, pc, todo, mine>> PROVE WaitInv'
  BY <1>8 DEF WaitInv, InItsOrder, HoldsToCommit, Dealt
<1> QED BY <1>1, <1>2, <1>4, <1>5, <1>6, <1>7, <1>8
      DEF Next, Step, CreateSubscription, vars

\* A run that waits has dealt with fewer items than one it waits for.
LEMMA WaitsForLater ==
  ASSUME Consistent, WaitInv, NEW s \in Seeders, NEW k \in Seeders, Waits(s, k),
         pc[k] = "insert"
  PROVE  Dealt(s) < Dealt(k)
<1>1. /\ InItsOrder(s) /\ InItsOrder(k) /\ pc[s] = "insert" /\ s # k
      /\ s \in Jobs /\ k \in Jobs /\ Wanted(s) \in mine[k]
  BY DEF WaitInv, Waits, Jobs
<1>2. Wanted(s) \notin mine[s] /\ rows[Wanted(s)] = <<>>
  BY <1>1 DEF Consistent, Held
<1>3. PICK i \in 1..Dealt(k) : SeedItems[i] = Wanted(s)
  BY <1>1 DEF InItsOrder
<1>4. i \notin 1..Dealt(s)
  BY <1>1, <1>2, <1>3 DEF InItsOrder
<1>5. Dealt(s) \in Int /\ Dealt(k) \in Int
  BY <1>1, SeedItemsType DEF InItsOrder
<1> QED BY <1>4, <1>5

\* Whatever requests and runs of the script there are, and whatever they are
\* about, they never wait for one another in a circle.
THEOREM NobodyWaitsInACircle == Spec => []NoCircleOfWaits
<1>1. Init => WaitInv
  BY DEF Init, WaitInv, InItsOrder, HoldsToCommit, Jobs
<1>2. Consistent /\ WaitInv => NoCircleOfWaits
  <2> SUFFICES ASSUME Consistent, WaitInv, NEW C \in SUBSET Jobs, NEW a \in C,
                      \A j \in C : \E k \in C : Waits(j, k)
               PROVE  FALSE
    BY DEF NoCircleOfWaits
  <2>1. \A j \in C : pc[j] = "insert"
    BY DEF Waits
  <2>2. \A j \in C, k \in C : Waits(j, k) => k \in Seeders
    BY <2>1 DEF Waits, WaitInv, HoldsToCommit, Jobs
  <2> DEFINE Left == {Len(SeedItems) - Dealt(s) : s \in C \cap Seeders}
  <2>3. PICK b \in C \cap Seeders : TRUE
    BY <2>2
  <2>4. Len(SeedItems) - Dealt(b) \in Left /\ Left \in SUBSET Nat
    <3>1. \A s \in C \cap Seeders : Dealt(s) \in 0..Len(SeedItems)
      BY <2>1 DEF WaitInv, InItsOrder
    <3> QED BY <2>3, <3>1, SeedItemsType
  <2>5. PICK m \in Left : \A n \in Left : ~(n < m)
    <3>1. PICK m \in Left : \A n \in Left : ~(<<n, m>> \in OpToRel(<, Nat))
      BY <2>4, NatLessThanWellFounded, WFMin
    <3> QED BY <2>4, <3>1 DEF OpToRel
  <2>6. PICK s \in C \cap Seeders : m = Len(SeedItems) - Dealt(s)
    OBVIOUS
  <2>7. PICK k \in C \cap Seeders : Waits(s, k)
    BY <2>2
  <2>8. Dealt(s) < Dealt(k)
    BY <2>1, <2>7, WaitsForLater
  <2>9. Len(SeedItems) - Dealt(k) \in Left
    OBVIOUS
  <2>10. Len(SeedItems) \in Int /\ Dealt(s) \in Int /\ Dealt(k) \in Int
    BY <2>1, SeedItemsType DEF WaitInv, InItsOrder
  <2>11. Len(SeedItems) - Dealt(k) < m
    BY <2>6, <2>8, <2>10
  <2> HIDE DEF Left
  <2> QED BY <2>5, <2>9, <2>11
<1> QED BY <1>1, <1>2, ConsistentAlways, WaitStep, PTL DEF Spec
=============================================================================
