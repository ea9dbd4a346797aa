------------------------------ MODULE Catalog ------------------------------
(***************************************************************************)
(* The catalogue: tenants with a unique email and plans with a unique name *)
(* (src/app/services/tenant_service.py, plan_service.py), subscriptions of *)
(* them, and the seed script (src/scripts/seed.py).                        *)
(*                                                                         *)
(* POST /tenants and POST /plans look the unique value up, INSERT and      *)
(* COMMIT.  The seed script does so for its plans, the demo tenant and a   *)
(* subscription of it in one transaction: it flushes each missing row, and *)
(* so holds its unique value until the one commit at the end.  An INSERT   *)
(* of a value that another transaction has inserted waits for its end, and *)
(* fails if it committed.                                                  *)
(*                                                                         *)
(*   pc          the job is about to                                       *)
(*   "look"      look the first value of todo up                           *)
(*   "insert"    INSERT the row                                            *)
(*   "subscribe" look for a subscription of the demo tenant (seed)         *)
(*   "commit"    COMMIT                                                    *)
(*   "refresh"   re-read what it has committed and answer, or print        *)
(***************************************************************************)
EXTENDS Integers, Sequences, FiniteSets

CONSTANTS
  Clients,    \* concurrent requests
  Seeders,    \* runs of the seed script
  Plans,      \* plan names
  Emails,     \* tenant emails
  SeedPlans,  \* the names in PLAN_SPECS, in order
  DemoEmail,  \* the email of the demo tenant
  MaxSubs     \* bound: subscriptions that POST /subscriptions adds to

Jobs  == Clients \cup Seeders
Names == Plans \cup Emails

\* Who made a row.
Makers == {"api", "seed"}
Maker(j) == IF j \in Seeders THEN "seed" ELSE "api"

\* What a run of the script wants to be there, in its order.
SeedItems == Append(SeedPlans, DemoEmail)

ASSUME JobsAssumption == Clients \cap Seeders = {}

ASSUME NamesAssumption == Plans \cap Emails = {} /\ MaxSubs \in Nat

ASSUME SeedAssumption == SeedPlans \in Seq(Plans) /\ DemoEmail \in Emails

Pcs == {"idle", "look", "insert", "subscribe", "commit", "refresh"}

VARIABLES
  rows,    \* rows[u]: who made the committed rows with unique value u, in order
  subs,    \* subs[n]: who made the committed subscriptions of tenant n
  pc,
  todo,    \* the values a job has still to look up
  mine,    \* the values whose rows a job has inserted and not committed
  adds,    \* the seed runs that are adding the demo subscription
  refused  \* the values that jobs were told are taken

tables == <<rows, subs>>
vars == <<rows, subs, pc, todo, mine, adds, refused>>

TypeOK ==
  /\ rows \in [Names -> Seq(Makers)]
  /\ subs \in [Emails -> Seq(Makers)]
  /\ pc \in [Jobs -> Pcs]
  /\ todo \in [Jobs -> Seq(Names)]
  /\ \A j \in Jobs : pc[j] \in {"look", "insert"} => todo[j] # <<>>
  /\ mine \in [Jobs -> SUBSET Names]
  /\ adds \in SUBSET Seeders
  /\ refused \in SUBSET Names

Init ==
  /\ rows = [u \in Names |-> <<>>]
  /\ subs = [n \in Emails |-> <<>>]
  /\ pc = [j \in Jobs |-> "idle"]
  /\ todo = [j \in Jobs |-> <<>>]
  /\ mine = [j \in Jobs |-> {}]
  /\ adds = {}
  /\ refused = {}

-----------------------------------------------------------------------------
(* Jobs *)

Wanted(j) == Head(todo[j])

Goto(j, label) == pc' = [pc EXCEPT ![j] = label]

\* A client posts a tenant or a plan.
Post(c, u) ==
  /\ pc[c] = "idle"
  /\ Goto(c, "look")
  /\ todo' = [todo EXCEPT ![c] = <<u>>]
  /\ UNCHANGED <<tables, mine, adds, refused>>

\* [planted bug] one run takes the items in the opposite order.
ItemsUnordered(s) ==
  IF s = CHOOSE r \in Seeders : TRUE
  THEN [i \in DOMAIN SeedItems |-> SeedItems[Len(SeedItems) + 1 - i]]
  ELSE SeedItems

Items(s) == SeedItems

\* Someone runs the script, for the first time or again.
Seed(s) ==
  /\ pc[s] = "idle"
  /\ Goto(s, "look")
  /\ todo' = [todo EXCEPT ![s] = Items(s)]
  /\ UNCHANGED <<tables, mine, adds, refused>>

\* The job's session is closed: what it has not committed is rolled back.
Close(j) ==
  /\ Goto(j, "idle")
  /\ todo' = [todo EXCEPT ![j] = <<>>]
  /\ mine' = [mine EXCEPT ![j] = {}]
  /\ adds' = adds \ {j}
  /\ UNCHANGED tables

\* The answer that the value is taken: 400 after the look-up, 500 after the
\* INSERT, the traceback of an IntegrityError in the script.
Refuse(j) == refused' = refused \cup {Wanted(j)} /\ Close(j)

\* [planted bug] asks for the item after the last one.
AdvancePastTheLast(j) ==
  /\ todo' = [todo EXCEPT ![j] = Tail(@)]
  /\ \/ j \in Seeders /\ todo[j] # <<>> /\ Goto(j, "look")
     \/ Tail(todo[j]) = <<>> /\ j \in Clients /\ Goto(j, "commit")
  /\ UNCHANGED <<tables, adds, refused>>

\* The value is dealt with: the next one, or what comes after the last.
Advance(j) ==
  /\ todo' = [todo EXCEPT ![j] = Tail(@)]
  /\ \/ Tail(todo[j]) # <<>> /\ Goto(j, "look")
     \/ Tail(todo[j]) = <<>> /\ j \in Seeders /\ Goto(j, "subscribe")
     \/ Tail(todo[j]) = <<>> /\ j \in Clients /\ Goto(j, "commit")
  /\ UNCHANGED <<tables, adds, refused>>

\* get_by_email, get_by_name, or the script's query.  A request is refused when
\* the row is there, the script takes the row that is there.
LookUp(j) ==
  /\ pc[j] = "look"
  /\ \/ rows[Wanted(j)] # <<>> /\ j \in Clients /\ Refuse(j)
     \/ rows[Wanted(j)] # <<>> /\ j \in Seeders /\ Advance(j) /\ UNCHANGED mine
     \/ /\ rows[Wanted(j)] = <<>>
        /\ Goto(j, "insert")
        /\ UNCHANGED <<tables, todo, mine, adds, refused>>

\* [planted bug] an INSERT looks at committed rows only.
LockedNever(j) == FALSE

\* Another transaction has inserted the value and not ended.
Locked(j) == \E k \in Jobs \ {j} : Wanted(j) \in mine[k]

\* The row is inserted; a request commits next, the script goes on.
Inserted(j) == mine' = [mine EXCEPT ![j] = @ \cup {Wanted(j)}] /\ Advance(j)

\* [planted bug] does not wait for the other transaction to end.
InsertWithoutWaiting(j) ==
  /\ pc[j] = "insert"
  /\ \/ (rows[Wanted(j)] # <<>> \/ Locked(j)) /\ Refuse(j)
     \/ rows[Wanted(j)] = <<>> /\ ~Locked(j) /\ Inserted(j)

\* IntegrityError, which nothing catches, if the value is there by now.
Insert(j) ==
  /\ pc[j] = "insert"
  /\ ~Locked(j)
  /\ \/ rows[Wanted(j)] # <<>> /\ Refuse(j)
     \/ rows[Wanted(j)] = <<>> /\ Inserted(j)

\* [planted bug] adds one whether there is one or not.
SeedSubscriptionAlways(s) ==
  /\ pc[s] = "subscribe"
  /\ adds' = adds \cup {s}
  /\ Goto(s, "commit")
  /\ UNCHANGED <<tables, todo, mine, refused>>

\* The demo tenant gets a subscription unless it has one.
SeedSubscription(s) ==
  /\ pc[s] = "subscribe"
  /\ adds' = IF subs[DemoEmail] = <<>> THEN adds \cup {s} ELSE adds
  /\ Goto(s, "commit")
  /\ UNCHANGED <<tables, todo, mine, refused>>

\* [planted bug] the script commits its plans and rolls the tenant back.
CommittedPlans(j) == IF j \in Seeders THEN mine[j] \cap Plans ELSE mine[j]

\* The values whose rows j's COMMIT makes visible.
Committed(j) == mine[j]

\* Every row of the transaction at once.
Commit(j) ==
  /\ pc[j] = "commit"
  /\ Goto(j, "refresh")
  /\ rows' = [u \in Names |-> IF u \in Committed(j)
                              THEN Append(rows[u], Maker(j)) ELSE rows[u]]
  /\ subs' = IF j \in adds
             THEN [subs EXCEPT ![DemoEmail] = Append(@, Maker(j))] ELSE subs
  /\ mine' = [mine EXCEPT ![j] = {}]
  /\ adds' = adds \ {j}
  /\ UNCHANGED <<todo, refused>>

\* The new row is re-read and returned; the script prints its ids.
Refresh(j) == pc[j] = "refresh" /\ Close(j) /\ UNCHANGED refused

\* A statement fails, or the process dies.
Fail(j) == pc[j] # "idle" /\ Close(j) /\ UNCHANGED refused

Step(j) ==
  \/ LookUp(j) \/ Insert(j) \/ Commit(j) \/ Refresh(j)
  \/ j \in Seeders /\ SeedSubscription(j)

-----------------------------------------------------------------------------
(* POST /subscriptions *)

\* For the ids of a tenant and a plan that are there; for others the foreign
\* keys refuse the INSERT.  Nothing asks whether the tenant has one already.
CreateSubscription(n) ==
  /\ rows[n] # <<>> /\ \E p \in Plans : rows[p] # <<>>
  /\ Len(subs[n]) < MaxSubs
  /\ subs' = [subs EXCEPT ![n] = Append(@, "api")]
  /\ UNCHANGED <<rows, pc, todo, mine, adds, refused>>

Next ==
  \/ \E c \in Clients, u \in Names : Post(c, u)
  \/ \E s \in Seeders : Seed(s)
  \/ \E j \in Jobs : Step(j) \/ Fail(j)
  \/ \E n \in Emails : CreateSubscription(n)

Spec == Init /\ [][Next]_vars

\* Every job that can move does; the database serves a waiting INSERT in the
\* end.
FairSpec ==
  /\ Spec
  /\ \A j \in Jobs : WF_vars(Step(j)) /\ SF_vars(Insert(j))

-----------------------------------------------------------------------------
(* Properties *)

\* No email and no plan name is ever in the tables twice, although every job
\* looks before others have committed (tenant_service.py:14-20,
\* plan_service.py:12-20): get_by_name and the script's query take the first
\* row there is.
NamesUnique == \A u \in Names : Len(rows[u]) <= 1

\* A request is told that a value is taken (400), and fails on it (500), only
\* when a row with it is there to stay: never because of a transaction that
\* is rolled back in the end.
RefusalsAreTrue == \A u \in refused : rows[u] # <<>>

\* The script makes all of its rows or none: a run that fails, loses a race or
\* is killed leaves nothing, and where one row comes from it, every plan, the
\* tenant and a subscription of it are there (seed.py:40-73).
SeedIsWhole ==
  (\E u \in Names : "seed" \in {rows[u][i] : i \in DOMAIN rows[u]}) =>
    /\ \A i \in DOMAIN SeedItems : rows[SeedItems[i]] # <<>>
    /\ subs[DemoEmail] # <<>>

\* Re-running the script, even twice at once, does not add the demo
\* subscription again to the tenant it made (seed.py:3): the column has no
\* unique constraint, what keeps a second run out is the tenant's email.
SeededOnce ==
  "seed" \in {rows[DemoEmail][i] : i \in DOMAIN rows[DemoEmail]} =>
    \A i, k \in DOMAIN subs[DemoEmail] :
      subs[DemoEmail][i] = "seed" /\ subs[DemoEmail][k] = "seed" => i = k

\* Job j waits in its INSERT for the end of k's transaction.
Waits(j, k) == pc[j] = "insert" /\ j # k /\ Wanted(j) \in mine[k]

\* The database never has a deadlock to break: among any jobs there is one
\* that waits for none of them, although a run of the script keeps the rows it
\* has flushed until its commit while it waits for the next (seed.py:40-73).
NoCircleOfWaits ==
  \A C \in (SUBSET Jobs) \ {{}} : \E j \in C : \A k \in C : ~Waits(j, k)

\* Every request is answered and every run ends: jobs that wait for one
\* another's values never form a circle, because the script takes them in one
\* order and a request takes one only.
EveryJobEnds == \A j \in Jobs : pc[j] # "idle" ~> pc[j] = "idle"
=============================================================================
