------------------------- MODULE SubscriptionTable -------------------------
(***************************************************************************)
(* The subscriptions table, as the readers of it may rely on: rows are     *)
(* made active, never deleted and never given to another tenant; a commit  *)
(* changes the plan and status of one row, or the statuses of any.  Who    *)
(* commits and why is the business of its writers (StripeSync.tla); its    *)
(* readers are metering and billing (Metering.tla, Engine.tla).            *)
(***************************************************************************)
CONSTANTS
  Ids,        \* subscription ids
  Tenants, Plans, Statuses,
  NoSub       \* the row does not exist

VARIABLE subs \* the table

Row == [tenant: Tenants, plan: Plans, status: Statuses]

Init == subs = [s \in Ids |-> NoSub]

\* POST /subscriptions, or the first checkout webhook of a tenant.
Create(s, n, p) ==
  /\ subs[s] = NoSub
  /\ subs' = [subs EXCEPT ![s] = [tenant |-> n, plan |-> p, status |-> "active"]]

\* A webhook commits a new status and plan.
Sync(s, st, p) ==
  /\ subs[s] # NoSub
  /\ subs' = [subs EXCEPT ![s].status = st, ![s].plan = p]

\* The reconciliation commits the statuses of a whole run.
Reconcile ==
  /\ subs' \in [Ids -> Row \cup {NoSub}]
  /\ \A s \in Ids :
       IF subs[s] = NoSub THEN subs'[s] = NoSub
       ELSE \E st \in Statuses : subs'[s] = [subs[s] EXCEPT !.status = st]

Next ==
  \/ Reconcile
  \/ \E s \in Ids, n \in Tenants, p \in Plans : Create(s, n, p)
  \/ \E s \in Ids, st \in Statuses, p \in Plans : Sync(s, st, p)

Spec == Init /\ [][Next]_subs
=============================================================================
