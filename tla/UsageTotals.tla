---------------------------- MODULE UsageTotals ----------------------------
(***************************************************************************)
(* The sums the engine runs over the usage_events table                    *)
(* (src/app/repositories/usage_repository.py): the quantity of one         *)
(* subscription in one period, for one usage type (get_total_by_type, the  *)
(* quota check and the rollup) or for both (get_total_usage, the bill).    *)
(*                                                                         *)
(* The table is the sequence of its committed rows.  A row carries the     *)
(* calendar month its created_at falls in; month_bounds() makes the        *)
(* half-open window of a month, so "created_at in the window" is equality  *)
(* of months.  SUM over no row is NULL and `or 0` makes it 0.              *)
(*                                                                         *)
(* The sum is written as a recursive function, not a RECURSIVE operator,   *)
(* so that theorems can be proved about the modules that use it.           *)
(***************************************************************************)
EXTENDS Integers, Sequences

\* The sum of a finite sequence of numbers (0 for the empty one).
SeqSum(w) ==
  LET total[i \in 0..Len(w)] == IF i = 0 THEN 0 ELSE total[i-1] + w[i]
  IN  total[Len(w)]

\* The quantities of the rows that the WHERE clause keeps, 0 for the others.
TypeWeights(rows, s, t, m) ==
  [i \in DOMAIN rows |->
     IF rows[i].sub = s /\ rows[i].type = t /\ rows[i].month = m
     THEN rows[i].qty ELSE 0]

PeriodWeights(rows, s, m) ==
  [i \in DOMAIN rows |->
     IF rows[i].sub = s /\ rows[i].month = m THEN rows[i].qty ELSE 0]

TotalByType(rows, s, t, m) == SeqSum(TypeWeights(rows, s, t, m))
TotalUsage(rows, s, m)     == SeqSum(PeriodWeights(rows, s, m))
=============================================================================
