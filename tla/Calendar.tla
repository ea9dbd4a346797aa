------------------------------ MODULE Calendar ------------------------------
(***************************************************************************)
(* Billing periods (src/app/utils/dates.py): month_bounds gives the        *)
(* half-open window [first day of the month, first day of the next month), *)
(* and a row belongs to a period when its created_at falls in the window   *)
(* (usage_repository.py:67-74).  A datetime is naive UTC; `at` is how far   *)
(* into its month it lies, in the smallest unit the column keeps.          *)
(***************************************************************************)
EXTENDS Integers

DateTime == [year: Int, month: 1..12, at: Nat]

\* midnight of the first day of a month
FirstOf(y, mo) == [year |-> y, month |-> mo, at |-> 0]

\* a < b for datetimes
Before(a, b) ==
  \/ a.year < b.year
  \/ a.year = b.year /\ a.month < b.month
  \/ a.year = b.year /\ a.month = b.month /\ a.at < b.at

\* [planted bug] December ends in January of its own year.
MonthBoundsSameYear(ref) ==
  [start |-> FirstOf(ref.year, ref.month),
   end   |-> FirstOf(ref.year, IF ref.month = 12 THEN 1 ELSE ref.month + 1)]

\* The window of ref's calendar month.
MonthBounds(ref) ==
  [start |-> FirstOf(ref.year, ref.month),
   end   |-> IF ref.month = 12 THEN FirstOf(ref.year + 1, 1)
                               ELSE FirstOf(ref.year, ref.month + 1)]

\* created_at >= period_start AND created_at < period_end
InPeriod(d, p) == ~Before(d, p.start) /\ Before(d, p.end)
=============================================================================
