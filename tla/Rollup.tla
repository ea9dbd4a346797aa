------------------------------- MODULE Rollup -------------------------------
(***************************************************************************)
(* GET /usage/{subscription_id}, the monthly rollup, while usage is        *)
(* recorded (src/app/services/cost_service.py:69-110).  The rollup reads   *)
(* the subscription and runs three sums, each a statement of its own, over *)
(* a table that grows meanwhile; its three figures are of three moments.   *)
(*                                                                         *)
(* The rows come from POST /usage and POST /generate with the bodies that  *)
(* their schemas accept (src/app/schemas/usage.py); quota and dedup, which *)
(* only keep rows out, are in Metering.                                    *)
(***************************************************************************)
EXTENDS Integers, Sequences, FiniteSets, Cost, UsageTotals

CONSTANTS
  Readers,     \* concurrent rollup requests
  Subs,        \* the subscriptions
  Quantities,  \* quantities that POST /usage is sent
  Responses,   \* token counts of AI responses
  LastMonth,   \* bound: the clock stops in this month
  MaxEvents    \* bound: rows recorded

ASSUME RollupAssumption ==
  /\ Subs # {}
  /\ Quantities \subseteq Nat \ {0}
  /\ Responses \subseteq Breakdown
  /\ LastMonth \in Nat \ {0} /\ MaxEvents \in Nat

Types == {"API_CALL", "TOKENS"}
Months == 1..LastMonth

\* A row of usage_events; `via` (history) is the endpoint that recorded it.
UsageRow == [sub: Subs, type: Types, qty: Nat, tokens: Breakdown,
             month: Months, via: {"usage", "generate"}]

Figures == [calls: Nat, tokens: Nat, cost: Nat]

VARIABLES
  events,    \* the committed rows
  month,     \* the clock
  pc, sub, period,   \* a reader's position, subscription and month
  calls,     \* its sum of API calls
  used,      \* its sum of TOKENS quantities
  shown,     \* history: shown[s][m], the rollups answered
  responses, \* history: responses[s][m], what /generate answered as costs
  floor      \* history: the rollups that were answered when the reader began

vars == <<events, month, pc, sub, period, calls, used, shown, responses, floor>>

TypeOK ==
  /\ events \in Seq(UsageRow)
  /\ month \in Months
  /\ pc \in [Readers -> {"idle", "calls", "tokens", "totals"}]
  /\ sub \in [Readers -> Subs]
  /\ period \in [Readers -> Months]
  /\ calls \in [Readers -> Nat]
  /\ used \in [Readers -> Nat]
  /\ shown \in [Subs -> [Months -> SUBSET Figures]]
  /\ responses \in [Subs -> [Months -> Nat]]
  /\ floor \in [Readers -> SUBSET Figures]

Init ==
  /\ events = <<>>
  /\ month = 1
  /\ pc = [r \in Readers |-> "idle"]
  /\ sub = [r \in Readers |-> CHOOSE s \in Subs : TRUE]
  /\ period = [r \in Readers |-> 1]
  /\ calls = [r \in Readers |-> 0]
  /\ used = [r \in Readers |-> 0]
  /\ shown = [s \in Subs |-> [m \in Months |-> {}]]
  /\ responses = [s \in Subs |-> [m \in Months |-> 0]]
  /\ floor = [r \in Readers |-> {}]

-----------------------------------------------------------------------------
(* What is recorded *)

\* A row's created_at may lie in a month that ended before it was committed.
Record(row) ==
  /\ Len(events) < MaxEvents
  /\ row.month <= month
  /\ events' = Append(events, row)
  /\ UNCHANGED <<month, pc, sub, period, calls, used, shown, floor>>

\* POST /usage records either type, without a breakdown.
RecordUsage(s, t, q, m) ==
  /\ Record([sub |-> s, type |-> t, qty |-> q, tokens |-> NoTokens, month |-> m,
             via |-> "usage"])
  /\ UNCHANGED responses

\* POST /generate derives the quantity and answers the cost.  TOKENS is the
\* default of usage_type; a caller that names the other type gets it.
Generate(s, t, b, m) ==
  /\ Record([sub |-> s, type |-> t, qty |-> Tokens(b), tokens |-> b, month |-> m,
             via |-> "generate"])
  /\ responses' = [responses EXCEPT ![s][m] = @ + TokenCost(b)]

NextMonth ==
  /\ month < LastMonth
  /\ month' = month + 1
  /\ UNCHANGED <<events, pc, sub, period, calls, used, shown, responses, floor>>

-----------------------------------------------------------------------------
(* The rollup *)

Goto(r, label) == pc' = [pc EXCEPT ![r] = label]

\* [planted bug] takes the bounds of the month before.
RequestMonthBefore(r, s) ==
  /\ pc[r] = "idle"
  /\ Goto(r, "calls")
  /\ sub' = [sub EXCEPT ![r] = s]
  /\ period' = [period EXCEPT ![r] = month - 1]
  /\ floor' = [floor EXCEPT ![r] = shown[s][month]]
  /\ UNCHANGED <<events, month, calls, used, shown, responses>>

\* The owner asks (anyone else gets 403 or 404); month_bounds().
Request(r, s) ==
  /\ pc[r] = "idle"
  /\ Goto(r, "calls")
  /\ sub' = [sub EXCEPT ![r] = s]
  /\ period' = [period EXCEPT ![r] = month]
  /\ floor' = [floor EXCEPT ![r] = shown[s][month]]
  /\ UNCHANGED <<events, month, calls, used, shown, responses>>

SumCalls(r) ==
  /\ pc[r] = "calls"
  /\ Goto(r, "tokens")
  /\ calls' = [calls EXCEPT
                 ![r] = TotalByType(events, sub[r], "API_CALL", period[r])]
  /\ UNCHANGED <<events, month, sub, period, used, shown, responses, floor>>

\* [planted bug] sums the month it is by now.
SumTokensNow(r) ==
  /\ pc[r] = "tokens"
  /\ Goto(r, "totals")
  /\ used' = [used EXCEPT ![r] = TotalByType(events, sub[r], "TOKENS", month)]
  /\ UNCHANGED <<events, month, sub, period, calls, shown, responses, floor>>

SumTokens(r) ==
  /\ pc[r] = "tokens"
  /\ Goto(r, "totals")
  /\ used' = [used EXCEPT ![r] = TotalByType(events, sub[r], "TOKENS", period[r])]
  /\ UNCHANGED <<events, month, sub, period, calls, shown, responses, floor>>

\* One category of the TOKENS rows of a period.
CategoryWeights(rows, s, m, c) ==
  [i \in DOMAIN rows |->
     IF rows[i].sub = s /\ rows[i].type = "TOKENS" /\ rows[i].month = m
     THEN rows[i].tokens[c] ELSE 0]

\* [planted bug] forgets the cached input.
TokenTotalsWithoutCached(rows, s, m) ==
  [c \in {"cached", "input", "output", "reasoning"} |->
     IF c = "cached" THEN 0 ELSE SeqSum(CategoryWeights(rows, s, m, c))]

TokenTotals(rows, s, m) ==
  [c \in {"cached", "input", "output", "reasoning"} |->
     SeqSum(CategoryWeights(rows, s, m, c))]

\* What is answered after get_token_totals.
Answer(r) ==
  [calls  |-> calls[r],
   tokens |-> used[r],
   cost   |-> ApiCallCost(calls[r])
                + TokenCost(TokenTotals(events, sub[r], period[r]))]

SumTotals(r) ==
  /\ pc[r] = "totals"
  /\ Goto(r, "idle")
  /\ shown' = [shown EXCEPT ![sub[r]][period[r]] = @ \cup {Answer(r)}]
  /\ calls' = [calls EXCEPT ![r] = 0]
  /\ used' = [used EXCEPT ![r] = 0]
  /\ floor' = [floor EXCEPT ![r] = {}]
  /\ UNCHANGED <<events, month, sub, period, responses>>

Next ==
  \/ \E s \in Subs, t \in Types, m \in Months :
       \/ \E q \in Quantities : RecordUsage(s, t, q, m)
       \/ \E b \in Responses : Generate(s, t, b, m)
  \/ NextMonth
  \/ \E r \in Readers :
       \/ \E s \in Subs : Request(r, s)
       \/ SumCalls(r) \/ SumTokens(r) \/ SumTotals(r)

Spec == Init /\ [][Next]_vars

-----------------------------------------------------------------------------
(* Properties *)

\* A rollup never costs more than its API calls and the responses that were
\* priced one by one: summing before rounding up only saves started blocks
\* (cost_service.py:54-60, 92-99).
RollupWithinResponses ==
  \A s \in Subs, m \in Months : \A f \in shown[s][m] :
    f.cost <= ApiCallCost(f.calls) + responses[s][m]

\* The tokens of a period that POST /usage recorded carry no breakdown.
UnpricedWeights(rows, s, m) ==
  [i \in DOMAIN rows |->
     IF rows[i].sub = s /\ rows[i].month = m /\ rows[i].type = "TOKENS"
          /\ rows[i].via = "usage"
     THEN rows[i].qty ELSE 0]

UnpricedTokens(rows, s, m) == SeqSum(UnpricedWeights(rows, s, m))

\* Although the quantities and the breakdown are summed at different moments,
\* a rollup charges every token it shows that has a price, at the cheapest
\* rate or more: one micro-unit a token (cost_service.py:84-99).
ShownTokensAreCharged ==
  \A s \in Subs, m \in Months : \A f \in shown[s][m] :
    f.tokens - UnpricedTokens(events, s, m) <= f.cost - ApiCallCost(f.calls)

\* A rollup shows no less than any rollup of the same month that was answered
\* before it was asked for, to whichever reader, even when a slower one was
\* answered in between or the month ends while it is made
\* (endpoints/usage.py:53-54, cost_service.py:81-90).
RollupGrows ==
  [][\A r \in Readers : pc[r] = "totals" /\ pc'[r] = "idle" =>
       \A old \in floor[r] : /\ old.calls <= Answer(r).calls
                            /\ old.tokens <= Answer(r).tokens
                            /\ old.cost <= Answer(r).cost]_vars
=============================================================================
