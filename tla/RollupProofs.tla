---------------------------- MODULE RollupProofs ----------------------------
(***************************************************************************)
(* What holds of the rollup for every number of readers, subscriptions and *)
(* rows, and for every token count: its types, and how what it shows and   *)
(* charges relates to the rows, to the answers of /generate and to earlier *)
(* rollups.  The rates and the block size are the literal ones of Cost.    *)
(***************************************************************************)
EXTENDS Rollup, UsageTotalsProofs, TLAPS

-----------------------------------------------------------------------------
(* Pricing *)

\* Splitting a count never makes it cheaper; a block is never free.
LEMMA BlocksSubadditive ==
  ASSUME NEW a \in Nat, NEW b \in Nat
  PROVE  /\ Blocks(a + b) <= Blocks(a) + Blocks(b)
         /\ Blocks(a) <= Blocks(a + b)
         /\ Blocks(a) \in Nat /\ Blocks(b) \in Nat /\ Blocks(a + b) \in Nat
         /\ a <= 1000 * Blocks(a)
BY DEF Blocks

LEMMA BlocksGrow ==
  ASSUME NEW a \in Nat, NEW b \in Nat, a <= b
  PROVE  Blocks(a) <= Blocks(b) /\ Blocks(a) \in Nat /\ Blocks(b) \in Nat
BY DEF Blocks

LEMMA CallCostGrows ==
  ASSUME NEW a \in Nat, NEW b \in Nat, a <= b
  PROVE  /\ ApiCallCost(a) \in Nat /\ ApiCallCost(b) \in Nat
         /\ ApiCallCost(a) <= ApiCallCost(b)
BY BlocksGrow DEF ApiCallCost, CallRate

\* Four counts, without what holds them.
Counts(b) == b.cached \in Nat /\ b.input \in Nat /\ b.output \in Nat /\ b.reasoning \in Nat

LEMMA TokenCostBounds ==
  ASSUME NEW b, Counts(b)
  PROVE  TokenCost(b) \in Nat /\ Tokens(b) \in Nat /\ Tokens(b) <= TokenCost(b)
<1> DEFINE x == b.cached
           y == b.input
           z == b.output + b.reasoning
<1>1. x \in Nat /\ y \in Nat /\ z \in Nat
  BY DEF Counts
<1>2. /\ Tokens(b) = x + y + z
      /\ TokenCost(b) = 1000 * Blocks(x) + 3000 * Blocks(y) + 6000 * Blocks(z)
  BY DEF TokenCost, Tokens, CachedRate, InputRate, OutputRate, Counts
<1> HIDE DEF x, y, z
<1>3. Blocks(x) \in Nat /\ x <= 1000 * Blocks(x)
  BY <1>1, BlocksSubadditive
<1>4. Blocks(y) \in Nat /\ y <= 1000 * Blocks(y)
  BY <1>1, BlocksSubadditive
<1>5. Blocks(z) \in Nat /\ z <= 1000 * Blocks(z)
  BY <1>1, BlocksSubadditive
<1> QED BY <1>1, <1>2, <1>3, <1>4, <1>5

\* Sums of two breakdowns cost at most both, and no less than one.
LEMMA TokenCostOfSum ==
  ASSUME NEW a, NEW b, NEW c, Counts(a), Counts(b),
         c.cached = a.cached + b.cached, c.input = a.input + b.input,
         c.output = a.output + b.output, c.reasoning = a.reasoning + b.reasoning
  PROVE  /\ TokenCost(c) <= TokenCost(a) + TokenCost(b)
         /\ TokenCost(a) <= TokenCost(c)
         /\ Tokens(c) = Tokens(a) + Tokens(b) /\ Counts(c)
<1> DEFINE x(t) == t.cached
           y(t) == t.input
           z(t) == t.output + t.reasoning
<1>1. /\ x(a) \in Nat /\ x(b) \in Nat /\ x(c) = x(a) + x(b)
      /\ y(a) \in Nat /\ y(b) \in Nat /\ y(c) = y(a) + y(b)
      /\ z(a) \in Nat /\ z(b) \in Nat /\ z(c) = z(a) + z(b)
  BY DEF Counts
<1>2. Tokens(c) = Tokens(a) + Tokens(b) /\ Counts(c)
  BY DEF Tokens, Counts
<1>3. ASSUME NEW t
      PROVE  TokenCost(t) = 1000 * Blocks(x(t)) + 3000 * Blocks(y(t)) + 6000 * Blocks(z(t))
  BY DEF TokenCost, CachedRate, InputRate, OutputRate
<1> HIDE DEF x, y, z
<1>5. /\ Blocks(x(a)) \in Nat /\ Blocks(x(b)) \in Nat /\ Blocks(x(c)) \in Nat
      /\ Blocks(x(c)) <= Blocks(x(a)) + Blocks(x(b)) /\ Blocks(x(a)) <= Blocks(x(c))
  BY <1>1, BlocksSubadditive
<1>6. /\ Blocks(y(a)) \in Nat /\ Blocks(y(b)) \in Nat /\ Blocks(y(c)) \in Nat
      /\ Blocks(y(c)) <= Blocks(y(a)) + Blocks(y(b)) /\ Blocks(y(a)) <= Blocks(y(c))
  BY <1>1, BlocksSubadditive
<1>7. /\ Blocks(z(a)) \in Nat /\ Blocks(z(b)) \in Nat /\ Blocks(z(c)) \in Nat
      /\ Blocks(z(c)) <= Blocks(z(a)) + Blocks(z(b)) /\ Blocks(z(a)) <= Blocks(z(c))
  BY <1>1, BlocksSubadditive
<1> QED BY <1>2, <1>3, <1>5, <1>6, <1>7

-----------------------------------------------------------------------------
(* The sums over the rows *)

Categories == {"cached", "input", "output", "reasoning"}

LEMMA RowFields ==
  ASSUME NEW e \in UsageRow
  PROVE  /\ e.qty \in Nat /\ Counts(e.tokens)
         /\ \A c \in Categories : e.tokens[c] \in Nat
BY DEF UsageRow, Breakdown, Counts, Categories

LEMMA RowsHaveQuantities ==
  ASSUME NEW rows \in Seq(UsageRow)
  PROVE  QtyRow(rows)
BY RowFields DEF QtyRow

LEMMA CategoryType ==
  ASSUME NEW rows \in Seq(UsageRow), NEW s, NEW m, NEW c \in Categories
  PROVE  /\ CategoryWeights(rows, s, m, c) \in Seq(Nat)
         /\ Len(CategoryWeights(rows, s, m, c)) = Len(rows)
<1>1. /\ DOMAIN rows = 1..Len(rows) /\ Len(rows) \in Nat
      /\ \A i \in DOMAIN rows : rows[i].tokens[c] \in Nat
  BY RowFields
<1>2. CategoryWeights(rows, s, m, c) \in [1..Len(rows) -> Nat]
  BY <1>1 DEF CategoryWeights
<1> QED BY <1>1, <1>2

LEMMA CategoryAppend ==
  ASSUME NEW rows \in Seq(UsageRow), NEW e \in UsageRow, NEW s, NEW m,
         NEW c \in Categories
  PROVE  SeqSum(CategoryWeights(Append(rows, e), s, m, c))
           = SeqSum(CategoryWeights(rows, s, m, c))
             + (IF e.sub = s /\ e.type = "TOKENS" /\ e.month = m
                THEN e.tokens[c] ELSE 0)
<1> DEFINE q == IF e.sub = s /\ e.type = "TOKENS" /\ e.month = m
                THEN e.tokens[c] ELSE 0
           w == CategoryWeights(rows, s, m, c)
           v == CategoryWeights(Append(rows, e), s, m, c)
<1>1. w \in Seq(Nat) /\ Len(w) = Len(rows) /\ q \in Nat
  BY CategoryType, RowFields
<1>2. Append(rows, e) \in Seq(UsageRow) /\ Len(Append(rows, e)) = Len(w) + 1
  BY <1>1
<1>3. v \in Seq(Nat) /\ Len(v) = Len(w) + 1
  BY <1>2, CategoryType
<1>4. /\ v[Len(w) + 1] = q
      /\ \A i \in 1..Len(w) : v[i] = w[i]
  BY <1>1, <1>2 DEF CategoryWeights
<1> HIDE DEF w, v, q
<1>5. v \in [1..(Len(w) + 1) -> Nat]
  BY <1>1, <1>3
<1>6. SeqSum(v) = SeqSum(w) + q
  BY <1>1, <1>4, <1>5, SeqSumExtended
<1> QED BY <1>6 DEF w, v, q

\* What the three sums of a rollup are, and what the rows of /usage add.
Calls(rows, s, m)  == TotalByType(rows, s, "API_CALL", m)
Used(rows, s, m)   == TotalByType(rows, s, "TOKENS", m)
Priced(rows, s, m) == TokenCost(TokenTotals(rows, s, m))

LEMMA TotalsCount ==
  ASSUME NEW rows \in Seq(UsageRow), NEW s, NEW m
  PROVE  Counts(TokenTotals(rows, s, m))
<1>1. ASSUME NEW c \in Categories PROVE TokenTotals(rows, s, m)[c] \in Nat
  BY CategoryType, SeqSumType DEF TokenTotals, Categories
<1> QED BY <1>1 DEF Counts, Categories

LEMMA SumsAreNat ==
  ASSUME NEW rows \in Seq(UsageRow), NEW s, NEW m
  PROVE  /\ Calls(rows, s, m) \in Nat /\ Used(rows, s, m) \in Nat
         /\ Priced(rows, s, m) \in Nat
         /\ Tokens(TokenTotals(rows, s, m)) \in Nat
         /\ Tokens(TokenTotals(rows, s, m)) <= Priced(rows, s, m)
BY RowsHaveQuantities, TotalByTypeNat, TotalsCount, TokenCostBounds
   DEF Calls, Used, Priced

\* A row adds its breakdown to the totals of its month, or nothing.
LEMMA TotalsAppend ==
  ASSUME NEW rows \in Seq(UsageRow), NEW e \in UsageRow, NEW s, NEW m
  PROVE  LET hit == e.sub = s /\ e.type = "TOKENS" /\ e.month = m
         IN  /\ Priced(rows, s, m) <= Priced(Append(rows, e), s, m)
             /\ Priced(Append(rows, e), s, m)
                  <= Priced(rows, s, m) + (IF hit THEN TokenCost(e.tokens) ELSE 0)
             /\ Tokens(TokenTotals(Append(rows, e), s, m))
                  = Tokens(TokenTotals(rows, s, m))
                    + (IF hit THEN Tokens(e.tokens) ELSE 0)
<1> DEFINE hit == e.sub = s /\ e.type = "TOKENS" /\ e.month = m
           a == TokenTotals(rows, s, m)
           c == TokenTotals(Append(rows, e), s, m)
<1>1. ASSUME NEW k \in Categories
      PROVE  c[k] = a[k] + (IF hit THEN e.tokens[k] ELSE 0)
  BY CategoryAppend DEF TokenTotals, Categories
<1>2. Counts(a) /\ Counts(e.tokens)
  BY TotalsCount, RowFields
<1>3. CASE hit
  <2>1. /\ c.cached = a.cached + e.tokens.cached
        /\ c.input = a.input + e.tokens.input
        /\ c.output = a.output + e.tokens.output
        /\ c.reasoning = a.reasoning + e.tokens.reasoning
    BY <1>1, <1>3 DEF Categories
  <2> HIDE DEF a, c
  <2>2. /\ TokenCost(c) <= TokenCost(a) + TokenCost(e.tokens)
        /\ TokenCost(a) <= TokenCost(c)
        /\ Tokens(c) = Tokens(a) + Tokens(e.tokens)
    BY <1>2, <2>1, TokenCostOfSum
  <2> QED BY <1>3, <2>2 DEF Priced, a, c
<1>4. CASE ~hit
  <2>1. /\ c.cached = a.cached + 0 /\ c.input = a.input + 0
        /\ c.output = a.output + 0 /\ c.reasoning = a.reasoning + 0
    BY <1>1, <1>4 DEF Categories
  <2> HIDE DEF a, c
  <2>2. /\ c.cached = a.cached /\ c.input = a.input
        /\ c.output = a.output /\ c.reasoning = a.reasoning
    BY <1>2, <2>1 DEF Counts
  <2>3. TokenCost(c) = TokenCost(a) /\ Tokens(c) = Tokens(a)
    BY <2>2 DEF TokenCost, Tokens
  <2>4. TokenCost(a) \in Nat /\ Tokens(a) \in Nat
    BY <1>2, TokenCostBounds
  <2> QED BY <1>4, <2>3, <2>4 DEF Priced, a, c
<1> QED BY <1>3, <1>4

LEMMA SumsAppend ==
  ASSUME NEW rows \in Seq(UsageRow), NEW e \in UsageRow, NEW s, NEW m
  PROVE  /\ Calls(rows, s, m) <= Calls(Append(rows, e), s, m)
         /\ Used(Append(rows, e), s, m)
              = Used(rows, s, m)
                + (IF e.sub = s /\ e.type = "TOKENS" /\ e.month = m
                   THEN e.qty ELSE 0)
<1>1. QtyRow(rows) /\ e.qty \in Nat
  BY RowsHaveQuantities, RowFields
<1>2. /\ Calls(Append(rows, e), s, m)
           = Calls(rows, s, m)
             + (IF e.sub = s /\ e.type = "API_CALL" /\ e.month = m THEN e.qty ELSE 0)
      /\ Used(Append(rows, e), s, m)
           = Used(rows, s, m)
             + (IF e.sub = s /\ e.type = "TOKENS" /\ e.month = m THEN e.qty ELSE 0)
  BY <1>1, TotalByTypeAppend DEF Calls, Used
<1> QED BY <1>1, <1>2, SumsAreNat

LEMMA UnpricedAppend ==
  ASSUME NEW rows \in Seq(UsageRow), NEW e \in UsageRow, NEW s, NEW m
  PROVE  /\ UnpricedTokens(rows, s, m) \in Nat
         /\ UnpricedTokens(Append(rows, e), s, m)
              = UnpricedTokens(rows, s, m)
                + (IF e.sub = s /\ e.month = m /\ e.type = "TOKENS"
                        /\ e.via = "usage"
                   THEN e.qty ELSE 0)
<1> DEFINE q == IF e.sub = s /\ e.month = m /\ e.type = "TOKENS" /\ e.via = "usage"
                THEN e.qty ELSE 0
           w == UnpricedWeights(rows, s, m)
           v == UnpricedWeights(Append(rows, e), s, m)
<1>1. /\ DOMAIN Append(rows, e) = 1..(Len(rows) + 1)
      /\ DOMAIN rows = 1..Len(rows) /\ Len(rows) \in Nat
      /\ Append(rows, e)[Len(rows) + 1] = e
      /\ \A i \in 1..Len(rows) : Append(rows, e)[i] = rows[i]
      /\ \A i \in 1..Len(rows) : rows[i].qty \in Nat
  BY RowFields
<1>2. q \in Nat
  BY RowFields
<1>3. w \in [1..Len(rows) -> Nat]
  BY <1>1 DEF UnpricedWeights
<1>4. w \in Seq(Nat) /\ Len(w) = Len(rows)
  BY <1>1, <1>3
<1>5. /\ DOMAIN v = 1..(Len(w) + 1) /\ v[Len(w) + 1] = q
      /\ \A i \in 1..Len(w) : v[i] = w[i]
  BY <1>1, <1>4 DEF UnpricedWeights
<1>6. v \in [1..(Len(w) + 1) -> Nat]
  <2>1. v = [i \in DOMAIN v |-> v[i]]
    BY DEF UnpricedWeights
  <2>2. \A i \in DOMAIN v : v[i] \in Nat
    BY <1>1, <1>2 DEF UnpricedWeights
  <2> HIDE DEF v, w
  <2> QED BY <1>5, <2>1, <2>2
<1> HIDE DEF w, v, q
<1>7. SeqSum(w) \in Nat /\ SeqSum(v) = SeqSum(w) + q
  BY <1>2, <1>4, <1>5, <1>6, SeqSumType, SeqSumExtended
<1> QED BY <1>7 DEF UnpricedTokens, w, v, q

-----------------------------------------------------------------------------
(* Types *)

USE RollupAssumption

\* The row that a recording step appends.
UsageRowOf(s, t, q, m) ==
  [sub |-> s, type |-> t, qty |-> q, tokens |-> NoTokens, month |-> m, via |-> "usage"]

ResponseRowOf(s, t, b, m) ==
  [sub |-> s, type |-> t, qty |-> Tokens(b), tokens |-> b, month |-> m,
   via |-> "generate"]

LEMMA RowTypes ==
  ASSUME NEW s \in Subs, NEW t \in Types, NEW m \in Months
  PROVE  /\ \A q \in Quantities : UsageRowOf(s, t, q, m) \in UsageRow
         /\ \A b \in Responses : /\ ResponseRowOf(s, t, b, m) \in UsageRow
                                 /\ Counts(b) /\ TokenCost(b) \in Nat
                                 /\ Tokens(b) \in Nat
<1>1. NoTokens \in Breakdown
  BY DEF NoTokens, Breakdown
<1>2. ASSUME NEW q \in Quantities PROVE UsageRowOf(s, t, q, m) \in UsageRow
  BY <1>1 DEF UsageRowOf, UsageRow
<1>3. ASSUME NEW b \in Responses
      PROVE  Counts(b) /\ TokenCost(b) \in Nat /\ Tokens(b) \in Nat /\ b \in Breakdown
  <2>1. b \in Breakdown
    OBVIOUS
  <2>2. Counts(b)
    BY <2>1 DEF Breakdown, Counts
  <2> QED BY <2>1, <2>2, TokenCostBounds
<1>4. ASSUME NEW b \in Responses PROVE ResponseRowOf(s, t, b, m) \in UsageRow
  BY <1>3 DEF ResponseRowOf, UsageRow
<1> QED BY <1>2, <1>3, <1>4

LEMMA TypeInit == Init => TypeOK
<1>1. (CHOOSE s \in Subs : TRUE) \in Subs
  OBVIOUS
<1> QED BY <1>1 DEF Init, TypeOK, Months, Figures

LEMMA RecordType ==
  ASSUME TypeOK, NEW row \in UsageRow, Record(row),
         responses' \in [Subs -> [Months -> Nat]]
  PROVE  TypeOK'
BY DEF TypeOK, Record

LEMMA TypeStep == TypeOK /\ [Next]_vars => TypeOK'
<1> SUFFICES ASSUME TypeOK, [Next]_vars PROVE TypeOK'
  OBVIOUS
<1>1. ASSUME NEW s \in Subs, NEW t \in Types, NEW m \in Months,
             NEW q \in Quantities, RecordUsage(s, t, q, m)
      PROVE  TypeOK'
  <2>1. Record(UsageRowOf(s, t, q, m)) /\ responses' = responses
    BY <1>1 DEF RecordUsage, UsageRowOf
  <2>2. responses' \in [Subs -> [Months -> Nat]]
    BY <2>1 DEF TypeOK
  <2> QED BY <2>1, <2>2, RowTypes, RecordType
<1>2. ASSUME NEW s \in Subs, NEW t \in Types, NEW m \in Months,
             NEW b \in Responses, Generate(s, t, b, m)
      PROVE  TypeOK'
  <2>1. /\ Record(ResponseRowOf(s, t, b, m))
        /\ responses' = [responses EXCEPT ![s][m] = @ + TokenCost(b)]
    BY <1>2 DEF Generate, ResponseRowOf
  <2>2. responses' \in [Subs -> [Months -> Nat]]
    BY <2>1, RowTypes DEF TypeOK
  <2> QED BY <2>1, <2>2, RowTypes, RecordType
<1>3. CASE NextMonth
  BY <1>3 DEF NextMonth, TypeOK, Months
<1>4. ASSUME NEW r \in Readers, NEW s \in Subs, Request(r, s) PROVE TypeOK'
  <2>1. shown[s][month] \in SUBSET Figures
    BY DEF TypeOK
  <2> QED BY <1>4, <2>1 DEF Request, Goto, TypeOK
<1>5. ASSUME NEW r \in Readers, SumCalls(r) PROVE TypeOK'
  <2>1. Calls(events, sub[r], period[r]) \in Nat
    BY SumsAreNat DEF TypeOK
  <2> QED BY <1>5, <2>1 DEF SumCalls, Goto, TypeOK, Calls
<1>6. ASSUME NEW r \in Readers, SumTokens(r) PROVE TypeOK'
  <2>1. Used(events, sub[r], period[r]) \in Nat
    BY SumsAreNat DEF TypeOK
  <2> QED BY <1>6, <2>1 DEF SumTokens, Goto, TypeOK, Used
<1>7. ASSUME NEW r \in Readers, SumTotals(r) PROVE TypeOK'
  <2>1. /\ Priced(events, sub[r], period[r]) \in Nat
        /\ calls[r] \in Nat /\ used[r] \in Nat
    BY SumsAreNat DEF TypeOK
  <2>2. ApiCallCost(calls[r]) \in Nat
    BY <2>1, CallCostGrows
  <2>3. Answer(r) \in Figures
    BY <2>1, <2>2 DEF Figures, Answer, Priced
  <2>4. shown' = [shown EXCEPT ![sub[r]][period[r]] = @ \cup {Answer(r)}]
    BY <1>7 DEF SumTotals
  <2>5. shown' \in [Subs -> [Months -> SUBSET Figures]]
    BY <2>3, <2>4 DEF TypeOK
  <2> QED BY <1>7, <2>5 DEF SumTotals, Goto, TypeOK
<1>8. CASE UNCHANGED vars
  BY <1>8 DEF vars, TypeOK
<1> QED BY <1>1, <1>2, <1>3, <1>4, <1>5, <1>6, <1>7, <1>8 DEF Next

\* The variables keep their types: a rollup is of a month the clock has shown,
\* and all it shows is a natural number.
THEOREM TypeCorrect == Spec => []TypeOK
BY TypeInit, TypeStep, PTL DEF Spec

-----------------------------------------------------------------------------
(* The rows *)

\* Every token is of a row without a breakdown or in the totals, and the totals
\* cost no more than the responses that brought them.
RowsInv ==
  \A s \in Subs, m \in Months :
    /\ Used(events, s, m)
         = UnpricedTokens(events, s, m) + Tokens(TokenTotals(events, s, m))
    /\ Priced(events, s, m) <= responses[s][m]

\* Nothing that a rollup shows goes back.
Grown(s, m) ==
  /\ Calls(events, s, m) <= Calls(events', s, m)
  /\ Used(events, s, m) <= Used(events', s, m)
  /\ Priced(events, s, m) <= Priced(events', s, m)
  /\ UnpricedTokens(events, s, m) <= UnpricedTokens(events', s, m)
  /\ responses[s][m] <= responses'[s][m]

Nats(s, m) ==
  /\ Calls(events, s, m) \in Nat /\ Used(events, s, m) \in Nat
  /\ Priced(events, s, m) \in Nat /\ UnpricedTokens(events, s, m) \in Nat
  /\ Tokens(TokenTotals(events, s, m)) \in Nat
  /\ Tokens(TokenTotals(events, s, m)) <= Priced(events, s, m)

LEMMA UnpricedNat ==
  ASSUME NEW rows \in Seq(UsageRow), NEW s \in Subs, NEW m \in Months
  PROVE  UnpricedTokens(rows, s, m) \in Nat
<1>1. [sub |-> s, type |-> "TOKENS", qty |-> 0, tokens |-> NoTokens, month |-> m,
       via |-> "usage"] \in UsageRow
  BY DEF UsageRow, NoTokens, Breakdown, Types
<1> QED BY <1>1, UnpricedAppend

LEMMA AreNats ==
  ASSUME TypeOK, NEW s \in Subs, NEW m \in Months
  PROVE  Nats(s, m) /\ responses[s][m] \in Nat
<1>1. events \in Seq(UsageRow) /\ responses[s][m] \in Nat
  BY DEF TypeOK
<1> QED BY <1>1, SumsAreNat, UnpricedNat DEF Nats

\* The rows after POST /usage ...
LEMMA RowsRecordUsage ==
  ASSUME TypeOK, RowsInv, NEW z \in Subs, NEW t \in Types, NEW n \in Months,
         NEW q \in Quantities, RecordUsage(z, t, q, n),
         NEW s \in Subs, NEW m \in Months
  PROVE  /\ Grown(s, m)
         /\ Used(events', s, m)
              = UnpricedTokens(events', s, m) + Tokens(TokenTotals(events', s, m))
         /\ Priced(events', s, m) <= responses'[s][m]
<1> DEFINE e == UsageRowOf(z, t, q, n)
           hit == e.sub = s /\ e.type = "TOKENS" /\ e.month = m
           used0 == Used(events, s, m)
           used1 == Used(events', s, m)
           free0 == UnpricedTokens(events, s, m)
           free1 == UnpricedTokens(events', s, m)
           tok0 == Tokens(TokenTotals(events, s, m))
           tok1 == Tokens(TokenTotals(events', s, m))
           cost0 == Priced(events, s, m)
           cost1 == Priced(events', s, m)
           more == IF hit THEN e.qty ELSE 0
<1>1. /\ events' = Append(events, e) /\ responses' = responses
      /\ events \in Seq(UsageRow) /\ e \in UsageRow
  BY RowTypes DEF RecordUsage, Record, UsageRowOf, TypeOK
<1>2. TokenCost(e.tokens) = 0 /\ Tokens(e.tokens) = 0 /\ e.via = "usage"
  BY DEF UsageRowOf, NoTokens, TokenCost, Tokens, Blocks, CachedRate, InputRate,
         OutputRate
<1>3. more \in Nat
  BY <1>1, RowFields
<1>4. Nats(s, m) /\ responses[s][m] \in Nat /\ cost1 \in Nat
  <2>1. events' \in Seq(UsageRow)
    BY <1>1
  <2> QED BY <2>1, AreNats, SumsAreNat
<1> HIDE DEF e
<1>5. cost0 <= cost1 /\ cost1 <= cost0 + 0 /\ tok1 = tok0 + 0
  BY <1>1, <1>2, TotalsAppend
<1>6. Calls(events, s, m) <= Calls(events', s, m) /\ used1 = used0 + more
  BY <1>1, SumsAppend
<1>7. free1 = free0 + more
  BY <1>1, <1>2, UnpricedAppend
<1>8. used0 = free0 + tok0 /\ cost0 <= responses[s][m]
  BY DEF RowsInv
<1>9. used0 \in Nat /\ free0 \in Nat /\ tok0 \in Nat /\ cost0 \in Nat
  BY <1>4 DEF Nats
<1> HIDE DEF used0, used1, free0, free1, tok0, tok1, cost0, cost1, more
<1>10. /\ used0 <= used1 /\ free0 <= free1 /\ used1 = free1 + tok1
       /\ cost1 <= responses'[s][m] /\ responses[s][m] <= responses'[s][m]
  BY <1>1, <1>3, <1>4, <1>5, <1>6, <1>7, <1>8, <1>9
<1> QED BY <1>5, <1>6, <1>10
        DEF Grown, used0, used1, free0, free1, tok0, tok1, cost0, cost1

\* ... and after POST /generate.
LEMMA RowsGenerate ==
  ASSUME TypeOK, RowsInv, NEW z \in Subs, NEW t \in Types, NEW n \in Months,
         NEW b \in Responses, Generate(z, t, b, n),
         NEW s \in Subs, NEW m \in Months
  PROVE  /\ Grown(s, m)
         /\ Used(events', s, m)
              = UnpricedTokens(events', s, m) + Tokens(TokenTotals(events', s, m))
         /\ Priced(events', s, m) <= responses'[s][m]
<1> DEFINE e == ResponseRowOf(z, t, b, n)
           hit == e.sub = s /\ e.type = "TOKENS" /\ e.month = m
           used0 == Used(events, s, m)
           used1 == Used(events', s, m)
           free0 == UnpricedTokens(events, s, m)
           free1 == UnpricedTokens(events', s, m)
           tok0 == Tokens(TokenTotals(events, s, m))
           tok1 == Tokens(TokenTotals(events', s, m))
           cost0 == Priced(events, s, m)
           cost1 == Priced(events', s, m)
           more == IF hit THEN e.qty ELSE 0
           price == IF hit THEN TokenCost(e.tokens) ELSE 0
           resp0 == responses[s][m]
           resp1 == responses'[s][m]
<1>1. /\ events' = Append(events, e) /\ events \in Seq(UsageRow) /\ e \in UsageRow
      /\ responses' = [responses EXCEPT ![z][n] = @ + TokenCost(b)]
  BY RowTypes DEF Generate, Record, ResponseRowOf, TypeOK
<1>2. /\ e.sub = z /\ e.month = n /\ e.tokens = b /\ e.qty = Tokens(b)
      /\ e.via = "generate"
  BY DEF ResponseRowOf
<1>3. TokenCost(b) \in Nat /\ Tokens(b) \in Nat
  BY RowTypes
<1>4. Nats(s, m) /\ resp0 \in Nat /\ cost1 \in Nat
  <2>1. events' \in Seq(UsageRow)
    BY <1>1
  <2> QED BY <2>1, AreNats, SumsAreNat
<1>5. resp0 + price <= resp1 /\ resp0 <= resp1
  <2>1. resp1 = IF z = s /\ n = m THEN resp0 + TokenCost(b) ELSE resp0
    BY <1>1 DEF TypeOK
  <2> QED BY <1>2, <1>3, <1>4, <2>1
<1> HIDE DEF e
<1>6. cost0 <= cost1 /\ cost1 <= cost0 + price /\ tok1 = tok0 + more
  BY <1>1, <1>2, TotalsAppend
<1>7. Calls(events, s, m) <= Calls(events', s, m) /\ used1 = used0 + more
  BY <1>1, SumsAppend
<1>8. free1 = free0 + 0
  BY <1>1, <1>2, UnpricedAppend
<1>9. used0 = free0 + tok0 /\ cost0 <= resp0
  BY DEF RowsInv
<1>10. /\ used0 \in Nat /\ free0 \in Nat /\ tok0 \in Nat /\ cost0 \in Nat
       /\ more \in Nat /\ price \in Nat /\ resp1 \in Nat
  <2>1. responses' \in [Subs -> [Months -> Nat]]
    BY <1>1, <1>3 DEF TypeOK
  <2> QED BY <1>2, <1>3, <1>4, <2>1 DEF Nats
<1> HIDE DEF used0, used1, free0, free1, tok0, tok1, cost0, cost1, more, price,
             resp0, resp1
<1>11. /\ used0 <= used1 /\ free0 <= free1 /\ used1 = free1 + tok1
       /\ cost1 <= resp1
  BY <1>4, <1>5, <1>6, <1>7, <1>8, <1>9, <1>10
<1> QED BY <1>5, <1>6, <1>7, <1>11
        DEF Grown, used0, used1, free0, free1, tok0, tok1, cost0, cost1, resp0, resp1

LEMMA RowsStep ==
  ASSUME TypeOK, RowsInv, [Next]_vars
  PROVE  RowsInv' /\ \A s \in Subs, m \in Months : Grown(s, m)
<1>1. CASE UNCHANGED <<events, responses>>
  <2>1. \A s \in Subs, m \in Months : Grown(s, m)
    BY <1>1, AreNats DEF Grown, Nats
  <2> QED BY <1>1, <2>1 DEF RowsInv
<1>2. ASSUME NEW z \in Subs, NEW t \in Types, NEW n \in Months,
             \/ \E q \in Quantities : RecordUsage(z, t, q, n)
             \/ \E b \in Responses : Generate(z, t, b, n)
      PROVE  RowsInv' /\ \A s \in Subs, m \in Months : Grown(s, m)
  BY <1>2, RowsRecordUsage, RowsGenerate DEF RowsInv
<1> QED BY <1>1, <1>2 DEF Next, vars, NextMonth, Request, SumCalls, SumTokens, SumTotals

-----------------------------------------------------------------------------
(* The rollups *)

\* Figures that the sums of now do not undercut.
Below(f, rows, s, m) ==
  /\ f.calls <= Calls(rows, s, m)
  /\ f.tokens <= Used(rows, s, m)
  /\ f.cost <= ApiCallCost(f.calls) + Priced(rows, s, m)

\* Whatever token it shows and that has a price, it charges.
Charged(f, rows, s, m) ==
  f.tokens - UnpricedTokens(rows, s, m) <= f.cost - ApiCallCost(f.calls)

ShownInv ==
  \A s \in Subs, m \in Months : \A f \in shown[s][m] :
    Below(f, events, s, m) /\ Charged(f, events, s, m)

\* What a reader has summed is between what was shown before it began and what
\* the sums are by now.
ReaderInv(r) ==
  /\ pc[r] # "idle" =>
       \A old \in floor[r] : Below(old, events, sub[r], period[r])
  /\ pc[r] \in {"tokens", "totals"} =>
       /\ calls[r] <= Calls(events, sub[r], period[r])
       /\ \A old \in floor[r] : old.calls <= calls[r]
  /\ pc[r] = "totals" =>
       /\ used[r] <= Used(events, sub[r], period[r])
       /\ \A old \in floor[r] : old.tokens <= used[r]

RollupInv ==
  /\ RowsInv
  /\ ShownInv
  /\ \A r \in Readers : ReaderInv(r)

LEMMA BelowKept ==
  ASSUME TypeOK, TypeOK', NEW s \in Subs, NEW m \in Months, Grown(s, m),
         NEW f \in Figures, Below(f, events, s, m)
  PROVE  Below(f, events', s, m)
<1>1. Nats(s, m) /\ f.calls \in Nat /\ f.tokens \in Nat /\ f.cost \in Nat
  BY AreNats DEF Figures
<1>2. events' \in Seq(UsageRow)
  BY DEF TypeOK
<1>3. /\ Calls(events', s, m) \in Nat /\ Used(events', s, m) \in Nat
      /\ Priced(events', s, m) \in Nat /\ ApiCallCost(f.calls) \in Nat
  BY <1>1, <1>2, SumsAreNat, CallCostGrows
<1> QED BY <1>1, <1>3 DEF Below, Grown, Nats

\* A reader that a step does not touch, and whose figures stay.
LEMMA ReaderKept ==
  ASSUME TypeOK, TypeOK', NEW r \in Readers, ReaderInv(r), Grown(sub[r], period[r]),
         /\ pc'[r] = pc[r] /\ sub'[r] = sub[r] /\ period'[r] = period[r]
         /\ calls'[r] = calls[r] /\ used'[r] = used[r] /\ floor'[r] = floor[r]
  PROVE  ReaderInv(r)'
<1> DEFINE s == sub[r]
           m == period[r]
<1>1. /\ s \in Subs /\ m \in Months /\ floor[r] \in SUBSET Figures
      /\ calls[r] \in Nat /\ used[r] \in Nat
  BY DEF TypeOK
<1>2. pc[r] # "idle" => \A old \in floor[r] : Below(old, events', s, m)
  BY <1>1, BelowKept DEF ReaderInv
<1>3. Nats(s, m) /\ Grown(s, m)
  BY <1>1, AreNats
<1>4. events' \in Seq(UsageRow)
  BY DEF TypeOK
<1>5. Calls(events', s, m) \in Nat /\ Used(events', s, m) \in Nat
  BY <1>4, SumsAreNat
<1>6. /\ pc[r] \in {"tokens", "totals"} => calls[r] <= Calls(events', s, m)
      /\ pc[r] = "totals" => used[r] <= Used(events', s, m)
  BY <1>1, <1>3, <1>5 DEF ReaderInv, Grown, Nats
<1> QED BY <1>1, <1>2, <1>6 DEF ReaderInv

LEMMA ShownKept ==
  ASSUME TypeOK, TypeOK', ShownInv, NEW s \in Subs, NEW m \in Months,
         Grown(s, m), NEW f \in shown[s][m]
  PROVE  Below(f, events', s, m) /\ Charged(f, events', s, m)
<1>1. f \in Figures /\ f.calls \in Nat /\ f.tokens \in Nat /\ f.cost \in Nat
  <2>1. f \in Figures
    BY DEF TypeOK
  <2> QED BY <2>1 DEF Figures
<1>2. Below(f, events, s, m) /\ Charged(f, events, s, m) /\ Nats(s, m)
  BY AreNats DEF ShownInv
<1>3. Below(f, events', s, m)
  BY <1>1, <1>2, BelowKept
<1>4. /\ UnpricedTokens(events, s, m) \in Nat /\ UnpricedTokens(events', s, m) \in Nat
      /\ UnpricedTokens(events, s, m) <= UnpricedTokens(events', s, m)
      /\ ApiCallCost(f.calls) \in Nat
  <2>1. events' \in Seq(UsageRow) /\ UnpricedTokens(events', s, m) \in Nat
    BY UnpricedNat DEF TypeOK
  <2>2. ApiCallCost(f.calls) \in Nat
    BY <1>1, CallCostGrows
  <2> QED BY <1>2, <2>1, <2>2 DEF Grown, Nats
<1>5. Charged(f, events', s, m)
  BY <1>1, <1>2, <1>4 DEF Charged
<1> QED BY <1>3, <1>5

LEMMA ShownUnchanged ==
  ASSUME TypeOK, TypeOK', ShownInv, \A s \in Subs, m \in Months : Grown(s, m),
         shown' = shown
  PROVE  ShownInv'
BY ShownKept DEF ShownInv

\* The steps of a reader itself.
LEMMA ReaderActs ==
  ASSUME TypeOK, ShownInv, NEW r \in Readers, ReaderInv(r),
         \/ \E s \in Subs : Request(r, s)
         \/ SumCalls(r) \/ SumTokens(r) \/ SumTotals(r)
  PROVE  ReaderInv(r)'
<1>1. ASSUME NEW s \in Subs, Request(r, s) PROVE ReaderInv(r)'
  <2>1. /\ pc'[r] = "calls" /\ sub'[r] = s /\ period'[r] = month /\ events' = events
        /\ floor'[r] = shown[s][month]
    BY <1>1 DEF Request, Goto, TypeOK
  <2>2. \A old \in shown[s][month] : Below(old, events, s, month)
    BY DEF ShownInv, TypeOK
  <2> QED BY <2>1, <2>2 DEF ReaderInv
<1>2. CASE SumCalls(r)
  <2>1. /\ pc[r] = "calls" /\ pc'[r] = "tokens" /\ events' = events
        /\ sub' = sub /\ period' = period /\ floor' = floor
        /\ calls'[r] = Calls(events, sub[r], period[r])
    BY <1>2 DEF SumCalls, Goto, TypeOK, Calls
  <2>2. Calls(events, sub[r], period[r]) \in Nat
    BY SumsAreNat DEF TypeOK
  <2>3. \A old \in floor[r] : old.calls <= Calls(events, sub[r], period[r])
    BY <2>1 DEF ReaderInv, Below
  <2> QED BY <2>1, <2>2, <2>3 DEF ReaderInv
<1>3. CASE SumTokens(r)
  <2>1. /\ pc[r] = "tokens" /\ pc'[r] = "totals" /\ events' = events
        /\ sub' = sub /\ period' = period /\ floor' = floor /\ calls' = calls
        /\ used'[r] = Used(events, sub[r], period[r])
    BY <1>3 DEF SumTokens, Goto, TypeOK, Used
  <2>2. Used(events, sub[r], period[r]) \in Nat
    BY SumsAreNat DEF TypeOK
  <2>3. \A old \in floor[r] : old.tokens <= Used(events, sub[r], period[r])
    BY <2>1 DEF ReaderInv, Below
  <2> QED BY <2>1, <2>2, <2>3 DEF ReaderInv
<1>4. CASE SumTotals(r)
  BY <1>4 DEF SumTotals, Goto, TypeOK, ReaderInv
<1> QED BY <1>1, <1>2, <1>3, <1>4

\* The figures a reader answers with.
LEMMA AnswerFigures ==
  ASSUME TypeOK, RowsInv, NEW r \in Readers, ReaderInv(r), SumTotals(r)
  PROVE  /\ Below(Answer(r), events, sub[r], period[r])
         /\ Charged(Answer(r), events, sub[r], period[r])
         /\ \A old \in floor[r] : /\ old.calls <= Answer(r).calls
                                 /\ old.tokens <= Answer(r).tokens
                                 /\ old.cost <= Answer(r).cost
<1> DEFINE s == sub[r]
           m == period[r]
           f == Answer(r)
<1>1. s \in Subs /\ m \in Months /\ calls[r] \in Nat /\ used[r] \in Nat
  BY DEF TypeOK
<1>2. /\ f.calls = calls[r] /\ f.tokens = used[r]
      /\ f.cost = ApiCallCost(calls[r]) + Priced(events, s, m)
  BY DEF Answer, Priced
<1>3. calls[r] <= Calls(events, s, m) /\ used[r] <= Used(events, s, m)
  BY DEF ReaderInv, SumTotals
<1>4. Nats(s, m) /\ ApiCallCost(calls[r]) \in Nat
  BY <1>1, AreNats, CallCostGrows
<1>5. Used(events, s, m) = UnpricedTokens(events, s, m) + Tokens(TokenTotals(events, s, m))
  BY <1>1 DEF RowsInv
<1> HIDE DEF s, m, f
<1>6. Charged(f, events, s, m)
  BY <1>1, <1>2, <1>3, <1>4, <1>5 DEF Nats, Charged
<1>7. Below(f, events, s, m)
  BY <1>1, <1>2, <1>3, <1>4 DEF Below, Nats
<1>8. ASSUME NEW old \in floor[r]
      PROVE  old.calls <= f.calls /\ old.tokens <= f.tokens /\ old.cost <= f.cost
  <2>1. old.calls \in Nat /\ old.tokens \in Nat /\ old.cost \in Nat
    <3>1. old \in Figures
      BY DEF TypeOK
    <3> QED BY <3>1 DEF Figures
  <2>2. /\ Below(old, events, s, m)
        /\ old.calls <= calls[r] /\ old.tokens <= used[r]
    BY DEF ReaderInv, SumTotals, s, m
  <2>3. /\ ApiCallCost(old.calls) \in Nat
        /\ ApiCallCost(old.calls) <= ApiCallCost(calls[r])
    BY <1>1, <2>1, <2>2, CallCostGrows
  <2>4. old.cost <= f.cost
    BY <1>2, <1>4, <2>1, <2>2, <2>3 DEF Nats, Below
  <2> QED BY <1>2, <2>2, <2>4
<1> QED BY <1>6, <1>7, <1>8 DEF s, m, f

LEMMA RollupStep == TypeOK /\ RollupInv /\ [Next]_vars => RollupInv'
<1> SUFFICES ASSUME TypeOK, RollupInv, [Next]_vars PROVE RollupInv'
  OBVIOUS
<1>1. TypeOK' /\ RowsInv' /\ \A s \in Subs, m \in Months : Grown(s, m)
  BY TypeStep, RowsStep DEF RollupInv
<1>2. \A r \in Readers : Grown(sub[r], period[r])
  BY <1>1 DEF TypeOK
<1>3. ASSUME shown' = shown, UNCHANGED <<pc, sub, period, calls, used, floor>>
      PROVE  RollupInv'
  BY <1>1, <1>2, <1>3, ShownUnchanged, ReaderKept DEF RollupInv
<1>4. ASSUME NEW r \in Readers,
             \/ \E s \in Subs : Request(r, s)
             \/ SumCalls(r) \/ SumTokens(r) \/ SumTotals(r)
      PROVE  RollupInv'
  <2>1. ReaderInv(r)'
    BY <1>4, ReaderActs DEF RollupInv
  <2>2. ASSUME NEW q \in Readers, q # r PROVE ReaderInv(q)'
    <3>1. /\ pc'[q] = pc[q] /\ sub'[q] = sub[q] /\ period'[q] = period[q]
          /\ calls'[q] = calls[q] /\ used'[q] = used[q] /\ floor'[q] = floor[q]
      BY <1>4, <2>2 DEF Request, SumCalls, SumTokens, SumTotals, Goto, TypeOK
    <3> QED BY <1>1, <1>2, <3>1, ReaderKept DEF RollupInv
  <2>3. ShownInv'
    <3>1. CASE shown' = shown
      BY <1>1, <3>1, ShownUnchanged DEF RollupInv
    <3>2. CASE SumTotals(r)
      <4>1. /\ events' = events
            /\ \A s \in Subs, m \in Months : \A f \in shown'[s][m] :
                 \/ f \in shown[s][m]
                 \/ s = sub[r] /\ m = period[r] /\ f = Answer(r)
        BY <3>2 DEF SumTotals, TypeOK
      <4>2. ASSUME NEW s \in Subs, NEW m \in Months, NEW f \in shown'[s][m]
            PROVE  Below(f, events', s, m) /\ Charged(f, events', s, m)
        <5>1. CASE f \in shown[s][m]
          BY <1>1, <5>1, ShownKept DEF RollupInv
        <5>2. CASE s = sub[r] /\ m = period[r] /\ f = Answer(r)
          BY <3>2, <4>1, <5>2, AnswerFigures DEF RollupInv
        <5> QED BY <4>1, <5>1, <5>2
      <4> QED BY <4>2 DEF ShownInv
    <3> QED BY <1>4, <3>1, <3>2 DEF Request, SumCalls, SumTokens
  <2> QED BY <1>1, <2>1, <2>2, <2>3 DEF RollupInv
<1> QED BY <1>3, <1>4
        DEF Next, vars, NextMonth, RecordUsage, Generate, Record

LEMMA RollupInit == Init => RollupInv
<1> SUFFICES ASSUME Init PROVE RollupInv
  OBVIOUS
<1>1. TypeOK
  BY TypeInit
<1>2. events = <<>> /\ events \in Seq(UsageRow) /\ DOMAIN events = {}
      /\ Len(events) = 0
  BY DEF Init
<1>3. ASSUME NEW w, w = [i \in DOMAIN events |-> w[i]] PROVE SeqSum(w) = 0
  <2>1. w \in [1..Len(events) -> Nat]
    BY <1>2, <1>3
  <2>2. w \in Seq(Nat) /\ Len(w) = 0
    BY <1>2, <2>1
  <2>3. \A i \in 1..Len(w) : w[i] = 0
    BY <2>2
  <2> QED BY <2>2, <2>3, SeqSumZero
<1>4. ASSUME NEW s \in Subs, NEW m \in Months
      PROVE  /\ Used(events, s, m) = 0 /\ UnpricedTokens(events, s, m) = 0
             /\ \A c \in Categories : TokenTotals(events, s, m)[c] = 0
  <2>1. Used(events, s, m) = 0
    BY <1>3 DEF Used, TotalByType, TypeWeights
  <2>2. UnpricedTokens(events, s, m) = 0
    BY <1>3 DEF UnpricedTokens, UnpricedWeights
  <2>3. ASSUME NEW c \in Categories PROVE SeqSum(CategoryWeights(events, s, m, c)) = 0
    BY <1>3 DEF CategoryWeights
  <2> QED BY <2>1, <2>2, <2>3 DEF TokenTotals, Categories
<1>5. Blocks(0) = 0 /\ ApiCallCost(0) = 0
  BY DEF Blocks, ApiCallCost, CallRate
<1>6. ASSUME NEW s \in Subs, NEW m \in Months
      PROVE  Priced(events, s, m) = 0 /\ Tokens(TokenTotals(events, s, m)) = 0
  <2> DEFINE a == TokenTotals(events, s, m)
  <2>1. a.cached = 0 /\ a.input = 0 /\ a.output = 0 /\ a.reasoning = 0
    BY <1>4, <1>6 DEF Categories
  <2> HIDE DEF a
  <2>2. TokenCost(a) = 0 /\ Tokens(a) = 0
    BY <1>5, <2>1 DEF TokenCost, Tokens, CachedRate, InputRate, OutputRate
  <2> QED BY <2>2 DEF a, Priced
<1>7. RowsInv
  BY <1>4, <1>6 DEF RowsInv, Init
<1>8. ShownInv
  BY DEF Init, ShownInv
<1>9. \A r \in Readers : ReaderInv(r)
  BY DEF Init, ReaderInv
<1> QED BY <1>7, <1>8, <1>9 DEF RollupInv

LEMMA RollupInvariant == Spec => [](TypeOK /\ RollupInv)
BY RollupInit, RollupStep, TypeInit, TypeStep, PTL DEF Spec

\* A rollup never costs more than its API calls and the responses that were
\* priced one by one, for any token counts (cost_service.py:54-60, 92-99).
THEOREM RollupsWithinResponses == Spec => []RollupWithinResponses
<1>1. ASSUME TypeOK, RollupInv, NEW s \in Subs, NEW m \in Months,
             NEW f \in shown[s][m]
      PROVE  f.cost <= ApiCallCost(f.calls) + responses[s][m]
  <2>1. f.cost \in Nat /\ f.calls \in Nat
    <3>1. f \in Figures
      BY <1>1 DEF TypeOK
    <3> QED BY <3>1 DEF Figures
  <2>2. f.cost <= ApiCallCost(f.calls) + Priced(events, s, m)
    BY <1>1 DEF RollupInv, ShownInv, Below
  <2>3. Priced(events, s, m) <= responses[s][m]
    BY <1>1 DEF RollupInv, RowsInv
  <2>4. Priced(events, s, m) \in Nat /\ responses[s][m] \in Nat
    BY <1>1, AreNats DEF Nats, TypeOK
  <2>5. ApiCallCost(f.calls) \in Nat
    BY <2>1, CallCostGrows
  <2> QED BY <2>1, <2>2, <2>3, <2>4, <2>5
<1>2. TypeOK /\ RollupInv => RollupWithinResponses
  BY <1>1 DEF RollupWithinResponses
<1> QED BY <1>2, RollupInvariant, PTL

\* Every token a rollup shows and that has a price is charged one micro-unit or
\* more, although tokens and costs are summed at different moments.
THEOREM ShownTokensCharged == Spec => []ShownTokensAreCharged
<1>1. RollupInv => ShownTokensAreCharged
  BY DEF RollupInv, ShownInv, Charged, ShownTokensAreCharged
<1> QED BY <1>1, RollupInvariant, PTL

\* No figure of a rollup is below that of any rollup of the same month that was
\* answered, to whichever reader, before it was asked for (cost_service.py:81-90).
THEOREM RollupsGrow == Spec => RollupGrows
<1>1. ASSUME TypeOK, RollupInv, [Next]_vars, NEW r \in Readers,
             pc[r] = "totals", pc'[r] = "idle"
      PROVE  \A old \in floor[r] : /\ old.calls <= Answer(r).calls
                                  /\ old.tokens <= Answer(r).tokens
                                  /\ old.cost <= Answer(r).cost
  <2>1. SumTotals(r)
    BY <1>1 DEF Next, vars, NextMonth, RecordUsage, Generate, Record, Request,
         SumCalls, SumTokens, SumTotals, Goto, TypeOK
  <2> QED BY <1>1, <2>1, AnswerFigures DEF RollupInv
<1>2. TypeOK /\ RollupInv /\ [Next]_vars =>
        [\A r \in Readers : pc[r] = "totals" /\ pc'[r] = "idle" =>
           \A old \in floor[r] : /\ old.calls <= Answer(r).calls
                                /\ old.tokens <= Answer(r).tokens
                                /\ old.cost <= Answer(r).cost]_vars
  BY <1>1
<1> QED BY <1>2, RollupInvariant, PTL DEF Spec, RollupGrows
=============================================================================
