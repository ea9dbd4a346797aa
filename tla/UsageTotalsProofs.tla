------------------------- MODULE UsageTotalsProofs -------------------------
(***************************************************************************)
(* Lemmas about the sums of UsageTotals: they are natural numbers, a new   *)
(* row adds its own weight, and rows the WHERE clause drops add nothing.   *)
(* Induction over the length of a table is an argument about the smallest  *)
(* counterexample, which exists because < is well founded on Nat.          *)
(***************************************************************************)
EXTENDS UsageTotals, SequenceTheorems, WellFoundedInduction, TLAPS

\* Every non-empty set of natural numbers has a smallest element.
LEMMA SmallestElement ==
  ASSUME NEW S \in SUBSET Nat, S # {}
  PROVE  \E x \in S : \A y \in S : x <= y
<1>1. PICK x \in S : \A y \in S : <<y, x>> \notin OpToRel(<, Nat)
  BY NatLessThanWellFounded, WFMin, S \subseteq Nat
<1>2. ASSUME NEW y \in S PROVE x <= y
  <2>1. x \in Nat /\ y \in Nat
    OBVIOUS
  <2>2. <<y, x>> \in Nat \X Nat
    BY <2>1
  <2>3. ~(y < x)
    BY <1>1, <2>2 DEF OpToRel
  <2> QED BY <2>1, <2>3
<1> QED BY <1>2

\* f[i] is the sum of the first i elements of w.
PartialSums(f, w) ==
  /\ f[0] = 0
  /\ \A i \in 1..Len(w) : f[i] = f[i-1] + w[i]

\* Partial sums of a sequence of natural numbers are natural numbers, and
\* there is only one way to form them.
LEMMA PartialSumsUnique ==
  ASSUME NEW w \in Seq(Nat), NEW f, NEW g,
         PartialSums(f, w), PartialSums(g, w)
  PROVE  \A i \in 0..Len(w) : f[i] = g[i]
<1> DEFINE Bad == {i \in 0..Len(w) : f[i] # g[i]}
<1>0. Len(w) \in Nat
  OBVIOUS
<1> SUFFICES ASSUME Bad # {} PROVE FALSE
  OBVIOUS
<1>1. PICK x \in Bad : \A y \in Bad : x <= y
  BY SmallestElement, Bad \in SUBSET Nat
<1>2. x # 0
  BY DEF PartialSums
<1>3. x - 1 \in 0..Len(w) /\ x - 1 \notin Bad /\ x \in 1..Len(w)
  BY <1>0, <1>1, <1>2
<1>4. f[x-1] = g[x-1]
  BY <1>3
<1> QED BY <1>1, <1>3, <1>4 DEF PartialSums

LEMMA PartialSumsExist ==
  ASSUME NEW w \in Seq(Nat)
  PROVE  \E f \in [0..Len(w) -> Nat] : PartialSums(f, w)
<1> DEFINE Upto(f, n) == /\ f[0] = 0
                         /\ \A i \in 1..n : f[i] = f[i-1] + w[i]
           Bad == {n \in 0..Len(w) : ~ \E f \in [0..n -> Nat] : Upto(f, n)}
<1>0. Len(w) \in Nat /\ \A i \in 1..Len(w) : w[i] \in Nat
  OBVIOUS
<1>1. Bad = {}
  <2> SUFFICES ASSUME Bad # {} PROVE FALSE
    OBVIOUS
  <2>1. PICK x \in Bad : \A y \in Bad : x <= y
    BY SmallestElement, Bad \in SUBSET Nat
  <2>2. x # 0
    <3> DEFINE z == [i \in 0..0 |-> 0]
    <3>1. z \in [0..0 -> Nat] /\ Upto(z, 0)
      OBVIOUS
    <3> QED BY <3>1
  <2>3. x \in 1..Len(w) /\ x - 1 \in 0..Len(w)
    BY <2>1, <2>2, <1>0
  <2>4. x - 1 \notin Bad
    <3>1. x \in Nat /\ ~(x <= x - 1)
      BY <2>3
    <3> HIDE DEF Bad
    <3> QED BY <2>1, <3>1
  <2>5. PICK f \in [0..(x-1) -> Nat] : Upto(f, x-1)
    BY <2>3, <2>4
  <2> DEFINE g == [i \in 0..x |-> IF i = x THEN f[x-1] + w[x] ELSE f[i]]
  <2>6. g \in [0..x -> Nat]
    BY <2>3, <2>5, <1>0
  <2>7. Upto(g, x)
    <3>1. g[0] = 0
      BY <2>3, <2>5
    <3>2. ASSUME NEW i \in 1..x PROVE g[i] = g[i-1] + w[i]
      <4>1. CASE i = x
        BY <4>1, <2>3
      <4>2. CASE i # x
        <5>1. i \in 1..(x-1) /\ i - 1 \in 0..(x-1) /\ i - 1 # x
          BY <4>2, <2>3
        <5> QED BY <5>1, <4>2, <2>3, <2>5
      <4> QED BY <4>1, <4>2
    <3> QED BY <3>1, <3>2
  <2> QED BY <2>1, <2>6, <2>7
<1>2. Len(w) \notin Bad
  BY <1>1
<1> QED BY <1>0, <1>2 DEF PartialSums

\* SeqSum is the last of the partial sums.
LEMMA SeqSumIsLast ==
  ASSUME NEW w \in Seq(Nat)
  PROVE  \E f \in [0..Len(w) -> Nat] :
           PartialSums(f, w) /\ SeqSum(w) = f[Len(w)]
<1>0. Len(w) \in Nat
  OBVIOUS
<1> DEFINE Rhs(t) == [i \in 0..Len(w) |-> IF i = 0 THEN 0 ELSE t[i-1] + w[i]]
           total == CHOOSE t : t = Rhs(t)
<1>1. PICK f \in [0..Len(w) -> Nat] : PartialSums(f, w)
  BY PartialSumsExist
<1>2. f = Rhs(f)
  <2>1. ASSUME NEW i \in 0..Len(w)
        PROVE  f[i] = IF i = 0 THEN 0 ELSE f[i-1] + w[i]
    BY <1>0, <1>1 DEF PartialSums
  <2> QED BY <2>1
<1>3. total = Rhs(total)
  BY <1>2
<1> HIDE DEF total
<1>4. total[0] = 0 /\ \A i \in 1..Len(w) : total[i] = total[i-1] + w[i]
  BY <1>0, <1>3
<1>5. \A i \in 0..Len(w) : total[i] = f[i]
  <2>1. PartialSums(total, w)
    BY <1>4 DEF PartialSums
  <2> QED BY <1>1, <2>1, PartialSumsUnique
<1>6. SeqSum(w) = total[Len(w)]
  BY DEF SeqSum, total
<1> QED BY <1>0, <1>1, <1>5, <1>6

LEMMA SeqSumType ==
  ASSUME NEW w \in Seq(Nat)
  PROVE  SeqSum(w) \in Nat
<1>1. PICK f \in [0..Len(w) -> Nat] :
        PartialSums(f, w) /\ SeqSum(w) = f[Len(w)]
  BY SeqSumIsLast
<1>2. Len(w) \in 0..Len(w)
  OBVIOUS
<1> QED BY <1>1, <1>2

\* One more element adds itself.
LEMMA SeqSumAppend ==
  ASSUME NEW w \in Seq(Nat), NEW n \in Nat
  PROVE  SeqSum(Append(w, n)) = SeqSum(w) + n
<1> DEFINE v == Append(w, n)
<1>1. v \in Seq(Nat) /\ Len(v) = Len(w) + 1 /\ Len(w) \in Nat
  OBVIOUS
<1>2. v[Len(w) + 1] = n /\ \A i \in 1..Len(w) : v[i] = w[i]
  OBVIOUS
<1>3. PICK f \in [0..Len(w) -> Nat] :
        PartialSums(f, w) /\ SeqSum(w) = f[Len(w)]
  BY SeqSumIsLast
<1>4. PICK g \in [0..Len(v) -> Nat] :
        PartialSums(g, v) /\ SeqSum(v) = g[Len(v)]
  BY <1>1, SeqSumIsLast
<1> HIDE DEF v
<1>5. PartialSums(g, w)
  <2>1. ASSUME NEW i \in 1..Len(w) PROVE g[i] = g[i-1] + w[i]
    BY <1>1, <1>2, <1>4 DEF PartialSums
  <2> QED BY <1>4, <2>1 DEF PartialSums
<1>6. \A i \in 0..Len(w) : f[i] = g[i]
  BY <1>3, <1>5, PartialSumsUnique
<1>7. g[Len(w) + 1] = g[Len(w)] + n
  <2>1. Len(w) + 1 \in 1..Len(v) /\ (Len(w) + 1) - 1 = Len(w)
    BY <1>1
  <2> QED BY <2>1, <1>2, <1>4 DEF PartialSums
<1>8. g[Len(w)] = f[Len(w)]
  BY <1>1, <1>6
<1>9. SeqSum(v) = SeqSum(w) + n
  BY <1>1, <1>3, <1>4, <1>7, <1>8
<1> QED BY <1>9 DEF v

\* The same for a function that is known by its values.
LEMMA SeqSumExtended ==
  ASSUME NEW w \in Seq(Nat), NEW q \in Nat,
         NEW v \in [1..(Len(w) + 1) -> Nat],
         v[Len(w) + 1] = q, \A i \in 1..Len(w) : v[i] = w[i]
  PROVE  SeqSum(v) = SeqSum(w) + q
<1>1. Len(w) \in Nat
  OBVIOUS
<1>2. v \in Seq(Nat) /\ Len(v) = Len(w) + 1
  BY <1>1
<1>3. /\ Append(w, q) \in Seq(Nat) /\ Len(Append(w, q)) = Len(w) + 1
      /\ \A i \in 1..(Len(w) + 1) :
           Append(w, q)[i] = IF i = Len(w) + 1 THEN q ELSE w[i]
  BY <1>1
<1>4. ASSUME NEW i \in 1..Len(v) PROVE v[i] = Append(w, q)[i]
  BY <1>1, <1>2, <1>3
<1>5. v = Append(w, q)
  BY <1>2, <1>3, <1>4, SeqEqual
<1> QED BY <1>5, SeqSumAppend

LEMMA SeqSumZero ==
  ASSUME NEW w \in Seq(Nat), \A i \in 1..Len(w) : w[i] = 0
  PROVE  SeqSum(w) = 0
<1>1. PICK f \in [0..Len(w) -> Nat] :
        PartialSums(f, w) /\ SeqSum(w) = f[Len(w)]
  BY SeqSumIsLast
<1> DEFINE g == [i \in 0..Len(w) |-> 0]
<1>2. Len(w) \in Nat
  OBVIOUS
<1>3. PartialSums(g, w)
  BY <1>2 DEF PartialSums
<1> HIDE DEF g
<1>4. \A i \in 0..Len(w) : f[i] = g[i]
  BY <1>1, <1>3, PartialSumsUnique
<1>5. f[Len(w)] = g[Len(w)]
  BY <1>2, <1>4
<1> QED BY <1>1, <1>2, <1>5 DEF g

-----------------------------------------------------------------------------
(* The sums over a table *)

\* What these lemmas need to know of a row.
QtyRow(rows) == \A i \in DOMAIN rows : rows[i].qty \in Nat

LEMMA TypeWeightsType ==
  ASSUME NEW R, NEW rows \in Seq(R), QtyRow(rows), NEW s, NEW t, NEW m
  PROVE  /\ TypeWeights(rows, s, t, m) \in Seq(Nat)
         /\ Len(TypeWeights(rows, s, t, m)) = Len(rows)
<1>1. DOMAIN rows = 1..Len(rows) /\ Len(rows) \in Nat
  OBVIOUS
<1>2. TypeWeights(rows, s, t, m) \in [1..Len(rows) -> Nat]
  BY <1>1 DEF TypeWeights, QtyRow
<1> QED BY <1>1, <1>2

LEMMA TotalByTypeNat ==
  ASSUME NEW R, NEW rows \in Seq(R), QtyRow(rows), NEW s, NEW t, NEW m
  PROVE  TotalByType(rows, s, t, m) \in Nat
BY TypeWeightsType, SeqSumType DEF TotalByType

\* A committed row adds its quantity to the sums whose window it is in.
LEMMA TotalByTypeAppend ==
  ASSUME NEW R, NEW rows \in Seq(R), QtyRow(rows), NEW s, NEW t, NEW m,
         NEW e \in R, e.qty \in Nat
  PROVE  TotalByType(Append(rows, e), s, t, m)
           = TotalByType(rows, s, t, m)
             + (IF e.sub = s /\ e.type = t /\ e.month = m THEN e.qty ELSE 0)
<1> DEFINE q == IF e.sub = s /\ e.type = t /\ e.month = m THEN e.qty ELSE 0
           w == TypeWeights(rows, s, t, m)
           v == TypeWeights(Append(rows, e), s, t, m)
<1>1. w \in Seq(Nat) /\ Len(w) = Len(rows) /\ q \in Nat
  BY TypeWeightsType
<1>2. /\ DOMAIN Append(rows, e) = 1..(Len(rows) + 1)
      /\ DOMAIN rows = 1..Len(rows) /\ Len(rows) \in Nat
      /\ Append(rows, e)[Len(rows) + 1] = e
      /\ \A i \in 1..Len(rows) : Append(rows, e)[i] = rows[i]
  OBVIOUS
<1>3. /\ v \in [1..(Len(w) + 1) -> Nat] /\ v[Len(w) + 1] = q
      /\ \A i \in 1..Len(w) : v[i] = w[i]
  BY <1>1, <1>2 DEF TypeWeights, QtyRow
<1> HIDE DEF w, v, q
<1>4. SeqSum(v) = SeqSum(w) + q
  BY <1>1, <1>3, SeqSumExtended
<1> QED BY <1>4 DEF TotalByType, w, v, q

\* Usage of a window no row is in is 0.
LEMMA TotalByTypeZero ==
  ASSUME NEW R, NEW rows \in Seq(R), QtyRow(rows), NEW s, NEW t, NEW m,
         \A i \in DOMAIN rows : rows[i].month # m
  PROVE  TotalByType(rows, s, t, m) = 0
<1> DEFINE w == TypeWeights(rows, s, t, m)
<1>1. w \in Seq(Nat) /\ Len(w) = Len(rows) /\ DOMAIN rows = 1..Len(rows)
  BY TypeWeightsType
<1>2. \A i \in 1..Len(w) : w[i] = 0
  BY <1>1 DEF TypeWeights
<1> HIDE DEF w
<1> QED BY <1>1, <1>2, SeqSumZero DEF TotalByType, w

LEMMA PeriodWeightsType ==
  ASSUME NEW R, NEW rows \in Seq(R), QtyRow(rows), NEW s, NEW m
  PROVE  /\ PeriodWeights(rows, s, m) \in Seq(Nat)
         /\ Len(PeriodWeights(rows, s, m)) = Len(rows)
<1>1. DOMAIN rows = 1..Len(rows) /\ Len(rows) \in Nat
  OBVIOUS
<1>2. PeriodWeights(rows, s, m) \in [1..Len(rows) -> Nat]
  BY <1>1 DEF PeriodWeights, QtyRow
<1> QED BY <1>1, <1>2

LEMMA TotalUsageNat ==
  ASSUME NEW R, NEW rows \in Seq(R), QtyRow(rows), NEW s, NEW m
  PROVE  TotalUsage(rows, s, m) \in Nat
BY PeriodWeightsType, SeqSumType DEF TotalUsage

\* The same for the sum over both usage types.
LEMMA TotalUsageAppend ==
  ASSUME NEW R, NEW rows \in Seq(R), QtyRow(rows), NEW s, NEW m,
         NEW e \in R, e.qty \in Nat
  PROVE  TotalUsage(Append(rows, e), s, m)
           = TotalUsage(rows, s, m)
             + (IF e.sub = s /\ e.month = m THEN e.qty ELSE 0)
<1> DEFINE q == IF e.sub = s /\ e.month = m THEN e.qty ELSE 0
           w == PeriodWeights(rows, s, m)
           v == PeriodWeights(Append(rows, e), s, m)
<1>1. w \in Seq(Nat) /\ Len(w) = Len(rows) /\ q \in Nat
  BY PeriodWeightsType
<1>2. /\ DOMAIN Append(rows, e) = 1..(Len(rows) + 1)
      /\ DOMAIN rows = 1..Len(rows) /\ Len(rows) \in Nat
      /\ Append(rows, e)[Len(rows) + 1] = e
      /\ \A i \in 1..Len(rows) : Append(rows, e)[i] = rows[i]
  OBVIOUS
<1>3. /\ v \in [1..(Len(w) + 1) -> Nat] /\ v[Len(w) + 1] = q
      /\ \A i \in 1..Len(w) : v[i] = w[i]
  BY <1>1, <1>2 DEF PeriodWeights, QtyRow
<1> HIDE DEF w, v, q
<1>4. SeqSum(v) = SeqSum(w) + q
  BY <1>1, <1>3, SeqSumExtended
<1> QED BY <1>4 DEF TotalUsage, w, v, q

\* The sum of two columns is the sum of their sums.
LEMMA SeqSumAdd ==
  ASSUME NEW u \in Seq(Nat), NEW v \in Seq(Nat), NEW w \in Seq(Nat),
         Len(u) = Len(w), Len(v) = Len(w),
         \A i \in 1..Len(w) : w[i] = u[i] + v[i]
  PROVE  SeqSum(w) = SeqSum(u) + SeqSum(v)
<1>1. Len(w) \in Nat /\ Len(w) \in 0..Len(w)
  OBVIOUS
<1>2. PICK f \in [0..Len(u) -> Nat] :
        PartialSums(f, u) /\ SeqSum(u) = f[Len(u)]
  BY SeqSumIsLast
<1>3. PICK g \in [0..Len(v) -> Nat] :
        PartialSums(g, v) /\ SeqSum(v) = g[Len(v)]
  BY SeqSumIsLast
<1>4. PICK s \in [0..Len(w) -> Nat] :
        PartialSums(s, w) /\ SeqSum(w) = s[Len(w)]
  BY SeqSumIsLast
<1> DEFINE fg == [i \in 0..Len(w) |-> f[i] + g[i]]
<1>5. PartialSums(fg, w)
  <2>1. fg[0] = 0
    BY <1>1, <1>2, <1>3 DEF PartialSums
  <2>2. ASSUME NEW i \in 1..Len(w)
        PROVE  fg[i] = fg[i-1] + w[i]
    <3>1. i \in 0..Len(w) /\ i - 1 \in 0..Len(w)
      BY <1>1
    <3>2. f[i] = f[i-1] + u[i] /\ g[i] = g[i-1] + v[i]
      BY <1>2, <1>3 DEF PartialSums
    <3>3. f[i-1] \in Nat /\ g[i-1] \in Nat /\ u[i] \in Nat /\ v[i] \in Nat
      <4>1. i - 1 \in 0..Len(u) /\ i - 1 \in 0..Len(v)
        BY <3>1
      <4>2. i \in 1..Len(u) /\ i \in 1..Len(v)
        BY <2>2
      <4>3. f[i-1] \in Nat
        BY <1>2, <4>1
      <4>4. g[i-1] \in Nat
        BY <1>3, <4>1
      <4>5. u[i] \in Nat
        BY <4>2
      <4>6. v[i] \in Nat
        BY <4>2
      <4>7. QED
        BY <4>3, <4>4, <4>5, <4>6
    <3>4. fg[i] = f[i] + g[i] /\ fg[i-1] = f[i-1] + g[i-1]
      BY <3>1
    <3>5. w[i] = u[i] + v[i]
      BY <2>2
    <3>6. f[i] + g[i] = (f[i-1] + g[i-1]) + w[i]
      <4>1. PICK a \in Nat, b \in Nat : a = f[i-1] /\ b = g[i-1]
        BY <3>3
      <4>2. PICK c \in Nat, d \in Nat : c = u[i] /\ d = v[i]
        BY <3>3
      <4>3. f[i] = a + c /\ g[i] = b + d /\ w[i] = c + d
        BY <3>2, <3>5, <4>1, <4>2
      <4>4. (a + c) + (b + d) = (a + b) + (c + d)
        OBVIOUS
      <4>5. QED
        BY <4>1, <4>3, <4>4
    <3>7. QED
      BY <3>4, <3>6
  <2>3. QED
    BY <2>1, <2>2 DEF PartialSums
<1>6. fg[Len(w)] = f[Len(w)] + g[Len(w)]
  BY <1>1
<1> HIDE DEF fg
<1>7. \A i \in 0..Len(w) : s[i] = fg[i]
  BY <1>4, <1>5, PartialSumsUnique
<1> QED BY <1>1, <1>2, <1>3, <1>4, <1>6, <1>7

\* A bill's total is that of the two usage types the quotas are for.
LEMMA TotalUsageOfTypes ==
  ASSUME NEW R, NEW rows \in Seq(R), QtyRow(rows), NEW s, NEW m,
         NEW a, NEW b, a # b, \A i \in DOMAIN rows : rows[i].type \in {a, b}
  PROVE  TotalUsage(rows, s, m)
           = TotalByType(rows, s, a, m) + TotalByType(rows, s, b, m)
<1> DEFINE w == PeriodWeights(rows, s, m)
           u == TypeWeights(rows, s, a, m)
           v == TypeWeights(rows, s, b, m)
<1>1. /\ w \in Seq(Nat) /\ u \in Seq(Nat) /\ v \in Seq(Nat)
      /\ Len(u) = Len(w) /\ Len(v) = Len(w) /\ Len(w) = Len(rows)
  BY PeriodWeightsType, TypeWeightsType
<1>2. DOMAIN rows = 1..Len(w) /\ \A i \in DOMAIN rows : rows[i].qty \in Nat
  BY <1>1 DEF QtyRow
<1>3. \A i \in 1..Len(w) : w[i] = u[i] + v[i]
  BY <1>2 DEF PeriodWeights, TypeWeights
<1> HIDE DEF w, u, v
<1>4. SeqSum(w) = SeqSum(u) + SeqSum(v)
  BY <1>1, <1>3, SeqSumAdd
<1> QED BY <1>4 DEF TotalUsage, TotalByType, w, u, v
=============================================================================
