\* Two handlers bill one subscription while usage arrives, the plan changes
\* and the month ends.
SPECIFICATION Spec
CONSTANTS
  Billers = {b1, b2}
  Subs = {"s1"}
  Plans = {"free", "pro"}
  Price <- MCPrice
  UsageLimit <- MCUsageLimit
  Types = {"API_CALL", "TOKENS"}
  Quantities = {1, 2}
  MaxInt = 15
  LastMonth = 2
  MaxEvents = 1
INVARIANTS TypeOK InvoiceConsistent DuplicatesBounded AnswersOfPeriod
PROPERTIES BillCountsUsage RegisterSpec
SYMMETRY BillerSymmetry
