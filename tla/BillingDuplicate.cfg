\* Two handlers: the documented single invoice is duplicated.
SPECIFICATION Spec
CONSTANTS
  Billers = {b1, b2}
  Subs = {"s1"}
  Plans = {"free", "pro"}
  Price <- MCPrice
  UsageLimit <- MCUsageLimit
  Types = {"API_CALL", "TOKENS"}
  Quantities = {1}
  MaxInt = 15
  LastMonth = 1
  MaxEvents = 0
INVARIANTS OneInvoicePerPeriod
