\* One usage request after another and one bill, over the turn of the year.
SPECIFICATION Spec
CONSTANTS
  Handlers = {h1}
  Billers = {b1}
  Subs = {"s1"}
  Tenants = {"n1"}
  Plans = {"free", "pro"}
  Statuses = {"active"}
  NoSub = NoSub
  Types = {"API_CALL", "TOKENS"}
  Keys = {"k1", "k2"}
  Requests <- MCRequests
  MaxQty = 2
  Limit <- MCLimit
  TopLimit <- MCTopLimit
  Price <- MCPrice
  UsageLimit <- MCUsageLimit
  MaxInt = 40
  First <- MCFirst
  LastMonth = 2
INVARIANTS BilledWithinQuotas PeriodsHoldTheirRows
PROPERTY BillingSpec
