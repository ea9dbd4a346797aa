\* One worker: the plan need not converge.
SPECIFICATION FairSpec
CONSTANTS
  Workers = {w1}
  Tenants = {"n1"}
  Plans = {free, pro}
  PriceOf <- MCPriceOf
  Free = free
  StripeSubs = {"x1"}
  Statuses = {"active"}
  NotLinked = NotLinked
  OtherPrice = "other_price"
  NoSub = NoSub
  MaxEvents = 2
  MaxRows = 0
  MaxCrashes = 0
PROPERTIES PlanConverges
