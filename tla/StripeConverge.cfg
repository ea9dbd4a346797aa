\* Two workers share the events of a subscription, lose, repeat and reorder
\* them, crash, and reconcile.
SPECIFICATION FairSpec
CONSTANTS
  Workers = {w1, w2}
  Tenants = {"n1"}
  Plans = {free}
  PriceOf <- MCPriceOf
  Free = free
  StripeSubs = {"x1"}
  Statuses = {"active", "past_due"}
  NotLinked = NotLinked
  OtherPrice = "other_price"
  NoSub = NoSub
  MaxEvents = 3
  MaxRows = 0
  MaxCrashes = 1
INVARIANTS TypeOK EventAppliedOnce LinksUnique
PROPERTIES StatusConverges TableSpec
