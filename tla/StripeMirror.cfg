\* One worker: events in order make the row mirror Stripe.
SPECIFICATION Spec
CONSTANTS
  Workers = {w1}
  Tenants = {n1, n2}
  Plans = {free, pro, yearly}
  PriceOf <- MCPriceOf
  Free = free
  StripeSubs = {x1, x2}
  Statuses = {"active", "past_due"}
  NotLinked = NotLinked
  OtherPrice = "other_price"
  NoSub = NoSub
  MaxEvents = 3
  MaxRows = 1
  MaxCrashes = 0
SYMMETRY Exchangeable
INVARIANTS MirrorsInOrder CustomerOwnsSubscription MirrorsItsOwn TenantsApart
PROPERTIES CheckoutReusesRow
