\* Two handlers: the documented quota is exceeded.
SPECIFICATION Spec
CONSTANTS
  Handlers = {h1, h2}
  Subs = {"s1"}
  Tenants = {"n1"}
  Plans = {"pro"}
  Statuses = {"active", "cancelled"}
  Types = {"API_CALL"}
  Keys = {"k1", "k2", "k3"}
  Requests <- QuotaRequests
  MaxQty = 2
  Limit <- MCLimit
  TopLimit <- MCTopLimit
  LastMonth = 1
  NoSub = NoSub
INVARIANTS QuotaNeverExceeded
