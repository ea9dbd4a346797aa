\* Two handlers race on one subscription's quota across a plan change and a
\* month end.
SPECIFICATION Spec
CONSTANTS
  Handlers = {h1, h2}
  Subs = {"s1"}
  Tenants = {"n1"}
  Plans = {"free", "pro"}
  Statuses = {"active", "cancelled"}
  Types = {"API_CALL"}
  Keys = {"k1", "k2", "k3"}
  Requests <- QuotaRequests
  MaxQty = 2
  Limit <- MCLimit
  TopLimit <- MCTopLimit
  LastMonth = 2
  NoSub = NoSub
INVARIANTS TypeOK OvershootBounded
SYMMETRY HandlerSymmetry
