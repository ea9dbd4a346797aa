\* Two handlers: a retry is refused although its event is recorded.
SPECIFICATION Spec
CONSTANTS
  Handlers = {h1, h2}
  Subs = {"s1"}
  Tenants = {"n1"}
  Plans = {"pro"}
  Statuses = {"active"}
  Types = {"API_CALL"}
  Keys = {"k1"}
  Requests <- RetryRefusedRequests
  MaxQty = 2
  Limit <- MCLimit
  TopLimit <- MCTopLimit
  LastMonth = 1
  NoSub = NoSub
PROPERTIES RetryGetsOriginal
