\* Retries, races and key collisions of two tenants.
SPECIFICATION FairSpec
CONSTANTS
  Handlers = {h1, h2}
  Subs = {"s1", "s2"}
  Tenants = {"n1", "n2"}
  Plans = {"pro"}
  Statuses = {"active", "trialing"}
  Types = {"API_CALL", "TOKENS"}
  Keys = {"k1", "k2"}
  Requests <- KeyRequests
  MaxQty = 1
  Limit <- MCLimit
  TopLimit <- MCTopLimit
  LastMonth = 1
  NoSub = NoSub
INVARIANTS OneRowPerKey AnswersAgree
PROPERTIES LedgerSpec EveryRequestAnswered
