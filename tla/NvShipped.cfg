SPECIFICATION Spec
CONSTANTS
  Values = {"v0", "v1"}
  WsSize = 4
  Requests = {1}
  MaxCalls = 2
  MaxCrashes = 1
  MaxErrors = 0
  FdHeader = "shipped"
INVARIANT StoreWhole
