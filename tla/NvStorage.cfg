SPECIFICATION Spec
CONSTANTS
  Values = {"v0", "v1"}
  WsSize = 4
  Requests = {1}
  MaxCalls = 3
  MaxCrashes = 2
  MaxErrors = 1
  FdHeader = "matching"
INVARIANT TypeOK
INVARIANT PeiSeesRecovered
INVARIANT StoreWritable
INVARIANT FlashCanDoIt
INVARIANT RecoveryComplete
PROPERTY StoreSpec
