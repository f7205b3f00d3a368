SPECIFICATION Spec
CONSTANTS
  None = None
  s1 = s1
  s2 = s2
  Slots = {s1, s2}
  Configs <- InBothModes
  HookNames = {"on_block"}
  RateLimit = 2
  BanThreshold = 2
  MaxCalls = 2
  MaxStores = 7
  MaxRequests = 4
INVARIANTS
  TypeOK
  LimitShared
  ResetForgets
  ThresholdShared
  OneMode
  FailClosed
PROPERTY BansReachEveryService
CHECK_DEADLOCK FALSE
