SPECIFICATION Spec
CONSTANTS
  None = None
  s1 = s1
  s2 = s2
  Slots = {s1, s2}
  Configs <- ScanBodyConfigs
  HookNames = {}
  RateLimit = 1
  BanThreshold = 1
  MaxCalls = 0
  MaxStores = 4
  MaxRequests = 1
INVARIANT ScanBodyHonoured
CHECK_DEADLOCK FALSE
