SPECIFICATION Spec
CONSTANTS
  a = a
  b = b
  x = x
  r1 = r1
  r2 = r2
  r3 = r3
  NoIp = NoIp
  Ips = {a, b, x}
  Requests = {r1}
  Shapes <- EveryCondition
  GateInstalled = TRUE
  Whitelist = {}
  Blacklist = {b}
  Exempt = {x}
  Processor = TRUE
  SharedBans = FALSE
  Observability = TRUE
  RateLimiting = TRUE
  RateLimit = 1
  AutoBan = FALSE
  BanningEnabled = TRUE
  BanThreshold = 2
  UsageThreshold = 1
  ReturnThreshold = 1
  Flagged = {"banned"}
  Environment = {}
INVARIANTS
  OwnSkipStateHonoured
