SPECIFICATION FairSpec
CONSTANTS
  a = a
  b = b
  x = x
  r1 = r1
  r2 = r2
  r3 = r3
  NoIp = NoIp
  Ips = {a, x}
  Requests = {r1, r2}
  Shapes <- ContractShapes
  GateInstalled = TRUE
  Whitelist = {}
  Blacklist = {}
  Exempt = {x}
  Processor = TRUE
  SharedBans = TRUE
  Observability = TRUE
  RateLimiting = TRUE
  RateLimit = 1
  AutoBan = TRUE
  BanningEnabled = TRUE
  BanThreshold = 1
  UsageThreshold = 0
  ReturnThreshold = 1
  Flagged = {"inner"}
  Environment = {"ban", "lift", "reset", "slide"}
PROPERTIES
  ImplementsContract
  FinalAnswer
  Settles
