SPECIFICATION Spec
CONSTANTS
  a = a
  b = b
  x = x
  r1 = r1
  r2 = r2
  r3 = r3
  NoIp = NoIp
  Ips = {a, b, x}
  Requests = {r1, r2, r3}
  Shapes <- StoreShapes
  GateInstalled = TRUE
  Whitelist = {}
  Blacklist = {b}
  Exempt = {x}
  Processor = TRUE
  SharedBans = TRUE
  Observability = TRUE
  RateLimiting = TRUE
  RateLimit = 1
  AutoBan = TRUE
  BanningEnabled = TRUE
  BanThreshold = 2
  UsageThreshold = 1
  ReturnThreshold = 1
  Flagged = {"inner", "usage_ban", "suspicious", "ip_gate"}
  Environment = {}
INVARIANTS
  TypeOK
  LimitHolds
  ThresholdBans
  CrossingsBan
  BansAreEarned
  ReturnBansEarned
  AnnouncedBansHold
PROPERTIES
  RefusedOnRecord
SYMMETRY RequestSymmetry
