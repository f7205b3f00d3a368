SPECIFICATION Spec
CONSTANTS
  a = a
  r1 = r1
  r2 = r2
  NoIp = NoIp
  Ips = {a}
  Requests = {r1, r2}
  Calls <- Clients
  Installations <- Neighbourhoods
  RateLimiting = TRUE
  RateLimit = 1
  AutoBan = TRUE
  BanningEnabled = TRUE
  BanThreshold = 1
  Environment = {"ban"}
INVARIANTS
  TypeOK
  ReferenceOrder
  LimitHolds
  CrossingsBan
PROPERTIES
  ImplementsContract
