SPECIFICATION Spec
CONSTANTS
  None = None
  r1 = r1
  r2 = r2
  aws = aws
  gcp = gcp
  Requests = {r1, r2}
  Clients = {r1, r2}
  Trees <- Both
  Wirings <- AppWirings
  Edits = {201, 42}
  Rewrites <- AppRewrites
  ProviderOrder <- Order
  Geo = "both"
  Failures <- SecondFails
  MaxRefreshes = 2
  Visits <- AppVisits
  Threshold = 2
  Override = None
  Reserving = {"general"}
INVARIANT ReadyInnerCalled
