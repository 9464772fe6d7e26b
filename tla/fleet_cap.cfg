CONSTANTS
  d1 = d1
  d2 = d2
  q1 = q1
  r1 = r1
  None = None
  Tick = Tick
  Jobs <- MCJobs
  RolloutOf <- MCRolloutOf
  DeviceOf <- MCDeviceOf
  Sockets <- MCSockets
  OwnerOf <- MCOwnerOf
  Devices = {d1, d2}
  Rollouts = {r1}
  SocketsPerDevice = 1
  Requests = {q1}
  MaxAttempts = 1
  Backoff = FALSE
  Soaking = {}
  MaxReports = 1
  Prompt = TRUE
  MaxConcurrentJobs = 1
  Site = {}
  SiteLimit = 1
  RolloutLimit = 9
  CanaryCount = 0
  MaySkip = FALSE
  MayAsk = {}
  MaxAsked = 0
  MaxCrashes = 0
SPECIFICATION Spec
INVARIANTS
  CapHolds
CHECK_DEADLOCK FALSE
