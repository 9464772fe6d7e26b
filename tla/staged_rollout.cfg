CONSTANTS
  d1 = d1
  d2 = d2
  q1 = q1
  r1 = r1
  None = None
  Tick = Tick
  Jobs <- MCJobs
  RolloutOf <- MCRolloutOf
  DeviceOf <- MCDeviceOf
  Sockets <- MCSockets
  OwnerOf <- MCOwnerOf
  Devices = {d1, d2}
  Rollouts = {r1}
  SocketsPerDevice = 1
  Requests = {q1}
  MaxAttempts = 2
  Backoff = TRUE
  Soaking = {r1}
  MaxReports = 0
  Prompt = TRUE
  MaxConcurrentJobs = 1
  Site = {}
  SiteLimit = 1
  RolloutLimit = 9
  CanaryCount = 1
  MaySkip = TRUE
  MayAsk = {"resume", "cancelRollout"}
  MaxAsked = 1
  MaxCrashes = 0
SPECIFICATION Spec
INVARIANTS
  CanaryFirst
PROPERTIES
  LicenceHolds
CHECK_DEADLOCK FALSE
