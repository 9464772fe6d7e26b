CONSTANTS
  d1 = d1
  q1 = q1
  r1 = r1
  None = None
  Tick = Tick
  Jobs <- MCJobs
  RolloutOf <- MCRolloutOf
  DeviceOf <- MCDeviceOf
  Sockets <- MCSockets
  OwnerOf <- MCOwnerOf
  Devices = {d1}
  Rollouts = {r1}
  SocketsPerDevice = 2
  Requests = {q1}
  MaxAttempts = 1
  Backoff = FALSE
  Soaking = {}
  MaxReports = 0
  Prompt = TRUE
  MaxConcurrentJobs = 2
  Site = {}
  SiteLimit = 1
  RolloutLimit = 9
  CanaryCount = 1
  MaySkip = FALSE
  MayAsk = {}
  MaxAsked = 0
  MaxCrashes = 1
SPECIFICATION DetachedSpec
PROPERTIES
  ActiveDrains
CHECK_DEADLOCK FALSE
