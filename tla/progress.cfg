CONSTANTS
  d1 = d1
  d2 = d2
  q1 = q1
  r1 = r1
  None = None
  Tick = Tick
  Jobs <- MCJobs
  RolloutOf <- MCRolloutOf
  DeviceOf <- MCDeviceOf
  Sockets <- MCSockets
  OwnerOf <- MCOwnerOf
  Devices = {d1, d2}
  Rollouts = {r1}
  SocketsPerDevice = 1
  Requests = {q1}
  MaxAttempts = 1
  Backoff = FALSE
  Soaking = {r1}
  MaxReports = 0
  Prompt = TRUE
  MaxConcurrentJobs = 2
  Site = {}
  SiteLimit = 1
  RolloutLimit = 1
  CanaryCount = 1
  MaySkip = FALSE
  MayAsk = {}
  MaxAsked = 0
  MaxCrashes = 0
SPECIFICATION FairSpec
PROPERTIES
  NoJobStarves
  RolloutEnds
CHECK_DEADLOCK FALSE
