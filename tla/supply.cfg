CONSTANTS
  Versions = {1, 2}
  Manual = {1}
  Hashed = {2}
  Contents <- MCContents
  Uploads <- MCUploads
  Size = 2
  KeepLatest = 1
  MaxEvents = 2
  MaxChain = 1
  Boxes = {"b1"}
  AutoApprove = FALSE
SPECIFICATION FairSpec

  
PROPERTIES
  AutoIsMeasured
  NewestIsShipped
CHECK_DEADLOCK FALSE
