CONSTANTS
  Holders = {"b1", "b2"}
  Batch = 1
  Parts = {1, 2}
  MaxTrouble = 1
  Panels = {p1, p2}
  Sources = {"logcat", "file"}
  MaxLogStreams = 2
  MaxStreams = 3
  MaxSessions = 2
  MaxFrames = 2
  Commands = {c1, c2}
  MaxBundles = 2
  Keep = 1
  MaxHubDeaths = 1
  MaxSockets = 2
SPECIFICATION FairSpec
INVARIANTS
  BatchHolds
  StartableAlone
  FollowsAreWatched
  NewestHaveFiles
PROPERTIES
  FleetConverges
  
  AnswersOnce
  PresenceSettles
CHECK_DEADLOCK FALSE
