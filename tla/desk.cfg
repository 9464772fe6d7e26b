CONSTANTS
  Blocks = 2
  MaxInstalls = 2
  MaxSaves = 2
  MaxSessions = 2
  Newcomers = {"b1", "b2"}
  MaxUses = 1
  MaxAsks = 3
  MaxWipes = 1
  Fleet = 2
  MaxPasses = 3
  SampleSeconds = 3
  HeartbeatSeconds = 1
  Retention = 5
  PruneBatch = 1
  MaxClock = 8
  Rules = {1, 2}
  MaxEdits = 2
  Picks = {"b1", "b2"}
  MaxClicks = 5
  Parts = {"feed", "edge"}
  CacheTime = 2
  ProbeTime = 1
  MaxHealthTime = 3
  MaxTurns = 1
  Named = {1, 2, 3}
  MaxMeddle = 1
  Shelf = {1, 2}
  PerPage = 1
  MaxTicks = 4
  MaxTurmoil = 1
  MaxStrokes = 4
  MaxBeats = 2
  MaxUpsets = 2
SPECIFICATION Spec
INVARIANTS
  ScannerComesBack
  ReportIsTrue
  SettingsLand
  TokensFit
  
  
  BoxesWatchTheRules
  ConfigsAreAskedFor
  HealthIsRecent
  PreviewIsWritten
  BulkIsOfPicked
  FormIsSaved
  
  
CHECK_DEADLOCK FALSE
