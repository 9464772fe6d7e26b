CONSTANTS
  Boxes = 1
  Devices <- MCDevices
  Rules <- MCRules
  Agenda <- MCAgenda
  StartupGrace = 1
  RebootGrace = 1
  DedupeBeats = 1
  MinLevel = 1
  MaxActionsHour = 2
  MaxRebootsDay = 2
  Hour = 2
  Day = 4
  Callers = {"tick"}
  MaxNow = 4
  MaxCrashes = 1
SPECIFICATION FairSpec
INVARIANTS
  CeilingsHold
  KeepsItsDistance
  LadderClimbs
  
PROPERTIES
  TickGoesOn
CHECK_DEADLOCK FALSE
