CONSTANTS
  Shelf = {1, 2}
  PerPage = 1
  MaxTicks = 4
  MaxTurmoil = 1
SPECIFICATION TableSpec
INVARIANTS
  UpdateIsOfPicked
CHECK_DEADLOCK FALSE
