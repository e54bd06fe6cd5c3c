SPECIFICATION RecogSpec
CONSTANTS
  Pictures = {1, 2, 3}
  MaxEvents = 1
CHECK_DEADLOCK FALSE
INVARIANTS
  StoppedKeepsGrouped
