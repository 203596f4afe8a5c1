CONSTANTS
  MaxRows = 3
  MaxArchives = 1
  MaxFaults = 0
  MaxLosses = 1
SPECIFICATION Spec
INVARIANTS LossStaysVisible
CHECK_DEADLOCK FALSE
