CONSTANTS
  MaxRows = 3
  MaxArchives = 2
  MaxFaults = 1
  MaxLosses = 1
SPECIFICATION Spec
INVARIANTS
  NoFalseAlarm
  RemovedRowsArchived
  LossDetected
CHECK_DEADLOCK FALSE
