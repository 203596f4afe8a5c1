CONSTANTS
  Replicas = {r1, r2}
  MaxFaults = 1
  MaxStarts = 2
  MaxFindings = 1
SPECIFICATION Spec
PROPERTY StandbyBeginsNothing
CHECK_DEADLOCK FALSE
