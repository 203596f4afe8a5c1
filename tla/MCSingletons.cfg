CONSTANTS
  Replicas = {r1, r2}
  MaxFaults = 2
  MaxStarts = 3
  MaxFindings = 1
SPECIFICATION FairSpec
INVARIANTS
  OneConnectedLeader
  StandbyIsBlind
  OneObserver
PROPERTIES
  PerceptionMovesOn
CHECK_DEADLOCK FALSE
