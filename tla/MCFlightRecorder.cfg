CONSTANTS
  Recorder = {r1}
  Episode = {e1, e2}
  QueueSize = 1
  BatchMax = 2
  MaxTracked = 1
  MaxEvents = 3
  MaxFaults = 2
SPECIFICATION FairSpec
INVARIANTS
  TypeOK
  ChainIsTrue
  LossesInPlace
PROPERTIES
  ImplementsLedger
  RecorderMovesOn
CHECK_DEADLOCK FALSE
