CONSTANTS
  Recorder = {r1}
  Episode = {e1, e2}
  QueueSize = 1
  BatchMax = 2
  MaxTracked = 1
  MaxEvents = 3
  MaxFaults = 0
SPECIFICATION Spec
INVARIANTS OnlyRefusedEventsAreLost
CHECK_DEADLOCK FALSE
