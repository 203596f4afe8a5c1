CONSTANTS
  Replies = {"ask", "yes", "all", "no"}
  Commands = {"scale", "drain"}
  Roles = {"operator", "admin"}
  Bypasses = {FALSE, TRUE}
  MaxRounds = 2
  MaxSteps = 5
  MaxTurns = 3
  MaxActive = 1
  MaxProposals = 2
  MaxFaults = 1
SPECIFICATION Spec
INVARIANTS
  RunsAreLicensed
  ApprovalsAreKept
PROPERTIES
  TurnsRunDown
CHECK_DEADLOCK FALSE
