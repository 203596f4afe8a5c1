CONSTANTS
  Replies = {"ask", "yes"}
  Commands = {"drain"}
  Roles = {"admin"}
  Bypasses = {FALSE}
  MaxRounds = 2
  MaxSteps = 3
  MaxTurns = 3
  MaxActive = 2
  MaxProposals = 2
  MaxFaults = 0
SPECIFICATION Spec
INVARIANTS ReplyAnswersWhatWasShown
CHECK_DEADLOCK FALSE
