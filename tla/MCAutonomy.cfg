CONSTANTS
  DayTicks = 2
  WindowMaxDays = 1
  WindowMaxEvents = 3
  CusumFails = 2
  CusumWindowDays = 1
  HysteresisLastN = 3
  Theta = 55
  Band = 5
  NMin = 2
  TMinDays = 1
  MinIncidents = 2
  MinTypes = 1
  Replicas = {r1, r2}
  Findings <- MCFindings
  NoNamespace = ""
  BlockedNamespaces <- MCBlocked
  NsLevels <- MCLevels
  DefaultLevel = 0
  A3Allowlist <- MCAllowlist
  Deployments <- MCDeployments
  RetentionDays = 1
  OutcomeFloorDays = 1
  MaxConcurrent = 1
  Cooldown = 1
  RecheckDelay = 1
  FireBatch = 1
  Epoch = 20
  MaxTime = 22
  MaxInv = 3
  MaxRechecked = 2
  MaxFaults = 1
SPECIFICATION FairSpec
INVARIANTS
  UnattendedIsLicensed
  RechecksAreSound
PROPERTIES
  TwoFailuresRevoke
  InvestigationsEnd
  ScheduledIsGraded
CHECK_DEADLOCK FALSE
