SPECIFICATION Spec
CONSTANTS
    n1 = n1
    n2 = n2
    x = x
    y = y
    Writers = {w1, w2}
    MaxEntries = 3
    MaxFaults = 1
    Nodes = {n1, n2}
    Gone = gone
    ObsQueue = 1
    BeforeDegraded = 2
    MaxMoves = 2
    MaxOutages = 1
    MaxFailures = 2
    Investigations = {i1, i2}
    Turns = {t1, t2}
    ActivateAt = 2
    MinOccur = 2
    Nothing = Nothing
    Deployments <- OneFeatureEach
    MaxSayings = 2
    MaxMishaps = 1
    SwitchedOff <- TwoSettings
    MaxFlaps = 2
CHECK_DEADLOCK FALSE
\* None of these holds: TLC stops at the first, so check one at a time.
INVARIANTS
  CappedIsSaid
  EverySectionIsNamed
