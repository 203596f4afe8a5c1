SPECIFICATION Spec
CONSTANTS
    Clients = {c1, c2, c3}
    Questions = {q1, q2, q3, q4}
    Budget = 2
    MaxCost = 1
    MaxConcurrent = 2
    PerHour = 1
    HourTicks = 1
    MaxTicks = 1
    MaxDays = 2
    Callers = {a, b}
    r1 = r1
    r2 = r2
    r3 = r3
    Arrivals = {r1, r2, r3}
    Burst = 1
    MaxTracked = 1
    MaxFails = 1
    LockoutTicks = 1
    SessionTicks = 1
    RetryTicks = 1
    Servers <- SomeServers
    MaxTime = 2
    MaxFlips = 1
SYMMETRY Interchangeable
INVARIANTS DemoIsBounded LetInProperly TurnsAccounted
CHECK_DEADLOCK FALSE
