SPECIFICATION FairSpec
CONSTANTS
    Runners = {r1}
    Cycles = {c1}
    NoCycle = NoCycle
    MaxClock = 0
    MaxCrashes = 1
    MaxPerDay = 1
    MinInterval = 0
    DAY = 1
    Budget = 1
PROPERTIES AttemptIsReconciled
