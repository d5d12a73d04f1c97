SPECIFICATION Spec
CONSTANTS
    Runners = {r1, r2}
    Cycles = {c1, c2, c3}
    NoCycle = NoCycle
    MaxClock = 1
    MaxCrashes = 1
    MaxPerDay = 1
    MinInterval = 1
    DAY = 2
    Budget = 2
SYMMETRY Symmetry
INVARIANTS NoDoubleFire RowTellsTheRestarts GateOvershoot
PROPERTIES SettledRowIsFinal
