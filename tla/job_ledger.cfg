SPECIFICATION Spec
CONSTANTS
    Jobs = {j1}
    Dispatchers = {d1, d2}
    Ackers = {a1}
    AckStatuses = {"waiting_user", "succeeded", "failed"}
    NoOne = NoOne
    MaxClock = 1
    MaxCalls = 4
    MaxSendsPerMin = 1
    MaxSendsPerHour = 2
    HOUR = 2
    WINDOW = 1
    BREAKER_LIMIT = 2
SYMMETRY Symmetry
CHECK_DEADLOCK FALSE
INVARIANTS TypeOK LedgerAgrees ThrottleOvershoot BreakerTrips StopOvershoot DuplicatesAreBounded
