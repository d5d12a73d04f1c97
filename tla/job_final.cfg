SPECIFICATION Spec
CONSTANTS
    Jobs = {j1}
    Dispatchers = {d1}
    Ackers = {a1}
    AckStatuses = {"waiting_user", "succeeded", "failed"}
    NoOne = NoOne
    MaxClock = 1
    MaxCalls = 4
    MaxSendsPerMin = 1
    MaxSendsPerHour = 2
    HOUR = 2
    WINDOW = 1
    BREAKER_LIMIT = 2
CHECK_DEADLOCK FALSE
PROPERTY FinalStatusIsKept
