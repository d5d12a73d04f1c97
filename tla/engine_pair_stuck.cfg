SPECIFICATION Spec
CONSTANTS
  Workers = {w1, w2}
  Operators = {}
  MaxSeq = 1
  Kind <- FixEvent
  Routable <- Nothing
  CALLBACK_RETRY_CAP = 1
  MaxCrashes = 0
INVARIANT HandledIsSettled
