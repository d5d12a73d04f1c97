SPECIFICATION Spec
CONSTANTS
  Workers = {w1, w2}
  Operators = {}
  MaxSeq = 3
  Kind <- OtherFixRefusal
  Routable <- FixOnly
  CALLBACK_RETRY_CAP = 1
  MaxCrashes = 0
SYMMETRY WorkerSymmetry
INVARIANTS
  TypeOK
  AppliedIsOnTheBoard
  GraphIsRooted
  CursorNeverPassesUnprotected
PROPERTIES
  CursorIsMonotone
  DeliversInOrder
